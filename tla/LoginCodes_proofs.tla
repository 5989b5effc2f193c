-------------------------- MODULE LoginCodes_proofs --------------------------
(***************************************************************************)
(* What requests that overlap can do to a login code, for any number of     *)
(* addresses, codes and requests under way.                                 *)
(***************************************************************************)
EXTENDS LoginCodes, FiniteSetTheorems, TLAPS

INSTANCE Amounts_proofs WITH BasisPoints <- 1   \* for its sums

USE ConstantsAssumption

-----------------------------------------------------------------------------
(* Types.                                                                   *)

LEMMA TypeInit == Init => TypeOK
BY DEF Init, TypeOK, Unissued, Idle, Code, Job

LEMMA IdleTyped == Idle \in Job
BY DEF Idle, Job

LEMMA IssuedAreFinite == Cardinality(Issued) \in Nat
<1>1. Issued \subseteq Codes
  BY DEF Issued
<1>2. IsFiniteSet(Issued)
  BY <1>1, FS_Subset
<1> QED BY <1>2, FS_CardinalityType

LEMMA NewRecordTyped ==
  ASSUME NEW e \in Emails \cup {None}, NEW s \in Slots, NEW n \in Nat
  PROVE  [Unissued EXCEPT !.email = e, !.state = "live", !.by = s, !.number = n] \in Code
BY DEF Unissued, Code

(* A record that is inserted, and those it supersedes, stay records.        *)
LEMMA InsertTyped ==
  ASSUME TypeOK, NEW s \in Slots, InsertCode(s)
  PROVE  TypeOK'
<1>1. PICK c \in Codes \ Issued :
         /\ code' = [d \in Codes |->
              IF d = c THEN [Unissued EXCEPT !.email = job[s].email, !.state = "live", !.by = s,
                                             !.number = Cardinality(Issued) + 1]
              ELSE IF d \in job[s].seen /\ code[d].state = "live" THEN [code[d] EXCEPT !.state = "spent"]
              ELSE code[d]]
         /\ Do(s, [Idle EXCEPT !.pc = "mail", !.code = c])
  BY DEF InsertCode
<1>2. [Unissued EXCEPT !.email = job[s].email, !.state = "live", !.by = s,
                       !.number = Cardinality(Issued) + 1] \in Code
  <2>1. Cardinality(Issued) + 1 \in Nat
    BY IssuedAreFinite
  <2>2. job[s].email \in Emails \cup {None}
    BY DEF TypeOK, Job
  <2> QED BY <2>1, <2>2, NewRecordTyped
<1>3. ASSUME NEW d \in Codes
      PROVE  [code[d] EXCEPT !.state = "spent"] \in Code
  BY DEF TypeOK, Code
<1>4. code' \in [Codes -> Code]
  BY <1>1, <1>2, <1>3 DEF TypeOK
<1>5. [Idle EXCEPT !.pc = "mail", !.code = c] \in Job
  BY DEF Idle, Job
<1>6. job' \in [Slots -> Job]
  BY <1>1, <1>5 DEF Do, TypeOK
<1> QED BY <1>4, <1>6 DEF InsertCode, TypeOK

LEMMA DoTyped ==
  ASSUME TypeOK, NEW s \in Slots, NEW j \in Job, Do(s, j)
  PROVE  job' \in [Slots -> Job]
BY DEF Do, TypeOK

(* What a request still holds after its first read.                         *)
LEMMA AskedTyped ==
  ASSUME NEW e \in Emails
  PROVE  [Idle EXCEPT !.pc = "issue", !.email = e] \in Job
BY DEF Idle, Job

LEMMA OneJob ==
  ASSUME TypeOK, NEW s \in Slots, NEW j, Do(s, j)
  PROVE  job'[s] = j /\ \A r \in Slots \ {s} : job'[r] = job[r]
BY DEF Do, TypeOK

LEMMA StepsTyped ==
  ASSUME NEW c \in Codes
  PROVE  /\ [Idle EXCEPT !.pc = "guess", !.code = c] \in Job
         /\ [Idle EXCEPT !.pc = "link", !.code = c] \in Job
         /\ [Idle EXCEPT !.pc = "mail", !.code = c] \in Job
BY DEF Idle, Job

(* One field of one record changes.                                         *)
LEMMA StateTyped ==
  ASSUME TypeOK, NEW c, NEW x \in {"live", "spent", "deleted"},
         code' = [code EXCEPT ![c].state = x]
  PROVE  code' \in [Codes -> Code]
<1>1. CASE c \in Codes
  <2>1. [code[c] EXCEPT !.state = x] \in Code
    BY <1>1 DEF TypeOK, Code
  <2> QED BY <1>1, <2>1 DEF TypeOK
<1>2. CASE c \notin Codes
  BY <1>2 DEF TypeOK
<1> QED BY <1>1, <1>2

LEMMA UsedTyped ==
  ASSUME NEW r \in Code, NEW s \in Slots
  PROVE  [r EXCEPT !.uses[s] = @ + 1] \in Code
<1>1. r.uses \in [Slots -> Nat]
  BY DEF Code
<1>2. [r.uses EXCEPT ![s] = @ + 1] \in [Slots -> Nat]
  BY <1>1
<1>3. ASSUME NEW f \in [Slots -> Nat]
      PROVE  [r EXCEPT !.uses = f] \in Code
  BY DEF Code
<1> QED BY <1>2, <1>3

LEMMA TypeNext == TypeOK /\ [Next]_vars => TypeOK'
<1> SUFFICES ASSUME TypeOK, [Next]_vars PROVE TypeOK'
  OBVIOUS
<1>1. ASSUME NEW s \in Slots, NEW e \in Emails, RequestCode(s, e) \/ ReadCode(s, e)
      PROVE  TypeOK'
  <2>1. CASE RequestCode(s, e)
    BY <2>1, AskedTyped, DoTyped DEF RequestCode, TypeOK
  <2>2. CASE ReadCode(s, e)
    <3>1. PICK c \in Latest(e) : Do(s, [Idle EXCEPT !.pc = "guess", !.code = c])
      BY <2>2 DEF ReadCode
    <3>2. c \in Codes
      BY DEF Latest, Outstanding
    <3>3. job' \in [Slots -> Job]
      BY <3>1, <3>2, StepsTyped, DoTyped
    <3> QED BY <2>2, <3>3 DEF ReadCode, TypeOK
  <2> QED BY <1>1, <2>1, <2>2
<1>2. ASSUME NEW s \in Slots, Supersede(s)
      PROVE  TypeOK'
  <2>1. Outstanding(job[s].email) \subseteq Codes
    BY DEF Outstanding
  <2>2. [job[s] EXCEPT !.pc = "insert", !.seen = Outstanding(job[s].email)] \in Job
    BY <2>1 DEF TypeOK, Job
  <2> QED BY <1>2, <2>2, DoTyped DEF Supersede, TypeOK
<1>3. ASSUME NEW s \in Slots, Mailed(s) \/ Drop(s)
      PROVE  TypeOK'
  BY <1>3, IdleTyped, DoTyped DEF Mailed, Drop, TypeOK
<1>4. ASSUME NEW s \in Slots, Retract(s)
      PROVE  TypeOK'
  BY <1>4, IdleTyped, DoTyped, StateTyped DEF Retract, TypeOK
<1>5. ASSUME NEW s \in Slots, NEW c \in Codes, ReadLink(s, c)
      PROVE  TypeOK'
  <2>1. [Idle EXCEPT !.pc = "link", !.code = c] \in Job
    BY StepsTyped
  <2>2. job' \in [Slots -> Job]
    BY <1>5, <2>1, DoTyped DEF ReadLink
  <2> QED BY <1>5, <2>2 DEF ReadLink, TypeOK
<1>6. ASSUME NEW s \in Slots, WrongCode(s)
      PROVE  TypeOK'
  <2>1. ASSUME NEW c \in Codes
        PROVE  [code[c] EXCEPT !.attempts = @ + 1] \in Code
    BY DEF TypeOK, Code
  <2>2. code' \in [Codes -> Code]
    BY <1>6, <2>1 DEF WrongCode, TypeOK
  <2> QED BY <1>6, <2>2, IdleTyped, DoTyped DEF WrongCode, TypeOK
<1>7. ASSUME NEW s \in Slots, Redeem(s)
      PROVE  TypeOK'
  <2>1. ASSUME NEW c \in Codes
        PROVE  [code[c] EXCEPT !.state = "spent", !.uses[s] = @ + 1] \in Code
    <3>1. [code[c] EXCEPT !.state = "spent"] \in Code
      BY DEF TypeOK, Code
    <3> QED BY <3>1, UsedTyped
  <2>2. code' \in [Codes -> Code]
    BY <1>7, <2>1 DEF Redeem, TypeOK
  <2> QED BY <1>7, <2>2, IdleTyped, DoTyped DEF Redeem, TypeOK
<1>8. CASE Refuse \/ NewWindow
  BY <1>8 DEF Refuse, NewWindow, TypeOK
<1>9. ASSUME NEW c \in Codes, Age(c)
      PROVE  TypeOK'
  <2>1. [code[c] EXCEPT !.age = IF @ = "fresh" THEN "cooled" ELSE "expired"] \in Code
    BY DEF TypeOK, Code
  <2> QED BY <1>9, <2>1 DEF Age, TypeOK
<1>10. CASE UNCHANGED vars
  BY <1>10 DEF vars, TypeOK
<1> QED BY <1>1, <1>2, <1>3, <1>4, <1>5, <1>6, <1>7, <1>8, <1>9, <1>10, InsertTyped DEF Next

(* Types are kept however many requests overlap and die.                    *)
THEOREM TypeCorrect == Spec => []TypeOK
BY TypeInit, TypeNext, PTL DEF Spec

-----------------------------------------------------------------------------
(* One live code, but for overlap.  A request that is about to insert holds *)
(* every live code of its address that it wrote itself, because only it     *)
(* could have added one since it looked.                                    *)
OwnCodesSeen ==
  \A s \in Slots : job[s].pc = "insert" =>
    \A c \in Codes :
      code[c].state = "live" /\ code[c].email = job[s].email /\ code[c].by = s => c \in job[s].seen

Superseding == LiveCodesOverlapped /\ OwnCodesSeen

LEMMA SupersedingInit == Init => Superseding
BY DEF Init, Superseding, LiveCodesOverlapped, OwnCodesSeen, Unissued, Idle

(* A step that makes no code live and puts no request before its insertion. *)
NoNewCode ==
  /\ code' \in [Codes -> Code] /\ job' \in [Slots -> Job]
  /\ \A c \in Codes : code'[c].state = "live" =>
       code[c].state = "live" /\ code'[c].email = code[c].email /\ code'[c].by = code[c].by
  /\ \A s \in Slots : job'[s].pc = "insert" => job'[s] = job[s]

LEMMA SupersedingStays ==
  ASSUME Superseding, NoNewCode
  PROVE  Superseding'
BY DEF Superseding, LiveCodesOverlapped, OwnCodesSeen, NoNewCode

LEMMA SupersedingInsert ==
  ASSUME TypeOK, Superseding, NEW s \in Slots, InsertCode(s)
  PROVE  Superseding'
<1>1. PICK c \in Codes \ Issued :
         /\ code' = [d \in Codes |->
              IF d = c THEN [Unissued EXCEPT !.email = job[s].email, !.state = "live", !.by = s,
                                             !.number = Cardinality(Issued) + 1]
              ELSE IF d \in job[s].seen /\ code[d].state = "live" THEN [code[d] EXCEPT !.state = "spent"]
              ELSE code[d]]
         /\ Do(s, [Idle EXCEPT !.pc = "mail", !.code = c])
  BY DEF InsertCode
<1>2. code'[c].email = job[s].email /\ code'[c].by = s
  BY <1>1 DEF Unissued
<1>3. ASSUME NEW d \in Codes, d # c, code'[d].state = "live"
      PROVE  /\ code[d].state = "live" /\ d \notin job[s].seen
             /\ code'[d].email = code[d].email /\ code'[d].by = code[d].by
  BY <1>1, <1>3 DEF TypeOK, Code
<1>4. ASSUME NEW d \in Codes, d # c, code'[d].state = "live", code'[d].email = job[s].email
      PROVE  code'[d].by # s
  BY <1>3, <1>4 DEF Superseding, OwnCodesSeen, InsertCode, At
<1>5. LiveCodesOverlapped'
  BY <1>2, <1>3, <1>4 DEF Superseding, LiveCodesOverlapped
<1>6. ASSUME NEW r \in Slots, job'[r].pc = "insert"
      PROVE  r # s /\ job'[r] = job[r]
  BY <1>1, <1>6 DEF Do, TypeOK, Idle
<1>7. OwnCodesSeen'
  BY <1>2, <1>3, <1>6 DEF Superseding, OwnCodesSeen
<1> QED BY <1>5, <1>7 DEF Superseding

LEMMA SupersedingNext == TypeOK /\ Superseding /\ [Next]_vars => Superseding'
<1> SUFFICES ASSUME TypeOK, Superseding, [Next]_vars PROVE Superseding'
  OBVIOUS
<1>0. TypeOK'
  BY TypeNext
<1>1. ASSUME NEW s \in Slots, NEW e \in Emails, RequestCode(s, e) \/ ReadCode(s, e)
      PROVE  Superseding'
  <2>1. NoNewCode
    BY <1>0, <1>1 DEF NoNewCode, RequestCode, ReadCode, Do, TypeOK, Idle
  <2> QED BY <2>1, SupersedingStays
<1>2. ASSUME NEW s \in Slots, Supersede(s)
      PROVE  Superseding'
  <2>1. job'[s] = [job[s] EXCEPT !.pc = "insert", !.seen = Outstanding(job[s].email)]
    BY <1>2 DEF Supersede, Do, TypeOK
  <2>2. job'[s].email = job[s].email /\ job'[s].seen = Outstanding(job[s].email)
    BY <2>1 DEF TypeOK, Job
  <2>3. \A r \in Slots \ {s} : job'[r] = job[r]
    BY <1>2 DEF Supersede, Do, TypeOK
  <2>4. OwnCodesSeen'
    BY <1>2, <2>2, <2>3 DEF Supersede, Superseding, OwnCodesSeen, Outstanding
  <2> QED BY <1>2, <2>4 DEF Supersede, Superseding, LiveCodesOverlapped
<1>3. ASSUME NEW s \in Slots, Mailed(s) \/ Drop(s)
      PROVE  Superseding'
  <2>1. NoNewCode
    BY <1>0, <1>3 DEF NoNewCode, Mailed, Drop, Do, TypeOK, Idle
  <2> QED BY <2>1, SupersedingStays
<1>4. ASSUME NEW s \in Slots, Retract(s) \/ WrongCode(s) \/ Redeem(s)
      PROVE  Superseding'
  <2>1. \A c \in Codes : code'[c].state = "live" =>
          code[c].state = "live" /\ code'[c].email = code[c].email /\ code'[c].by = code[c].by
    <3>1. CASE Retract(s)
      BY <3>1 DEF Retract, TypeOK, Code
    <3>2. CASE WrongCode(s)
      BY <3>2 DEF WrongCode, TypeOK, Code
    <3>3. CASE Redeem(s)
      BY <3>3 DEF Redeem, TypeOK, Code
    <3> QED BY <1>4, <3>1, <3>2, <3>3
  <2>2. job' = [job EXCEPT ![s] = Idle]
    BY <1>4 DEF Retract, WrongCode, Redeem, Do
  <2>3. NoNewCode
    BY <1>0, <2>1, <2>2 DEF NoNewCode, TypeOK, Idle
  <2> QED BY <2>3, SupersedingStays
<1>5. ASSUME NEW s \in Slots, NEW c \in Codes, ReadLink(s, c)
      PROVE  Superseding'
  <2>1. NoNewCode
    BY <1>0, <1>5 DEF NoNewCode, ReadLink, Do, TypeOK, Idle
  <2> QED BY <2>1, SupersedingStays
<1>6. CASE Refuse \/ NewWindow \/ UNCHANGED vars
  BY <1>6 DEF Refuse, NewWindow, vars, Superseding, LiveCodesOverlapped, OwnCodesSeen
<1>7. ASSUME NEW c \in Codes, Age(c)
      PROVE  Superseding'
  <2>1. NoNewCode
    BY <1>0, <1>7 DEF NoNewCode, Age, TypeOK, Code
  <2> QED BY <2>1, SupersedingStays
<1> QED BY <1>1, <1>2, <1>3, <1>4, <1>5, <1>6, <1>7, SupersedingInsert DEF Next

(* Two live codes of an address come from requests that overlapped.         *)
THEOREM LiveCodesOverlappedAlways == Spec => []LiveCodesOverlapped
<1>1. Init => TypeOK /\ Superseding
  BY TypeInit, SupersedingInit
<1>2. TypeOK /\ Superseding /\ [Next]_vars => (TypeOK /\ Superseding)'
  BY TypeNext, SupersedingNext
<1>3. TypeOK /\ Superseding => LiveCodesOverlapped
  BY DEF Superseding
<1> QED BY <1>1, <1>2, <1>3, PTL DEF Spec

-----------------------------------------------------------------------------
(* Redeemed once by requests in turn.  A record that is live was redeemed   *)
(* by nobody, and a request that is about to redeem one has not yet.        *)
LiveIsUnused == \A c \in Codes : code[c].state = "live" => \A s \in Slots : code[c].uses[s] = 0
HeldIsUnused ==
  \A s \in Slots : job[s].pc \in {"guess", "link"} =>
    \A c \in Codes : c = job[s].code => code[c].uses[s] = 0

Redeeming == LiveIsUnused /\ HeldIsUnused /\ RedeemedOnceInTurn

LEMMA RedeemingInit == Init => Redeeming
BY DEF Init, Redeeming, LiveIsUnused, HeldIsUnused, RedeemedOnceInTurn, Unissued, Idle

(* A step that redeems nothing and puts no request before a redemption.     *)
NoNewUse ==
  /\ \A c \in Codes : /\ code'[c].uses = code[c].uses
                      /\ code'[c].state = "live" => code[c].state = "live"
  /\ \A s \in Slots : job'[s].pc \in {"guess", "link"} => job'[s] = job[s]

LEMMA RedeemingStays ==
  ASSUME Redeeming, NoNewUse
  PROVE  Redeeming'
<1>1. LiveIsUnused'
  BY DEF Redeeming, LiveIsUnused, NoNewUse
<1>2. HeldIsUnused'
  BY DEF Redeeming, HeldIsUnused, NoNewUse
<1>3. RedeemedOnceInTurn'
  BY DEF Redeeming, RedeemedOnceInTurn, NoNewUse
<1> QED BY <1>1, <1>2, <1>3 DEF Redeeming

(* A read finds a live record, which nobody has used.                       *)
LEMMA RedeemingRead ==
  ASSUME TypeOK, Redeeming, NEW s \in Slots, NEW c \in Codes, code[c].state = "live",
         job' = [job EXCEPT ![s] = [Idle EXCEPT !.pc = "guess", !.code = c]]
           \/ job' = [job EXCEPT ![s] = [Idle EXCEPT !.pc = "link", !.code = c]],
         UNCHANGED code
  PROVE  Redeeming'
<1>1. job'[s].code = c /\ \A r \in Slots \ {s} : job'[r] = job[r]
  BY DEF TypeOK, Idle
<1>2. HeldIsUnused'
  BY <1>1 DEF Redeeming, LiveIsUnused, HeldIsUnused
<1> QED BY <1>2 DEF Redeeming, LiveIsUnused, RedeemedOnceInTurn

LEMMA RedeemingInsert ==
  ASSUME TypeOK, Redeeming, NEW s \in Slots, InsertCode(s)
  PROVE  Redeeming'
<1>1. PICK c \in Codes \ Issued :
         /\ code' = [d \in Codes |->
              IF d = c THEN [Unissued EXCEPT !.email = job[s].email, !.state = "live", !.by = s,
                                             !.number = Cardinality(Issued) + 1]
              ELSE IF d \in job[s].seen /\ code[d].state = "live" THEN [code[d] EXCEPT !.state = "spent"]
              ELSE code[d]]
         /\ job' = [job EXCEPT ![s] = [Idle EXCEPT !.pc = "mail", !.code = c]]
  BY DEF InsertCode, Do
<1>2. \A r \in Slots : code'[c].uses[r] = 0
  BY <1>1 DEF Unissued
<1>3. ASSUME NEW d \in Codes, d # c
      PROVE  code'[d].uses = code[d].uses /\ (code'[d].state = "live" => code[d].state = "live")
  BY <1>1, <1>3 DEF TypeOK, Code
<1>4. ASSUME NEW r \in Slots, job'[r].pc \in {"guess", "link"}
      PROVE  job'[r] = job[r]
  BY <1>1, <1>4 DEF TypeOK, Idle
<1>5. LiveIsUnused' /\ RedeemedOnceInTurn'
  BY <1>2, <1>3 DEF Redeeming, LiveIsUnused, RedeemedOnceInTurn
<1>6. HeldIsUnused'
  BY <1>2, <1>3, <1>4 DEF Redeeming, HeldIsUnused
<1> QED BY <1>5, <1>6 DEF Redeeming

LEMMA RedeemingRedeem ==
  ASSUME TypeOK, Redeeming, NEW s \in Slots, Redeem(s)
  PROVE  Redeeming'
<1>1. job' = [job EXCEPT ![s] = Idle] /\ job[s].pc \in {"guess", "link"}
  BY DEF Redeem, Do
<1>2. ASSUME NEW c \in Codes, c # job[s].code
      PROVE  code'[c] = code[c]
  BY <1>2 DEF Redeem, TypeOK
<1>3. ASSUME NEW c \in Codes, c = job[s].code
      PROVE  /\ code'[c].state = "spent" /\ code'[c].uses[s] = 1
             /\ \A r \in Slots \ {s} : code'[c].uses[r] = code[c].uses[r]
  <2>1. code'[c].state = "spent" /\ code'[c].uses = [code[c].uses EXCEPT ![s] = @ + 1]
    BY <1>3 DEF Redeem, TypeOK, Code
  <2>2. code[c].uses[s] = 0 /\ code[c].uses \in [Slots -> Nat]
    BY <1>1, <1>3 DEF Redeeming, HeldIsUnused, TypeOK, Code
  <2> QED BY <2>1, <2>2
<1>4. \A r \in Slots : job'[r].pc \in {"guess", "link"} => r # s /\ job'[r] = job[r]
  BY <1>1 DEF TypeOK, Idle
<1>5. LiveIsUnused' /\ RedeemedOnceInTurn'
  BY <1>2, <1>3 DEF Redeeming, LiveIsUnused, RedeemedOnceInTurn
<1>6. HeldIsUnused'
  BY <1>2, <1>3, <1>4 DEF Redeeming, HeldIsUnused
<1> QED BY <1>5, <1>6 DEF Redeeming

LEMMA RedeemingNext == TypeOK /\ Redeeming /\ [Next]_vars => Redeeming'
<1> SUFFICES ASSUME TypeOK, Redeeming, [Next]_vars PROVE Redeeming'
  OBVIOUS
<1>1. ASSUME NEW s \in Slots, NEW e \in Emails, RequestCode(s, e)
      PROVE  Redeeming'
  <2>1. NoNewUse
    BY <1>1 DEF NoNewUse, RequestCode, Do, TypeOK, Idle
  <2> QED BY <2>1, RedeemingStays
<1>2. ASSUME NEW s \in Slots, NEW e \in Emails, ReadCode(s, e)
      PROVE  Redeeming'
  <2>1. PICK c \in Latest(e) : job' = [job EXCEPT ![s] = [Idle EXCEPT !.pc = "guess", !.code = c]]
    BY <1>2 DEF ReadCode, Do
  <2>2. c \in Codes /\ code[c].state = "live"
    BY DEF Latest, Outstanding
  <2> QED BY <1>2, <2>1, <2>2, RedeemingRead DEF ReadCode
<1>3. ASSUME NEW s \in Slots, NEW c \in Codes, ReadLink(s, c)
      PROVE  Redeeming'
  BY <1>3, RedeemingRead DEF ReadLink, Do
<1>4. ASSUME NEW s \in Slots, Supersede(s) \/ Mailed(s) \/ Drop(s)
      PROVE  Redeeming'
  <2>1. ASSUME NEW r \in Slots, job'[r].pc \in {"guess", "link"}
        PROVE  job'[r] = job[r]
    <3>1. [job[s] EXCEPT !.pc = "insert", !.seen = Outstanding(job[s].email)].pc = "insert"
      BY DEF TypeOK, Job
    <3>2. PICK j : Do(s, j) /\ j.pc \in {"idle", "insert"}
      BY <1>4, <3>1 DEF Supersede, Mailed, Drop, Idle
    <3> QED BY <2>1, <3>2, OneJob
  <2>2. NoNewUse
    BY <1>4, <2>1 DEF NoNewUse, Supersede, Mailed, Drop
  <2> QED BY <2>2, RedeemingStays
<1>5. ASSUME NEW s \in Slots, Retract(s) \/ WrongCode(s)
      PROVE  Redeeming'
  <2>1. \A c \in Codes : /\ code'[c].uses = code[c].uses
                         /\ code'[c].state = "live" => code[c].state = "live"
    <3>1. CASE Retract(s)
      BY <3>1 DEF Retract, TypeOK, Code
    <3>2. CASE WrongCode(s)
      BY <3>2 DEF WrongCode, TypeOK, Code
    <3> QED BY <1>5, <3>1, <3>2
  <2>2. job' = [job EXCEPT ![s] = Idle]
    BY <1>5 DEF Retract, WrongCode, Do
  <2>3. NoNewUse
    BY <2>1, <2>2 DEF NoNewUse, TypeOK, Idle
  <2> QED BY <2>3, RedeemingStays
<1>6. CASE Refuse \/ NewWindow \/ UNCHANGED vars
  BY <1>6 DEF Refuse, NewWindow, vars, Redeeming, LiveIsUnused, HeldIsUnused, RedeemedOnceInTurn
<1>7. ASSUME NEW c \in Codes, Age(c)
      PROVE  Redeeming'
  <2>1. NoNewUse
    BY <1>7 DEF NoNewUse, Age, TypeOK, Code
  <2> QED BY <2>1, RedeemingStays
<1> QED BY <1>1, <1>2, <1>3, <1>4, <1>5, <1>6, <1>7, RedeemingInsert, RedeemingRedeem DEF Next

(* Of requests that come in turn, one redeems a record and its link.        *)
THEOREM RedeemedOnceInTurnAlways == Spec => []RedeemedOnceInTurn
<1>1. Init => TypeOK /\ Redeeming
  BY TypeInit, RedeemingInit
<1>2. TypeOK /\ Redeeming /\ [Next]_vars => (TypeOK /\ Redeeming)'
  BY TypeNext, RedeemingNext
<1>3. TypeOK /\ Redeeming => RedeemedOnceInTurn
  BY DEF Redeeming
<1> QED BY <1>1, <1>2, <1>3, PTL DEF Spec

-----------------------------------------------------------------------------
(* The attempt limit under overlap: every request that has read a record    *)
(* before the limit may still count one attempt against it, and no other.   *)

LEMMA GuessingIsFinite ==
  ASSUME NEW c
  PROVE  /\ IsFiniteSet(Guessing(c)) /\ Cardinality(Guessing(c)) \in Nat
         /\ Cardinality(Slots) \in Nat /\ Cardinality(Guessing(c)) <= Cardinality(Slots)
<1>1. Guessing(c) \subseteq Slots
  BY DEF Guessing
<1> QED BY <1>1, FS_Subset, FS_CardinalityType

(* Fewer requests are guessing at a record, and its attempts are as before. *)
LEMMA FewerGuessing ==
  ASSUME TypeOK, GuessesBounded,
         \A c \in Codes : /\ code'[c].attempts = code[c].attempts
                          /\ Guessing(c)' \subseteq Guessing(c)
  PROVE  GuessesBounded'
<1> SUFFICES ASSUME NEW c \in Codes
             PROVE  code'[c].attempts + Cardinality(Guessing(c)') <= MaxAttempts - 1 + Cardinality(Slots)
  BY DEF GuessesBounded
<1>1. Cardinality(Guessing(c)') <= Cardinality(Guessing(c)) /\ Cardinality(Guessing(c)') \in Nat
  BY GuessingIsFinite, FS_Subset, FS_CardinalityType
<1>2. code[c].attempts \in Nat
  BY DEF TypeOK, Code
<1> QED BY <1>1, <1>2, GuessingIsFinite DEF GuessesBounded

(* However many are guessing, there is room for them under the limit.       *)
LEMMA RoomForAll ==
  ASSUME NEW c, NEW k \in Nat, k <= MaxAttempts - 1
  PROVE  k + Cardinality(Guessing(c)') <= MaxAttempts - 1 + Cardinality(Slots)
<1>1. Guessing(c)' \subseteq Slots
  BY DEF Guessing
<1>2. Cardinality(Guessing(c)') <= Cardinality(Slots) /\ Cardinality(Guessing(c)') \in Nat
      /\ Cardinality(Slots) \in Nat
  BY <1>1, FS_Subset, FS_CardinalityType
<1> QED BY <1>2

(* A code that is used up or taken back has been tried no more often.       *)
LEMMA UsedUpNotTried ==
  ASSUME TypeOK, NEW s \in Slots, Retract(s) \/ Redeem(s)
  PROVE  \A c \in Codes : code'[c].attempts = code[c].attempts
<1>1. CASE Retract(s)
  BY <1>1 DEF Retract, TypeOK, Code
<1>2. CASE Redeem(s)
  BY <1>2 DEF Redeem, TypeOK, Code
<1> QED BY <1>1, <1>2

LEMMA GuessesNext == TypeOK /\ GuessesBounded /\ [Next]_vars => GuessesBounded'
<1> SUFFICES ASSUME TypeOK, GuessesBounded, [Next]_vars PROVE GuessesBounded'
  OBVIOUS
<1>1. ASSUME NEW s \in Slots, NEW e \in Emails, ReadCode(s, e)
      PROVE  GuessesBounded'
  <2>1. PICK c \in Latest(e) : /\ code[c].attempts < MaxAttempts
                               /\ job' = [job EXCEPT ![s] = [Idle EXCEPT !.pc = "guess", !.code = c]]
    BY <1>1 DEF ReadCode, Do
  <2>2. code' = code /\ job[s].pc = "idle"
    BY <1>1 DEF ReadCode, At
  <2>3. ASSUME NEW d \in Codes
        PROVE  code'[d].attempts + Cardinality(Guessing(d)') <= MaxAttempts - 1 + Cardinality(Slots)
    <3>1. code[d].attempts \in Nat
      BY DEF TypeOK, Code
    <3>2. CASE d = c
      BY <2>1, <2>2, <3>1, <3>2, RoomForAll
    <3>3. CASE d # c
      <4>1. Guessing(d)' = Guessing(d)
        BY <2>1, <2>2, <3>3 DEF Guessing, TypeOK, Idle
      <4> QED BY <2>2, <4>1 DEF GuessesBounded
    <3> QED BY <3>2, <3>3
  <2> QED BY <2>3 DEF GuessesBounded
<1>2. ASSUME NEW s \in Slots, WrongCode(s)
      PROVE  GuessesBounded'
  <2>1. job' = [job EXCEPT ![s] = Idle] /\ job[s].pc = "guess"
    BY <1>2 DEF WrongCode, Do, At
  <2>2. ASSUME NEW d \in Codes
        PROVE  code'[d].attempts + Cardinality(Guessing(d)') <= MaxAttempts - 1 + Cardinality(Slots)
    <3>1. code[d].attempts \in Nat
      BY DEF TypeOK, Code
    <3>2. Guessing(d)' = Guessing(d) \ {s}
      BY <2>1 DEF Guessing, TypeOK, Idle
    <3>3. CASE d = job[s].code
      <4>1. code'[d].attempts = code[d].attempts + 1
        BY <1>2, <3>3 DEF WrongCode, TypeOK, Code
      <4>2. s \in Guessing(d)
        BY <2>1, <3>3 DEF Guessing
      <4>3. Cardinality(Guessing(d)') = Cardinality(Guessing(d)) - 1
        BY <3>2, <4>2, GuessingIsFinite, FS_RemoveElement
      <4> QED BY <3>1, <4>1, <4>3, GuessingIsFinite DEF GuessesBounded
    <3>4. CASE d # job[s].code
      <4>1. Guessing(d)' = Guessing(d) /\ code'[d] = code[d]
        BY <1>2, <3>2, <3>4 DEF WrongCode, Guessing, TypeOK
      <4> QED BY <4>1 DEF GuessesBounded
    <3> QED BY <3>3, <3>4
  <2> QED BY <2>2 DEF GuessesBounded
<1>3. ASSUME NEW s \in Slots, InsertCode(s)
      PROVE  GuessesBounded'
  <2>1. PICK c \in Codes \ Issued :
           /\ code' = [d \in Codes |->
                IF d = c THEN [Unissued EXCEPT !.email = job[s].email, !.state = "live", !.by = s,
                                               !.number = Cardinality(Issued) + 1]
                ELSE IF d \in job[s].seen /\ code[d].state = "live" THEN [code[d] EXCEPT !.state = "spent"]
                ELSE code[d]]
           /\ job' = [job EXCEPT ![s] = [Idle EXCEPT !.pc = "mail", !.code = c]]
    BY <1>3 DEF InsertCode, Do
  <2>2. ASSUME NEW d \in Codes
        PROVE  code'[d].attempts + Cardinality(Guessing(d)') <= MaxAttempts - 1 + Cardinality(Slots)
    <3>1. CASE d = c
      <4>1. code'[d].attempts = 0
        BY <2>1, <3>1 DEF Unissued
      <4> QED BY <4>1, RoomForAll
    <3>2. CASE d # c
      <4>1. code'[d].attempts = code[d].attempts
        BY <2>1, <3>2 DEF TypeOK, Code
      <4>2. Guessing(d)' = Guessing(d)
        BY <1>3, <2>1 DEF Guessing, InsertCode, At, TypeOK, Idle
      <4> QED BY <4>1, <4>2 DEF GuessesBounded
    <3> QED BY <3>1, <3>2
  <2> QED BY <2>2 DEF GuessesBounded
<1>4. ASSUME code' = code, \A r \in Slots : job'[r].pc = "guess" => job'[r] = job[r]
      PROVE  GuessesBounded'
  <2>1. \A d \in Codes : Guessing(d)' \subseteq Guessing(d)
    BY <1>4 DEF Guessing
  <2> QED BY <1>4, <2>1, FewerGuessing
<1>5. ASSUME NEW s \in Slots, NEW e \in Emails, RequestCode(s, e)
      PROVE  GuessesBounded'
  <2>1. Do(s, [Idle EXCEPT !.pc = "issue", !.email = e])
    BY <1>5 DEF RequestCode
  <2>2. [Idle EXCEPT !.pc = "issue", !.email = e].pc = "issue"
    BY DEF Idle
  <2>3. \A r \in Slots : job'[r].pc = "guess" => job'[r] = job[r]
    BY <2>1, <2>2, OneJob
  <2> QED BY <1>4, <1>5, <2>3 DEF RequestCode
<1>6. ASSUME NEW s \in Slots, Supersede(s)
      PROVE  GuessesBounded'
  <2>1. [job[s] EXCEPT !.pc = "insert", !.seen = Outstanding(job[s].email)].pc = "insert"
    BY DEF TypeOK, Job
  <2> QED BY <1>4, <1>6, <2>1, OneJob DEF Supersede
<1>7. ASSUME NEW s \in Slots, Mailed(s) \/ Drop(s)
      PROVE  GuessesBounded'
  BY <1>4, <1>7, OneJob DEF Mailed, Drop, Idle
<1>8. ASSUME NEW s \in Slots, NEW c \in Codes, ReadLink(s, c)
      PROVE  GuessesBounded'
  <2>1. Do(s, [Idle EXCEPT !.pc = "link", !.code = c])
    BY <1>8 DEF ReadLink
  <2>2. [Idle EXCEPT !.pc = "link", !.code = c].pc = "link"
    BY DEF Idle
  <2>3. \A r \in Slots : job'[r].pc = "guess" => job'[r] = job[r]
    BY <2>1, <2>2, OneJob
  <2> QED BY <1>4, <1>8, <2>3 DEF ReadLink
<1>9. ASSUME NEW s \in Slots, Retract(s) \/ Redeem(s)
      PROVE  GuessesBounded'
  <2>1. \A c \in Codes : code'[c].attempts = code[c].attempts
    BY <1>9, UsedUpNotTried
  <2>2. Do(s, Idle)
    BY <1>9 DEF Retract, Redeem
  <2>3. \A c \in Codes : Guessing(c)' \subseteq Guessing(c)
    BY <2>2, OneJob DEF Guessing, Idle
  <2> QED BY <2>1, <2>3, FewerGuessing
<1>10. CASE Refuse \/ NewWindow \/ UNCHANGED vars
  BY <1>4, <1>10 DEF Refuse, NewWindow, vars
<1>11. ASSUME NEW c \in Codes, Age(c)
      PROVE  GuessesBounded'
  <2>1. \A d \in Codes : code'[d].attempts = code[d].attempts
    BY <1>11 DEF Age, TypeOK, Code
  <2>2. \A d \in Codes : Guessing(d)' \subseteq Guessing(d)
    BY <1>11 DEF Age, Guessing
  <2> QED BY <2>1, <2>2, FewerGuessing
<1> QED BY <1>1, <1>2, <1>3, <1>5, <1>6, <1>7, <1>8, <1>9, <1>10, <1>11 DEF Next

LEMMA GuessesInit == Init => GuessesBounded
<1> SUFFICES ASSUME Init, NEW c \in Codes
             PROVE  code[c].attempts + Cardinality(Guessing(c)) <= MaxAttempts - 1 + Cardinality(Slots)
  BY DEF GuessesBounded
<1>1. code[c].attempts = 0
  BY DEF Init, Unissued
<1> QED BY <1>1, GuessingIsFinite

(* Overlapping guesses pass the attempt limit by no more than there are     *)
(* requests under way, less one.                                            *)
THEOREM GuessesBoundedAlways == Spec => []GuessesBounded
<1>1. Init => TypeOK /\ GuessesBounded
  BY TypeInit, GuessesInit
<1>2. TypeOK /\ GuessesBounded /\ [Next]_vars => (TypeOK /\ GuessesBounded)'
  BY TypeNext, GuessesNext
<1> QED BY <1>1, <1>2, PTL DEF Spec

-----------------------------------------------------------------------------
(* The rate limit: an attempt that is counted, and one that a request under *)
(* way may still count, was admitted in some window.                        *)

Tried == [c \in Codes |-> code[c].attempts]
Guessers == {s \in Slots : job[s].pc = "guess"}

Metered ==
  /\ bucket <= VerifyLimit /\ windows >= 1
  /\ SumFunctionOnSet(Tried, Codes) + Cardinality(Guessers) <= VerifyLimit * (windows - 1) + bucket

LEMMA GuessersAreFinite ==
  /\ IsFiniteSet(Guessers) /\ Cardinality(Guessers) \in Nat
  /\ TypeOK => SumFunctionOnSet(Tried, Codes) \in Nat
<1>1. Guessers \subseteq Slots
  BY DEF Guessers
<1>2. ASSUME TypeOK
      PROVE  \A c \in Codes : Tried[c] \in Nat
  BY <1>2 DEF TypeOK, Code, Tried
<1> QED BY <1>1, <1>2, FS_Subset, FS_CardinalityType, SumIsNat

(* No more attempts, no more guessing: whatever the step was counted as.    *)
LEMMA MeteredStays ==
  ASSUME TypeOK, TypeOK', Metered, windows' = windows,
         bucket' = bucket \/ (bucket' = bucket + 1 /\ Admitted),
         SumFunctionOnSet(Tried, Codes)' <= SumFunctionOnSet(Tried, Codes),
         Guessers' \subseteq Guessers
  PROVE  Metered'
<1>1. Cardinality(Guessers') <= Cardinality(Guessers) /\ Cardinality(Guessers') \in Nat
  BY GuessersAreFinite, FS_Subset, FS_CardinalityType
<1>2. SumFunctionOnSet(Tried, Codes) \in Nat /\ SumFunctionOnSet(Tried, Codes)' \in Nat
  <2>1. \A c \in Codes : Tried'[c] \in Nat
    BY DEF TypeOK, Code, Tried
  <2> QED BY <2>1, GuessersAreFinite, SumIsNat
<1>3. VerifyLimit * (windows - 1) \in Int /\ bucket \in Nat /\ windows \in Nat
  BY DEF TypeOK
<1>4. SumFunctionOnSet(Tried, Codes) + Cardinality(Guessers) <= VerifyLimit * (windows - 1) + bucket
  BY DEF Metered
<1>5. SumFunctionOnSet(Tried, Codes)' + Cardinality(Guessers') <= VerifyLimit * (windows - 1) + bucket'
  BY <1>1, <1>2, <1>3, <1>4, GuessersAreFinite
<1>6. bucket' <= VerifyLimit /\ windows' >= 1
  BY <1>3 DEF Metered, Admitted
<1> QED BY <1>5, <1>6 DEF Metered

(* The same attempts on every record.                                       *)
LEMMA TriedAsBefore ==
  ASSUME TypeOK, \A c \in Codes : code'[c].attempts = code[c].attempts
  PROVE  SumFunctionOnSet(Tried, Codes)' <= SumFunctionOnSet(Tried, Codes)
<1>1. Tried' = Tried
  BY DEF Tried
<1>2. SumFunctionOnSet(Tried, Codes) \in Nat
  BY GuessersAreFinite
<1> QED BY <1>1, <1>2

(* One record's attempts change.                                            *)
LEMMA TriedChanges ==
  ASSUME TypeOK, TypeOK', NEW c \in Codes,
         \A d \in Codes \ {c} : code'[d].attempts = code[d].attempts
  PROVE  SumFunctionOnSet(Tried, Codes)'
           = SumFunctionOnSet(Tried, Codes) - code[c].attempts + code'[c].attempts
<1>1. \A d \in Codes : Tried[d] \in Int /\ Tried'[d] \in Int
  BY DEF TypeOK, Code, Tried
<1>2. \A d \in Codes \ {c} : Tried'[d] = Tried[d]
  BY DEF Tried
<1>3. SumFunctionOnSet(Tried', Codes) = SumFunctionOnSet(Tried, Codes) - Tried[c] + Tried'[c]
  BY <1>1, <1>2, SumChanges
<1> QED BY <1>3 DEF Tried

LEMMA MeteredNext == TypeOK /\ Metered /\ [Next]_vars => Metered'
<1> SUFFICES ASSUME TypeOK, TypeOK', Metered, [Next]_vars PROVE Metered'
  BY TypeNext
<1>1. ASSUME NEW s \in Slots, NEW e \in Emails, ReadCode(s, e)
      PROVE  Metered'
  <2>1. PICK c \in Latest(e) : job' = [job EXCEPT ![s] = [Idle EXCEPT !.pc = "guess", !.code = c]]
    BY <1>1 DEF ReadCode, Do
  <2>2. code' = code /\ job[s].pc = "idle" /\ windows' = windows /\ bucket' = bucket + 1 /\ Admitted
    BY <1>1 DEF ReadCode, At
  <2>3. Guessers' = Guessers \cup {s} /\ s \notin Guessers
    BY <2>1, <2>2 DEF Guessers, TypeOK, Idle
  <2>4. Cardinality(Guessers') = Cardinality(Guessers) + 1
    BY <2>3, GuessersAreFinite, FS_AddElement
  <2>5. SumFunctionOnSet(Tried, Codes)' = SumFunctionOnSet(Tried, Codes)
    BY <2>2 DEF Tried
  <2>6. VerifyLimit * (windows - 1) \in Int /\ bucket \in Nat /\ SumFunctionOnSet(Tried, Codes) \in Nat
    BY GuessersAreFinite DEF TypeOK
  <2>7. bucket' <= VerifyLimit
    BY <2>2, <2>6 DEF Admitted
  <2> QED BY <2>2, <2>4, <2>5, <2>6, <2>7, GuessersAreFinite DEF Metered
<1>2. ASSUME NEW s \in Slots, WrongCode(s)
      PROVE  Metered'
  <2>1. job' = [job EXCEPT ![s] = Idle] /\ job[s].pc = "guess" /\ UNCHANGED <<bucket, windows>>
    BY <1>2 DEF WrongCode, Do, At
  <2>2. Guessers' = Guessers \ {s} /\ s \in Guessers
    BY <2>1 DEF Guessers, TypeOK, Idle
  <2>3. CASE job[s].code \in Codes
    <3> DEFINE c == job[s].code
    <3>1. code'[c].attempts = code[c].attempts + 1 /\ \A d \in Codes \ {c} : code'[d] = code[d]
      BY <1>2, <2>3 DEF WrongCode, TypeOK, Code
    <3> HIDE DEF c
    <3>2. c \in Codes /\ code[c].attempts \in Nat
      BY <2>3 DEF c, TypeOK, Code
    <3>3. SumFunctionOnSet(Tried, Codes)'
            = SumFunctionOnSet(Tried, Codes) - code[c].attempts + code'[c].attempts
      BY <3>1, <3>2, TriedChanges
    <3>4. SumFunctionOnSet(Tried, Codes)' = SumFunctionOnSet(Tried, Codes) + 1
      BY <3>1, <3>2, <3>3, GuessersAreFinite
    <3>5. Cardinality(Guessers') = Cardinality(Guessers) - 1
      BY <2>2, GuessersAreFinite, FS_RemoveElement
    <3>6. VerifyLimit * (windows - 1) \in Int /\ bucket \in Nat /\ SumFunctionOnSet(Tried, Codes) \in Nat
      BY GuessersAreFinite DEF TypeOK
    <3> QED BY <2>1, <3>4, <3>5, <3>6, GuessersAreFinite DEF Metered
  <2>4. CASE job[s].code \notin Codes
    <3>1. code' = code
      BY <1>2, <2>4 DEF WrongCode, TypeOK
    <3> QED BY <2>1, <2>2, <3>1, TriedAsBefore, MeteredStays
  <2> QED BY <2>3, <2>4
<1>3. ASSUME NEW s \in Slots, InsertCode(s)
      PROVE  Metered'
  <2>1. PICK c \in Codes \ Issued :
           /\ code' = [d \in Codes |->
                IF d = c THEN [Unissued EXCEPT !.email = job[s].email, !.state = "live", !.by = s,
                                               !.number = Cardinality(Issued) + 1]
                ELSE IF d \in job[s].seen /\ code[d].state = "live" THEN [code[d] EXCEPT !.state = "spent"]
                ELSE code[d]]
           /\ job' = [job EXCEPT ![s] = [Idle EXCEPT !.pc = "mail", !.code = c]]
    BY <1>3 DEF InsertCode, Do
  <2>2. code'[c].attempts = 0 /\ code[c].attempts \in Nat
    BY <2>1 DEF Unissued, TypeOK, Code
  <2>3. \A d \in Codes \ {c} : code'[d].attempts = code[d].attempts
    BY <2>1 DEF TypeOK, Code
  <2>4. SumFunctionOnSet(Tried, Codes)'
          = SumFunctionOnSet(Tried, Codes) - code[c].attempts + code'[c].attempts
    BY <2>3, TriedChanges
  <2>5. SumFunctionOnSet(Tried, Codes)' <= SumFunctionOnSet(Tried, Codes)
    BY <2>2, <2>4, GuessersAreFinite
  <2>6. Guessers' \subseteq Guessers
    BY <2>1 DEF Guessers, TypeOK, Idle
  <2> QED BY <1>3, <2>5, <2>6, MeteredStays DEF InsertCode
<1>4. ASSUME code' = code, windows' = windows, bucket' = bucket \/ (bucket' = bucket + 1 /\ Admitted),
             \A r \in Slots : job'[r].pc = "guess" => job'[r] = job[r]
      PROVE  Metered'
  <2>1. Guessers' \subseteq Guessers
    BY <1>4 DEF Guessers
  <2> QED BY <1>4, <2>1, TriedAsBefore, MeteredStays
<1>5. ASSUME NEW s \in Slots, NEW e \in Emails, RequestCode(s, e)
      PROVE  Metered'
  <2>1. Do(s, [Idle EXCEPT !.pc = "issue", !.email = e])
    BY <1>5 DEF RequestCode
  <2>2. [Idle EXCEPT !.pc = "issue", !.email = e].pc = "issue"
    BY DEF Idle
  <2>3. \A r \in Slots : job'[r].pc = "guess" => job'[r] = job[r]
    BY <2>1, <2>2, OneJob
  <2> QED BY <1>4, <1>5, <2>3 DEF RequestCode
<1>6. ASSUME NEW s \in Slots, Supersede(s)
      PROVE  Metered'
  <2>1. [job[s] EXCEPT !.pc = "insert", !.seen = Outstanding(job[s].email)].pc = "insert"
    BY DEF TypeOK, Job
  <2> QED BY <1>4, <1>6, <2>1, OneJob DEF Supersede
<1>7. ASSUME NEW s \in Slots, Mailed(s) \/ Drop(s)
      PROVE  Metered'
  BY <1>4, <1>7, OneJob DEF Mailed, Drop, Idle
<1>8. ASSUME NEW s \in Slots, NEW c \in Codes, ReadLink(s, c)
      PROVE  Metered'
  <2>1. Do(s, [Idle EXCEPT !.pc = "link", !.code = c])
    BY <1>8 DEF ReadLink
  <2>2. [Idle EXCEPT !.pc = "link", !.code = c].pc = "link"
    BY DEF Idle
  <2>3. \A r \in Slots : job'[r].pc = "guess" => job'[r] = job[r]
    BY <2>1, <2>2, OneJob
  <2> QED BY <1>4, <1>8, <2>3 DEF ReadLink
<1>9. ASSUME NEW s \in Slots, Retract(s) \/ Redeem(s)
      PROVE  Metered'
  <2>1. \A c \in Codes : code'[c].attempts = code[c].attempts
    BY <1>9, UsedUpNotTried
  <2>2. Do(s, Idle) /\ UNCHANGED <<bucket, windows>>
    BY <1>9 DEF Retract, Redeem
  <2>3. Guessers' \subseteq Guessers
    BY <2>2, OneJob DEF Guessers, Idle
  <2> QED BY <2>1, <2>2, <2>3, TriedAsBefore, MeteredStays
<1>10. CASE Refuse \/ UNCHANGED vars
  BY <1>4, <1>10 DEF Refuse, vars
<1>11. CASE NewWindow
  <2>1. UNCHANGED <<code, job>> /\ windows' = windows + 1 /\ bucket' = 0
    BY <1>11 DEF NewWindow
  <2>2. Guessers' = Guessers /\ SumFunctionOnSet(Tried, Codes)' = SumFunctionOnSet(Tried, Codes)
    BY <2>1 DEF Guessers, Tried
  <2>3. windows \in Nat /\ bucket \in Nat /\ SumFunctionOnSet(Tried, Codes) \in Nat
    BY GuessersAreFinite DEF TypeOK
  <2>4. VerifyLimit * (windows' - 1) = VerifyLimit * (windows - 1) + VerifyLimit
    BY <2>1, <2>3
  <2>5. VerifyLimit * (windows - 1) \in Int
    BY <2>3
  <2>6. /\ bucket <= VerifyLimit /\ windows >= 1
        /\ SumFunctionOnSet(Tried, Codes) + Cardinality(Guessers) <= VerifyLimit * (windows - 1) + bucket
    BY DEF Metered
  <2>7. SumFunctionOnSet(Tried, Codes) + Cardinality(Guessers) <= VerifyLimit * (windows' - 1) + 0
    BY <2>3, <2>4, <2>5, <2>6, GuessersAreFinite
  <2>8. windows' >= 1 /\ bucket' <= VerifyLimit
    BY <2>1, <2>3
  <2> QED BY <2>1, <2>2, <2>7, <2>8 DEF Metered
<1>12. ASSUME NEW c \in Codes, Age(c)
      PROVE  Metered'
  <2>1. \A d \in Codes : code'[d].attempts = code[d].attempts
    BY <1>12 DEF Age, TypeOK, Code
  <2>2. Guessers' \subseteq Guessers
    BY <1>12 DEF Age, Guessers
  <2> QED BY <1>12, <2>1, <2>2, TriedAsBefore, MeteredStays DEF Age
<1> QED
  BY <1>1, <1>2, <1>3, <1>5, <1>6, <1>7, <1>8, <1>9, <1>10, <1>11, <1>12 DEF Next

LEMMA MeteredInit == Init => Metered
<1> SUFFICES ASSUME Init PROVE Metered
  OBVIOUS
<1>1. Guessers = {}
  BY DEF Init, Guessers, Idle
<1>2. Cardinality(Guessers) = 0
  BY <1>1, FS_EmptySet
<1> DEFINE none == [c \in Codes |-> 0]
<1>3. Tried = none
  BY DEF Init, Tried, Unissued
<1>4. SumFunctionOnSet(none, Codes) = 0
  BY SumOfNothing
<1> QED BY <1>2, <1>3, <1>4 DEF Metered, Init

(* However many codes are asked for, wrong guesses at all of them together  *)
(* stay within what the rate limit admits.                                  *)
THEOREM GuessesRateLimitedAlways == Spec => []GuessesRateLimited
<1>1. Init => TypeOK /\ Metered
  BY TypeInit, MeteredInit
<1>2. TypeOK /\ Metered /\ [Next]_vars => (TypeOK /\ Metered)'
  BY TypeNext, MeteredNext
<1>3. TypeOK /\ Metered => GuessesRateLimited
  <2> SUFFICES ASSUME TypeOK, Metered PROVE GuessesRateLimited
    OBVIOUS
  <2>1. SumFunction(Tried) = SumFunctionOnSet(Tried, Codes)
    BY DEF SumFunction, Tried
  <2>2. windows \in Nat /\ VerifyLimit * windows = VerifyLimit * (windows - 1) + VerifyLimit
    BY DEF TypeOK
  <2>3. VerifyLimit * (windows - 1) \in Int /\ bucket \in Nat
    BY <2>2 DEF TypeOK
  <2>4. SumFunctionOnSet(Tried, Codes) <= VerifyLimit * windows
    BY <2>2, <2>3, GuessersAreFinite DEF Metered
  <2> QED BY <2>1, <2>4 DEF GuessesRateLimited, Tried
<1> QED BY <1>1, <1>2, <1>3, PTL DEF Spec
=============================================================================
