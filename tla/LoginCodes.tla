----------------------------- MODULE LoginCodes -----------------------------
(***************************************************************************)
(* Signing in by a mailed code or link: issueOtp, redeemOtp and redeemLink, *)
(* statement by statement, for requests that overlap.                       *)
(*                                                                          *)
(* A code and the link mailed with it are one record.  Whether what was     *)
(* typed is the code is an input; time is three ages of a record.  What a   *)
(* redeemed address may then do is AccessControl's.                         *)
(***************************************************************************)
EXTENDS Integers, FiniteSets, Functions

CONSTANTS
  Emails, Codes,   \* addresses, and the records there may ever be
  Slots,           \* requests under way; each takes one after another
  MaxAttempts,     \* OTP_MAX_ATTEMPTS
  VerifyLimit,     \* redemptions a caller may try in one window
  None,
  MaxWindows       \* bound: windows of the rate limit (or restarts)

ASSUME ConstantsAssumption ==
  /\ None \notin Emails \cup Codes
  /\ IsFiniteSet(Slots) /\ IsFiniteSet(Codes)
  /\ MaxAttempts \in Nat \ {0} /\ VerifyLimit \in Nat \ {0} /\ MaxWindows \in Nat

VARIABLES
  code,     \* per record: OtpCode, and who wrote it and who redeemed it (history)
  bucket,   \* redemptions counted in this window, in memory
  windows,  \* windows so far
  job       \* per request: how far it has come

vars == <<code, bucket, windows, job>>

Unissued == [email |-> None, state |-> "unissued", age |-> "fresh", attempts |-> 0,
             number |-> 0, by |-> None, uses |-> [s \in Slots |-> 0]]
Idle == [pc |-> "idle", email |-> None, code |-> None, seen |-> {}]

Init ==
  /\ code = [c \in Codes |-> Unissued]
  /\ bucket = 0
  /\ windows = 1
  /\ job = [s \in Slots |-> Idle]

-----------------------------------------------------------------------------
Outstanding(e) == {c \in Codes : code[c].email = e /\ code[c].state = "live"}
Issued == {c \in Codes : code[c].state # "unissued"}
Latest(e) == {c \in Outstanding(e) : \A d \in Outstanding(e) : code[d].number <= code[c].number}

At(s, pc) == job[s].pc = pc
Do(s, j) == job' = [job EXCEPT ![s] = j]

(* The cooldown is read first: a fresh outstanding code refuses another.    *)
RequestCode(s, e) ==
  /\ At(s, "idle")
  /\ \A c \in Latest(e) : code[c].age # "fresh"
  /\ Do(s, [Idle EXCEPT !.pc = "issue", !.email = e])
  /\ UNCHANGED <<code, bucket, windows>>

(* Wrong on purpose: only what has run out is superseded.                   *)
SupersedeExpired(s) ==
  /\ At(s, "issue")
  /\ Do(s, [job[s] EXCEPT !.pc = "insert",
                          !.seen = {c \in Outstanding(job[s].email) : code[c].age = "expired"}])
  /\ UNCHANGED <<code, bucket, windows>>

(* The transaction's first statement: it marks the rows it can see, and     *)
(* nobody sees the marks before the commit.                                 *)
Supersede(s) ==
  /\ At(s, "issue")
  /\ Do(s, [job[s] EXCEPT !.pc = "insert", !.seen = Outstanding(job[s].email)])
  /\ UNCHANGED <<code, bucket, windows>>

(* Its second statement and the commit: the marks and the new row together. *)
InsertCode(s) ==
  LET j == job[s]
  IN  /\ At(s, "insert")
      /\ \E c \in Codes \ Issued :
           /\ code' = [d \in Codes |->
                IF d = c THEN [Unissued EXCEPT !.email = j.email, !.state = "live", !.by = s,
                                               !.number = Cardinality(Issued) + 1]
                ELSE IF d \in j.seen /\ code[d].state = "live" THEN [code[d] EXCEPT !.state = "spent"]
                ELSE code[d]]
           /\ Do(s, [Idle EXCEPT !.pc = "mail", !.code = c])
      /\ UNCHANGED <<bucket, windows>>

Mailed(s) ==
  /\ At(s, "mail")
  /\ Do(s, Idle)
  /\ UNCHANGED <<code, bucket, windows>>

(* Mail that could not be sent takes its code back.                         *)
Retract(s) ==
  /\ At(s, "mail")
  /\ code' = [code EXCEPT ![job[s].code].state = "deleted"]
  /\ Do(s, Idle)
  /\ UNCHANGED <<bucket, windows>>

-----------------------------------------------------------------------------
(* Every redemption passes the rate limit of its caller first.              *)

(* Wrong on purpose: the last one counted is one too many.                  *)
AdmittedOneMore == bucket <= VerifyLimit

Admitted == bucket < VerifyLimit

(* Wrong on purpose: the attempts are not asked about.                      *)
ReadCodeAlways(s, e) ==
  /\ At(s, "idle") /\ Admitted
  /\ bucket' = bucket + 1
  /\ \E c \in Latest(e) :
       /\ code[c].age # "expired"
       /\ Do(s, [Idle EXCEPT !.pc = "guess", !.code = c])
  /\ UNCHANGED <<code, windows>>

(* By code: the newest outstanding record of the address, unless it has run *)
(* out or been tried too often.                                             *)
ReadCode(s, e) ==
  /\ At(s, "idle") /\ Admitted
  /\ bucket' = bucket + 1
  /\ \E c \in Latest(e) :
       /\ code[c].age # "expired" /\ code[c].attempts < MaxAttempts
       /\ Do(s, [Idle EXCEPT !.pc = "guess", !.code = c])
  /\ UNCHANGED <<code, windows>>

(* By link: the record the token opens, whichever address it belongs to.    *)
ReadLink(s, c) ==
  /\ At(s, "idle") /\ Admitted
  /\ bucket' = bucket + 1
  /\ code[c].state = "live" /\ code[c].age # "expired"
  /\ Do(s, [Idle EXCEPT !.pc = "link", !.code = c])
  /\ UNCHANGED <<code, windows>>

(* Nothing outstanding, or run out, or tried too often: counted, refused.   *)
Refuse ==
  /\ Admitted
  /\ bucket' = bucket + 1
  /\ UNCHANGED <<code, windows, job>>

(* The wrong code: one more attempt, on the record that was read.           *)
WrongCode(s) ==
  LET c == job[s].code
  IN  /\ At(s, "guess")
      /\ code[c].state # "deleted"
      /\ code' = [code EXCEPT ![c].attempts = @ + 1]
      /\ Do(s, Idle)
      /\ UNCHANGED <<bucket, windows>>

(* Wrong on purpose: the record stays open.                                 *)
RedeemKeeping(s) ==
  LET c == job[s].code
  IN  /\ job[s].pc \in {"guess", "link"}
      /\ code[c].state # "deleted"
      /\ code' = [code EXCEPT ![c].uses[s] = @ + 1]
      /\ Do(s, Idle)
      /\ UNCHANGED <<bucket, windows>>

(* The right one, or the link: the record is consumed, by its id.           *)
Redeem(s) ==
  LET c == job[s].code
  IN  /\ job[s].pc \in {"guess", "link"}
      /\ code[c].state # "deleted"
      /\ code' = [code EXCEPT ![c].state = "spent", ![c].uses[s] = @ + 1]
      /\ Do(s, Idle)
      /\ UNCHANGED <<bucket, windows>>

(* A request that stops half-way: its process died, or its record is gone.  *)
Drop(s) ==
  /\ job[s] # Idle
  /\ Do(s, Idle)
  /\ UNCHANGED <<code, bucket, windows>>

-----------------------------------------------------------------------------
(* Time.  The cooldown ends before the code runs out.                       *)
Age(c) ==
  /\ code[c].state = "live"
  /\ code[c].age # "expired"
  /\ code' = [code EXCEPT ![c].age = IF @ = "fresh" THEN "cooled" ELSE "expired"]
  /\ UNCHANGED <<bucket, windows, job>>

(* The window has passed, or the process that counted was restarted.        *)
NewWindow ==
  /\ windows < MaxWindows
  /\ windows' = windows + 1
  /\ bucket' = 0
  /\ UNCHANGED <<code, job>>

Next ==
  \/ \E s \in Slots :
       \/ \E e \in Emails : RequestCode(s, e) \/ ReadCode(s, e)
       \/ Supersede(s) \/ InsertCode(s) \/ Mailed(s) \/ Retract(s)
       \/ \E c \in Codes : ReadLink(s, c)
       \/ WrongCode(s) \/ Redeem(s) \/ Drop(s)
  \/ Refuse
  \/ NewWindow
  \/ \E c \in Codes : Age(c)

Spec == Init /\ [][Next]_vars

-----------------------------------------------------------------------------
(* Properties.                                                              *)

Code == [email : Emails \cup {None}, state : {"unissued", "live", "spent", "deleted"},
         age : {"fresh", "cooled", "expired"}, attempts : Nat, number : Nat,
         by : Slots \cup {None}, uses : [Slots -> Nat]]
Job == [pc : {"idle", "issue", "insert", "mail", "guess", "link"}, email : Emails \cup {None},
        code : Codes \cup {None}, seen : SUBSET Codes]

(* Values of the right kind.                                                *)
TypeOK ==
  /\ code \in [Codes -> Code]
  /\ bucket \in Nat /\ windows \in Nat
  /\ job \in [Slots -> Job]

(* "A user can never have two live codes at once", as far as it goes: two   *)
(* outstanding codes of one address come from requests that overlapped.     *)
LiveCodesOverlapped ==
  \A c, d \in Codes :
    /\ code[c].state = "live" /\ code[d].state = "live"
    /\ code[c].email = code[d].email
    => c = d \/ code[c].by # code[d].by

(* A code and its link are good once: of requests that come in turn only    *)
(* one redeems the record.                                                  *)
RedeemedOnceInTurn == \A c \in Codes : \A s \in Slots : code[c].uses[s] <= 1

(* Overlapping guesses pass the attempt limit, but by no more than there    *)
(* are requests under way.                                                  *)
Guessing(c) == {s \in Slots : job[s].pc = "guess" /\ job[s].code = c}
GuessesBounded ==
  \A c \in Codes : code[c].attempts + Cardinality(Guessing(c)) <= MaxAttempts - 1 + Cardinality(Slots)

(* Asking for a new code starts a new count of attempts; the rate limit is  *)
(* what bounds the wrong guesses at all codes together.                     *)
GuessesRateLimited == SumFunction([c \in Codes |-> code[c].attempts]) <= VerifyLimit * windows

=============================================================================
