----------------------- MODULE WalletOwnership_proofs -----------------------
(***************************************************************************)
(* What a verified wallet stands on, and what requests that overlap can do  *)
(* to its challenges, for any number of accounts, addresses and requests.   *)
(***************************************************************************)
EXTENDS WalletOwnership, FiniteSetTheorems, TLAPS

USE ConstantsAssumption

-----------------------------------------------------------------------------
(* Types.                                                                   *)

LEMMA TypeInit == Init => TypeOK
<1> SUFFICES ASSUME Init PROVE TypeOK
  OBVIOUS
<1>1. Unissued \in Challenge /\ NoWallet \in Wallet /\ Idle \in Job
  BY DEF Unissued, Challenge, NoWallet, Wallet, Idle, Job
<1> QED BY <1>1 DEF Init, TypeOK

LEMMA IdleTyped == Idle \in Job
BY DEF Idle, Job

LEMMA IssuedAreFinite == Cardinality(Issued) + 1 \in Nat
<1>1. Issued \subseteq Nonces
  BY DEF Issued
<1>2. IsFiniteSet(Issued)
  BY <1>1, FS_Subset
<1> QED BY <1>2, FS_CardinalityType

LEMMA DoTyped ==
  ASSUME TypeOK, NEW s \in Slots, NEW j \in Job, Do(s, j)
  PROVE  job' \in [Slots -> Job]
BY DEF Do, TypeOK

LEMMA OneJob ==
  ASSUME TypeOK, NEW s \in Slots, NEW j, Do(s, j)
  PROVE  job'[s] = j /\ \A r \in Slots \ {s} : job'[r] = job[r]
BY DEF Do, TypeOK

(* What a request becomes, field by field.                                  *)
Asking(u, a) == [Idle EXCEPT !.pc = "retire", !.user = u, !.address = a, !.asked = claims]
Checking(u, a, n) == [Idle EXCEPT !.pc = "check", !.user = u, !.address = a, !.nonce = n]

LEMMA AskedFields ==
  ASSUME TypeOK, NEW u \in Users, NEW a \in Addresses
  PROVE  /\ Asking(u, a) \in Job /\ Asking(u, a).pc = "retire"
         /\ Asking(u, a).user = u /\ Asking(u, a).address = a /\ Asking(u, a).asked = claims
BY DEF Asking, Idle, Job, TypeOK

LEMMA CheckFields ==
  ASSUME NEW u \in Users, NEW a \in Addresses, NEW n \in Nonces
  PROVE  /\ Checking(u, a, n) \in Job /\ Checking(u, a, n).pc = "check"
         /\ Checking(u, a, n).user = u /\ Checking(u, a, n).address = a /\ Checking(u, a, n).nonce = n
BY DEF Checking, Idle, Job

LEMMA RetiredFields ==
  ASSUME TypeOK, NEW s \in Slots, NEW S \in SUBSET Nonces
  PROVE  LET j == [job[s] EXCEPT !.pc = "insert", !.seen = S]
         IN  /\ j \in Job /\ j.pc = "insert" /\ j.seen = S /\ j.user = job[s].user
             /\ j.address = job[s].address /\ j.asked = job[s].asked /\ j.nonce = job[s].nonce
BY DEF TypeOK, Job

LEMMA MovedFields ==
  ASSUME TypeOK, NEW s \in Slots, NEW pc \in {"read", "create", "update"}
  PROVE  LET j == [job[s] EXCEPT !.pc = pc]
         IN  /\ j \in Job /\ j.pc = pc /\ j.user = job[s].user
             /\ j.address = job[s].address /\ j.asked = job[s].asked /\ j.nonce = job[s].nonce
<1>1. pc \in {"idle", "retire", "insert", "check", "read", "create", "update"}
  OBVIOUS
<1> QED BY <1>1 DEF TypeOK, Job

(* What a challenge becomes.                                                *)
Fresh(j, s) == [Unissued EXCEPT !.user = j.user, !.address = j.address, !.state = "open",
                                !.number = Cardinality(Issued) + 1, !.asked = j.asked, !.by = s]
Consumed(n) == [challenge[n] EXCEPT !.state = "consumed"]
Proved(n, s) == [challenge[n] EXCEPT !.state = "consumed", !.proofs[s] = @ + 1]

LEMMA FreshFields ==
  ASSUME NEW j \in Job, NEW s \in Slots
  PROVE  /\ Fresh(j, s) \in Challenge
         /\ Fresh(j, s).user = j.user /\ Fresh(j, s).address = j.address /\ Fresh(j, s).state = "open"
         /\ Fresh(j, s).asked = j.asked /\ Fresh(j, s).by = s
         /\ \A r \in Slots : Fresh(j, s).proofs[r] = 0
<1> DEFINE new(n) == [Unissued EXCEPT !.user = j.user, !.address = j.address, !.state = "open",
                                      !.number = n, !.asked = j.asked, !.by = s]
<1>1. ASSUME NEW n \in Nat
      PROVE  /\ new(n) \in Challenge
             /\ new(n).user = j.user /\ new(n).address = j.address /\ new(n).state = "open"
             /\ new(n).asked = j.asked /\ new(n).by = s
             /\ \A r \in Slots : new(n).proofs[r] = 0
  BY DEF Unissued, Challenge, Job
<1>2. Fresh(j, s) = new(Cardinality(Issued) + 1)
  BY DEF Fresh
<1> HIDE DEF new
<1> QED BY <1>1, <1>2, IssuedAreFinite

LEMMA ConsumedFields ==
  ASSUME TypeOK, NEW n \in Nonces
  PROVE  /\ Consumed(n) \in Challenge /\ Consumed(n).state = "consumed"
         /\ Consumed(n).user = challenge[n].user /\ Consumed(n).address = challenge[n].address
         /\ Consumed(n).asked = challenge[n].asked /\ Consumed(n).by = challenge[n].by
         /\ Consumed(n).proofs = challenge[n].proofs
<1>1. challenge[n] \in Challenge
  BY DEF TypeOK
<1> QED BY <1>1 DEF Consumed, Challenge

LEMMA ProvedFields ==
  ASSUME TypeOK, NEW n \in Nonces, NEW s \in Slots
  PROVE  /\ Proved(n, s) \in Challenge /\ Proved(n, s).state = "consumed"
         /\ Proved(n, s).user = challenge[n].user /\ Proved(n, s).address = challenge[n].address
         /\ Proved(n, s).asked = challenge[n].asked /\ Proved(n, s).by = challenge[n].by
         /\ Proved(n, s).proofs[s] = challenge[n].proofs[s] + 1
         /\ \A r \in Slots \ {s} : Proved(n, s).proofs[r] = challenge[n].proofs[r]
<1>1. ASSUME NEW c \in Challenge
      PROVE  LET p == [c EXCEPT !.proofs[s] = @ + 1]
             IN  /\ p \in Challenge /\ p.state = c.state /\ p.user = c.user /\ p.address = c.address
                 /\ p.asked = c.asked /\ p.by = c.by /\ p.proofs = [c.proofs EXCEPT ![s] = @ + 1]
  <2>1. [c.proofs EXCEPT ![s] = @ + 1] \in [Slots -> Nat]
    BY DEF Challenge
  <2>2. ASSUME NEW f \in [Slots -> Nat]
        PROVE  LET p == [c EXCEPT !.proofs = f]
               IN  /\ p \in Challenge /\ p.state = c.state /\ p.user = c.user /\ p.address = c.address
                   /\ p.asked = c.asked /\ p.by = c.by /\ p.proofs = f
    BY DEF Challenge
  <2> QED BY <2>1, <2>2
<1>2. Proved(n, s) = [Consumed(n) EXCEPT !.proofs[s] = @ + 1]
  BY DEF Proved, Consumed
<1>3. Consumed(n).proofs \in [Slots -> Nat]
  BY ConsumedFields DEF Challenge
<1> QED BY <1>1, <1>2, <1>3, ConsumedFields

(* The three steps that write a challenge, one nonce at a time.             *)
LEMMA InsertWrites ==
  ASSUME TypeOK, NEW s \in Slots, InsertChallenge(s)
  PROVE  \E n \in Nonces \ Issued :
           /\ challenge'[n] = Fresh(job[s], s)
           /\ \A o \in Nonces \ {n} :
                challenge'[o] = IF o \in job[s].seen THEN Consumed(o) ELSE challenge[o]
           /\ challenge' \in [Nonces -> Challenge]
<1>1. PICK n \in Nonces \ Issued :
         challenge' = [o \in Nonces |-> IF o = n THEN Fresh(job[s], s)
                                        ELSE IF o \in job[s].seen THEN Consumed(o) ELSE challenge[o]]
  BY DEF InsertChallenge, Fresh, Consumed
<1>2. job[s] \in Job
  BY DEF TypeOK
<1>3. \A o \in Nonces : challenge[o] \in Challenge
  BY DEF TypeOK
<1>4. challenge' \in [Nonces -> Challenge]
  BY <1>1, <1>2, <1>3, FreshFields, ConsumedFields
<1> QED BY <1>1, <1>4

LEMMA RejectWrites ==
  ASSUME TypeOK, NEW s \in Slots, RejectSignature(s)
  PROVE  /\ \A o \in Nonces : challenge'[o] = IF o = job[s].nonce THEN Consumed(o) ELSE challenge[o]
         /\ challenge' \in [Nonces -> Challenge]
<1>1. \A o \in Nonces : challenge'[o] = IF o = job[s].nonce THEN Consumed(o) ELSE challenge[o]
  BY DEF RejectSignature, Consumed, TypeOK
<1>2. challenge' = [o \in Nonces |-> challenge'[o]]
  BY DEF RejectSignature, TypeOK
<1>3. \A o \in Nonces : challenge'[o] \in Challenge
  BY <1>1, ConsumedFields DEF TypeOK
<1> QED BY <1>1, <1>2, <1>3

LEMMA AcceptWrites ==
  ASSUME TypeOK, NEW s \in Slots, AcceptSignature(s)
  PROVE  /\ \A o \in Nonces : challenge'[o] = IF o = job[s].nonce THEN Proved(o, s) ELSE challenge[o]
         /\ challenge' \in [Nonces -> Challenge]
<1>1. \A o \in Nonces : challenge'[o] = IF o = job[s].nonce THEN Proved(o, s) ELSE challenge[o]
  BY DEF AcceptSignature, Proved, TypeOK
<1>2. challenge' = [o \in Nonces |-> challenge'[o]]
  BY DEF AcceptSignature, TypeOK
<1>3. \A o \in Nonces : challenge'[o] \in Challenge
  BY <1>1, ProvedFields DEF TypeOK
<1> QED BY <1>1, <1>2, <1>3

LEMMA TypeNext == TypeOK /\ [Next]_vars => TypeOK'
<1> SUFFICES ASSUME TypeOK, [Next]_vars PROVE TypeOK'
  OBVIOUS
<1>1. ASSUME NEW s \in Slots, NEW u \in Users, NEW a \in Addresses, AskChallenge(s, u, a)
      PROVE  TypeOK'
  <2>1. Do(s, Asking(u, a))
    BY <1>1 DEF AskChallenge, Asking
  <2> QED BY <1>1, <2>1, AskedFields, DoTyped DEF AskChallenge, TypeOK
<1>2. ASSUME NEW s \in Slots, NEW u \in Users, NEW a \in Addresses, ReadChallenge(s, u, a)
      PROVE  TypeOK'
  <2>1. PICK n \in Nonces : Do(s, Checking(u, a, n))
    BY <1>2 DEF ReadChallenge, Checking, Latest, Open
  <2> QED BY <1>2, <2>1, CheckFields, DoTyped DEF ReadChallenge, TypeOK
<1>3. ASSUME NEW s \in Slots, Retire(s)
      PROVE  TypeOK'
  <2>1. Open(job[s].user, job[s].address) \in SUBSET Nonces
    BY DEF Open
  <2> QED BY <1>3, <2>1, RetiredFields, DoTyped DEF Retire, TypeOK
<1>4. ASSUME NEW s \in Slots, InsertChallenge(s)
      PROVE  TypeOK'
  BY <1>4, InsertWrites, IdleTyped, DoTyped DEF InsertChallenge, TypeOK
<1>5. ASSUME NEW s \in Slots, RejectSignature(s)
      PROVE  TypeOK'
  BY <1>5, RejectWrites, IdleTyped, DoTyped DEF RejectSignature, TypeOK
<1>6. ASSUME NEW s \in Slots, AcceptSignature(s)
      PROVE  TypeOK'
  <2>1. [job[s] EXCEPT !.pc = "read"] \in Job
    BY MovedFields
  <2> QED BY <1>6, <2>1, AcceptWrites, DoTyped DEF AcceptSignature, TypeOK
<1>7. ASSUME NEW s \in Slots, ReadWallet(s)
      PROVE  TypeOK'
  <2>1. PICK pc \in {"create", "update"} : Do(s, [job[s] EXCEPT !.pc = pc])
    BY <1>7 DEF ReadWallet
  <2>2. [job[s] EXCEPT !.pc = pc] \in Job
    BY MovedFields
  <2> QED BY <1>7, <2>1, <2>2, DoTyped DEF ReadWallet, TypeOK
<1>8. ASSUME NEW s \in Slots, WriteWallet(s)
      PROVE  TypeOK'
  <2>1. [status |-> "verified", proof |-> job[s].nonce, since |-> claims + 1] \in Wallet
    BY DEF Wallet, TypeOK, Job
  <2>2. wallet' \in [Users \X Addresses -> Wallet]
    BY <1>8, <2>1 DEF WriteWallet, TypeOK
  <2>3. claims' \in Nat
    BY <1>8 DEF WriteWallet, TypeOK
  <2> QED BY <1>8, <2>2, <2>3, IdleTyped, DoTyped DEF WriteWallet, TypeOK
<1>9. ASSUME NEW s \in Slots, Stop(s)
      PROVE  TypeOK'
  BY <1>9, IdleTyped, DoTyped DEF Stop, TypeOK
<1>10. ASSUME NEW u \in Users, NEW a \in Addresses, AddWallet(u, a) \/ DeleteWallet(u, a)
      PROVE  TypeOK'
  <2>1. NoWallet \in Wallet /\ [NoWallet EXCEPT !.status = "unverified"] \in Wallet
    BY DEF NoWallet, Wallet
  <2> QED BY <1>10, <2>1 DEF AddWallet, DeleteWallet, TypeOK
<1>11. ASSUME NEW n \in Nonces, Expire(n)
      PROVE  TypeOK'
  <2>1. [challenge[n] EXCEPT !.expired = TRUE] \in Challenge
    <3>1. challenge[n] \in Challenge
      BY DEF TypeOK
    <3> QED BY <3>1 DEF Challenge
  <2> QED BY <1>11, <2>1 DEF Expire, TypeOK
<1>12. CASE UNCHANGED vars
  BY <1>12 DEF vars, TypeOK
<1> QED BY <1>1, <1>2, <1>3, <1>4, <1>5, <1>6, <1>7, <1>8, <1>9, <1>10, <1>11, <1>12 DEF Next

(* Types are kept however many requests overlap and die.                    *)
THEOREM TypeCorrect == Spec => []TypeOK
BY TypeInit, TypeNext, PTL DEF Spec

-----------------------------------------------------------------------------
(* A challenge once issued keeps whose it is, is never reopened, and its    *)
(* proofs stay.                                                             *)
Keeps(n) ==
  /\ challenge'[n].user = challenge[n].user /\ challenge'[n].address = challenge[n].address
  /\ challenge'[n].asked = challenge[n].asked /\ challenge'[n].by = challenge[n].by
  /\ challenge'[n].state \in {challenge[n].state, "consumed"}
  /\ \A r \in Slots : challenge'[n].proofs[r] >= challenge[n].proofs[r]
ChallengesKept == \A n \in Nonces : challenge[n].state # "unissued" => Keeps(n)

LEMMA KeptNext == TypeOK /\ [Next]_vars => ChallengesKept
<1> SUFFICES ASSUME TypeOK, [Next]_vars, NEW n \in Nonces, challenge[n].state # "unissued"
             PROVE  Keeps(n)
  BY DEF ChallengesKept
<1>1. \A r \in Slots : challenge[n].proofs[r] \in Nat
  BY DEF TypeOK, Challenge
<1>2. CASE challenge' = challenge
  BY <1>1, <1>2 DEF Keeps
<1>3. ASSUME NEW s \in Slots, InsertChallenge(s)
      PROVE  Keeps(n)
  <2>1. challenge'[n] = Consumed(n) \/ challenge'[n] = challenge[n]
    BY <1>3, InsertWrites DEF Issued
  <2> QED BY <1>1, <2>1, ConsumedFields DEF Keeps
<1>4. ASSUME NEW s \in Slots, RejectSignature(s)
      PROVE  Keeps(n)
  <2>1. challenge'[n] = Consumed(n) \/ challenge'[n] = challenge[n]
    BY <1>4, RejectWrites
  <2> QED BY <1>1, <2>1, ConsumedFields DEF Keeps
<1>5. ASSUME NEW s \in Slots, AcceptSignature(s)
      PROVE  Keeps(n)
  <2>1. challenge'[n] = Proved(n, s) \/ challenge'[n] = challenge[n]
    BY <1>5, AcceptWrites
  <2>2. CASE challenge'[n] = Proved(n, s)
    <3>1. \A r \in Slots : challenge'[n].proofs[r] >= challenge[n].proofs[r]
      BY <1>1, <2>2, ProvedFields
    <3> QED BY <2>2, <3>1, ProvedFields DEF Keeps
  <2>3. CASE challenge'[n] = challenge[n]
    BY <1>1, <2>3 DEF Keeps
  <2> QED BY <2>1, <2>2, <2>3
<1>6. ASSUME NEW m \in Nonces, Expire(m)
      PROVE  Keeps(n)
  <2>1. challenge[n] \in Challenge
    BY DEF TypeOK
  <2>2. challenge'[n] = challenge[n] \/ challenge'[n] = [challenge[n] EXCEPT !.expired = TRUE]
    BY <1>6 DEF Expire, TypeOK
  <2>3. LET x == [challenge[n] EXCEPT !.expired = TRUE]
        IN  /\ x.user = challenge[n].user /\ x.address = challenge[n].address
            /\ x.asked = challenge[n].asked /\ x.by = challenge[n].by
            /\ x.state = challenge[n].state /\ x.proofs = challenge[n].proofs
    BY <2>1 DEF Challenge
  <2>4. CASE challenge'[n] = challenge[n]
    BY <1>1, <2>4 DEF Keeps
  <2>5. CASE challenge'[n] = [challenge[n] EXCEPT !.expired = TRUE]
    BY <1>1, <2>3, <2>5 DEF Keeps
  <2> QED BY <2>2, <2>4, <2>5
<1>7. ASSUME NEW s \in Slots, NEW u \in Users, NEW a \in Addresses,
             AskChallenge(s, u, a) \/ ReadChallenge(s, u, a)
      PROVE  challenge' = challenge
  BY <1>7 DEF AskChallenge, ReadChallenge
<1>8. ASSUME NEW s \in Slots, Retire(s) \/ ReadWallet(s) \/ WriteWallet(s) \/ Stop(s)
      PROVE  challenge' = challenge
  BY <1>8 DEF Retire, ReadWallet, WriteWallet, Stop
<1>9. ASSUME NEW u \in Users, NEW a \in Addresses, AddWallet(u, a) \/ DeleteWallet(u, a)
      PROVE  challenge' = challenge
  BY <1>9 DEF AddWallet, DeleteWallet
<1>10. CASE UNCHANGED vars
  BY <1>2, <1>10 DEF vars
<1> QED BY <1>2, <1>3, <1>4, <1>5, <1>6, <1>7, <1>8, <1>9, <1>10 DEF Next

-----------------------------------------------------------------------------
(* Verified means proved: the proof goes from the challenge through the     *)
(* request that accepted it to the wallet, and is never taken back.         *)
IsFor(n, u, a) ==
  n \in Nonces /\ challenge[n].state # "unissued" /\ challenge[n].user = u /\ challenge[n].address = a
ProvedFor(n, u, a) ==
  IsFor(n, u, a) /\ challenge[n].state = "consumed" /\ \E s \in Slots : challenge[n].proofs[s] > 0

ChecksOwn == \A s \in Slots : job[s].pc = "check" => IsFor(job[s].nonce, job[s].user, job[s].address)
WritesProved == \A s \in Slots : job[s].pc \in {"read", "create", "update"} =>
                  ProvedFor(job[s].nonce, job[s].user, job[s].address)
HoldsProved == \A u \in Users, a \in Addresses : wallet[<<u, a>>].status = "verified" =>
                 ProvedFor(wallet[<<u, a>>].proof, u, a)

Proving == ChecksOwn /\ WritesProved /\ HoldsProved

LEMMA ProvingInit == Init => Proving
BY DEF Init, Proving, ChecksOwn, WritesProved, HoldsProved, Idle, NoWallet

LEMMA ProofsKept ==
  ASSUME TypeOK, TypeOK', ChallengesKept, NEW n, NEW u, NEW a
  PROVE  /\ IsFor(n, u, a) => IsFor(n, u, a)'
         /\ ProvedFor(n, u, a) => ProvedFor(n, u, a)'
<1>1. ASSUME IsFor(n, u, a)
      PROVE  IsFor(n, u, a)'
  BY <1>1 DEF ChallengesKept, Keeps, IsFor
<1>2. ASSUME ProvedFor(n, u, a)
      PROVE  ProvedFor(n, u, a)'
  <2>1. Keeps(n) /\ n \in Nonces
    BY <1>2 DEF ProvedFor, IsFor, ChallengesKept
  <2>2. PICK s \in Slots : challenge[n].proofs[s] > 0
    BY <1>2 DEF ProvedFor
  <2>3. challenge'[n].state = "consumed"
    BY <1>2, <2>1 DEF Keeps, ProvedFor
  <2>4. challenge'[n].proofs[s] > 0
    <3>1. challenge'[n].proofs[s] >= challenge[n].proofs[s]
      BY <2>1 DEF Keeps
    <3>2. challenge[n].proofs[s] \in Nat /\ challenge'[n].proofs[s] \in Nat
      BY <2>1 DEF TypeOK, Challenge
    <3> QED BY <2>2, <3>1, <3>2
  <2> QED BY <1>1, <1>2, <2>3, <2>4 DEF ProvedFor
<1> QED BY <1>1, <1>2

(* One request moves on with a challenge it may have; nothing else changes. *)
LEMMA ProvingMoves ==
  ASSUME TypeOK, TypeOK', ChallengesKept, Proving, UNCHANGED wallet, NEW s \in Slots, NEW j, Do(s, j),
         j.pc = "check" => IsFor(j.nonce, j.user, j.address)',
         j.pc \in {"read", "create", "update"} => ProvedFor(j.nonce, j.user, j.address)'
  PROVE  Proving'
<1>1. job'[s] = j /\ \A r \in Slots \ {s} : job'[r] = job[r]
  BY OneJob
<1>2. ChecksOwn'
  <2> SUFFICES ASSUME NEW r \in Slots, job'[r].pc = "check"
               PROVE  IsFor(job[r].nonce, job[r].user, job[r].address)'
    BY DEF ChecksOwn
  <2>1. CASE r = s
    <3>1. job'[r] = j
      BY <1>1, <2>1
    <3> QED BY <3>1 DEF IsFor
  <2>2. CASE r # s
    <3>1. job'[r] = job[r]
      BY <1>1, <2>2
    <3>2. IsFor(job[r].nonce, job[r].user, job[r].address)
      BY <3>1 DEF Proving, ChecksOwn
    <3> QED BY <3>1, <3>2, ProofsKept DEF IsFor
  <2> QED BY <2>1, <2>2
<1>3. WritesProved'
  <2> SUFFICES ASSUME NEW r \in Slots, job'[r].pc \in {"read", "create", "update"}
               PROVE  ProvedFor(job[r].nonce, job[r].user, job[r].address)'
    BY DEF WritesProved
  <2>1. CASE r = s
    <3>1. job'[r] = j
      BY <1>1, <2>1
    <3> QED BY <3>1 DEF ProvedFor, IsFor
  <2>2. CASE r # s
    <3>1. job'[r] = job[r]
      BY <1>1, <2>2
    <3>2. ProvedFor(job[r].nonce, job[r].user, job[r].address)
      BY <3>1 DEF Proving, WritesProved
    <3> QED BY <3>1, <3>2, ProofsKept DEF ProvedFor, IsFor
  <2> QED BY <2>1, <2>2
<1>4. HoldsProved'
  <2> SUFFICES ASSUME NEW u \in Users, NEW a \in Addresses, wallet'[<<u, a>>].status = "verified"
               PROVE  ProvedFor(wallet[<<u, a>>].proof, u, a)'
    BY DEF HoldsProved
  <2>1. ProvedFor(wallet[<<u, a>>].proof, u, a)
    BY DEF Proving, HoldsProved
  <2> QED BY <2>1, ProofsKept DEF ProvedFor, IsFor
<1> QED BY <1>2, <1>3, <1>4 DEF Proving

LEMMA ProvingNext == TypeOK /\ Proving /\ [Next]_vars => Proving'
<1> SUFFICES ASSUME TypeOK, Proving, [Next]_vars PROVE Proving'
  OBVIOUS
<1>0. TypeOK' /\ ChallengesKept
  BY TypeNext, KeptNext
<1>1. ASSUME NEW s \in Slots, NEW u \in Users, NEW a \in Addresses, AskChallenge(s, u, a)
      PROVE  Proving'
  <2>1. Do(s, Asking(u, a))
    BY <1>1 DEF AskChallenge, Asking
  <2> QED BY <1>0, <1>1, <2>1, AskedFields, ProvingMoves DEF AskChallenge
<1>2. ASSUME NEW s \in Slots, NEW u \in Users, NEW a \in Addresses, ReadChallenge(s, u, a)
      PROVE  Proving'
  <2>1. PICK n \in Nonces : /\ Do(s, Checking(u, a, n))
                            /\ challenge[n].user = u /\ challenge[n].address = a
                            /\ challenge[n].state = "open"
    BY <1>2 DEF ReadChallenge, Checking, Latest, Open
  <2>2. IsFor(n, u, a)'
    BY <1>2, <2>1 DEF IsFor, ReadChallenge
  <2>3. /\ Checking(u, a, n).pc = "check" /\ Checking(u, a, n).nonce = n
        /\ Checking(u, a, n).user = u /\ Checking(u, a, n).address = a
    BY CheckFields
  <2> QED BY <1>0, <1>2, <2>1, <2>2, <2>3, ProvingMoves DEF ReadChallenge
<1>3. ASSUME NEW s \in Slots, Retire(s)
      PROVE  Proving'
  <2>1. [job[s] EXCEPT !.pc = "insert", !.seen = Open(job[s].user, job[s].address)].pc = "insert"
    BY DEF TypeOK, Job
  <2> QED BY <1>0, <1>3, <2>1, ProvingMoves DEF Retire
<1>4. ASSUME NEW s \in Slots, Do(s, Idle), UNCHANGED wallet
      PROVE  Proving'
  <2>1. Idle.pc = "idle"
    BY DEF Idle
  <2> QED BY <1>0, <1>4, <2>1, ProvingMoves
<1>5. ASSUME NEW s \in Slots, InsertChallenge(s) \/ RejectSignature(s) \/ Stop(s)
      PROVE  Proving'
  BY <1>4, <1>5 DEF InsertChallenge, RejectSignature, Stop
<1>6. ASSUME NEW s \in Slots, AcceptSignature(s)
      PROVE  Proving'
  <2>1. PICK j : j = [job[s] EXCEPT !.pc = "read"]
    OBVIOUS
  <2>2. j.pc = "read" /\ j.nonce = job[s].nonce /\ j.user = job[s].user /\ j.address = job[s].address
    BY <2>1, MovedFields
  <2>3. IsFor(j.nonce, j.user, j.address)
    BY <1>6, <2>2 DEF AcceptSignature, At, Proving, ChecksOwn
  <2>4. challenge'[j.nonce] = Proved(j.nonce, s) /\ j.nonce \in Nonces
    BY <1>6, <2>2, <2>3, AcceptWrites DEF IsFor
  <2>5. challenge'[j.nonce].state = "consumed" /\ challenge'[j.nonce].proofs[s] > 0
    <3>1. challenge[j.nonce].proofs[s] \in Nat
      BY <2>4 DEF TypeOK, Challenge
    <3> QED BY <2>4, <3>1, ProvedFields
  <2>6. challenge'[j.nonce].user = j.user /\ challenge'[j.nonce].address = j.address
    BY <2>3, <2>4, ProvedFields DEF IsFor
  <2>7. ProvedFor(j.nonce, j.user, j.address)'
    BY <2>4, <2>5, <2>6 DEF ProvedFor, IsFor
  <2>8. Do(s, j) /\ UNCHANGED wallet
    BY <1>6, <2>1 DEF AcceptSignature
  <2> QED BY <1>0, <2>2, <2>7, <2>8, ProvingMoves
<1>7. ASSUME NEW s \in Slots, ReadWallet(s)
      PROVE  Proving'
  <2>1. PICK pc \in {"create", "update"} : Do(s, [job[s] EXCEPT !.pc = pc])
    BY <1>7 DEF ReadWallet
  <2>2. PICK j : j = [job[s] EXCEPT !.pc = pc]
    OBVIOUS
  <2>3. j.pc = pc /\ j.nonce = job[s].nonce /\ j.user = job[s].user /\ j.address = job[s].address
    BY <2>2, MovedFields
  <2>4. ProvedFor(j.nonce, j.user, j.address)
    BY <1>7, <2>3 DEF ReadWallet, At, Proving, WritesProved
  <2>5. ProvedFor(j.nonce, j.user, j.address)'
    BY <1>0, <2>4, ProofsKept
  <2> QED BY <1>0, <1>7, <2>1, <2>2, <2>3, <2>5, ProvingMoves DEF ReadWallet
<1>8. ASSUME NEW s \in Slots, WriteWallet(s)
      PROVE  Proving'
  <2>1. challenge' = challenge /\ Do(s, Idle) /\ job[s].pc \in {"create", "update"}
    BY <1>8 DEF WriteWallet, At
  <2>2. ChecksOwn' /\ WritesProved'
    BY <2>1, OneJob DEF Idle, Proving, ChecksOwn, WritesProved, IsFor, ProvedFor
  <2>3. HoldsProved'
    <3> SUFFICES ASSUME NEW u \in Users, NEW a \in Addresses, wallet'[<<u, a>>].status = "verified"
                 PROVE  ProvedFor(wallet[<<u, a>>].proof, u, a)'
      BY DEF HoldsProved
    <3>1. CASE u = job[s].user /\ a = job[s].address
      <4>1. wallet'[<<u, a>>].proof = job[s].nonce
        BY <1>8, <3>1 DEF WriteWallet, TypeOK
      <4>2. ProvedFor(job[s].nonce, u, a)
        BY <2>1, <3>1 DEF Proving, WritesProved
      <4> QED BY <2>1, <4>1, <4>2 DEF ProvedFor, IsFor
    <3>2. CASE ~(u = job[s].user /\ a = job[s].address)
      <4>1. wallet'[<<u, a>>] = wallet[<<u, a>>]
        BY <1>8, <3>2 DEF WriteWallet, TypeOK
      <4>2. ProvedFor(wallet[<<u, a>>].proof, u, a)
        BY <4>1 DEF Proving, HoldsProved
      <4> QED BY <2>1, <4>1, <4>2 DEF ProvedFor, IsFor
    <3> QED BY <3>1, <3>2
  <2> QED BY <2>2, <2>3 DEF Proving
<1>9. ASSUME NEW u \in Users, NEW a \in Addresses, AddWallet(u, a) \/ DeleteWallet(u, a)
      PROVE  Proving'
  <2>1. challenge' = challenge /\ job' = job
    BY <1>9 DEF AddWallet, DeleteWallet
  <2>2. ChecksOwn' /\ WritesProved'
    BY <2>1 DEF Proving, ChecksOwn, WritesProved, IsFor, ProvedFor
  <2>3. ASSUME NEW o \in Users, NEW b \in Addresses, wallet'[<<o, b>>].status = "verified"
        PROVE  wallet'[<<o, b>>] = wallet[<<o, b>>]
    BY <1>9, <2>3 DEF AddWallet, DeleteWallet, NoWallet, TypeOK
  <2>4. HoldsProved'
    <3> SUFFICES ASSUME NEW o \in Users, NEW b \in Addresses, wallet'[<<o, b>>].status = "verified"
                 PROVE  ProvedFor(wallet[<<o, b>>].proof, o, b)'
      BY DEF HoldsProved
    <3>1. wallet'[<<o, b>>] = wallet[<<o, b>>]
      BY <2>3
    <3>2. ProvedFor(wallet[<<o, b>>].proof, o, b)
      BY <3>1 DEF Proving, HoldsProved
    <3> QED BY <2>1, <3>1, <3>2 DEF ProvedFor, IsFor
  <2> QED BY <2>2, <2>4 DEF Proving
<1>10. ASSUME NEW n \in Nonces, Expire(n)
      PROVE  Proving'
  <2>1. wallet' = wallet /\ job' = job
    BY <1>10 DEF Expire
  <2>2. ChecksOwn' /\ WritesProved' /\ HoldsProved'
    BY <1>0, <2>1, ProofsKept DEF Proving, ChecksOwn, WritesProved, HoldsProved
  <2> QED BY <2>2 DEF Proving
<1>11. CASE UNCHANGED vars
  BY <1>11 DEF vars, Proving, ChecksOwn, WritesProved, HoldsProved, IsFor, ProvedFor
<1> QED BY <1>1, <1>2, <1>3, <1>5, <1>6, <1>7, <1>8, <1>9, <1>10, <1>11 DEF Next

(* A verified wallet stands on a nonce of its own account and address that  *)
(* was proved and is spent.                                                 *)
THEOREM VerifiedIsProvedAlways == Spec => []VerifiedIsProved
<1>1. Init => TypeOK /\ Proving
  BY TypeInit, ProvingInit
<1>2. TypeOK /\ Proving /\ [Next]_vars => (TypeOK /\ Proving)'
  BY TypeNext, ProvingNext
<1>3. TypeOK /\ Proving => VerifiedIsProved
  <2> SUFFICES ASSUME Proving, NEW u \in Users, NEW a \in Addresses, wallet[<<u, a>>].status = "verified"
               PROVE  \E n \in Nonces : /\ wallet[<<u, a>>].proof = n
                                        /\ challenge[n].user = u /\ challenge[n].address = a
                                        /\ challenge[n].state = "consumed"
                                        /\ \E s \in Slots : challenge[n].proofs[s] > 0
    BY DEF VerifiedIsProved
  <2>1. ProvedFor(wallet[<<u, a>>].proof, u, a)
    BY DEF Proving, HoldsProved
  <2>2. wallet[<<u, a>>].proof \in Nonces
    BY <2>1 DEF ProvedFor, IsFor
  <2> WITNESS wallet[<<u, a>>].proof \in Nonces
  <2> QED BY <2>1 DEF ProvedFor, IsFor
<1> QED BY <1>1, <1>2, <1>3, PTL DEF Spec

-----------------------------------------------------------------------------
(* One use per request: a nonce still open has been proved by nobody, and a *)
(* request that is checking one has not proved it yet.                      *)
OpenIsUnproved == \A n \in Nonces : challenge[n].state # "consumed" => \A r \in Slots : challenge[n].proofs[r] = 0
CheckedIsUnproved == \A s \in Slots : job[s].pc = "check" =>
                       job[s].nonce \in Nonces /\ challenge[job[s].nonce].proofs[s] = 0
Once == OpenIsUnproved /\ CheckedIsUnproved /\ ProvedOnceInTurn

LEMMA OnceInit == Init => Once
BY DEF Init, Once, OpenIsUnproved, CheckedIsUnproved, ProvedOnceInTurn, Unissued, Idle

(* Nothing is proved, no nonce reopened, and who begins to check has an     *)
(* open one.                                                                *)
NoNewProof ==
  /\ \A n \in Nonces : /\ challenge'[n].state # "consumed" => challenge[n].state # "consumed"
                       /\ \A r \in Slots : challenge'[n].proofs[r] = challenge[n].proofs[r]
  /\ \A s \in Slots : job'[s].pc = "check" =>
       \/ job'[s] = job[s]
       \/ job'[s].nonce \in Nonces /\ challenge[job'[s].nonce].state # "consumed"

LEMMA OnceStays == Once /\ NoNewProof => Once'
BY DEF Once, OpenIsUnproved, CheckedIsUnproved, ProvedOnceInTurn, NoNewProof

LEMMA OnceAccept ==
  ASSUME TypeOK, Once, NEW s \in Slots, AcceptSignature(s)
  PROVE  Once'
<1>1. job[s].pc = "check" /\ Do(s, [job[s] EXCEPT !.pc = "read"])
  BY DEF AcceptSignature, At
<1>2. ASSUME NEW r \in Slots, job'[r].pc = "check"
      PROVE  r # s /\ job'[r] = job[r]
  <2>1. [job[s] EXCEPT !.pc = "read"].pc = "read"
    BY MovedFields
  <2> QED BY <1>1, <1>2, <2>1, OneJob
<1>3. ASSUME NEW n \in Nonces, n = job[s].nonce
      PROVE  /\ challenge'[n].state = "consumed" /\ challenge'[n].proofs[s] = 1
             /\ \A r \in Slots \ {s} : challenge'[n].proofs[r] = challenge[n].proofs[r]
  <2>1. challenge'[n] = Proved(n, s)
    BY <1>3, AcceptWrites
  <2>2. challenge[n].proofs[s] = 0
    BY <1>1, <1>3 DEF Once, CheckedIsUnproved
  <2> QED BY <2>1, <2>2, ProvedFields
<1>4. \A n \in Nonces : n # job[s].nonce => challenge'[n] = challenge[n]
  BY AcceptWrites
<1>5. OpenIsUnproved' /\ ProvedOnceInTurn'
  BY <1>3, <1>4 DEF Once, OpenIsUnproved, ProvedOnceInTurn
<1>6. CheckedIsUnproved'
  BY <1>2, <1>3, <1>4 DEF Once, CheckedIsUnproved
<1> QED BY <1>5, <1>6 DEF Once

LEMMA OnceNext == TypeOK /\ Once /\ [Next]_vars => Once'
<1> SUFFICES ASSUME TypeOK, Once, [Next]_vars PROVE Once'
  OBVIOUS
<1>1. ASSUME NEW s \in Slots, NEW j, Do(s, j),
             j.pc = "check" => j.nonce \in Nonces /\ challenge[j.nonce].state # "consumed",
             \A n \in Nonces : /\ challenge'[n].state # "consumed" => challenge[n].state # "consumed"
                               /\ \A r \in Slots : challenge'[n].proofs[r] = challenge[n].proofs[r]
      PROVE  Once'
  BY <1>1, OneJob, OnceStays DEF NoNewProof
<1>2. Idle.pc = "idle"
  BY DEF Idle
<1>3. ASSUME NEW s \in Slots, NEW u \in Users, NEW a \in Addresses, AskChallenge(s, u, a)
      PROVE  Once'
  <2>1. Do(s, Asking(u, a)) /\ challenge' = challenge
    BY <1>3 DEF AskChallenge, Asking
  <2> QED BY <1>1, <2>1, AskedFields
<1>4. ASSUME NEW s \in Slots, NEW u \in Users, NEW a \in Addresses, ReadChallenge(s, u, a)
      PROVE  Once'
  <2>1. PICK n \in Nonces : Do(s, Checking(u, a, n)) /\ challenge[n].state = "open"
    BY <1>4 DEF ReadChallenge, Checking, Latest, Open
  <2>2. challenge' = challenge
    BY <1>4 DEF ReadChallenge
  <2> QED BY <1>1, <2>1, <2>2, CheckFields
<1>5. ASSUME NEW s \in Slots, Retire(s)
      PROVE  Once'
  <2>1. [job[s] EXCEPT !.pc = "insert", !.seen = Open(job[s].user, job[s].address)].pc = "insert"
    BY DEF TypeOK, Job
  <2> QED BY <1>1, <1>5, <2>1 DEF Retire
<1>6. ASSUME NEW s \in Slots, InsertChallenge(s)
      PROVE  Once'
  <2>1. PICK n \in Nonces \ Issued :
           /\ challenge'[n] = Fresh(job[s], s)
           /\ \A o \in Nonces \ {n} :
                challenge'[o] = IF o \in job[s].seen THEN Consumed(o) ELSE challenge[o]
    BY <1>6, InsertWrites
  <2>2. ASSUME NEW r \in Slots
        PROVE  challenge'[n].proofs[r] = challenge[n].proofs[r] /\ challenge[n].state # "consumed"
    <3>1. challenge[n].state = "unissued"
      BY DEF Issued
    <3>2. challenge[n].proofs[r] = 0
      BY <3>1 DEF Once, OpenIsUnproved
    <3>3. job[s] \in Job
      BY DEF TypeOK
    <3> QED BY <2>1, <3>1, <3>2, <3>3, FreshFields
  <2>3. \A o \in Nonces : /\ challenge'[o].state # "consumed" => challenge[o].state # "consumed"
                          /\ \A r \in Slots : challenge'[o].proofs[r] = challenge[o].proofs[r]
    BY <2>1, <2>2, ConsumedFields
  <2> QED BY <1>1, <1>2, <1>6, <2>3 DEF InsertChallenge
<1>7. ASSUME NEW s \in Slots, RejectSignature(s)
      PROVE  Once'
  <2>1. \A o \in Nonces : /\ challenge'[o].state # "consumed" => challenge[o].state # "consumed"
                          /\ \A r \in Slots : challenge'[o].proofs[r] = challenge[o].proofs[r]
    BY <1>7, RejectWrites, ConsumedFields
  <2> QED BY <1>1, <1>2, <1>7, <2>1 DEF RejectSignature
<1>8. ASSUME NEW s \in Slots, ReadWallet(s)
      PROVE  Once'
  <2>1. PICK pc \in {"create", "update"} : Do(s, [job[s] EXCEPT !.pc = pc])
    BY <1>8 DEF ReadWallet
  <2>2. [job[s] EXCEPT !.pc = pc].pc = pc
    BY MovedFields
  <2>3. challenge' = challenge
    BY <1>8 DEF ReadWallet
  <2> QED BY <1>1, <2>1, <2>2, <2>3
<1>9. ASSUME NEW s \in Slots, WriteWallet(s) \/ Stop(s)
      PROVE  Once'
  BY <1>1, <1>2, <1>9 DEF WriteWallet, Stop
<1>10. ASSUME NEW u \in Users, NEW a \in Addresses, AddWallet(u, a) \/ DeleteWallet(u, a)
      PROVE  Once'
  BY <1>10, OnceStays DEF NoNewProof, AddWallet, DeleteWallet
<1>11. ASSUME NEW n \in Nonces, Expire(n)
      PROVE  Once'
  <2>1. \A o \in Nonces : challenge[o] \in Challenge
    BY DEF TypeOK
  <2>2. \A o \in Nonces : /\ challenge'[o].state = challenge[o].state
                          /\ challenge'[o].proofs = challenge[o].proofs
    BY <1>11, <2>1 DEF Expire, TypeOK, Challenge
  <2>3. job' = job
    BY <1>11 DEF Expire
  <2> QED BY <2>2, <2>3, OnceStays DEF NoNewProof
<1>12. CASE UNCHANGED vars
  BY <1>12, OnceStays DEF vars, NoNewProof
<1> QED BY <1>3, <1>4, <1>5, <1>6, <1>7, <1>8, <1>9, <1>10, <1>11, <1>12, OnceAccept DEF Next

(* Of requests that come in turn, one proves an address with a nonce.       *)
THEOREM ProvedOnceInTurnAlways == Spec => []ProvedOnceInTurn
<1>1. Init => TypeOK /\ Once
  BY TypeInit, OnceInit
<1>2. TypeOK /\ Once /\ [Next]_vars => (TypeOK /\ Once)'
  BY TypeNext, OnceNext
<1>3. Once => ProvedOnceInTurn
  BY DEF Once
<1> QED BY <1>1, <1>2, <1>3, PTL DEF Spec

-----------------------------------------------------------------------------
(* Who is about to add a challenge has seen every open one it added before. *)
OwnOpenSeen ==
  \A s \in Slots : job[s].pc = "insert" =>
    \A n \in Nonces : /\ challenge[n].state = "open" /\ challenge[n].by = s
                      /\ challenge[n].user = job[s].user /\ challenge[n].address = job[s].address
                      => n \in job[s].seen
Overlapping == OwnOpenSeen /\ OpenChallengesOverlapped

LEMMA OverlappingInit == Init => Overlapping
BY DEF Init, Overlapping, OwnOpenSeen, OpenChallengesOverlapped, Unissued, Idle

NothingOpens ==
  \A n \in Nonces : challenge'[n].state = "open" =>
    /\ challenge[n].state = "open" /\ challenge'[n].by = challenge[n].by
    /\ challenge'[n].user = challenge[n].user /\ challenge'[n].address = challenge[n].address

LEMMA OverlappingStays ==
  ASSUME Overlapping, NothingOpens, \A s \in Slots : job'[s].pc = "insert" => job'[s] = job[s]
  PROVE  Overlapping'
<1>1. OpenChallengesOverlapped'
  BY DEF Overlapping, OpenChallengesOverlapped, NothingOpens
<1>2. OwnOpenSeen'
  BY DEF Overlapping, OwnOpenSeen, NothingOpens
<1> QED BY <1>1, <1>2 DEF Overlapping

LEMMA OpensOnlyByInsert ==
  ASSUME TypeOK, [Next]_vars, ~\E s \in Slots : InsertChallenge(s)
  PROVE  NothingOpens
<1> SUFFICES ASSUME NEW n \in Nonces, challenge'[n].state = "open"
             PROVE  challenge[n].state = "open"
  BY KeptNext DEF NothingOpens, ChallengesKept, Keeps
<1>1. CASE challenge' = challenge
  BY <1>1
<1>2. ASSUME NEW s \in Slots, RejectSignature(s)
      PROVE  challenge[n].state = "open"
  BY <1>2, RejectWrites, ConsumedFields
<1>3. ASSUME NEW s \in Slots, AcceptSignature(s)
      PROVE  challenge[n].state = "open"
  BY <1>3, AcceptWrites, ProvedFields
<1>4. ASSUME NEW m \in Nonces, Expire(m)
      PROVE  challenge[n].state = "open"
  <2>1. challenge[n] \in Challenge
    BY DEF TypeOK
  <2> QED BY <1>4, <2>1 DEF Expire, TypeOK, Challenge
<1>5. ASSUME NEW s \in Slots, NEW u \in Users, NEW a \in Addresses,
             AskChallenge(s, u, a) \/ ReadChallenge(s, u, a)
      PROVE  challenge' = challenge
  BY <1>5 DEF AskChallenge, ReadChallenge
<1>6. ASSUME NEW s \in Slots, Retire(s) \/ ReadWallet(s) \/ WriteWallet(s) \/ Stop(s)
      PROVE  challenge' = challenge
  BY <1>6 DEF Retire, ReadWallet, WriteWallet, Stop
<1>7. ASSUME NEW u \in Users, NEW a \in Addresses, AddWallet(u, a) \/ DeleteWallet(u, a)
      PROVE  challenge' = challenge
  BY <1>7 DEF AddWallet, DeleteWallet
<1>8. CASE UNCHANGED vars
  BY <1>8 DEF vars
<1> QED BY <1>1, <1>2, <1>3, <1>4, <1>5, <1>6, <1>7, <1>8 DEF Next

LEMMA OverlappingRetire ==
  ASSUME TypeOK, Overlapping, NEW s \in Slots, Retire(s)
  PROVE  Overlapping'
<1>1. PICK j : /\ j = [job[s] EXCEPT !.pc = "insert", !.seen = Open(job[s].user, job[s].address)]
               /\ Do(s, j) /\ challenge' = challenge
  BY DEF Retire
<1>2. /\ j.user = job[s].user /\ j.address = job[s].address
      /\ j.seen = Open(job[s].user, job[s].address)
  <2>1. Open(job[s].user, job[s].address) \in SUBSET Nonces
    BY DEF Open
  <2> QED BY <1>1, <2>1, RetiredFields
<1>3. job'[s] = j /\ \A r \in Slots \ {s} : job'[r] = job[r]
  BY <1>1, OneJob
<1>4. OpenChallengesOverlapped'
  BY <1>1 DEF Overlapping, OpenChallengesOverlapped
<1>5. OwnOpenSeen'
  <2> SUFFICES ASSUME NEW r \in Slots, job'[r].pc = "insert", NEW n \in Nonces,
                      challenge[n].state = "open", challenge[n].by = r,
                      challenge[n].user = job'[r].user, challenge[n].address = job'[r].address
               PROVE  n \in job'[r].seen
    BY <1>1 DEF OwnOpenSeen
  <2>1. CASE r = s
    BY <1>2, <1>3, <2>1 DEF Open
  <2>2. CASE r # s
    BY <1>3, <2>2 DEF Overlapping, OwnOpenSeen
  <2> QED BY <2>1, <2>2
<1> QED BY <1>4, <1>5 DEF Overlapping

LEMMA OverlappingInsert ==
  ASSUME TypeOK, Overlapping, NEW s \in Slots, InsertChallenge(s)
  PROVE  Overlapping'
<1>1. PICK n \in Nonces \ Issued :
         /\ challenge'[n] = Fresh(job[s], s)
         /\ \A o \in Nonces \ {n} :
              challenge'[o] = IF o \in job[s].seen THEN Consumed(o) ELSE challenge[o]
  BY InsertWrites
<1>2. job[s].pc = "insert" /\ Do(s, Idle)
  BY DEF InsertChallenge, At
<1>3. \A r \in Slots : job'[r].pc = "insert" => r # s /\ job'[r] = job[r]
  BY <1>2, OneJob DEF Idle
<1>4. challenge'[n].user = job[s].user /\ challenge'[n].address = job[s].address /\ challenge'[n].by = s
  BY <1>1, FreshFields DEF TypeOK
<1>5. ASSUME NEW o \in Nonces, o # n, challenge'[o].state = "open"
      PROVE  challenge'[o] = challenge[o] /\ o \notin job[s].seen
  BY <1>1, <1>5, ConsumedFields
<1>6. OwnOpenSeen'
  <2> SUFFICES ASSUME NEW r \in Slots, job'[r].pc = "insert", NEW o \in Nonces,
                      challenge'[o].state = "open", challenge'[o].by = r,
                      challenge'[o].user = job'[r].user, challenge'[o].address = job'[r].address
               PROVE  o \in job'[r].seen
    BY DEF OwnOpenSeen
  <2>1. o # n /\ r # s
    BY <1>3, <1>4
  <2> QED BY <1>3, <1>5, <2>1 DEF Overlapping, OwnOpenSeen
<1>7. ASSUME NEW o \in Nonces, o # n, challenge'[o].state = "open",
             challenge'[o].user = challenge'[n].user, challenge'[o].address = challenge'[n].address
      PROVE  challenge'[o].by # challenge'[n].by
  BY <1>2, <1>4, <1>5, <1>7 DEF Overlapping, OwnOpenSeen
<1>8. OpenChallengesOverlapped'
  <2> SUFFICES ASSUME NEW o \in Nonces, NEW p \in Nonces, o # p,
                      challenge'[o].state = "open", challenge'[p].state = "open",
                      challenge'[o].user = challenge'[p].user, challenge'[o].address = challenge'[p].address
               PROVE  challenge'[o].by # challenge'[p].by
    BY DEF OpenChallengesOverlapped
  <2>1. CASE o = n \/ p = n
    BY <1>7, <2>1
  <2>2. CASE o # n /\ p # n
    BY <1>5, <2>2 DEF Overlapping, OpenChallengesOverlapped
  <2> QED BY <2>1, <2>2
<1> QED BY <1>6, <1>8 DEF Overlapping

LEMMA OverlappingNext == TypeOK /\ Overlapping /\ [Next]_vars => Overlapping'
<1> SUFFICES ASSUME TypeOK, Overlapping, [Next]_vars PROVE Overlapping'
  OBVIOUS
<1>1. CASE \E s \in Slots : InsertChallenge(s)
  BY <1>1, OverlappingInsert
<1>2. CASE \E s \in Slots : Retire(s)
  BY <1>2, OverlappingRetire
<1>3. CASE ~(\E s \in Slots : InsertChallenge(s)) /\ ~(\E s \in Slots : Retire(s))
  <2>1. NothingOpens
    BY <1>3, OpensOnlyByInsert
  <2>2. ASSUME NEW s \in Slots, NEW j, Do(s, j), j.pc # "insert"
        PROVE  Overlapping'
    BY <2>1, <2>2, OneJob, OverlappingStays
  <2>3. Idle.pc = "idle"
    BY DEF Idle
  <2>4. ASSUME NEW s \in Slots, NEW u \in Users, NEW a \in Addresses, AskChallenge(s, u, a)
        PROVE  Overlapping'
    <3>1. Do(s, Asking(u, a))
      BY <2>4 DEF AskChallenge, Asking
    <3> QED BY <2>2, <3>1, AskedFields
  <2>5. ASSUME NEW s \in Slots, NEW u \in Users, NEW a \in Addresses, ReadChallenge(s, u, a)
        PROVE  Overlapping'
    <3>1. PICK n \in Nonces : Do(s, Checking(u, a, n))
      BY <2>5 DEF ReadChallenge, Checking, Latest, Open
    <3> QED BY <2>2, <3>1, CheckFields
  <2>6. ASSUME NEW s \in Slots, RejectSignature(s) \/ WriteWallet(s) \/ Stop(s)
        PROVE  Overlapping'
    BY <2>2, <2>3, <2>6 DEF RejectSignature, WriteWallet, Stop
  <2>7. ASSUME NEW s \in Slots, AcceptSignature(s) \/ ReadWallet(s)
        PROVE  Overlapping'
    <3>1. PICK pc \in {"read", "create", "update"} : Do(s, [job[s] EXCEPT !.pc = pc])
      BY <2>7 DEF AcceptSignature, ReadWallet
    <3>2. [job[s] EXCEPT !.pc = pc].pc = pc
      BY MovedFields
    <3> QED BY <2>2, <3>1, <3>2
  <2>8. CASE job' = job
    BY <2>1, <2>8, OverlappingStays
  <2>9. ASSUME NEW u \in Users, NEW a \in Addresses, AddWallet(u, a) \/ DeleteWallet(u, a)
        PROVE  job' = job
    BY <2>9 DEF AddWallet, DeleteWallet
  <2>10. ASSUME NEW n \in Nonces, Expire(n)
         PROVE  job' = job
    BY <2>10 DEF Expire
  <2>11. CASE UNCHANGED vars
    BY <2>8, <2>11 DEF vars
  <2> QED BY <1>3, <2>4, <2>5, <2>6, <2>7, <2>8, <2>9, <2>10, <2>11 DEF Next
<1> QED BY <1>1, <1>2, <1>3

(* Two open challenges of one account and address come from requests that   *)
(* overlapped.                                                              *)
THEOREM OpenChallengesOverlappedAlways == Spec => []OpenChallengesOverlapped
<1>1. Init => TypeOK /\ Overlapping
  BY TypeInit, OverlappingInit
<1>2. TypeOK /\ Overlapping /\ [Next]_vars => (TypeOK /\ Overlapping)'
  BY TypeNext, OverlappingNext
<1>3. Overlapping => OpenChallengesOverlapped
  BY DEF Overlapping
<1> QED BY <1>1, <1>2, <1>3, PTL DEF Spec

-----------------------------------------------------------------------------
(* Who asked at a time is ahead of every rival verified later: so it is     *)
(* with a request that still asks, and with each challenge it leaves.       *)
Before(asked, u, a) ==
  /\ asked <= claims
  /\ \A o \in Users \ {u} : wallet[<<o, a>>].status = "verified" => asked < wallet[<<o, a>>].since
AskersBefore == \A s \in Slots, a \in Addresses : job[s].pc \in {"retire", "insert"} /\ job[s].address = a =>
                  Before(job[s].asked, job[s].user, a)
IssuedBefore == \A n \in Nonces, a \in Addresses : challenge[n].state # "unissued" /\ challenge[n].address = a =>
                  Before(challenge[n].asked, challenge[n].user, a)
SeenIsIssued == \A s \in Slots : job[s].pc = "insert" => job[s].seen \subseteq Issued
Rivals == AskersBefore /\ IssuedBefore /\ SeenIsIssued

LEMMA RivalsInit == Init => Rivals
BY DEF Init, Rivals, AskersBefore, IssuedBefore, SeenIsIssued, Unissued, Idle

WalletsMove ==
  /\ claims' \in {claims, claims + 1}
  /\ \A o \in Users, a \in Addresses : wallet'[<<o, a>>].status = "verified" =>
       \/ wallet'[<<o, a>>] = wallet[<<o, a>>]
       \/ wallet'[<<o, a>>].since = claims + 1

LEMMA BeforeStays ==
  ASSUME TypeOK, WalletsMove, NEW asked \in Nat, NEW u, NEW a \in Addresses, Before(asked, u, a)
  PROVE  Before(asked, u, a)'
<1>1. claims \in Nat
  BY DEF TypeOK
<1>2. asked <= claims'
  BY <1>1 DEF WalletsMove, Before
<1>3. ASSUME NEW o \in Users \ {u}, wallet'[<<o, a>>].status = "verified"
      PROVE  asked < wallet'[<<o, a>>].since
  <2>1. CASE wallet'[<<o, a>>] = wallet[<<o, a>>]
    BY <1>3, <2>1 DEF Before
  <2>2. CASE wallet'[<<o, a>>].since = claims + 1
    BY <1>1, <2>2 DEF Before
  <2> QED BY <1>3, <2>1, <2>2 DEF WalletsMove
<1> QED BY <1>2, <1>3 DEF Before

LEMMA IssuedStay ==
  ASSUME TypeOK, WalletsMove, Rivals, NEW n \in Nonces, challenge[n].state # "unissued",
         challenge'[n].user = challenge[n].user, challenge'[n].address = challenge[n].address,
         challenge'[n].asked = challenge[n].asked, NEW a \in Addresses, challenge[n].address = a
  PROVE  Before(challenge[n].asked, challenge[n].user, a)'
<1>1. PICK asked, u : asked = challenge[n].asked /\ u = challenge[n].user
  OBVIOUS
<1>2. asked \in Nat
  BY <1>1 DEF TypeOK, Challenge
<1>3. Before(asked, u, a)
  BY <1>1 DEF Rivals, IssuedBefore
<1>4. Before(asked, u, a)'
  BY <1>2, <1>3, BeforeStays
<1> QED BY <1>1, <1>4 DEF Before

(* A request that asks stays as it asked, whatever else happens.            *)
AskerStays(s) ==
  job'[s].pc \in {"retire", "insert"} =>
    /\ job[s].pc \in {"retire", "insert"} /\ job'[s].user = job[s].user
    /\ job'[s].address = job[s].address /\ job'[s].asked = job[s].asked
SeenStays(s) ==
  job'[s].pc = "insert" => \/ job[s].pc = "insert" /\ job'[s].seen = job[s].seen
                           \/ job'[s].seen \subseteq Issued

LEMMA IssuedOnly == ChallengesKept => Issued \subseteq Issued'
<1> SUFFICES ASSUME ChallengesKept, NEW n \in Issued PROVE n \in Issued'
  OBVIOUS
<1>1. challenge[n].state # "unissued" /\ Keeps(n) /\ n \in Nonces
  BY DEF Issued, ChallengesKept
<1>2. challenge'[n].state # "unissued"
  BY <1>1 DEF Keeps
<1> QED BY <1>1, <1>2 DEF Issued

LEMMA AskerKept ==
  ASSUME TypeOK, WalletsMove, Rivals, NEW s \in Slots, AskerStays(s),
         NEW a \in Addresses, job'[s].pc \in {"retire", "insert"}, job'[s].address = a
  PROVE  Before(job[s].asked, job[s].user, a)'
<1>1. PICK asked, u : asked = job[s].asked /\ u = job[s].user
  OBVIOUS
<1>2. asked \in Nat
  BY <1>1 DEF TypeOK, Job
<1>3. Before(asked, u, a)
  BY <1>1 DEF Rivals, AskersBefore, AskerStays
<1>4. Before(asked, u, a)'
  BY <1>2, <1>3, BeforeStays
<1> QED BY <1>1, <1>4 DEF Before, AskerStays

LEMMA RivalsStay ==
  ASSUME TypeOK, WalletsMove, Rivals, ChallengesKept, \A s \in Slots : AskerStays(s) /\ SeenStays(s),
         \A n \in Nonces : challenge'[n].state # "unissued" => challenge[n].state # "unissued"
  PROVE  Rivals'
<1>1. AskersBefore'
  BY AskerKept DEF AskersBefore
<1>2. IssuedBefore'
  BY IssuedStay DEF IssuedBefore, ChallengesKept, Keeps
<1>3. SeenIsIssued'
  BY IssuedOnly DEF Rivals, SeenIsIssued, SeenStays
<1> QED BY <1>1, <1>2, <1>3 DEF Rivals

LEMMA NothingIssued ==
  ASSUME TypeOK, Proving, [Next]_vars, ~\E s \in Slots : InsertChallenge(s), NEW n \in Nonces,
         challenge'[n].state # "unissued"
  PROVE  challenge[n].state # "unissued"
<1>1. CASE challenge' = challenge
  BY <1>1
<1>2. ASSUME NEW s \in Slots, RejectSignature(s)
      PROVE  challenge[n].state # "unissued"
  <2>1. IsFor(job[s].nonce, job[s].user, job[s].address)
    BY <1>2 DEF RejectSignature, At, Proving, ChecksOwn
  <2> QED BY <1>2, <2>1, RejectWrites DEF IsFor
<1>3. ASSUME NEW s \in Slots, AcceptSignature(s)
      PROVE  challenge[n].state # "unissued"
  <2>1. IsFor(job[s].nonce, job[s].user, job[s].address)
    BY <1>3 DEF AcceptSignature, At, Proving, ChecksOwn
  <2> QED BY <1>3, <2>1, AcceptWrites DEF IsFor
<1>4. ASSUME NEW m \in Nonces, Expire(m)
      PROVE  challenge[n].state # "unissued"
  <2>1. challenge[n] \in Challenge
    BY DEF TypeOK
  <2> QED BY <1>4, <2>1 DEF Expire, TypeOK, Challenge
<1>5. ASSUME NEW s \in Slots, NEW u \in Users, NEW a \in Addresses,
             AskChallenge(s, u, a) \/ ReadChallenge(s, u, a)
      PROVE  challenge' = challenge
  BY <1>5 DEF AskChallenge, ReadChallenge
<1>6. ASSUME NEW s \in Slots, Retire(s) \/ ReadWallet(s) \/ WriteWallet(s) \/ Stop(s)
      PROVE  challenge' = challenge
  BY <1>6 DEF Retire, ReadWallet, WriteWallet, Stop
<1>7. ASSUME NEW u \in Users, NEW a \in Addresses, AddWallet(u, a) \/ DeleteWallet(u, a)
      PROVE  challenge' = challenge
  BY <1>7 DEF AddWallet, DeleteWallet
<1>8. CASE UNCHANGED vars
  BY <1>8 DEF vars
<1> QED BY <1>1, <1>2, <1>3, <1>4, <1>5, <1>6, <1>7, <1>8 DEF Next

LEMMA RivalsAsk ==
  ASSUME TypeOK, Rivals, NEW s \in Slots, NEW u \in Users, NEW a \in Addresses, AskChallenge(s, u, a)
  PROVE  Rivals'
<1>1. PICK j : j = Asking(u, a)
  OBVIOUS
<1>2. j.user = u /\ j.address = a /\ j.asked = claims
  BY <1>1, AskedFields
<1>3. Do(s, j) /\ UNCHANGED <<challenge, wallet, claims>> /\ ~ClaimedElsewhere(u, a)
  BY <1>1 DEF AskChallenge, Asking
<1>4. job'[s] = j /\ \A r \in Slots \ {s} : job'[r] = job[r]
  BY <1>3, OneJob
<1>5. claims \in Nat
  BY DEF TypeOK
<1>6. Before(claims, u, a)
  BY <1>3, <1>5 DEF Before, ClaimedElsewhere
<1>7. ASSUME NEW asked, NEW o, NEW b
      PROVE  Before(asked, o, b)' <=> Before(asked, o, b)
  BY <1>3 DEF Before
<1>8. AskersBefore'
  <2> SUFFICES ASSUME NEW r \in Slots, NEW b \in Addresses,
                      job'[r].pc \in {"retire", "insert"}, job'[r].address = b
               PROVE  Before(job[r].asked, job[r].user, b)'
    BY DEF AskersBefore
  <2>1. CASE r = s
    <3>1. job'[r].asked = claims /\ job'[r].user = u /\ b = a
      BY <1>2, <1>4, <2>1
    <3> QED BY <1>3, <1>6, <3>1 DEF Before
  <2>2. CASE r # s
    <3>1. job'[r] = job[r]
      BY <1>4, <2>2
    <3>2. Before(job[r].asked, job[r].user, b)
      BY <3>1 DEF Rivals, AskersBefore
    <3> QED BY <1>3, <3>1, <3>2 DEF Before
  <2> QED BY <2>1, <2>2
<1>9. IssuedBefore'
  BY <1>3 DEF Rivals, IssuedBefore, Before
<1>10. SeenIsIssued'
  <2>1. j.pc = "retire"
    BY <1>1, AskedFields
  <2> QED BY <1>3, <1>4, <2>1 DEF Rivals, SeenIsIssued, Issued
<1> QED BY <1>8, <1>9, <1>10 DEF Rivals

LEMMA RivalsInsert ==
  ASSUME TypeOK, Rivals, NEW s \in Slots, InsertChallenge(s)
  PROVE  Rivals'
<1>0. ChallengesKept
  BY KeptNext DEF Next
<1>1. PICK n \in Nonces \ Issued :
         /\ challenge'[n] = Fresh(job[s], s)
         /\ \A o \in Nonces \ {n} :
              challenge'[o] = IF o \in job[s].seen THEN Consumed(o) ELSE challenge[o]
         /\ challenge' \in [Nonces -> Challenge]
  BY InsertWrites
<1>2. job[s].pc = "insert" /\ Do(s, Idle) /\ UNCHANGED <<wallet, claims>>
  BY DEF InsertChallenge, At
<1>3. challenge'[n].user = job[s].user /\ challenge'[n].address = job[s].address
      /\ challenge'[n].asked = job[s].asked
  BY <1>1, FreshFields DEF TypeOK
<1>4. AskersBefore'
  <2>1. \A r \in Slots : job'[r].pc \in {"retire", "insert"} => job'[r] = job[r]
    BY <1>2, OneJob DEF Idle
  <2> QED BY <1>2, <2>1 DEF Rivals, AskersBefore, Before
<1>5. IssuedBefore'
  <2> SUFFICES ASSUME NEW o \in Nonces, NEW a \in Addresses, challenge'[o].state # "unissued",
                      challenge'[o].address = a
               PROVE  Before(challenge[o].asked, challenge[o].user, a)'
    BY DEF IssuedBefore
  <2>1. CASE o = n
    <3>1. Before(job[s].asked, job[s].user, a)
      BY <1>2, <1>3, <2>1 DEF Rivals, AskersBefore
    <3> QED BY <1>2, <1>3, <2>1, <3>1 DEF Before
  <2>2. CASE o # n
    <3>1. /\ challenge'[o].asked = challenge[o].asked /\ challenge'[o].user = challenge[o].user
          /\ challenge'[o].address = challenge[o].address
      BY <1>1, <2>2, ConsumedFields
    <3>2. challenge[o].state # "unissued" \/ o \in job[s].seen
      BY <1>1, <2>2
    <3>3. challenge[o].state # "unissued"
      BY <1>2, <3>2 DEF Rivals, SeenIsIssued, Issued
    <3>4. Before(challenge[o].asked, challenge[o].user, a)
      BY <3>1, <3>3 DEF Rivals, IssuedBefore
    <3> QED BY <1>2, <3>1, <3>4 DEF Before
  <2> QED BY <2>1, <2>2
<1>6. SeenIsIssued'
  <2>1. \A r \in Slots : job'[r].pc = "insert" => job'[r] = job[r]
    BY <1>2, OneJob DEF Idle
  <2> QED BY <1>0, <2>1, IssuedOnly DEF Rivals, SeenIsIssued
<1> QED BY <1>4, <1>5, <1>6 DEF Rivals

LEMMA RivalsNext == TypeOK /\ Proving /\ Rivals /\ [Next]_vars => Rivals'
<1> SUFFICES ASSUME TypeOK, Proving, Rivals, [Next]_vars PROVE Rivals'
  OBVIOUS
<1>0. claims \in Nat /\ ChallengesKept
  BY KeptNext DEF TypeOK
<1>1. CASE \E s \in Slots : InsertChallenge(s)
  BY <1>1, RivalsInsert
<1>2. CASE \E s \in Slots, u \in Users, a \in Addresses : AskChallenge(s, u, a)
  BY <1>2, RivalsAsk
<1>3. CASE /\ ~\E s \in Slots : InsertChallenge(s)
           /\ ~\E s \in Slots, u \in Users, a \in Addresses : AskChallenge(s, u, a)
  <2>1. \A n \in Nonces : challenge'[n].state # "unissued" => challenge[n].state # "unissued"
    BY <1>3, NothingIssued
  <2>2. ASSUME NEW s \in Slots, NEW j, Do(s, j), j.pc \notin {"retire", "insert"}, WalletsMove
        PROVE  Rivals'
    <3>1. \A r \in Slots : AskerStays(r) /\ SeenStays(r)
      BY <2>2, OneJob DEF AskerStays, SeenStays
    <3> QED BY <1>0, <2>1, <2>2, <3>1, RivalsStay
  <2>3. Idle.pc = "idle"
    BY DEF Idle
  <2>5. ASSUME NEW s \in Slots, NEW u \in Users, NEW a \in Addresses, ReadChallenge(s, u, a)
        PROVE  Rivals'
    <3>1. PICK n \in Nonces : Do(s, Checking(u, a, n))
      BY <2>5 DEF ReadChallenge, Checking, Latest, Open
    <3>2. WalletsMove
      BY <2>5 DEF ReadChallenge, WalletsMove
    <3> QED BY <2>2, <3>1, <3>2, CheckFields
  <2>6. ASSUME NEW s \in Slots, Retire(s)
        PROVE  Rivals'
    <3>1. PICK j : /\ j = [job[s] EXCEPT !.pc = "insert", !.seen = Open(job[s].user, job[s].address)]
                   /\ Do(s, j)
      BY <2>6 DEF Retire
    <3>2. Open(job[s].user, job[s].address) \in SUBSET Nonces
      BY DEF Open
    <3>3. /\ j.user = job[s].user /\ j.address = job[s].address /\ j.asked = job[s].asked
          /\ j.seen = Open(job[s].user, job[s].address)
      BY <3>1, <3>2, RetiredFields
    <3>4. j.seen \subseteq Issued
      BY <3>3 DEF Open, Issued
    <3>5. job[s].pc = "retire" /\ WalletsMove
      BY <2>6 DEF Retire, At, WalletsMove
    <3>6. job'[s] = j /\ \A r \in Slots \ {s} : job'[r] = job[r]
      BY <3>1, OneJob
    <3>7. AskerStays(s) /\ SeenStays(s)
      BY <3>3, <3>4, <3>5, <3>6 DEF AskerStays, SeenStays
    <3>8. \A r \in Slots \ {s} : AskerStays(r) /\ SeenStays(r)
      BY <3>6 DEF AskerStays, SeenStays
    <3> QED BY <1>0, <2>1, <3>5, <3>7, <3>8, RivalsStay
  <2>7. ASSUME NEW s \in Slots, RejectSignature(s) \/ Stop(s)
        PROVE  Rivals'
    <3>1. Do(s, Idle) /\ WalletsMove
      BY <2>7 DEF RejectSignature, Stop, WalletsMove
    <3> QED BY <2>2, <2>3, <3>1
  <2>8. ASSUME NEW s \in Slots, AcceptSignature(s) \/ ReadWallet(s)
        PROVE  Rivals'
    <3>1. PICK pc \in {"read", "create", "update"} : Do(s, [job[s] EXCEPT !.pc = pc])
      BY <2>8 DEF AcceptSignature, ReadWallet
    <3>2. [job[s] EXCEPT !.pc = pc].pc = pc
      BY MovedFields
    <3>3. WalletsMove
      BY <2>8 DEF AcceptSignature, ReadWallet, WalletsMove
    <3> QED BY <2>2, <3>1, <3>2, <3>3
  <2>9. ASSUME NEW s \in Slots, WriteWallet(s)
        PROVE  Rivals'
    <3>1. PICK k : /\ k = <<job[s].user, job[s].address>>
                   /\ wallet' = [wallet EXCEPT ![k] = [status |-> "verified", proof |-> job[s].nonce,
                                                       since |-> claims + 1]]
                   /\ claims' = claims + 1 /\ Do(s, Idle)
      BY <2>9 DEF WriteWallet
    <3>2. ASSUME NEW o \in Users, NEW a \in Addresses
          PROVE  wallet'[<<o, a>>] = wallet[<<o, a>>] \/ wallet'[<<o, a>>].since = claims + 1
      BY <3>1 DEF TypeOK
    <3>3. WalletsMove
      BY <3>1, <3>2 DEF WalletsMove
    <3> QED BY <2>2, <2>3, <3>1, <3>3
  <2>10. ASSUME job' = job, WalletsMove
         PROVE  Rivals'
    <3>1. \A r \in Slots : AskerStays(r) /\ SeenStays(r)
      BY <2>10 DEF AskerStays, SeenStays
    <3> QED BY <1>0, <2>1, <2>10, <3>1, RivalsStay
  <2>11. ASSUME NEW u \in Users, NEW a \in Addresses, AddWallet(u, a) \/ DeleteWallet(u, a)
         PROVE  Rivals'
    <3>1. \A o \in Users, b \in Addresses : wallet'[<<o, b>>].status = "verified" =>
            wallet'[<<o, b>>] = wallet[<<o, b>>]
      BY <2>11 DEF AddWallet, DeleteWallet, NoWallet, TypeOK
    <3>2. job' = job /\ claims' = claims
      BY <2>11 DEF AddWallet, DeleteWallet
    <3> QED BY <2>10, <3>1, <3>2 DEF WalletsMove
  <2>12. ASSUME NEW n \in Nonces, Expire(n)
         PROVE  Rivals'
    BY <2>10, <2>12 DEF Expire, WalletsMove
  <2>13. CASE UNCHANGED vars
    BY <2>10, <2>13 DEF vars, WalletsMove
  <2> QED BY <1>3, <2>5, <2>6, <2>7, <2>8, <2>9, <2>11, <2>12, <2>13 DEF Next
<1> QED BY <1>1, <1>2, <1>3

(* Two accounts hold one address verified only if each asked before the     *)
(* other was.                                                               *)
THEOREM RivalsAskedBeforeAlways == Spec => []RivalsAskedBefore
<1>1. Init => TypeOK /\ Proving /\ Rivals
  BY TypeInit, ProvingInit, RivalsInit
<1>2. TypeOK /\ Proving /\ Rivals /\ [Next]_vars => (TypeOK /\ Proving /\ Rivals)'
  BY TypeNext, ProvingNext, RivalsNext
<1>3. Proving /\ Rivals => RivalsAskedBefore
  <2> SUFFICES ASSUME Proving, Rivals, NEW u \in Users, NEW o \in Users \ {u}, NEW a \in Addresses,
                      wallet[<<u, a>>].status = "verified", wallet[<<o, a>>].status = "verified"
               PROVE  challenge[wallet[<<u, a>>].proof].asked < wallet[<<o, a>>].since
    BY DEF RivalsAskedBefore
  <2>1. IsFor(wallet[<<u, a>>].proof, u, a)
    BY DEF Proving, HoldsProved, ProvedFor
  <2> QED BY <2>1 DEF Rivals, IssuedBefore, Before, IsFor
<1> QED BY <1>1, <1>2, <1>3, PTL DEF Spec
=============================================================================
