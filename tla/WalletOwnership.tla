--------------------------- MODULE WalletOwnership ---------------------------
(****************************************************************************)
(* Proving that a wallet is one's own: a nonce is issued for an address and *)
(* an account, signed, and spent; the wallet rows the proofs and the plain  *)
(* form leave behind.                                                       *)
(*                                                                          *)
(* Whether the signature over the nonce is the address's is an input.  One  *)
(* account's rows are one per address, as the unique key has it.            *)
(****************************************************************************)
EXTENDS Naturals, FiniteSets

CONSTANTS
  Users, Addresses,
  Nonces,    \* the challenges there may ever be
  Slots,     \* requests under way; each takes one after another
  None

ASSUME ConstantsAssumption ==
  /\ None \notin Users \cup Addresses \cup Nonces
  /\ IsFiniteSet(Nonces)

VARIABLES
  challenge,  \* per nonce: WalletChallenge, and who consumed it with a good signature (history)
  wallet,     \* per account and address: its Wallet row
  claims,     \* times a wallet was marked verified (history)
  job         \* per request: how far it has come

vars == <<challenge, wallet, claims, job>>

Unissued == [user |-> None, address |-> None, state |-> "unissued", expired |-> FALSE,
             number |-> 0, asked |-> 0, by |-> None, proofs |-> [s \in Slots |-> 0]]
NoWallet == [status |-> "none", proof |-> None, since |-> 0]
Idle == [pc |-> "idle", user |-> None, address |-> None, nonce |-> None, seen |-> {}, asked |-> 0]

Init ==
  /\ challenge = [n \in Nonces |-> Unissued]
  /\ wallet = [k \in Users \X Addresses |-> NoWallet]
  /\ claims = 0
  /\ job = [s \in Slots |-> Idle]

-----------------------------------------------------------------------------
Open(u, a) ==
  {n \in Nonces : challenge[n].user = u /\ challenge[n].address = a /\ challenge[n].state = "open"}
Issued == {n \in Nonces : challenge[n].state # "unissued"}
Latest(u, a) == {n \in Open(u, a) : \A o \in Open(u, a) : challenge[o].number <= challenge[n].number}

ClaimedElsewhere(u, a) == \E o \in Users \ {u} : wallet[<<o, a>>].status = "verified"

At(s, pc) == job[s].pc = pc
Do(s, j) == job' = [job EXCEPT ![s] = j]

(* Wrong on purpose: nobody asks who has proved it.                         *)
AskBlindly(s, u, a) ==
  /\ At(s, "idle")
  /\ Do(s, [Idle EXCEPT !.pc = "retire", !.user = u, !.address = a, !.asked = claims])
  /\ UNCHANGED <<challenge, wallet, claims>>

(* Asked for only while no other account has proved the address.            *)
AskChallenge(s, u, a) ==
  /\ At(s, "idle")
  /\ ~ClaimedElsewhere(u, a)
  /\ Do(s, [Idle EXCEPT !.pc = "retire", !.user = u, !.address = a, !.asked = claims])
  /\ UNCHANGED <<challenge, wallet, claims>>

(* Wrong on purpose: what the account asked for before stays open.          *)
RetireNothing(s) ==
  /\ At(s, "retire")
  /\ Do(s, [job[s] EXCEPT !.pc = "insert"])
  /\ UNCHANGED <<challenge, wallet, claims>>

(* The transaction's first statement marks the earlier ones it can see ...  *)
Retire(s) ==
  /\ At(s, "retire")
  /\ Do(s, [job[s] EXCEPT !.pc = "insert", !.seen = Open(job[s].user, job[s].address)])
  /\ UNCHANGED <<challenge, wallet, claims>>

(* ... and its second adds the new one, all visible at the commit.          *)
InsertChallenge(s) ==
  LET j == job[s]
  IN  /\ At(s, "insert")
      /\ \E n \in Nonces \ Issued :
           challenge' = [o \in Nonces |->
             IF o = n THEN [Unissued EXCEPT !.user = j.user, !.address = j.address, !.state = "open",
                                            !.number = Cardinality(Issued) + 1, !.asked = j.asked, !.by = s]
             ELSE IF o \in j.seen THEN [challenge[o] EXCEPT !.state = "consumed"]
             ELSE challenge[o]]
      /\ Do(s, Idle)
      /\ UNCHANGED <<wallet, claims>>

(* The newest open one of this account and address, while it lasts.         *)
ReadChallenge(s, u, a) ==
  /\ At(s, "idle")
  /\ \E n \in Latest(u, a) :
       /\ ~challenge[n].expired
       /\ Do(s, [Idle EXCEPT !.pc = "check", !.user = u, !.address = a, !.nonce = n])
  /\ UNCHANGED <<challenge, wallet, claims>>

(* Spent either way; a signature that does not fit ends there.              *)
RejectSignature(s) ==
  /\ At(s, "check")
  /\ challenge' = [challenge EXCEPT ![job[s].nonce].state = "consumed"]
  /\ Do(s, Idle)
  /\ UNCHANGED <<wallet, claims>>

(* Wrong on purpose: a good signature leaves its nonce open.                *)
AcceptKeeping(s) ==
  LET j == job[s]
  IN  /\ At(s, "check")
      /\ challenge' = [challenge EXCEPT ![j.nonce].proofs[s] = @ + 1]
      /\ Do(s, [j EXCEPT !.pc = IF wallet[<<j.user, j.address>>] = NoWallet THEN "create" ELSE "update"])
      /\ UNCHANGED <<wallet, claims>>

AcceptSignature(s) ==
  LET j == job[s]
  IN  /\ At(s, "check")
      /\ challenge' = [challenge EXCEPT ![j.nonce].state = "consumed", ![j.nonce].proofs[s] = @ + 1]
      /\ Do(s, [j EXCEPT !.pc = "read"])
      /\ UNCHANGED <<wallet, claims>>

(* Then the account's own row for the address is looked for ...             *)
ReadWallet(s) ==
  LET j == job[s]
  IN  /\ At(s, "read")
      /\ Do(s, [j EXCEPT !.pc = IF wallet[<<j.user, j.address>>] = NoWallet THEN "create" ELSE "update"])
      /\ UNCHANGED <<challenge, wallet, claims>>

(* ... and written, verified; the unique key and the id decide whether the  *)
(* write still finds things as they were read.                              *)
WriteWallet(s) ==
  LET j == job[s]
      k == <<j.user, j.address>>
  IN  /\ \/ At(s, "create") /\ wallet[k] = NoWallet
         \/ At(s, "update") /\ wallet[k] # NoWallet
      /\ wallet' = [wallet EXCEPT ![k] = [status |-> "verified", proof |-> j.nonce, since |-> claims + 1]]
      /\ claims' = claims + 1
      /\ Do(s, Idle)
      /\ UNCHANGED challenge

(* POST /api/wallets: a row without a proof.                                *)
AddWallet(u, a) ==
  /\ wallet[<<u, a>>] = NoWallet
  /\ wallet' = [wallet EXCEPT ![<<u, a>>] = [NoWallet EXCEPT !.status = "unverified"]]
  /\ UNCHANGED <<challenge, claims, job>>

DeleteWallet(u, a) ==
  /\ wallet[<<u, a>>] # NoWallet
  /\ wallet' = [wallet EXCEPT ![<<u, a>>] = NoWallet]
  /\ UNCHANGED <<challenge, claims, job>>

(* A request goes no further: its process stops, or its write throws.       *)
Stop(s) ==
  /\ job[s] # Idle
  /\ Do(s, Idle)
  /\ UNCHANGED <<challenge, wallet, claims>>

Expire(n) ==
  /\ challenge[n].state = "open" /\ ~challenge[n].expired
  /\ challenge' = [challenge EXCEPT ![n].expired = TRUE]
  /\ UNCHANGED <<wallet, claims, job>>

Next ==
  \/ \E s \in Slots :
       \/ \E u \in Users, a \in Addresses : AskChallenge(s, u, a) \/ ReadChallenge(s, u, a)
       \/ Retire(s) \/ InsertChallenge(s)
       \/ RejectSignature(s) \/ AcceptSignature(s) \/ ReadWallet(s) \/ WriteWallet(s) \/ Stop(s)
  \/ \E u \in Users, a \in Addresses : AddWallet(u, a) \/ DeleteWallet(u, a)
  \/ \E n \in Nonces : Expire(n)

Spec == Init /\ [][Next]_vars

-----------------------------------------------------------------------------
(* Properties.                                                              *)

Challenge == [user : Users \cup {None}, address : Addresses \cup {None},
              state : {"unissued", "open", "consumed"}, expired : BOOLEAN, number : Nat, asked : Nat,
              by : Slots \cup {None}, proofs : [Slots -> Nat]]
Wallet == [status : {"none", "unverified", "verified"}, proof : Nonces \cup {None}, since : Nat]
Job == [pc : {"idle", "retire", "insert", "check", "read", "create", "update"}, user : Users \cup {None},
        address : Addresses \cup {None}, nonce : Nonces \cup {None}, seen : SUBSET Nonces, asked : Nat]

(* Values of the right kind.                                                *)
TypeOK ==
  /\ challenge \in [Nonces -> Challenge]
  /\ wallet \in [Users \X Addresses -> Wallet]
  /\ claims \in Nat
  /\ job \in [Slots -> Job]

(* "True only once a signature recovered to this address": a verified row   *)
(* stands on a spent nonce of its own account and address that was proved.  *)
VerifiedIsProved ==
  \A u \in Users, a \in Addresses : wallet[<<u, a>>].status = "verified" =>
    \E n \in Nonces : /\ wallet[<<u, a>>].proof = n
                      /\ challenge[n].user = u /\ challenge[n].address = a
                      /\ challenge[n].state = "consumed"
                      /\ \E s \in Slots : challenge[n].proofs[s] > 0

(* "Exactly one challenge is ever live", as far as it goes: two open ones   *)
(* of an account and an address come from requests that overlapped.         *)
OpenChallengesOverlapped ==
  \A n, o \in Nonces :
    /\ challenge[n].state = "open" /\ challenge[o].state = "open"
    /\ challenge[n].user = challenge[o].user /\ challenge[n].address = challenge[o].address
    => n = o \/ challenge[n].by # challenge[o].by

(* A nonce is good once: of requests that come in turn only one proves      *)
(* with it.                                                                 *)
ProvedOnceInTurn == \A n \in Nonces : \A s \in Slots : challenge[n].proofs[s] <= 1

(* "The same address in two accounts would make verified meaningless": two  *)
(* accounts come to hold one only if each had asked for its challenge       *)
(* before the other was verified.                                           *)
RivalsAskedBefore ==
  \A u, o \in Users, a \in Addresses :
    /\ u # o
    /\ wallet[<<u, a>>].status = "verified" /\ wallet[<<o, a>>].status = "verified"
    => challenge[wallet[<<u, a>>].proof].asked < wallet[<<o, a>>].since
=============================================================================
