--------------------------- MODULE AccessControl ---------------------------
(***************************************************************************)
(* Who may operate what: the access list, the accounts, and the sessions    *)
(* they hold.  Sign-in after a redeemed code, registration, the route that  *)
(* opens a panel to anyone while AUTH_OPEN_ACCESS is set, the system        *)
(* panel's two screens that change the list and the accounts, and the       *)
(* profile form that changes an address.                                    *)
(*                                                                          *)
(* A handler decides from what it reads and writes in later steps, list and *)
(* account apart; each step is what one statement, or an update with the    *)
(* revocation after it, does.  The two kinds of merchant are one role, and  *)
(* BANK stands for ADMIN as well.  All usable sessions of an account are    *)
(* one: a permission is looked up in the account at every request.          *)
(***************************************************************************)

CONSTANTS
  Emails, Users,   \* addresses, and the accounts there may ever be
  Root, RootEmail, \* the seeded administrator
  Slots,           \* requests under way; each takes one after another
  OpenAccess,      \* AUTH_OPEN_ACCESS
  Demo,            \* per role: the addresses of the accounts that stand for it
  None

ASSUME ConstantsAssumption ==
  /\ Root \in Users /\ RootEmail \in Emails
  /\ None \notin Emails \cup Users
  /\ OpenAccess \in BOOLEAN
  /\ Demo \in [{"MERCHANT", "BANK"} -> SUBSET Emails]

VARIABLES
  entry,      \* per address: the role AllowedEmail lists it with
  account,    \* per user: the row
  session,    \* per user: whether a usable session exists
  restricted, \* Settings.registrationRestricted
  job,        \* per request: how far it has come
  listed,     \* every address and staff role the list ever held it for (history)
  held,       \* per user: every address the account ever had (history)
  made,       \* accounts open access made, and as what (history)
  adopted,    \* per user: whether open access opened a session of it (history)
  torn        \* a request stopped between two of its steps (history)

vars == <<entry, account, session, restricted, job, listed, held, made, adopted, torn>>

Staff == {"BANK", "SUPERADMIN"}
Roles == Staff \cup {"MERCHANT"}

NoAccount == [email |-> None, role |-> "MERCHANT", disabled |-> FALSE]
Idle == [pc |-> "idle", user |-> None, email |-> None, role |-> "MERCHANT"]

Init ==
  /\ entry = [e \in Emails |-> IF e = RootEmail THEN "SUPERADMIN" ELSE "unlisted"]
  /\ account = [u \in Users |-> IF u = Root
                  THEN [email |-> RootEmail, role |-> "SUPERADMIN", disabled |-> FALSE]
                  ELSE NoAccount]
  /\ session = [u \in Users |-> FALSE]
  /\ restricted = FALSE
  /\ job = [s \in Slots |-> Idle]
  /\ listed = {<<RootEmail, "SUPERADMIN">>}
  /\ held = [u \in Users |-> IF u = Root THEN {RootEmail} ELSE {}]
  /\ made = {}
  /\ adopted = [u \in Users |-> FALSE]
  /\ torn = FALSE

-----------------------------------------------------------------------------
Known(u) == account[u].email # None
Holders(e) == {u \in Users : account[u].email = e}
Usable(u) == session[u] /\ ~account[u].disabled
Administers(u) == Usable(u) /\ account[u].role = "SUPERADMIN"

At(s, pc) == job[s].pc = pc
Do(s, j) == job' = [job EXCEPT ![s] = j]
Job(pc, u, e, r) == [pc |-> pc, user |-> u, email |-> e, role |-> r]

List(e, r) ==
  /\ entry' = [entry EXCEPT ![e] = r]
  /\ listed' = listed \cup ({e} \X (Staff \cap {r}))

(* revokeAllSessions.                                                       *)
Revoke(u) ==
  /\ session' = [session EXCEPT ![u] = FALSE]
  /\ adopted' = [adopted EXCEPT ![u] = FALSE]

-----------------------------------------------------------------------------
(* Signing in: the address has just redeemed a code or a link.              *)

SignIn(s, e) ==
  /\ At(s, "idle")
  /\ \/ /\ Holders(e) = {}
        /\ Do(s, Job("admit", None, e, "MERCHANT"))
     \/ \E u \in Holders(e) :
          /\ ~account[u].disabled
          /\ Do(s, Job("admit", u, e, account[u].role))
  /\ UNCHANGED <<entry, account, session, restricted, listed, held, made, adopted, torn>>

(* admits: the roles this address may sign in as, none when it is refused.  *)
(* A merchant who has an account stays what it is.                          *)
Verdict(e) ==
  IF entry[e] \in Staff THEN {entry[e]}
  ELSE IF \E u \in Holders(e) : account[u].role \in Staff THEN {}
  ELSE IF Holders(e) # {} THEN {"as it is"}
  ELSE IF restricted /\ entry[e] = "unlisted" THEN {}
  ELSE {"MERCHANT"}

(* The list is asked again at the door; the account keeps the role it was   *)
(* read with unless the verdict names another.                              *)
Admit(s) ==
  LET j == job[s]
  IN  /\ At(s, "admit")
      /\ \/ Verdict(j.email) = {} /\ Do(s, Idle)
         \/ \E r \in Verdict(j.email) :
              Do(s, IF j.user # None /\ r \in {"as it is", j.role}
                      THEN Job("open", j.user, j.email, j.role)
                      ELSE Job("enter", j.user, j.email, IF r = "as it is" THEN "MERCHANT" ELSE r))
      /\ UNCHANGED <<entry, account, session, restricted, listed, held, made, adopted, torn>>

(* A new account, unless the address was taken meanwhile ...                *)
CreateAccount(s, u) ==
  LET j == job[s]
  IN  /\ At(s, "enter") /\ j.user = None
      /\ ~Known(u) /\ Holders(j.email) = {}
      /\ account' = [account EXCEPT ![u] = [email |-> j.email, role |-> j.role, disabled |-> FALSE]]
      /\ held' = [held EXCEPT ![u] = @ \cup {j.email}]
      /\ Do(s, Job("open", u, j.email, j.role))
      /\ UNCHANGED <<entry, session, restricted, listed, made, adopted, torn>>

(* ... or the old one in its new role, its sessions cut.                    *)
TakeRole(s) ==
  LET j == job[s]
  IN  /\ At(s, "enter") /\ j.user # None
      /\ account' = [account EXCEPT ![j.user].role = j.role]
      /\ Revoke(j.user)
      /\ Do(s, [j EXCEPT !.pc = "open"])
      /\ UNCHANGED <<entry, restricted, listed, held, made, torn>>

OpenSession(s) ==
  /\ At(s, "open")
  /\ session' = [session EXCEPT ![job[s].user] = TRUE]
  /\ Do(s, Idle)
  /\ UNCHANGED <<entry, account, restricted, listed, held, made, adopted, torn>>

(* Registration asks for no code and makes a merchant of whoever is new.    *)
Register(s, e) ==
  /\ At(s, "idle")
  /\ Holders(e) = {}
  /\ restricted => entry[e] # "unlisted"
  /\ Do(s, Job("enter", None, e, "MERCHANT"))
  /\ UNCHANGED <<entry, account, session, restricted, listed, held, made, adopted, torn>>

EndSession(u) ==
  /\ session[u]
  /\ Revoke(u)
  /\ UNCHANGED <<entry, account, restricted, job, listed, held, made, torn>>

-----------------------------------------------------------------------------
(* POST /api/auth/portal: with AUTH_OPEN_ACCESS "the link is the            *)
(* credential", and the list is not asked.  There is no panel of an         *)
(* administrator among those it opens.                                      *)

(* accountFor: the account at a demo address, disabled or not, else one     *)
(* that is not disabled, else a new one.  A role stands for two kinds here, *)
(* so having an account of the role is not having one of the kind.          *)
AskPortal(s, r, e) ==
  /\ At(s, "idle") /\ OpenAccess
  /\ \/ \E u \in Users :
          /\ Known(u) /\ account[u].role = r
          /\ account[u].email = e \/ ~account[u].disabled
          /\ Do(s, Job("adopt", u, account[u].email, r))
     \/ Do(s, Job("represent", None, e, r))
  /\ UNCHANGED <<entry, account, session, restricted, listed, held, made, adopted, torn>>

Represent(s, u) ==
  LET j == job[s]
  IN  /\ At(s, "represent")
      /\ ~Known(u) /\ Holders(j.email) = {}
      /\ account' = [account EXCEPT ![u] = [email |-> j.email, role |-> j.role, disabled |-> FALSE]]
      /\ held' = [held EXCEPT ![u] = @ \cup {j.email}]
      /\ made' = made \cup ({u} \X (Staff \cap {j.role}))
      /\ Do(s, Job("adopt", u, j.email, j.role))
      /\ UNCHANGED <<entry, session, restricted, listed, adopted, torn>>

Adopt(s) ==
  LET u == job[s].user
  IN  /\ At(s, "adopt")
      /\ session' = [session EXCEPT ![u] = TRUE]
      /\ adopted' = [adopted EXCEPT ![u] = TRUE]
      /\ Do(s, Idle)
      /\ UNCHANGED <<entry, account, restricted, listed, held, made, torn>>

-----------------------------------------------------------------------------
(* POST /api/system/access, by an administrator.                            *)

SetRestricted(s, me) ==
  /\ At(s, "idle") /\ Administers(me)
  /\ restricted' = ~restricted
  /\ UNCHANGED <<entry, account, session, job, listed, held, made, adopted, torn>>

(* Wrong on purpose: one's own address is not asked about.                  *)
AskAccessOfAnyone(s, me, e) ==
  /\ At(s, "idle") /\ Administers(me)
  /\ \/ entry[e] = "unlisted" /\ \E r \in Roles : Do(s, Job("add", None, e, r))
     \/ entry[e] # "unlisted" /\ \E r \in Roles \ {entry[e]} : Do(s, Job("change", None, e, r))
     \/ entry[e] # "unlisted" /\ Do(s, Job("remove", None, e, "MERCHANT"))
  /\ UNCHANGED <<entry, account, session, restricted, listed, held, made, adopted, torn>>

(* Not one's own address, except to add it.                                 *)
AskAccess(s, me, e) ==
  /\ At(s, "idle") /\ Administers(me)
  /\ \/ entry[e] = "unlisted" /\ \E r \in Roles : Do(s, Job("add", None, e, r))
     \/ /\ entry[e] # "unlisted" /\ account[me].email # e
        /\ \/ \E r \in Roles \ {entry[e]} : Do(s, Job("change", None, e, r))
           \/ Do(s, Job("remove", None, e, "MERCHANT"))
  /\ UNCHANGED <<entry, account, session, restricted, listed, held, made, adopted, torn>>

(* Only a staff entry reaches the account it is added for.                  *)
AddEntry(s) ==
  LET j == job[s]
  IN  /\ At(s, "add")
      /\ entry[j.email] = "unlisted"
      /\ List(j.email, j.role)
      /\ Do(s, IF j.role \in Staff THEN [j EXCEPT !.pc = "apply"] ELSE Idle)
      /\ UNCHANGED <<account, session, restricted, held, made, adopted, torn>>

ChangeEntry(s) ==
  LET j == job[s]
  IN  /\ At(s, "change")
      /\ entry[j.email] # "unlisted"
      /\ List(j.email, j.role)
      /\ Do(s, [j EXCEPT !.pc = "apply"])
      /\ UNCHANGED <<account, session, restricted, held, made, adopted, torn>>

RemoveEntry(s) ==
  LET j == job[s]
  IN  /\ At(s, "remove")
      /\ entry[j.email] # "unlisted"
      /\ entry' = [entry EXCEPT ![j.email] = "unlisted"]
      /\ Do(s, [j EXCEPT !.pc = "cut"])
      /\ UNCHANGED <<account, session, restricted, listed, held, made, adopted, torn>>

(* applyToAccount: the account at the address takes the role, or loses its  *)
(* sessions.                                                                *)
Apply(s) ==
  LET j == job[s]
      users == {u \in Holders(j.email) : account[u].role # j.role}
  IN  /\ At(s, "apply")
      /\ account' = [u \in Users |-> IF u \in users THEN [account[u] EXCEPT !.role = j.role] ELSE account[u]]
      /\ session' = [u \in Users |-> session[u] /\ u \notin users]
      /\ adopted' = [u \in Users |-> adopted[u] /\ u \notin users]
      /\ Do(s, Idle)
      /\ UNCHANGED <<entry, restricted, listed, held, made, torn>>

(* Wrong on purpose: the session is left to run out.                        *)
CutNothing(s) ==
  /\ At(s, "cut")
  /\ Do(s, Idle)
  /\ UNCHANGED <<entry, account, session, restricted, listed, held, made, adopted, torn>>

Cut(s) ==
  /\ At(s, "cut")
  /\ session' = [u \in Users |-> session[u] /\ u \notin Holders(job[s].email)]
  /\ adopted' = [u \in Users |-> adopted[u] /\ u \notin Holders(job[s].email)]
  /\ Do(s, Idle)
  /\ UNCHANGED <<entry, account, restricted, listed, held, made, torn>>

-----------------------------------------------------------------------------
(* PATCH /api/system/users, by an administrator, on another account.        *)

AskUser(s, me, u) ==
  LET a == account[u]
  IN  /\ At(s, "idle") /\ Administers(me)
      /\ Known(u) /\ u # me
      /\ \/ ~a.disabled /\ Do(s, Job("disable", u, a.email, a.role))
         \/ Do(s, Job("enable", u, a.email, a.role))
         \/ \E r \in Roles \ {a.role} : Do(s, Job("assign", u, a.email, r))
      /\ UNCHANGED <<entry, account, session, restricted, listed, held, made, adopted, torn>>

Disable(s) ==
  LET u == job[s].user
  IN  /\ At(s, "disable")
      /\ account' = [account EXCEPT ![u].disabled = TRUE]
      /\ Revoke(u)
      /\ Do(s, Idle)
      /\ UNCHANGED <<entry, restricted, listed, held, made, torn>>

Enable(s) ==
  LET u == job[s].user
  IN  /\ At(s, "enable")
      /\ account' = [account EXCEPT ![u].disabled = FALSE]
      /\ Do(s, Idle)
      /\ UNCHANGED <<entry, session, restricted, listed, held, made, adopted, torn>>

(* Wrong on purpose: the list is left out of it.                            *)
AssignQuietly(s) ==
  LET j == job[s]
  IN  /\ At(s, "assign")
      /\ UNCHANGED <<entry, listed>>
      /\ Do(s, [j EXCEPT !.pc = "take"])
      /\ UNCHANGED <<account, session, restricted, held, made, adopted, torn>>

(* Both records move together: the list first, at the address that was read *)
(* - an operator is put on it, a merchant's staff entry is taken off ...    *)
Assign(s) ==
  LET j == job[s]
  IN  /\ At(s, "assign")
      /\ IF j.role \in Staff THEN List(j.email, j.role)
         ELSE /\ entry' = [entry EXCEPT ![j.email] = IF @ \in Staff THEN "unlisted" ELSE @]
              /\ UNCHANGED listed
      /\ Do(s, [j EXCEPT !.pc = "take"])
      /\ UNCHANGED <<account, session, restricted, held, made, adopted, torn>>

(* ... then the account.                                                    *)
Take(s) ==
  LET j == job[s]
  IN  /\ At(s, "take")
      /\ account' = [account EXCEPT ![j.user].role = j.role]
      /\ Revoke(j.user)
      /\ Do(s, Idle)
      /\ UNCHANGED <<entry, restricted, listed, held, made, torn>>

-----------------------------------------------------------------------------
(* PATCH /api/profile: anyone signed in may name another address, if no     *)
(* other account has it.                                                    *)
AskRename(s, u, e) ==
  /\ At(s, "idle") /\ Usable(u)
  /\ Holders(e) = {}
  /\ Do(s, Job("rename", u, e, account[u].role))
  /\ UNCHANGED <<entry, account, session, restricted, listed, held, made, adopted, torn>>

Rename(s) ==
  LET j == job[s]
  IN  /\ At(s, "rename")
      /\ Holders(j.email) = {}
      /\ account' = [account EXCEPT ![j.user].email = j.email]
      /\ held' = [held EXCEPT ![j.user] = @ \cup {j.email}]
      /\ Do(s, Idle)
      /\ UNCHANGED <<entry, session, restricted, listed, made, adopted, torn>>

(* A request goes no further: its process stops, or its write throws - the  *)
(* address taken, the entry gone.                                           *)
Stop(s) ==
  /\ job[s] # Idle
  /\ torn' = TRUE
  /\ Do(s, Idle)
  /\ UNCHANGED <<entry, account, session, restricted, listed, held, made, adopted>>

Door(s) ==
  \/ \E e \in Emails : SignIn(s, e) \/ Register(s, e)
  \/ Admit(s) \/ (\E u \in Users : CreateAccount(s, u)) \/ TakeRole(s) \/ OpenSession(s)
OpenDoor(s) ==
  \/ \E r \in DOMAIN Demo : \E e \in Demo[r] : AskPortal(s, r, e)
  \/ (\E u \in Users : Represent(s, u)) \/ Adopt(s)
Panel(s) ==
  \/ \E me \in Users :
       \/ SetRestricted(s, me)
       \/ \E e \in Emails : AskAccess(s, me, e)
       \/ \E u \in Users : AskUser(s, me, u)
  \/ AddEntry(s) \/ ChangeEntry(s) \/ RemoveEntry(s) \/ Apply(s) \/ Cut(s)
  \/ Disable(s) \/ Enable(s) \/ Assign(s) \/ Take(s)
Profile(s) == (\E u \in Users, e \in Emails : AskRename(s, u, e)) \/ Rename(s)

Next ==
  \/ \E s \in Slots : Door(s) \/ OpenDoor(s) \/ Panel(s) \/ Profile(s) \/ Stop(s)
  \/ \E u \in Users : EndSession(u)

Spec == Init /\ [][Next]_vars

-----------------------------------------------------------------------------
(* Properties.                                                              *)

(* Values of the right kind.                                                *)
TypeOK ==
  /\ entry \in [Emails -> Roles \cup {"unlisted"}]
  /\ account \in [Users -> [email : Emails \cup {None}, role : Roles, disabled : BOOLEAN]]
  /\ session \in [Users -> BOOLEAN]
  /\ restricted \in BOOLEAN
  /\ job \in [Slots -> [pc : {"idle", "admit", "enter", "open", "add", "change", "remove", "apply",
                              "cut", "disable", "enable", "assign", "take", "rename",
                              "represent", "adopt"},
                        user : Users \cup {None}, email : Emails \cup {None}, role : Roles]]
  /\ listed \subseteq Emails \X Staff
  /\ held \in [Users -> SUBSET Emails]
  /\ made \subseteq Users \X Staff
  /\ adopted \in [Users -> BOOLEAN]
  /\ torn \in BOOLEAN

(* A staff entry "is the only thing that grants an operator role": whoever  *)
(* holds one had an address the list held it for, whatever overlaps or dies *)
(* - but for what open access made of an account when it made it, which is  *)
(* never an administrator.                                                  *)
OnlyTheListGrants ==
  \A u \in Users : account[u].role \in Staff =>
    \/ \E e \in held[u] : <<e, account[u].role>> \in listed
    \/ OpenAccess /\ account[u].role # "SUPERADMIN" /\ <<u, account[u].role>> \in made

(* What a request under way is about: its address, and for a new address    *)
(* of an account the one it leaves.                                         *)
Addresses(j) ==
  IF j.pc = "idle" THEN {}
  ELSE {j.email} \cup (IF j.pc = "rename" THEN {account[j.user].email} ELSE {})

(* Requests that do not meet: no two about one address, ...                 *)
AddressesApart == \A r, s \in Slots : r # s => Addresses(job[r]) \cap Addresses(job[s]) = {}

(* ... and no two of the system panel.  The code keeps neither.             *)
AtPanel(s) == job[s].pc \in {"add", "change", "remove", "apply", "cut", "disable", "enable", "assign", "take"}
PanelInTurn == \A r, s \in Slots : AtPanel(r) /\ AtPanel(s) => r = s

Apart == AddressesApart /\ PanelInTurn

(* "Taking an address off this list takes the panel away": between requests *)
(* that ran to their end, an operator who can still act is on the list in   *)
(* that role - unless the account changed its address, or is no             *)
(* administrator and open access opened a session of it not cut since.      *)
Quiet == ~torn /\ \A s \in Slots : job[s] = Idle
Renamed(u) == \E e, f \in held[u] : e # f
OperatorsListed ==
  Quiet => \A u \in Users : Usable(u) /\ account[u].role \in Staff =>
    \/ Renamed(u) \/ entry[account[u].email] = account[u].role
    \/ OpenAccess /\ account[u].role # "SUPERADMIN" /\ adopted[u]

(* "A locked door with the key inside": between such requests, somebody may *)
(* come in as an administrator - unless an account that was one changed its *)
(* address.                                                                 *)
SomeoneAdministers ==
  Quiet => \/ \E e \in Emails : /\ entry[e] = "SUPERADMIN"
                                /\ \A u \in Holders(e) : ~account[u].disabled
           \/ \E u \in Users : Renamed(u) /\ \E e \in held[u] : <<e, "SUPERADMIN">> \in listed

=============================================================================
