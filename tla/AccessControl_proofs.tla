------------------------ MODULE AccessControl_proofs ------------------------
(***************************************************************************)
(* Nobody holds an operator's role that neither the access list nor open    *)
(* access gave, for any number of accounts, addresses and requests,         *)
(* overlapping and dying, and no administrator is made by the latter.  When *)
(* none dies and no two are at one address, the list and the accounts agree *)
(* between them; and when the panel's also take turns, somebody may always  *)
(* come in as an administrator.                                             *)
(***************************************************************************)
EXTENDS AccessControl, TLAPS

USE ConstantsAssumption

(* A request under way has an address.                                      *)
HasAddress == \A s \in Slots : job[s].pc # "idle" => job[s].email \in Emails

Typing == TypeOK /\ HasAddress

JobType == [pc : {"idle", "admit", "enter", "open", "add", "change", "remove", "apply",
                  "cut", "disable", "enable", "assign", "take", "rename",
                  "represent", "adopt"},
            user : Users \cup {None}, email : Emails \cup {None}, role : Roles]
Account == [email : Emails \cup {None}, role : Roles, disabled : BOOLEAN]

LEMMA TypingInit == Init => Typing
<1> SUFFICES ASSUME Init PROVE Typing
  OBVIOUS
<1>1. job \in [Slots -> JobType] /\ \A s \in Slots : job[s].pc = "idle"
  BY DEF Init, Idle, JobType, Roles
<1>2. account \in [Users -> Account]
  BY DEF Init, NoAccount, Account, Roles, Staff
<1>3. entry \in [Emails -> Roles \cup {"unlisted"}] /\ listed \subseteq Emails \X Staff
  BY DEF Init, Roles, Staff
<1>4. held \in [Users -> SUBSET Emails]
  BY DEF Init
<1>5. made \subseteq Users \X Staff /\ adopted \in [Users -> BOOLEAN]
  BY DEF Init
<1> QED BY <1>1, <1>2, <1>3, <1>4, <1>5 DEF Init, Typing, TypeOK, HasAddress, JobType, Account

-----------------------------------------------------------------------------
(* Steps of one request that only move it on.                               *)

LEMMA GoesOn ==
  ASSUME Typing, NEW s \in Slots, NEW j \in JobType, j.pc # "idle" => j.email \in Emails, Do(s, j)
  PROVE  job' \in [Slots -> JobType] /\ HasAddress'
BY DEF Typing, TypeOK, HasAddress, Do, JobType

LEMMA IdleIsJob == Idle \in JobType /\ Idle.pc = "idle"
BY DEF Idle, JobType, Roles

LEMMA Ends ==
  ASSUME Typing, NEW s \in Slots, Do(s, Idle)
  PROVE  job' \in [Slots -> JobType] /\ HasAddress'
BY GoesOn, IdleIsJob

LEMMA Follows ==
  ASSUME Typing, NEW s \in Slots, job[s].pc # "idle",
         NEW pc \in {"open", "apply", "cut", "take"}, Do(s, [job[s] EXCEPT !.pc = pc])
  PROVE  job' \in [Slots -> JobType] /\ HasAddress'
<1>1. [job[s] EXCEPT !.pc = pc] \in JobType
  <2>1. job[s] \in JobType
    BY DEF Typing, TypeOK, JobType
  <2>2. pc \in {"idle", "admit", "enter", "open", "add", "change", "remove", "apply",
                "cut", "disable", "enable", "assign", "take", "rename", "represent", "adopt"}
    OBVIOUS
  <2> QED BY <2>1, <2>2 DEF JobType
<1>2. [job[s] EXCEPT !.pc = pc].email = job[s].email
  BY DEF Typing, TypeOK
<1>3. job[s].email \in Emails
  BY DEF Typing, HasAddress
<1> QED BY <1>1, <1>2, <1>3, GoesOn

(* The columns a step may write one by one.                                 *)
LEMMA AccountWritten ==
  ASSUME Typing, NEW u
  PROVE  /\ \A r \in Roles : [account EXCEPT ![u].role = r] \in [Users -> Account]
         /\ \A b \in BOOLEAN : [account EXCEPT ![u].disabled = b] \in [Users -> Account]
         /\ \A e \in Emails : [account EXCEPT ![u].email = e] \in [Users -> Account]
<1>1. account \in [Users -> Account]
  BY DEF Typing, TypeOK, Account
<1>2. ASSUME NEW a \in Account
      PROVE  /\ \A r \in Roles : [a EXCEPT !.role = r] \in Account
             /\ \A b \in BOOLEAN : [a EXCEPT !.disabled = b] \in Account
             /\ \A e \in Emails : [a EXCEPT !.email = e] \in Account
  BY DEF Account
<1> QED BY <1>1, <1>2

LEMMA ListTyped ==
  ASSUME Typing, NEW e \in Emails, NEW r \in Roles, List(e, r)
  PROVE  entry' \in [Emails -> Roles \cup {"unlisted"}] /\ listed' \subseteq Emails \X Staff
BY DEF List, Typing, TypeOK

-----------------------------------------------------------------------------
(* Types, action by action.                                                 *)

LEMMA DoorTyped ==
  ASSUME Typing, NEW s \in Slots, Door(s)
  PROVE  Typing'
<1>1. ASSUME NEW e \in Emails, SignIn(s, e) \/ Register(s, e)
      PROVE  Typing'
  <2>1. job' \in [Slots -> JobType] /\ HasAddress'
    <3>1. \A u \in Users : Job("admit", u, e, account[u].role) \in JobType
      BY DEF Job, JobType, Typing, TypeOK
    <3>2. Job("admit", None, e, "MERCHANT") \in JobType /\ Job("enter", None, e, "MERCHANT") \in JobType
      BY DEF Job, JobType, Roles
    <3>3. PICK j \in JobType : Do(s, j) /\ j.email = e
      BY <1>1, <3>1, <3>2 DEF SignIn, Register, Job, Holders
    <3> QED BY <3>3, GoesOn
  <2> QED BY <1>1, <2>1 DEF SignIn, Register, Typing, TypeOK, JobType
<1>2. CASE Admit(s)
  <2>1. job[s].email \in Emails /\ job[s] \in JobType
    BY <1>2 DEF Admit, At, Typing, TypeOK, HasAddress, JobType
  <2>2. Verdict(job[s].email) \subseteq Roles \cup {"as it is"}
    BY DEF Verdict, Roles, Staff
  <2>3. ASSUME NEW r \in Verdict(job[s].email)
        PROVE  /\ Job("open", job[s].user, job[s].email, job[s].role) \in JobType
               /\ Job("enter", job[s].user, job[s].email, IF r = "as it is" THEN "MERCHANT" ELSE r) \in JobType
    BY <2>1, <2>2 DEF Job, JobType, Roles
  <2>4. \/ Do(s, Idle)
        \/ \E j \in JobType : Do(s, j) /\ j.email = job[s].email
    BY <1>2, <2>3 DEF Admit, Job
  <2>5. job' \in [Slots -> JobType] /\ HasAddress'
    BY <2>1, <2>4, GoesOn, Ends
  <2> QED BY <1>2, <2>5 DEF Admit, Typing, TypeOK, JobType
<1>3. ASSUME NEW u \in Users, CreateAccount(s, u)
      PROVE  Typing'
  <2>1. job[s].email \in Emails /\ job[s].role \in Roles
    BY <1>3 DEF CreateAccount, At, Typing, TypeOK, HasAddress
  <2>2. Job("open", u, job[s].email, job[s].role) \in JobType
    BY <2>1 DEF Job, JobType
  <2>3. job' \in [Slots -> JobType] /\ HasAddress'
    BY <1>3, <2>1, <2>2, GoesOn DEF CreateAccount, Job
  <2>4. account' \in [Users -> Account] /\ held' \in [Users -> SUBSET Emails]
    BY <1>3, <2>1 DEF CreateAccount, Typing, TypeOK, Account
  <2> QED BY <1>3, <2>3, <2>4 DEF CreateAccount, Typing, TypeOK, JobType, Account
<1>4. CASE TakeRole(s)
  <2>1. job[s].role \in Roles
    BY DEF Typing, TypeOK
  <2>2. account' \in [Users -> Account]
    BY <1>4, <2>1, AccountWritten DEF TakeRole
  <2>3. job' \in [Slots -> JobType] /\ HasAddress'
    BY <1>4, Follows DEF TakeRole, At
  <2> QED BY <1>4, <2>2, <2>3 DEF TakeRole, Revoke, Typing, TypeOK, JobType, Account
<1>5. CASE OpenSession(s)
  BY <1>5, Ends DEF OpenSession, Typing, TypeOK, JobType
<1> QED BY <1>1, <1>2, <1>3, <1>4, <1>5 DEF Door

LEMMA OpenDoorTyped ==
  ASSUME Typing, NEW s \in Slots, OpenDoor(s)
  PROVE  Typing'
<1>1. ASSUME NEW r \in DOMAIN Demo, NEW e \in Demo[r], AskPortal(s, r, e)
      PROVE  Typing'
  <2>1. r \in Roles /\ e \in Emails
    BY DEF Roles, Staff
  <2>2. \A u \in Users : Known(u) =>
          Job("adopt", u, account[u].email, r) \in JobType /\ account[u].email \in Emails
    BY <2>1 DEF Known, Job, JobType, Typing, TypeOK
  <2>3. Job("represent", None, e, r) \in JobType
    BY <2>1 DEF Job, JobType
  <2>4. PICK j \in JobType : Do(s, j) /\ j.email \in Emails
    BY <1>1, <2>1, <2>2, <2>3 DEF AskPortal, Job
  <2>5. job' \in [Slots -> JobType] /\ HasAddress'
    BY <2>4, GoesOn
  <2> QED BY <1>1, <2>5 DEF AskPortal, Typing, TypeOK, JobType
<1>2. ASSUME NEW u \in Users, Represent(s, u)
      PROVE  Typing'
  <2>1. job[s].email \in Emails /\ job[s].role \in Roles
    BY <1>2 DEF Represent, At, Typing, TypeOK, HasAddress
  <2>2. Job("adopt", u, job[s].email, job[s].role) \in JobType
    BY <2>1 DEF Job, JobType
  <2>3. job' \in [Slots -> JobType] /\ HasAddress'
    BY <1>2, <2>1, <2>2, GoesOn DEF Represent, Job
  <2>4. account' \in [Users -> Account] /\ held' \in [Users -> SUBSET Emails]
    BY <1>2, <2>1 DEF Represent, Typing, TypeOK, Account
  <2>5. made' \subseteq Users \X Staff
    BY <1>2 DEF Represent, Typing, TypeOK
  <2> QED BY <1>2, <2>3, <2>4, <2>5 DEF Represent, Typing, TypeOK, JobType, Account
<1>3. CASE Adopt(s)
  BY <1>3, Ends DEF Adopt, Typing, TypeOK, JobType
<1> QED BY <1>1, <1>2, <1>3 DEF OpenDoor

LEMMA PanelTyped ==
  ASSUME Typing, NEW s \in Slots, Panel(s)
  PROVE  Typing'
<1>1. ASSUME NEW me \in Users, SetRestricted(s, me)
      PROVE  Typing'
  BY <1>1 DEF SetRestricted, Typing, TypeOK, HasAddress
<1>2. ASSUME NEW me \in Users, NEW e \in Emails, AskAccess(s, me, e)
      PROVE  Typing'
  <2>1. \A r \in Roles, pc \in {"add", "change", "remove"} : Job(pc, None, e, r) \in JobType
    BY DEF Job, JobType
  <2>2. PICK r \in Roles, pc \in {"add", "change", "remove"} : Do(s, Job(pc, None, e, r))
    BY <1>2 DEF AskAccess, Roles
  <2>3. job' \in [Slots -> JobType] /\ HasAddress'
    BY <2>1, <2>2, GoesOn DEF Job
  <2> QED BY <1>2, <2>3 DEF AskAccess, Typing, TypeOK, JobType
<1>3. ASSUME NEW me \in Users, NEW u \in Users, AskUser(s, me, u)
      PROVE  Typing'
  <2>1. account[u].email \in Emails /\ account[u].role \in Roles
    BY <1>3 DEF AskUser, Known, Typing, TypeOK
  <2>2. \A r \in Roles, pc \in {"disable", "enable", "assign"} :
          Job(pc, u, account[u].email, r) \in JobType
    BY <2>1 DEF Job, JobType
  <2>3. PICK j \in JobType : Do(s, j) /\ j.email = account[u].email
    BY <1>3, <2>1, <2>2 DEF AskUser, Job
  <2>4. job' \in [Slots -> JobType] /\ HasAddress'
    BY <2>1, <2>3, GoesOn
  <2> QED BY <1>3, <2>4 DEF AskUser, Typing, TypeOK, JobType
<1>4. CASE AddEntry(s) \/ ChangeEntry(s)
  <2>1. job[s].email \in Emails /\ job[s].role \in Roles /\ job[s].pc # "idle"
    BY <1>4 DEF AddEntry, ChangeEntry, At, Typing, TypeOK, HasAddress
  <2>2. entry' \in [Emails -> Roles \cup {"unlisted"}] /\ listed' \subseteq Emails \X Staff
    BY <1>4, <2>1, ListTyped DEF AddEntry, ChangeEntry
  <2>3. job' \in [Slots -> JobType] /\ HasAddress'
    BY <1>4, <2>1, Follows, Ends DEF AddEntry, ChangeEntry
  <2> QED BY <1>4, <2>2, <2>3 DEF AddEntry, ChangeEntry, Typing, TypeOK, JobType
<1>5. CASE RemoveEntry(s)
  <2>1. job' \in [Slots -> JobType] /\ HasAddress'
    BY <1>5, Follows DEF RemoveEntry, At
  <2> QED BY <1>5, <2>1 DEF RemoveEntry, Typing, TypeOK, JobType
<1>6. CASE Apply(s)
  <2>1. job[s].role \in Roles
    BY DEF Typing, TypeOK
  <2>2. account' \in [Users -> Account]
    <3>1. account \in [Users -> Account]
      BY DEF Typing, TypeOK, Account
    <3>2. \A a \in Account : [a EXCEPT !.role = job[s].role] \in Account
      BY <2>1 DEF Account
    <3> QED BY <1>6, <3>1, <3>2 DEF Apply
  <2>3. session' \in [Users -> BOOLEAN] /\ adopted' \in [Users -> BOOLEAN]
    BY <1>6 DEF Apply, Typing, TypeOK
  <2> QED BY <1>6, <2>2, <2>3, Ends DEF Apply, Typing, TypeOK, JobType, Account
<1>7. CASE Cut(s)
  BY <1>7, Ends DEF Cut, Typing, TypeOK, JobType
<1>8. CASE Disable(s) \/ Enable(s)
  <2>1. account' \in [Users -> Account]
    <3>1. CASE Disable(s)
      BY <3>1, AccountWritten DEF Disable
    <3>2. CASE Enable(s)
      BY <3>2, AccountWritten DEF Enable
    <3> QED BY <1>8, <3>1, <3>2
  <2> QED BY <1>8, <2>1, Ends DEF Disable, Enable, Revoke, Typing, TypeOK, JobType, Account
<1>9. CASE Assign(s)
  <2>1. job[s].email \in Emails /\ job[s].role \in Roles /\ job[s].pc # "idle"
    BY <1>9 DEF Assign, At, Typing, TypeOK, HasAddress
  <2>2. entry' \in [Emails -> Roles \cup {"unlisted"}] /\ listed' \subseteq Emails \X Staff
    BY <1>9, <2>1, ListTyped DEF Assign, Typing, TypeOK
  <2>3. job' \in [Slots -> JobType] /\ HasAddress'
    BY <1>9, <2>1, Follows DEF Assign
  <2> QED BY <1>9, <2>2, <2>3 DEF Assign, Typing, TypeOK, JobType
<1>10. CASE Take(s)
  <2>1. job[s].role \in Roles
    BY DEF Typing, TypeOK
  <2>2. account' \in [Users -> Account]
    BY <1>10, <2>1, AccountWritten DEF Take
  <2> QED BY <1>10, <2>2, Ends DEF Take, Revoke, Typing, TypeOK, JobType, Account
<1> QED BY <1>1, <1>2, <1>3, <1>4, <1>5, <1>6, <1>7, <1>8, <1>9, <1>10 DEF Panel

LEMMA ProfileTyped ==
  ASSUME Typing, NEW s \in Slots, Profile(s)
  PROVE  Typing'
<1>1. ASSUME NEW u \in Users, NEW e \in Emails, AskRename(s, u, e)
      PROVE  Typing'
  <2>1. Job("rename", u, e, account[u].role) \in JobType
    BY DEF Job, JobType, Typing, TypeOK
  <2>2. job' \in [Slots -> JobType] /\ HasAddress'
    BY <1>1, <2>1, GoesOn DEF AskRename, Job
  <2> QED BY <1>1, <2>2 DEF AskRename, Typing, TypeOK, JobType
<1>2. CASE Rename(s)
  <2>1. job[s].email \in Emails
    BY <1>2 DEF Rename, At, Typing, HasAddress
  <2>2. account' \in [Users -> Account]
    BY <1>2, <2>1, AccountWritten DEF Rename
  <2>3. held' \in [Users -> SUBSET Emails]
    BY <1>2, <2>1 DEF Rename, Typing, TypeOK
  <2> QED BY <1>2, <2>2, <2>3, Ends DEF Rename, Typing, TypeOK, JobType, Account
<1> QED BY <1>1, <1>2 DEF Profile

LEMMA TypingNext == Typing /\ [Next]_vars => Typing'
<1> SUFFICES ASSUME Typing, [Next]_vars PROVE Typing'
  OBVIOUS
<1>1. ASSUME NEW s \in Slots, Stop(s)
      PROVE  Typing'
  BY <1>1, Ends DEF Stop, Typing, TypeOK, JobType
<1>2. ASSUME NEW u \in Users, EndSession(u)
      PROVE  Typing'
  BY <1>2 DEF EndSession, Revoke, Typing, TypeOK, HasAddress
<1>3. CASE UNCHANGED vars
  BY <1>3 DEF vars, Typing, TypeOK, HasAddress
<1> QED BY <1>1, <1>2, <1>3, DoorTyped, OpenDoorTyped, PanelTyped, ProfileTyped DEF Next

(* Types are kept however requests overlap and die.                         *)
THEOREM TypeCorrect == Spec => []TypeOK
<1>1. Typing => TypeOK
  BY DEF Typing
<1> QED BY <1>1, TypingInit, TypingNext, PTL DEF Spec

-----------------------------------------------------------------------------
(* Where a role may come from.  The list only ever gives what it held; an   *)
(* account answers to addresses it has had; and what a request is about to  *)
(* write it took from the two.  Both histories only grow, so nothing of it  *)
(* goes stale.                                                              *)
Grant(e, r) == r \in Staff => <<e, r>> \in listed

EntriesListed == \A e \in Emails : Grant(e, entry[e])
AddressesHeld == \A u \in Users : Known(u) => account[u].email \in held[u]
JobsListed == \A s \in Slots :
                job[s].pc \in {"enter", "apply", "take"} => Grant(job[s].email, job[s].role)
JobsHeld == \A s \in Slots :
              job[s].pc \in {"admit", "enter", "assign", "take"} =>
                \A u \in Users : job[s].user = u => job[s].email \in held[u]

(* Without AUTH_OPEN_ACCESS nobody is on the way in by it, and nobody comes *)
(* in by it as an administrator.                                            *)
JobsOpen == \A s \in Slots :
              job[s].pc \in {"represent", "adopt"} => OpenAccess /\ job[s].role # "SUPERADMIN"
JobsGranted == JobsListed /\ JobsHeld /\ JobsOpen
Made(u) == OpenAccess /\ account[u].role # "SUPERADMIN" /\ <<u, account[u].role>> \in made

Granting == EntriesListed /\ AddressesHeld /\ JobsGranted /\ OnlyTheListGrants

LEMMA GrantingInit == Init => Granting
<1> SUFFICES ASSUME Init PROVE Granting
  OBVIOUS
<1>1. EntriesListed
  BY DEF Init, EntriesListed, Grant, Staff
<1>2. AddressesHeld
  BY DEF Init, AddressesHeld, Known, NoAccount
<1>3. \A s \in Slots : job[s].pc = "idle"
  BY DEF Init, Idle
<1>4. OnlyTheListGrants
  BY DEF Init, OnlyTheListGrants, NoAccount, Staff
<1> QED BY <1>1, <1>2, <1>3, <1>4 DEF Granting, JobsGranted, JobsListed, JobsHeld, JobsOpen

(* The parts that a step may leave alone.                                   *)
Grows == listed \subseteq listed' /\ made \subseteq made' /\ \A u \in Users : held[u] \subseteq held'[u]

LEMMA RecordsStay ==
  ASSUME Typing, Granting, Grows
  PROVE  /\ entry' = entry => EntriesListed'
         /\ account' = account => AddressesHeld' /\ OnlyTheListGrants'
<1>1. ASSUME entry' = entry
      PROVE  EntriesListed'
  BY <1>1 DEF Grows, Granting, EntriesListed, Grant
<1>2. ASSUME account' = account
      PROVE  AddressesHeld' /\ OnlyTheListGrants'
  <2>1. AddressesHeld'
    BY <1>2 DEF Grows, Granting, AddressesHeld, Known
  <2>2. OnlyTheListGrants'
    BY <1>2 DEF Grows, Granting, OnlyTheListGrants
  <2> QED BY <2>1, <2>2
<1> QED BY <1>1, <1>2

(* One request moves on; what it carries is granted, and so is what the     *)
(* others carry.                                                            *)
LEMMA JobsStay ==
  ASSUME Typing, Granting, Grows, NEW s \in Slots, NEW j \in JobType, Do(s, j),
         j.pc \in {"enter", "apply", "take"} => (j.role \in Staff => <<j.email, j.role>> \in listed'),
         j.pc \in {"admit", "enter", "assign", "take"} =>
           \A u \in Users : j.user = u => j.email \in held'[u],
         j.pc \in {"represent", "adopt"} => OpenAccess /\ j.role # "SUPERADMIN"
  PROVE  JobsGranted'
<1>1. job'[s] = j /\ \A r \in Slots \ {s} : job'[r] = job[r]
  BY DEF Do, Typing, TypeOK
<1>2. JobsListed'
  <2> SUFFICES ASSUME NEW r \in Slots, job'[r].pc \in {"enter", "apply", "take"}, job'[r].role \in Staff
               PROVE  <<job'[r].email, job'[r].role>> \in listed'
    BY DEF JobsListed, Grant
  <2>1. CASE r = s
    BY <1>1, <2>1
  <2>2. CASE r # s
    BY <1>1, <2>2 DEF Granting, JobsGranted, JobsListed, Grant, Grows
  <2> QED BY <2>1, <2>2
<1>3. JobsHeld'
  <2> SUFFICES ASSUME NEW r \in Slots, job'[r].pc \in {"admit", "enter", "assign", "take"},
                      NEW u \in Users, job'[r].user = u
               PROVE  job'[r].email \in held'[u]
    BY DEF JobsHeld
  <2>1. CASE r = s
    BY <1>1, <2>1
  <2>2. CASE r # s
    BY <1>1, <2>2 DEF Granting, JobsGranted, JobsHeld, Grows
  <2> QED BY <2>1, <2>2
<1>4. JobsOpen'
  BY <1>1 DEF Granting, JobsGranted, JobsOpen
<1> QED BY <1>2, <1>3, <1>4 DEF JobsGranted

LEMMA EndStays ==
  ASSUME Typing, Granting, Grows, NEW s \in Slots, Do(s, Idle)
  PROVE  JobsGranted'
BY IdleIsJob, JobsStay

(* A request that goes on to "open" or "cut" carries nothing that matters.  *)
LEMMA NextStays ==
  ASSUME Typing, Granting, Grows, NEW s \in Slots, NEW pc \in {"open", "cut"},
         Do(s, [job[s] EXCEPT !.pc = pc])
  PROVE  JobsGranted'
<1>1. job'[s].pc = pc /\ \A r \in Slots \ {s} : job'[r] = job[r]
  BY DEF Do, Typing, TypeOK
<1>2. JobsListed'
  BY <1>1 DEF Granting, JobsGranted, JobsListed, Grant, Grows
<1>3. JobsHeld'
  BY <1>1 DEF Granting, JobsGranted, JobsHeld, Grows
<1>4. JobsOpen'
  BY <1>1 DEF Granting, JobsGranted, JobsOpen
<1> QED BY <1>2, <1>3, <1>4 DEF JobsGranted

(* One account takes a role the list gave one of its addresses.             *)
LEMMA RoleTaken ==
  ASSUME Typing, Granting, Grows, NEW u, NEW r \in Roles,
         account' = [account EXCEPT ![u].role = r],
         u \in Users => (r \in Staff => \E e \in held'[u] : <<e, r>> \in listed')
  PROVE  AddressesHeld' /\ OnlyTheListGrants'
<1>1. \A v \in Users : account'[v].email = account[v].email
  BY DEF Typing, TypeOK
<1>2. \A v \in Users : v # u => account'[v] = account[v]
  BY DEF Typing, TypeOK
<1>3. u \in Users => account'[u].role = r
  BY DEF Typing, TypeOK
<1>4. AddressesHeld'
  BY <1>1 DEF Granting, AddressesHeld, Known, Grows
<1>5. OnlyTheListGrants'
  <2> SUFFICES ASSUME NEW v \in Users, account'[v].role \in Staff
               PROVE  (\E e \in held'[v] : <<e, account'[v].role>> \in listed') \/ Made(v)'
    BY DEF OnlyTheListGrants, Made
  <2>1. CASE v = u
    BY <1>3, <2>1
  <2>2. CASE v # u
    BY <1>2, <2>2 DEF Granting, OnlyTheListGrants, Made, Grows
  <2> QED BY <2>1, <2>2
<1> QED BY <1>4, <1>5

LEMMA ListGrants ==
  ASSUME Typing, Granting, NEW e \in Emails, NEW r \in Roles, List(e, r)
  PROVE  listed \subseteq listed' /\ EntriesListed' /\ Grant(e, r)'
<1>1. listed \subseteq listed' /\ Grant(e, r)'
  BY DEF List, Grant
<1>2. EntriesListed'
  BY <1>1 DEF List, Granting, EntriesListed, Grant, Typing, TypeOK
<1> QED BY <1>1, <1>2

-----------------------------------------------------------------------------
(* What every step keeps, one group of actions after another.               *)

LEMMA DoorGrants ==
  ASSUME Typing, Granting, NEW s \in Slots, Door(s)
  PROVE  Granting'
<1>1. ASSUME NEW e \in Emails, SignIn(s, e)
      PROVE  Granting'
  <2>1. Grows /\ entry' = entry /\ account' = account
    BY <1>1 DEF SignIn, Grows
  <2>2. \A u \in Users : Job("admit", u, e, account[u].role) \in JobType
    BY DEF Job, JobType, Typing, TypeOK
  <2>3. Job("admit", None, e, "MERCHANT") \in JobType
    BY DEF Job, JobType, Roles
  <2>4. \A u \in Holders(e) : e \in held'[u]
    BY <1>1, <2>1 DEF Holders, Granting, AddressesHeld, Known, Grows
  <2>5. JobsGranted'
    <3>1. CASE Do(s, Job("admit", None, e, "MERCHANT"))
      BY <2>1, <2>3, <3>1, JobsStay DEF Job
    <3>2. CASE \E u \in Holders(e) : Do(s, Job("admit", u, e, account[u].role))
      <4>1. PICK u \in Holders(e) : Do(s, Job("admit", u, e, account[u].role))
        BY <3>2
      <4>2. u \in Users
        BY DEF Holders
      <4> QED BY <2>1, <2>2, <2>4, <4>1, <4>2, JobsStay DEF Job
    <3> QED BY <1>1, <3>1, <3>2 DEF SignIn
  <2> QED BY <2>1, <2>5, RecordsStay DEF Granting
<1>2. CASE Admit(s)
  <2>1. Grows /\ entry' = entry /\ account' = account
    BY <1>2 DEF Admit, Grows
  <2>2. job[s] \in JobType /\ job[s].email \in Emails /\ job[s].pc = "admit"
    BY <1>2 DEF Admit, At, Typing, TypeOK, HasAddress, JobType
  <2>3. JobsGranted'
    <3>1. CASE Do(s, Idle)
      BY <2>1, <3>1, EndStays
    <3>2. CASE Do(s, Job("open", job[s].user, job[s].email, job[s].role))
      BY <2>1, <2>2, <3>2, JobsStay DEF Job, JobType
    <3>3. ASSUME NEW r \in Verdict(job[s].email),
                 Do(s, Job("enter", job[s].user, job[s].email, IF r = "as it is" THEN "MERCHANT" ELSE r))
          PROVE  JobsGranted'
      <4> DEFINE role == IF r = "as it is" THEN "MERCHANT" ELSE r
      <4>1. r \in Roles \cup {"as it is"} /\ (r \in Staff => entry[job[s].email] = r)
        BY DEF Verdict, Roles, Staff
      <4>2. role \in Roles /\ (role \in Staff => role = r)
        BY <4>1 DEF Roles, Staff
      <4>3. role \in Staff => <<job[s].email, role>> \in listed'
        BY <2>1, <2>2, <4>1, <4>2 DEF Granting, EntriesListed, Grant, Grows
      <4>4. \A u \in Users : job[s].user = u => job[s].email \in held'[u]
        BY <2>1, <2>2 DEF Granting, JobsGranted, JobsHeld, Grows
      <4>5. Job("enter", job[s].user, job[s].email, role) \in JobType
        BY <2>2, <4>2 DEF Job, JobType
      <4> QED BY <2>1, <3>3, <4>3, <4>4, <4>5, JobsStay DEF Job
    <3> QED BY <1>2, <3>1, <3>2, <3>3 DEF Admit
  <2> QED BY <2>1, <2>3, RecordsStay DEF Granting
<1>3. ASSUME NEW u \in Users, CreateAccount(s, u)
      PROVE  Granting'
  <2>1. job[s].email \in Emails /\ job[s].role \in Roles /\ job[s].pc = "enter"
    BY <1>3 DEF CreateAccount, At, Typing, TypeOK, HasAddress
  <2>2. Grows /\ entry' = entry /\ job[s].email \in held'[u]
    BY <1>3 DEF CreateAccount, Grows, Typing, TypeOK
  <2>3. /\ account'[u] = [email |-> job[s].email, role |-> job[s].role, disabled |-> FALSE]
        /\ \A v \in Users : v # u => account'[v] = account[v]
    BY <1>3 DEF CreateAccount, Typing, TypeOK
  <2>4. AddressesHeld'
    BY <2>2, <2>3 DEF Granting, AddressesHeld, Known, Grows
  <2>5. OnlyTheListGrants'
    <3> SUFFICES ASSUME NEW v \in Users, account'[v].role \in Staff
                 PROVE  (\E e \in held'[v] : <<e, account'[v].role>> \in listed') \/ Made(v)'
      BY DEF OnlyTheListGrants, Made
    <3>1. CASE v = u
      BY <2>1, <2>2, <2>3, <3>1 DEF Granting, JobsGranted, JobsListed, Grant, Grows
    <3>2. CASE v # u
      BY <2>2, <2>3, <3>2 DEF Granting, OnlyTheListGrants, Made, Grows
    <3> QED BY <3>1, <3>2
  <2>6. Job("open", u, job[s].email, job[s].role) \in JobType
    BY <2>1 DEF Job, JobType
  <2>7. JobsGranted'
    BY <1>3, <2>2, <2>6, JobsStay DEF CreateAccount, Job
  <2> QED BY <2>2, <2>4, <2>5, <2>7, RecordsStay DEF Granting
<1>4. CASE TakeRole(s)
  <2>1. Grows /\ entry' = entry
    BY <1>4 DEF TakeRole, Grows
  <2>2. job[s].role \in Roles /\ job[s].pc = "enter"
    BY <1>4 DEF TakeRole, At, Typing, TypeOK
  <2>3. job[s].user \in Users => (job[s].role \in Staff =>
          \E e \in held'[job[s].user] : <<e, job[s].role>> \in listed')
    BY <2>1, <2>2 DEF Granting, JobsGranted, JobsListed, JobsHeld, Grant, Grows
  <2>4. AddressesHeld' /\ OnlyTheListGrants'
    BY <1>4, <2>1, <2>2, <2>3, RoleTaken DEF TakeRole
  <2>5. JobsGranted'
    BY <1>4, <2>1, NextStays DEF TakeRole
  <2> QED BY <2>1, <2>4, <2>5, RecordsStay DEF Granting
<1>5. CASE OpenSession(s)
  <2>1. Grows /\ entry' = entry /\ account' = account
    BY <1>5 DEF OpenSession, Grows
  <2> QED BY <1>5, <2>1, EndStays, RecordsStay DEF OpenSession, Granting
<1>6. ASSUME NEW e \in Emails, Register(s, e)
      PROVE  Granting'
  <2>1. Grows /\ entry' = entry /\ account' = account
    BY <1>6 DEF Register, Grows
  <2>2. Job("enter", None, e, "MERCHANT") \in JobType
    BY DEF Job, JobType, Roles
  <2>3. JobsGranted'
    BY <1>6, <2>1, <2>2, JobsStay DEF Register, Job, Grant, Staff
  <2> QED BY <2>1, <2>3, RecordsStay DEF Granting
<1> QED BY <1>1, <1>2, <1>3, <1>4, <1>5, <1>6 DEF Door

LEMMA OpenDoorGrants ==
  ASSUME Typing, Granting, NEW s \in Slots, OpenDoor(s)
  PROVE  Granting'
<1>1. ASSUME NEW r \in DOMAIN Demo, NEW e \in Demo[r], AskPortal(s, r, e)
      PROVE  Granting'
  <2>1. Grows /\ entry' = entry /\ account' = account /\ OpenAccess
    BY <1>1 DEF AskPortal, Grows
  <2>2. r \in Roles /\ r # "SUPERADMIN" /\ e \in Emails
    BY DEF Roles, Staff
  <2>3. CASE Do(s, Job("represent", None, e, r))
    <3>1. Job("represent", None, e, r) \in JobType
      BY <2>2 DEF Job, JobType
    <3>2. JobsGranted'
      BY <2>1, <2>2, <2>3, <3>1, JobsStay DEF Job
    <3> QED BY <2>1, <3>2, RecordsStay DEF Granting
  <2>4. ASSUME NEW u \in Users, Do(s, Job("adopt", u, account[u].email, r))
        PROVE  Granting'
    <3>1. Job("adopt", u, account[u].email, r) \in JobType
      BY <2>2 DEF Job, JobType, Typing, TypeOK
    <3>2. JobsGranted'
      BY <2>1, <2>2, <2>4, <3>1, JobsStay DEF Job
    <3> QED BY <2>1, <3>2, RecordsStay DEF Granting
  <2> QED BY <1>1, <2>3, <2>4 DEF AskPortal
<1>2. ASSUME NEW u \in Users, Represent(s, u)
      PROVE  Granting'
  <2>1. /\ job[s].email \in Emails /\ job[s].role \in Roles /\ job[s].pc = "represent"
        /\ OpenAccess /\ job[s].role # "SUPERADMIN"
    BY <1>2 DEF Represent, At, Granting, JobsGranted, JobsOpen, Typing, TypeOK, HasAddress
  <2>2. Grows /\ entry' = entry /\ job[s].email \in held'[u]
    BY <1>2 DEF Represent, Grows, Typing, TypeOK
  <2>3. /\ account'[u] = [email |-> job[s].email, role |-> job[s].role, disabled |-> FALSE]
        /\ \A v \in Users : v # u => account'[v] = account[v]
    BY <1>2 DEF Represent, Typing, TypeOK
  <2>4. AddressesHeld'
    BY <2>2, <2>3 DEF Granting, AddressesHeld, Known, Grows
  <2>5. OnlyTheListGrants'
    <3> SUFFICES ASSUME NEW v \in Users, account'[v].role \in Staff
                 PROVE  (\E e \in held'[v] : <<e, account'[v].role>> \in listed') \/ Made(v)'
      BY DEF OnlyTheListGrants, Made
    <3>1. CASE v = u
      BY <1>2, <2>1, <2>3, <3>1 DEF Represent, Made
    <3>2. CASE v # u
      BY <2>2, <2>3, <3>2 DEF Granting, OnlyTheListGrants, Made, Grows
    <3> QED BY <3>1, <3>2
  <2>6. Job("adopt", u, job[s].email, job[s].role) \in JobType
    BY <2>1 DEF Job, JobType
  <2>7. JobsGranted'
    BY <1>2, <2>1, <2>2, <2>6, JobsStay DEF Represent, Job
  <2> QED BY <2>2, <2>4, <2>5, <2>7, RecordsStay DEF Granting
<1>3. CASE Adopt(s)
  <2>1. Grows /\ entry' = entry /\ account' = account
    BY <1>3 DEF Adopt, Grows
  <2> QED BY <1>3, <2>1, EndStays, RecordsStay DEF Adopt, Granting
<1> QED BY <1>1, <1>2, <1>3 DEF OpenDoor

LEMMA PanelAsks ==
  ASSUME Typing, Granting, NEW s \in Slots, NEW me \in Users,
         \/ SetRestricted(s, me)
         \/ \E e \in Emails : AskAccess(s, me, e)
         \/ \E u \in Users : AskUser(s, me, u)
  PROVE  Granting'
<1>1. Grows /\ entry' = entry /\ account' = account
  BY DEF SetRestricted, AskAccess, AskUser, Grows
<1>2. CASE SetRestricted(s, me)
  BY <1>1, <1>2, RecordsStay DEF SetRestricted, Granting, JobsGranted, JobsListed, JobsHeld, JobsOpen, Grant
<1>3. ASSUME NEW e \in Emails, AskAccess(s, me, e)
      PROVE  Granting'
  <2>1. \A r \in Roles, pc \in {"add", "change", "remove"} : Job(pc, None, e, r) \in JobType
    BY DEF Job, JobType
  <2>2. PICK r \in Roles, pc \in {"add", "change", "remove"} : Do(s, Job(pc, None, e, r))
    BY <1>3 DEF AskAccess, Roles
  <2>3. JobsGranted'
    BY <1>1, <2>1, <2>2, JobsStay DEF Job
  <2> QED BY <1>1, <2>3, RecordsStay DEF Granting
<1>4. ASSUME NEW u \in Users, AskUser(s, me, u)
      PROVE  Granting'
  <2>1. account[u].email \in held'[u] /\ account[u].email \in Emails /\ account[u].role \in Roles
    BY <1>1, <1>4 DEF AskUser, Granting, AddressesHeld, Grows, Known, Typing, TypeOK
  <2>2. \A r \in Roles, pc \in {"disable", "enable", "assign"} :
          Job(pc, u, account[u].email, r) \in JobType
    BY <2>1 DEF Job, JobType
  <2>3. PICK r \in Roles, pc \in {"disable", "enable", "assign"} : Do(s, Job(pc, u, account[u].email, r))
    BY <1>4, <2>1 DEF AskUser
  <2>4. JobsGranted'
    BY <1>1, <2>1, <2>2, <2>3, JobsStay DEF Job
  <2> QED BY <1>1, <2>4, RecordsStay DEF Granting
<1> QED BY <1>2, <1>3, <1>4

LEMMA PanelLists ==
  ASSUME Typing, Granting, NEW s \in Slots, AddEntry(s) \/ ChangeEntry(s) \/ RemoveEntry(s) \/ Assign(s)
  PROVE  Granting'
<1>1. job[s] \in JobType /\ job[s].email \in Emails /\ job[s].role \in Roles /\ job[s].pc # "idle"
  BY DEF AddEntry, ChangeEntry, RemoveEntry, Assign, At, Typing, TypeOK, HasAddress, JobType
<1>2. account' = account /\ held' = held /\ made' = made
  BY DEF AddEntry, ChangeEntry, RemoveEntry, Assign
<1>3. ASSUME NEW pc \in {"apply", "take"}
      PROVE  /\ [job[s] EXCEPT !.pc = pc] \in JobType
             /\ [job[s] EXCEPT !.pc = pc].pc = pc
             /\ [job[s] EXCEPT !.pc = pc].user = job[s].user
             /\ [job[s] EXCEPT !.pc = pc].email = job[s].email
             /\ [job[s] EXCEPT !.pc = pc].role = job[s].role
  <2>1. pc \in {"idle", "admit", "enter", "open", "add", "change", "remove", "apply",
                "cut", "disable", "enable", "assign", "take", "rename", "represent", "adopt"}
    OBVIOUS
  <2> QED BY <1>1, <2>1 DEF JobType
<1>4. CASE AddEntry(s) \/ ChangeEntry(s)
  <2>1. Grows /\ EntriesListed' /\ (job[s].role \in Staff => <<job[s].email, job[s].role>> \in listed')
    <3>1. List(job[s].email, job[s].role)
      BY <1>4 DEF AddEntry, ChangeEntry
    <3>2. job[s].role \in Staff => <<job[s].email, job[s].role>> \in listed'
      BY <3>1 DEF List
    <3> QED BY <1>1, <1>2, <3>1, <3>2, ListGrants DEF Grows
  <2>2. JobsGranted'
    <3>1. CASE Do(s, Idle)
      BY <2>1, <3>1, EndStays
    <3>2. CASE Do(s, [job[s] EXCEPT !.pc = "apply"])
      BY <1>3, <2>1, <3>2, JobsStay
    <3> QED BY <1>4, <3>1, <3>2 DEF AddEntry, ChangeEntry
  <2> QED BY <1>2, <2>1, <2>2, RecordsStay DEF Granting
<1>5. CASE RemoveEntry(s)
  <2>1. Grows
    BY <1>5 DEF RemoveEntry, Grows
  <2>2. EntriesListed'
    BY <1>5 DEF RemoveEntry, Granting, EntriesListed, Grant, Typing, TypeOK, Staff
  <2>3. JobsGranted'
    BY <1>5, <2>1, NextStays DEF RemoveEntry
  <2> QED BY <1>2, <2>1, <2>2, <2>3, RecordsStay DEF Granting
<1>6. CASE Assign(s)
  <2>1. /\ Grows /\ EntriesListed'
        /\ job[s].role \in Staff => <<job[s].email, job[s].role>> \in listed'
    <3>1. CASE job[s].role \in Staff
      <4>1. List(job[s].email, job[s].role)
        BY <1>6, <3>1 DEF Assign
      <4>2. <<job[s].email, job[s].role>> \in listed'
        BY <3>1, <4>1 DEF List
      <4> QED BY <1>1, <1>2, <4>1, <4>2, ListGrants DEF Grows
    <3>2. CASE job[s].role \notin Staff
      <4>1. Grows
        BY <1>6, <3>2 DEF Assign, Grows
      <4>2. EntriesListed'
        BY <1>6, <3>2 DEF Assign, Granting, EntriesListed, Grant, Typing, TypeOK, Staff
      <4> QED BY <3>2, <4>1, <4>2
    <3> QED BY <3>1, <3>2
  <2>2. \A u \in Users : job[s].user = u => job[s].email \in held'[u]
    BY <1>2, <1>6 DEF Assign, At, Granting, JobsGranted, JobsHeld
  <2>3. Do(s, [job[s] EXCEPT !.pc = "take"])
    BY <1>6 DEF Assign
  <2>4. JobsGranted'
    BY <1>3, <2>1, <2>2, <2>3, JobsStay
  <2> QED BY <1>2, <2>1, <2>4, RecordsStay DEF Granting
<1> QED BY <1>4, <1>5, <1>6

LEMMA PanelWrites ==
  ASSUME Typing, Granting, NEW s \in Slots,
         Apply(s) \/ Cut(s) \/ Disable(s) \/ Enable(s) \/ Take(s)
  PROVE  Granting'
<1>1. Grows /\ entry' = entry
  BY DEF Apply, Cut, Disable, Enable, Take, Grows
<1>2. JobsGranted'
  BY <1>1, EndStays DEF Apply, Cut, Disable, Enable, Take
<1>3. CASE Apply(s)
  <2>1. job[s].role \in Roles /\ job[s].email \in Emails /\ job[s].pc = "apply"
    BY <1>3 DEF Apply, At, Typing, TypeOK, HasAddress
  <2>2. ASSUME NEW u \in Users
        PROVE  /\ account'[u].email = account[u].email
               /\ \/ account'[u].role = account[u].role
                  \/ account'[u].role = job[s].role /\ account[u].email = job[s].email
    <3>1. account'[u] = IF account[u].email = job[s].email /\ account[u].role # job[s].role
                          THEN [account[u] EXCEPT !.role = job[s].role] ELSE account[u]
      BY <1>3 DEF Apply, Holders
    <3>2. account[u] \in Account
      BY DEF Typing, TypeOK, Account
    <3>3. /\ [account[u] EXCEPT !.role = job[s].role].email = account[u].email
          /\ [account[u] EXCEPT !.role = job[s].role].role = job[s].role
      BY <3>2 DEF Account
    <3> QED BY <3>1, <3>3
  <2>3. AddressesHeld'
    BY <1>1, <2>2 DEF Granting, AddressesHeld, Known, Grows
  <2>4. OnlyTheListGrants'
    <3> SUFFICES ASSUME NEW u \in Users, account'[u].role \in Staff
                 PROVE  (\E e \in held'[u] : <<e, account'[u].role>> \in listed') \/ Made(u)'
      BY DEF OnlyTheListGrants, Made
    <3>1. CASE account'[u].role = account[u].role
      BY <1>1, <3>1 DEF Granting, OnlyTheListGrants, Made, Grows
    <3>2. CASE account'[u].role = job[s].role /\ account[u].email = job[s].email
      <4>1. job[s].email \in held'[u]
        BY <1>1, <2>1, <3>2 DEF Granting, AddressesHeld, Known, Grows
      <4>2. <<job[s].email, job[s].role>> \in listed'
        BY <1>1, <2>1, <3>2 DEF Granting, JobsGranted, JobsListed, Grant, Grows
      <4> QED BY <3>2, <4>1, <4>2
    <3> QED BY <2>2, <3>1, <3>2
  <2> QED BY <1>1, <1>2, <2>3, <2>4, RecordsStay DEF Granting
<1>4. CASE Cut(s)
  BY <1>1, <1>2, <1>4, RecordsStay DEF Cut, Granting
<1>5. CASE Disable(s) \/ Enable(s)
  <2>1. \A u \in Users : account'[u].email = account[u].email /\ account'[u].role = account[u].role
    <3>1. CASE Disable(s)
      BY <3>1 DEF Disable, Typing, TypeOK
    <3>2. CASE Enable(s)
      BY <3>2 DEF Enable, Typing, TypeOK
    <3> QED BY <1>5, <3>1, <3>2
  <2>2. AddressesHeld'
    BY <1>1, <2>1 DEF Granting, AddressesHeld, Known, Grows
  <2>3. OnlyTheListGrants'
    BY <1>1, <2>1 DEF Granting, OnlyTheListGrants, Grows
  <2> QED BY <1>1, <1>2, <2>2, <2>3, RecordsStay DEF Granting
<1>6. CASE Take(s)
  <2>1. job[s].role \in Roles /\ job[s].pc = "take"
    BY <1>6 DEF Take, At, Typing, TypeOK
  <2>2. job[s].user \in Users => (job[s].role \in Staff =>
          \E e \in held'[job[s].user] : <<e, job[s].role>> \in listed')
    BY <1>1, <2>1 DEF Granting, JobsGranted, JobsListed, JobsHeld, Grant, Grows
  <2>3. AddressesHeld' /\ OnlyTheListGrants'
    BY <1>1, <1>6, <2>1, <2>2, RoleTaken DEF Take
  <2> QED BY <1>1, <1>2, <2>3, RecordsStay DEF Granting
<1> QED BY <1>3, <1>4, <1>5, <1>6

LEMMA ProfileGrants ==
  ASSUME Typing, Granting, NEW s \in Slots, Profile(s)
  PROVE  Granting'
<1>1. ASSUME NEW u \in Users, NEW e \in Emails, AskRename(s, u, e)
      PROVE  Granting'
  <2>1. Grows /\ entry' = entry /\ account' = account
    BY <1>1 DEF AskRename, Grows
  <2>2. Job("rename", u, e, account[u].role) \in JobType
    BY DEF Job, JobType, Typing, TypeOK
  <2>3. JobsGranted'
    BY <1>1, <2>1, <2>2, JobsStay DEF AskRename, Job
  <2> QED BY <2>1, <2>3, RecordsStay DEF Granting
<1>2. CASE Rename(s)
  <2>1. Grows /\ entry' = entry
    BY <1>2 DEF Rename, Grows, Typing, TypeOK
  <2>2. ASSUME NEW u \in Users
        PROVE  /\ account'[u].role = account[u].role
               /\ account'[u].email = account[u].email \/ account'[u].email \in held'[u]
    BY <1>2 DEF Rename, Typing, TypeOK
  <2>3. AddressesHeld'
    BY <2>1, <2>2 DEF Granting, AddressesHeld, Known, Grows
  <2>4. OnlyTheListGrants'
    BY <2>1, <2>2 DEF Granting, OnlyTheListGrants, Grows
  <2>5. JobsGranted'
    BY <1>2, <2>1, EndStays DEF Rename
  <2> QED BY <2>1, <2>3, <2>4, <2>5, RecordsStay DEF Granting
<1> QED BY <1>1, <1>2 DEF Profile

LEMMA GrantingNext == Typing /\ Granting /\ [Next]_vars => Granting'
<1> SUFFICES ASSUME Typing, Granting, [Next]_vars PROVE Granting'
  OBVIOUS
<1>1. ASSUME NEW s \in Slots, Panel(s)
      PROVE  Granting'
  BY <1>1, PanelAsks, PanelLists, PanelWrites DEF Panel
<1>2. ASSUME NEW s \in Slots, Stop(s)
      PROVE  Granting'
  <2>1. Grows /\ entry' = entry /\ account' = account
    BY <1>2 DEF Stop, Grows
  <2> QED BY <1>2, <2>1, EndStays, RecordsStay DEF Stop, Granting
<1>3. CASE UNCHANGED <<entry, account, job, listed, held, made>>
  BY <1>3, RecordsStay DEF Grows, Granting, JobsGranted, JobsListed, JobsHeld, JobsOpen, Grant
<1>4. ASSUME NEW u \in Users, EndSession(u)
      PROVE  Granting'
  BY <1>3, <1>4 DEF EndSession
<1>5. CASE UNCHANGED vars
  BY <1>3, <1>5 DEF vars
<1> QED BY <1>1, <1>2, <1>4, <1>5, DoorGrants, OpenDoorGrants, ProfileGrants DEF Next

(* Whoever holds an operator's role had an address the list held it for, or *)
(* was made by open access in that role: no order of sign-ins, changes of   *)
(* list, account or address, and no request that dies half-way, makes an    *)
(* operator of anyone else.  Where AUTH_OPEN_ACCESS is off, the list is the *)
(* only source; of an administrator's role it always is.                    *)
THEOREM OnlyTheListGrantsAlways == Spec => []OnlyTheListGrants
<1>1. Init => Typing /\ Granting
  BY TypingInit, GrantingInit
<1>2. Typing /\ Granting /\ [Next]_vars => (Typing /\ Granting)'
  BY TypingNext, GrantingNext
<1>3. Typing /\ Granting => OnlyTheListGrants
  BY DEF Granting
<1> QED BY <1>1, <1>2, <1>3, PTL DEF Spec
-----------------------------------------------------------------------------
(* Requests that run to their end and do not meet at an address.  List and  *)
(* account are written apart, so in between they may disagree - about the   *)
(* one address such a request is for.                                       *)

(* Whoever open access has let in, which is never an administrator.         *)
Guest(u) == OpenAccess /\ account[u].role # "SUPERADMIN" /\ adopted[u]

(* An address has one account; a session, an account that is not disabled - *)
(* open access may adopt one that is.                                       *)
OneEach == \A u, v \in Users : Known(u) /\ account[u].email = account[v].email => u = v
SessionsSound == \A u \in Users : session[u] => Known(u) /\ (account[u].disabled => Guest(u))

(* What a request under way has read is still so.                           *)
StillSo(j) ==
  /\ j.pc \in {"admit", "enter"} /\ j.user # None =>
       account[j.user].email = j.email /\ ~account[j.user].disabled
  /\ j.pc = "admit" /\ j.user # None => account[j.user].role = j.role
  /\ j.pc = "open" => /\ j.user \in Users /\ ~account[j.user].disabled
                      /\ account[j.user].email = j.email /\ account[j.user].role = j.role
  /\ j.pc \in {"enter", "open"} => (j.role \in Staff => entry[j.email] = j.role)
  /\ j.pc = "apply" => entry[j.email] = j.role
  /\ j.pc \in {"disable", "enable", "assign", "take"} =>
       j.user \in Users /\ account[j.user].email = j.email
  /\ j.pc = "adopt" => /\ j.user \in Users
                       /\ account[j.user].email = j.email /\ account[j.user].role = j.role
  /\ j.pc = "rename" => j.user \in Users /\ Known(j.user) /\ ~account[j.user].disabled

(* An operator who can act is on the list, save while the request is on its *)
(* way from the list to the account; or was let in without being asked.     *)
OnList(u) ==
  Usable(u) /\ account[u].role \in Staff =>
    Renamed(u) \/ entry[account[u].email] = account[u].role \/ Guest(u)
Settling(j, u) == j.pc \in {"apply", "cut", "take"} /\ account[u].email = j.email

Elsewhere(s, u) == \E r \in Slots \ {s} : Settling(job[r], u)

(* There is a key inside, and a request that takes one away takes another.  *)
WasAdministrator ==
  \E u \in Users : Renamed(u) /\ \E e \in held[u] : <<e, "SUPERADMIN">> \in listed
Opens(e) == entry[e] = "SUPERADMIN" /\ \A u \in Users : account[u].email = e => ~account[u].disabled
Threatens(j, e) ==
  j.pc \in {"change", "remove", "apply", "cut", "disable", "assign", "take"} /\ j.email = e
KeyInside ==
  WasAdministrator \/ \E e \in Emails : Opens(e) /\ \A s \in Slots : ~Threatens(job[s], e)

(* The invariants: the first of requests that are at different addresses,   *)
(* the second of such requests when one at a time is the panel's.           *)
ApartInv == ~torn => /\ OneEach /\ SessionsSound
                     /\ \A s \in Slots : StillSo(job[s])
                     /\ \A u \in Users : OnList(u) \/ \E s \in Slots : Settling(job[s], u)
KeyInv == ~torn => KeyInside

(* The first as the request s sees it, which is at j; and what a step of it *)
(* that ends at k owes: nothing about what another request still settles.   *)
Turn(s, j) == /\ OneEach /\ SessionsSound
              /\ StillSo(j)
              /\ \A u \in Users : OnList(u) \/ Settling(j, u) \/ Elsewhere(s, u)
Fits(s, k) == /\ OneEach' /\ SessionsSound'
              /\ StillSo(k)'
              /\ \A u \in Users : OnList(u)' \/ Settling(k, u)' \/ Elsewhere(s, u)
KeepsKeys(j, k) == \A e \in Emails : Opens(e) /\ ~Threatens(j, e) => Opens(e)' /\ ~Threatens(k, e)

(* What no step undoes: an account that had two addresses had them, and the *)
(* list held what it held.                                                  *)
LEMMA PastStays ==
  ASSUME Typing, Grows
  PROVE  /\ \A u \in Users : Renamed(u) => Renamed(u)'
         /\ WasAdministrator => WasAdministrator'
<1>1. ASSUME NEW u \in Users, Renamed(u)
      PROVE  Renamed(u)'
  BY <1>1 DEF Renamed, Grows
<1>2. ASSUME WasAdministrator
      PROVE  WasAdministrator'
  <2>1. PICK u \in Users : Renamed(u) /\ \E e \in held[u] : <<e, "SUPERADMIN">> \in listed
    BY <1>2 DEF WasAdministrator
  <2> QED BY <1>1, <2>1 DEF WasAdministrator, Grows
<1> QED BY <1>1, <1>2

(* A step that writes no record and opens no session.                       *)
LEMMA ReadingKeeps ==
  ASSUME Typing, NEW s \in Slots, NEW j \in JobType, NEW k \in JobType, Turn(s, j),
         entry' = entry, account' = account, listed' = listed, held' = held,
         \A u \in Users : session'[u] => session[u] /\ (adopted[u] => adopted'[u]),
         StillSo(k)',
         \A u \in Users : Settling(j, u) => Settling(k, u) \/ ~session'[u]
  PROVE  /\ Fits(s, k)
         /\ (\A e \in Emails : Threatens(k, e) => Threatens(j, e)) => KeepsKeys(j, k)
<1>1. OneEach' /\ SessionsSound'
  BY DEF Turn, OneEach, SessionsSound, Guest, Known
<1>2. ASSUME NEW u \in Users, ~Elsewhere(s, u)
      PROVE  OnList(u)' \/ Settling(k, u)'
  <2>1. CASE OnList(u)
    BY <2>1 DEF OnList, Guest, Usable, Renamed
  <2>2. CASE Settling(j, u)
    BY <2>2 DEF OnList, Guest, Usable, Settling
  <2> QED BY <1>2, <2>1, <2>2 DEF Turn
<1>3. \A e \in Emails : Opens(e) => Opens(e)'
  BY DEF Opens
<1> QED BY <1>1, <1>2, <1>3 DEF Fits, KeepsKeys

(* Whoever may ask anything of the panel, when nothing else is going on     *)
(* there, is a key.                                                         *)
LEMMA WhoAsks ==
  ASSUME Typing, Granting, ApartInv, ~torn, \A s \in Slots : ~AtPanel(s),
         NEW me \in Users, Administers(me)
  PROVE  /\ Known(me) /\ account[me].email \in Emails
         /\ WasAdministrator \/ Opens(account[me].email)
<1>1. Known(me) /\ account[me].email \in Emails
  BY DEF Administers, Usable, ApartInv, SessionsSound, Known, Typing, TypeOK
<1>2. Renamed(me) \/ entry[account[me].email] = "SUPERADMIN"
  BY DEF Administers, ApartInv, OnList, Guest, Settling, AtPanel, Staff
<1>3. ASSUME Renamed(me)
      PROVE  WasAdministrator
  BY <1>3 DEF Granting, OnlyTheListGrants, Administers, Staff, WasAdministrator
<1>4. ASSUME entry[account[me].email] = "SUPERADMIN"
      PROVE  Opens(account[me].email)
  <2>1. \A u \in Users : account[u].email = account[me].email => u = me
    BY <1>1 DEF ApartInv, OneEach
  <2> QED BY <1>4, <2>1 DEF Opens, Administers, Usable
<1> QED BY <1>1, <1>2, <1>3, <1>4

LEMMA KeyStays ==
  ASSUME Typing, Grows, NEW s \in Slots, NEW k \in JobType, KeyInside,
         KeepsKeys(job[s], k), k = job'[s], \A r \in Slots \ {s} : job'[r] = job[r]
  PROVE  KeyInside'
<1>1. CASE WasAdministrator
  BY <1>1, PastStays DEF KeyInside
<1>2. ASSUME NEW e \in Emails, Opens(e), \A r \in Slots : ~Threatens(job[r], e)
      PROVE  KeyInside'
  <2>1. Opens(e)' /\ ~Threatens(k, e)
    BY <1>2 DEF KeepsKeys
  <2>2. \A r \in Slots : ~Threatens(job'[r], e)
    BY <1>2, <2>1
  <2> QED BY <2>1, <2>2 DEF KeyInside, Threatens
<1> QED BY <1>1, <1>2 DEF KeyInside

LEMMA GoesTo ==
  ASSUME Typing, NEW s \in Slots, NEW x, Do(s, x)
  PROVE  job'[s] = x
BY DEF Do, Typing, TypeOK

(* What the door decides.                                                   *)
LEMMA AdmitReads ==
  ASSUME Typing, NEW s \in Slots, NEW j \in JobType, j = job[s], Admit(s)
  PROVE  /\ j.pc = "admit" /\ UNCHANGED <<entry, account, session, listed, held, made, adopted>>
         /\ \/ Do(s, Idle)
            \/ /\ j.user # None /\ Do(s, Job("open", j.user, j.email, j.role))
               /\ j.role \in Staff => \/ entry[j.email] = j.role
                                      \/ \A u \in Holders(j.email) : account[u].role \notin Staff
            \/ \E r \in Roles : /\ Do(s, Job("enter", j.user, j.email, r))
                                /\ r \in Staff => entry[j.email] = r
<1>1. j.pc = "admit" /\ UNCHANGED <<entry, account, session, listed, held, made, adopted>>
  BY Zenon DEF Admit, At
<1>2. ASSUME NEW r \in Verdict(j.email)
      PROVE  /\ r \in Roles \cup {"as it is"}
             /\ r \in Staff => entry[j.email] = r
             /\ r = "as it is" => \A u \in Holders(j.email) : account[u].role \notin Staff
  BY DEF Verdict, Roles, Staff
<1>3. ASSUME NEW r \in Verdict(j.email), j.user # None, r \in {"as it is", j.role}
      PROVE  j.role \in Staff => \/ entry[j.email] = j.role
                                 \/ \A u \in Holders(j.email) : account[u].role \notin Staff
  BY <1>2, <1>3
<1>4. ASSUME NEW r \in Verdict(j.email)
      PROVE  \E q \in Roles : q = (IF r = "as it is" THEN "MERCHANT" ELSE r) /\ (q \in Staff => entry[j.email] = q)
  <2>1. "MERCHANT" \in Roles /\ "MERCHANT" \notin Staff
    BY DEF Roles, Staff
  <2>2. CASE r = "as it is"
    BY <2>1, <2>2
  <2>3. CASE r # "as it is"
    <3>1. r \in Roles
      BY <1>2, <2>3
    <3> QED BY <1>2, <2>3, <3>1
  <2> QED BY <2>2, <2>3
<1>5. ASSUME NEW r \in Verdict(j.email), ~(j.user # None /\ r \in {"as it is", j.role}),
             Do(s, IF j.user # None /\ r \in {"as it is", j.role}
                     THEN Job("open", j.user, j.email, j.role)
                     ELSE Job("enter", j.user, j.email, IF r = "as it is" THEN "MERCHANT" ELSE r))
      PROVE  \E q \in Roles : Do(s, Job("enter", j.user, j.email, q)) /\ (q \in Staff => entry[j.email] = q)
  <2>1. Do(s, Job("enter", j.user, j.email, IF r = "as it is" THEN "MERCHANT" ELSE r))
    BY <1>5
  <2> QED BY <1>4, <2>1
<1>6. ASSUME NEW r \in Verdict(j.email), j.user # None /\ r \in {"as it is", j.role},
             Do(s, IF j.user # None /\ r \in {"as it is", j.role}
                     THEN Job("open", j.user, j.email, j.role)
                     ELSE Job("enter", j.user, j.email, IF r = "as it is" THEN "MERCHANT" ELSE r))
      PROVE  Do(s, Job("open", j.user, j.email, j.role))
  BY <1>6
<1> QED BY <1>1, <1>3, <1>5, <1>6 DEF Admit

(* The request is j before the step and k after it.                         *)
LEMMA DoorReads ==
  ASSUME Typing, Granting, NEW s \in Slots, NEW j \in JobType, NEW k \in JobType,
         j = job[s], k = job'[s], Turn(s, j),
         \/ \E e \in Emails : SignIn(s, e) \/ Register(s, e)
         \/ Admit(s)
  PROVE  Fits(s, k) /\ KeepsKeys(j, k)
<1>1. ASSUME NEW e \in Emails, SignIn(s, e)
      PROVE  Fits(s, k) /\ KeepsKeys(j, k)
  <2>1. /\ k.pc = "admit" /\ k.email = e
        /\ k.user # None => /\ k.user \in Holders(e) /\ ~account[k.user].disabled
                            /\ k.role = account[k.user].role
    <3>1. CASE Do(s, Job("admit", None, e, "MERCHANT"))
      BY <3>1, GoesTo DEF Job
    <3>2. ASSUME NEW u \in Holders(e), ~account[u].disabled, Do(s, Job("admit", u, e, account[u].role))
          PROVE  k.pc = "admit" /\ k.email = e /\ k.user = u /\ k.role = account[u].role
      BY <3>2, GoesTo DEF Job
    <3> QED BY <1>1, <3>1, <3>2 DEF SignIn
  <2>2. StillSo(k)'
    BY <1>1, <2>1 DEF SignIn, StillSo, Holders
  <2> QED BY <1>1, <2>1, <2>2, ReadingKeeps DEF SignIn, At, Settling, Threatens
<1>2. ASSUME NEW e \in Emails, Register(s, e)
      PROVE  Fits(s, k) /\ KeepsKeys(j, k)
  <2>1. k.pc = "enter" /\ k.user = None /\ k.role = "MERCHANT"
    BY <1>2, GoesTo DEF Register, Job
  <2>2. StillSo(k)'
    BY <2>1 DEF StillSo, Staff
  <2> QED BY <1>2, <2>1, <2>2, ReadingKeeps DEF Register, At, Settling, Threatens
<1>3. CASE Admit(s)
  <2>1. j.pc = "admit" /\ StillSo(j) /\ UNCHANGED <<entry, account, session, listed, held, made, adopted>>
    BY <1>3, AdmitReads DEF Turn
  <2>2. /\ k.pc \in {"idle", "enter", "open"}
        /\ k.pc # "idle" => k.user = j.user /\ k.email = j.email
        /\ k.pc # "idle" => (k.role \in Staff => entry[j.email] = k.role)
        /\ k.pc = "open" => k.user # None /\ k.role = j.role
    <3>1. CASE Do(s, Idle)
      BY <3>1, GoesTo DEF Idle
    <3>2. ASSUME j.user # None, Do(s, Job("open", j.user, j.email, j.role)),
                 j.role \in Staff => \/ entry[j.email] = j.role
                                     \/ \A u \in Holders(j.email) : account[u].role \notin Staff
          PROVE  /\ k.pc = "open" /\ k.user = j.user /\ k.email = j.email /\ k.role = j.role
                 /\ j.role \in Staff => entry[j.email] = j.role
      <4>1. j.user \in Holders(j.email) /\ account[j.user].role = j.role
        BY <2>1, <3>2 DEF StillSo, Holders, JobType
      <4>2. k = Job("open", j.user, j.email, j.role)
        BY <3>2, GoesTo
      <4> QED BY <3>2, <4>1, <4>2 DEF Job
    <3>3. ASSUME NEW r \in Roles, Do(s, Job("enter", j.user, j.email, r))
          PROVE  k.pc = "enter" /\ k.user = j.user /\ k.email = j.email /\ k.role = r
      BY <3>3, GoesTo DEF Job
    <3> QED BY <1>3, <3>1, <3>2, <3>3, AdmitReads
  <2>3. StillSo(k)'
    BY <2>1, <2>2 DEF StillSo, JobType
  <2> QED BY <2>1, <2>2, <2>3, ReadingKeeps DEF Settling, Threatens
<1> QED BY <1>1, <1>2, <1>3

LEMMA DoorWrites ==
  ASSUME Typing, Granting, NEW s \in Slots, NEW j \in JobType, NEW k \in JobType,
         j = job[s], k = job'[s], Turn(s, j),
         (\E u \in Users : CreateAccount(s, u)) \/ TakeRole(s) \/ OpenSession(s)
  PROVE  Fits(s, k) /\ KeepsKeys(j, k)
<1>1. ASSUME NEW u \in Users, CreateAccount(s, u)
      PROVE  Fits(s, k) /\ KeepsKeys(j, k)
  <2>1. j.pc = "enter" /\ ~Known(u) /\ Holders(j.email) = {} /\ j.email \in Emails
    BY <1>1 DEF CreateAccount, At, Typing, HasAddress
  <2>2. k.pc = "open" /\ k.user = u /\ k.email = j.email /\ k.role = j.role
    BY <1>1, GoesTo DEF CreateAccount, Job
  <2>3. /\ account'[u] = [email |-> j.email, role |-> j.role, disabled |-> FALSE]
        /\ \A v \in Users \ {u} : account'[v] = account[v]
        /\ UNCHANGED <<entry, session, listed, made, adopted>>
        /\ \A v \in Users : held[v] \subseteq held'[v]
    BY <1>1 DEF CreateAccount, Typing, TypeOK
  <2>4. OneEach' /\ SessionsSound'
    BY <2>1, <2>3 DEF Turn, OneEach, SessionsSound, Guest, Known, Holders
  <2>5. StillSo(k)'
    BY <2>1, <2>2, <2>3 DEF StillSo, Turn
  <2>6. ASSUME NEW v \in Users, ~Elsewhere(s, v)
        PROVE  OnList(v)'
    <3>1. CASE v = u
      BY <2>1, <2>3, <3>1 DEF OnList, Guest, Usable, Turn, SessionsSound
    <3>2. CASE v # u
      <4>1. OnList(v) /\ (Renamed(v) => Renamed(v)')
        BY <2>1, <2>3, <2>6, PastStays DEF Turn, Settling, Grows
      <4> QED BY <2>3, <3>2, <4>1 DEF OnList, Guest, Usable
    <3> QED BY <3>1, <3>2
  <2>7. KeepsKeys(j, k)
    BY <2>2, <2>3 DEF KeepsKeys, Opens, Threatens
  <2> QED BY <2>4, <2>5, <2>6, <2>7 DEF Fits
<1>2. CASE TakeRole(s)
  <2>1. j.pc = "enter" /\ j.user \in Users /\ j.role \in Roles
    BY <1>2 DEF TakeRole, At, JobType
  <2>2. k.pc = "open" /\ k.user = j.user /\ k.email = j.email /\ k.role = j.role
    BY <1>2, GoesTo DEF TakeRole, JobType
  <2>3. /\ account'[j.user].role = j.role
        /\ \A u \in Users : /\ account'[u].email = account[u].email
                            /\ account'[u].disabled = account[u].disabled
        /\ \A u \in Users \ {j.user} : account'[u].role = account[u].role
        /\ ~session'[j.user]
        /\ \A u \in Users \ {j.user} : session'[u] = session[u] /\ adopted'[u] = adopted[u]
        /\ UNCHANGED <<entry, listed, held>>
    <3>1. /\ account' = [account EXCEPT ![j.user].role = j.role]
          /\ session' = [session EXCEPT ![j.user] = FALSE]
          /\ adopted' = [adopted EXCEPT ![j.user] = FALSE]
          /\ UNCHANGED <<entry, listed, held>>
      BY <1>2 DEF TakeRole, Revoke
    <3>2. /\ session \in [Users -> BOOLEAN] /\ adopted \in [Users -> BOOLEAN]
          /\ account \in [Users -> Account]
      BY DEF Typing, TypeOK, Account
    <3>3. /\ account'[j.user].role = j.role
          /\ \A u \in Users : /\ account'[u].email = account[u].email
                              /\ account'[u].disabled = account[u].disabled
          /\ \A u \in Users \ {j.user} : account'[u].role = account[u].role
      BY <2>1, <3>1, <3>2 DEF Account
    <3>4. \A u \in Users \ {j.user} : session'[u] = session[u]
      BY <3>1, <3>2
    <3>5. \A u \in Users \ {j.user} : adopted'[u] = adopted[u]
      BY <3>1, <3>2
    <3>6. ~session'[j.user]
      BY <2>1, <3>1, <3>2
    <3> QED BY <3>1, <3>3, <3>4, <3>5, <3>6
  <2>4. OneEach' /\ SessionsSound'
    BY <2>3 DEF Turn, OneEach, SessionsSound, Guest, Known
  <2>5. StillSo(k)'
    BY <2>1, <2>2, <2>3 DEF StillSo, Turn
  <2>6. ASSUME NEW u \in Users, ~Elsewhere(s, u)
        PROVE  OnList(u)'
    <3>1. CASE u = j.user
      BY <2>3, <3>1 DEF OnList, Guest, Usable
    <3>2. CASE u # j.user
      <4>1. OnList(u)
        BY <2>1, <2>6 DEF Turn, Settling
      <4> QED BY <2>3, <3>2, <4>1 DEF OnList, Guest, Usable, Renamed
    <3> QED BY <3>1, <3>2
  <2>7. KeepsKeys(j, k)
    BY <2>1, <2>2, <2>3 DEF KeepsKeys, Opens, Threatens
  <2> QED BY <2>4, <2>5, <2>6, <2>7 DEF Fits
<1>3. CASE OpenSession(s)
  <2>1. k.pc = "idle" /\ UNCHANGED <<entry, account, listed, held, made, adopted>> /\ j.pc = "open"
    BY <1>3, GoesTo DEF OpenSession, At, Idle
  <2>2. /\ j.user \in Users /\ ~account[j.user].disabled
        /\ account[j.user].role = j.role /\ account[j.user].email = j.email
        /\ j.role \in Staff => entry[j.email] = j.role
    BY <2>1 DEF Turn, StillSo
  <2>3. Known(j.user)
    BY <2>1, <2>2 DEF Known, Typing, HasAddress
  <2>4. \A u \in Users : session'[u] => u = j.user \/ session[u]
    BY <1>3 DEF OpenSession, Typing, TypeOK
  <2>5. OneEach' /\ SessionsSound'
    BY <2>1, <2>2, <2>3, <2>4 DEF Turn, OneEach, SessionsSound, Guest, Known
  <2>6. ASSUME NEW u \in Users, ~Elsewhere(s, u)
        PROVE  OnList(u)'
    <3>1. CASE u = j.user
      BY <2>1, <2>2, <3>1 DEF OnList
    <3>2. CASE u # j.user
      <4>1. OnList(u)
        BY <2>1, <2>6 DEF Turn, Settling
      <4> QED BY <2>1, <2>4, <3>2, <4>1 DEF OnList, Guest, Usable, Renamed
    <3> QED BY <3>1, <3>2
  <2>7. KeepsKeys(j, k)
    BY <2>1 DEF KeepsKeys, Opens, Threatens
  <2>8. StillSo(k)'
    BY <2>1 DEF StillSo
  <2> QED BY <2>5, <2>6, <2>7, <2>8 DEF Fits
<1> QED BY <1>1, <1>2, <1>3

(* Open access asks the list nothing, but lets nobody in as more than it    *)
(* read or made.                                                            *)
LEMMA OpenDoorTurns ==
  ASSUME Typing, Granting, NEW s \in Slots, NEW j \in JobType, NEW k \in JobType,
         j = job[s], k = job'[s], Turn(s, j), OpenDoor(s)
  PROVE  Fits(s, k) /\ KeepsKeys(j, k)
<1>1. ASSUME NEW r \in DOMAIN Demo, NEW e \in Demo[r], AskPortal(s, r, e)
      PROVE  Fits(s, k) /\ KeepsKeys(j, k)
  <2>1. j.pc = "idle" /\ UNCHANGED <<entry, account, session, listed, held, made, adopted>>
    BY <1>1 DEF AskPortal, At
  <2>2. \/ k.pc = "represent"
        \/ /\ k.pc = "adopt" /\ k.user \in Users
           /\ account[k.user].email = k.email /\ account[k.user].role = k.role
    <3>1. CASE Do(s, Job("represent", None, e, r))
      BY <3>1, GoesTo DEF Job
    <3>2. ASSUME NEW u \in Users, account[u].role = r, Do(s, Job("adopt", u, account[u].email, r))
          PROVE  k.pc = "adopt" /\ k.user = u /\ k.email = account[u].email /\ k.role = r
      BY <3>2, GoesTo DEF Job
    <3> QED BY <1>1, <3>1, <3>2 DEF AskPortal
  <2>3. StillSo(k)'
    BY <2>1, <2>2 DEF StillSo
  <2> QED BY <2>1, <2>2, <2>3, ReadingKeeps DEF Settling, Threatens
<1>2. ASSUME NEW u \in Users, Represent(s, u)
      PROVE  Fits(s, k) /\ KeepsKeys(j, k)
  <2>1. j.pc = "represent" /\ ~Known(u) /\ Holders(j.email) = {} /\ j.email \in Emails
    BY <1>2 DEF Represent, At, Typing, HasAddress
  <2>2. k.pc = "adopt" /\ k.user = u /\ k.email = j.email /\ k.role = j.role
    BY <1>2, GoesTo DEF Represent, Job
  <2>3. /\ account'[u] = [email |-> j.email, role |-> j.role, disabled |-> FALSE]
        /\ \A v \in Users \ {u} : account'[v] = account[v]
        /\ UNCHANGED <<entry, session, listed, adopted>>
        /\ Grows
    BY <1>2 DEF Represent, Grows, Typing, TypeOK
  <2>4. OneEach' /\ SessionsSound'
    BY <2>1, <2>3 DEF Turn, OneEach, SessionsSound, Guest, Known, Holders
  <2>5. StillSo(k)'
    BY <2>1, <2>2, <2>3 DEF StillSo
  <2>6. ASSUME NEW v \in Users, ~Elsewhere(s, v)
        PROVE  OnList(v)'
    <3>1. CASE v = u
      BY <2>1, <2>3, <3>1 DEF OnList, Guest, Usable, Turn, SessionsSound
    <3>2. CASE v # u
      <4>1. OnList(v) /\ (Renamed(v) => Renamed(v)')
        BY <2>1, <2>3, <2>6, PastStays DEF Turn, Settling
      <4> QED BY <2>3, <3>2, <4>1 DEF OnList, Guest, Usable
    <3> QED BY <3>1, <3>2
  <2>7. KeepsKeys(j, k)
    BY <2>2, <2>3 DEF KeepsKeys, Opens, Threatens
  <2> QED BY <2>4, <2>5, <2>6, <2>7 DEF Fits
<1>3. CASE Adopt(s)
  <2>1. k.pc = "idle" /\ UNCHANGED <<entry, account, listed, held, made>> /\ j.pc = "adopt"
    BY <1>3, GoesTo DEF Adopt, At, Idle
  <2>2. /\ j.user \in Users /\ account[j.user].email = j.email
        /\ OpenAccess /\ account[j.user].role # "SUPERADMIN"
    BY <2>1 DEF Turn, StillSo, Granting, JobsGranted, JobsOpen
  <2>3. Known(j.user)
    BY <2>1, <2>2 DEF Known, Typing, HasAddress
  <2>4. /\ adopted'[j.user]
        /\ \A u \in Users \ {j.user} : session'[u] = session[u] /\ adopted'[u] = adopted[u]
    BY <1>3, <2>2 DEF Adopt, Typing, TypeOK
  <2>5. Guest(j.user)'
    BY <2>1, <2>2, <2>4 DEF Guest
  <2>6. OneEach' /\ SessionsSound'
    BY <2>1, <2>3, <2>4, <2>5 DEF Turn, OneEach, SessionsSound, Guest, Known
  <2>7. ASSUME NEW u \in Users, ~Elsewhere(s, u)
        PROVE  OnList(u)'
    <3>1. CASE u = j.user
      BY <2>5, <3>1 DEF OnList
    <3>2. CASE u # j.user
      <4>1. OnList(u)
        BY <2>1, <2>7 DEF Turn, Settling
      <4> QED BY <2>1, <2>4, <3>2, <4>1 DEF OnList, Guest, Usable, Renamed
    <3> QED BY <3>1, <3>2
  <2>8. KeepsKeys(j, k)
    BY <2>1 DEF KeepsKeys, Opens, Threatens
  <2>9. StillSo(k)'
    BY <2>1 DEF StillSo
  <2> QED BY <2>6, <2>7, <2>8, <2>9 DEF Fits
<1> QED BY <1>1, <1>2, <1>3 DEF OpenDoor

LEMMA PanelReads ==
  ASSUME Typing, NEW s \in Slots, NEW j \in JobType, NEW k \in JobType,
         j = job[s], k = job'[s], Turn(s, j), NEW me \in Users,
         \/ SetRestricted(s, me)
         \/ \E e \in Emails : AskAccess(s, me, e)
         \/ \E u \in Users : AskUser(s, me, u)
  PROVE  Fits(s, k)
<1>1. j.pc = "idle" /\ UNCHANGED <<entry, account, session, listed, held, made, adopted>>
  BY DEF SetRestricted, AskAccess, AskUser, At
<1>2. CASE SetRestricted(s, me)
  <2>1. k = j
    BY <1>2 DEF SetRestricted
  <2>2. StillSo(k)'
    BY <1>1, <2>1 DEF StillSo
  <2> QED BY <1>1, <2>1, <2>2, ReadingKeeps
<1>3. ASSUME NEW e \in Emails, AskAccess(s, me, e)
      PROVE  Fits(s, k)
  <2>0. PICK pc \in {"add", "change", "remove"}, r \in Roles : Do(s, Job(pc, None, e, r))
    BY <1>3 DEF AskAccess, Roles
  <2>1. k.pc \in {"add", "change", "remove"}
    BY <2>0, GoesTo DEF Job
  <2>2. StillSo(k)'
    BY <2>1 DEF StillSo
  <2> QED BY <1>1, <2>2, ReadingKeeps DEF Settling
<1>4. ASSUME NEW u \in Users, AskUser(s, me, u)
      PROVE  Fits(s, k)
  <2>0. PICK pc \in {"disable", "enable", "assign"}, r \in Roles : Do(s, Job(pc, u, account[u].email, r))
    <3>1. account[u].role \in Roles
      BY DEF Typing, TypeOK
    <3> QED BY <1>4, <3>1 DEF AskUser
  <2>1. k.pc \in {"disable", "enable", "assign"} /\ k.user = u /\ k.email = account[u].email
    BY <2>0, GoesTo DEF Job
  <2>2. StillSo(k)'
    BY <1>1, <2>1 DEF StillSo
  <2> QED BY <1>1, <2>2, ReadingKeeps DEF Settling
<1> QED BY <1>2, <1>3, <1>4

(* What is asked of the panel leaves the one who asks alone.                *)
LEMMA AsksSpare ==
  ASSUME Typing, Granting, ApartInv, ~torn, KeyInside, PanelInTurn',
         NEW s \in Slots, NEW me \in Users,
         \/ SetRestricted(s, me)
         \/ \E e \in Emails : AskAccess(s, me, e)
         \/ \E u \in Users : AskUser(s, me, u)
  PROVE  KeyInside'
<1>1. job[s].pc = "idle" /\ Administers(me) /\ UNCHANGED <<entry, account, listed, held, made>>
  BY DEF SetRestricted, AskAccess, AskUser, At
<1>2. CASE UNCHANGED job
  BY <1>1, <1>2 DEF KeyInside, WasAdministrator, Renamed, Opens
<1>3. ASSUME NEW k \in JobType, Do(s, k),
             k.pc \in {"add", "change", "remove", "disable", "enable", "assign"},
             k.pc \in {"change", "remove", "disable", "assign"} => k.email # account[me].email
      PROVE  KeyInside'
  <2>1. job'[s] = k /\ \A r \in Slots \ {s} : job'[r] = job[r]
    BY <1>3 DEF Do, Typing, TypeOK
  <2>2. \A r \in Slots \ {s} : job[r].pc \notin {"add", "change", "remove", "apply", "cut",
                                                "disable", "enable", "assign", "take"}
    BY <1>3, <2>1 DEF PanelInTurn, AtPanel
  <2>3. \A r \in Slots : ~AtPanel(r)
    BY <1>1, <2>2 DEF AtPanel
  <2>4. Known(me) /\ account[me].email \in Emails /\ (WasAdministrator \/ Opens(account[me].email))
    BY <1>1, <2>3, WhoAsks
  <2>5. \A r \in Slots : ~Threatens(job'[r], account[me].email)
    BY <1>3, <2>1, <2>2 DEF Threatens
  <2>6. WasAdministrator => KeyInside'
    BY <1>1 DEF KeyInside, WasAdministrator, Renamed
  <2>7. Opens(account[me].email) => KeyInside'
    BY <1>1, <2>4, <2>5 DEF KeyInside, Opens, Threatens
  <2> QED BY <2>4, <2>6, <2>7
<1>4. ASSUME NEW e \in Emails, AskAccess(s, me, e)
      PROVE  KeyInside'
  <2>1. PICK pc \in {"add", "change", "remove"}, r \in Roles :
          Do(s, Job(pc, None, e, r)) /\ (pc # "add" => account[me].email # e)
    <3>1. "MERCHANT" \in Roles
      BY DEF Roles
    <3> QED BY <1>4, <3>1 DEF AskAccess
  <2>2. Job(pc, None, e, r) \in JobType
    BY DEF Job, JobType
  <2> QED BY <1>3, <2>1, <2>2 DEF Job
<1>5. ASSUME NEW u \in Users, AskUser(s, me, u)
      PROVE  KeyInside'
  <2>1. PICK pc \in {"disable", "enable", "assign"}, r \in Roles : Do(s, Job(pc, u, account[u].email, r))
    <3>1. account[u].role \in Roles
      BY DEF Typing, TypeOK
    <3> QED BY <1>5, <3>1 DEF AskUser
  <2>2. PICK k : k = Job(pc, u, account[u].email, r)
    OBVIOUS
  <2>3. k \in JobType /\ k.pc = pc /\ k.email = account[u].email
    BY <2>2 DEF Job, JobType, Typing, TypeOK
  <2>4. k.email # account[me].email
    BY <1>5, <2>3 DEF AskUser, ApartInv, OneEach
  <2> QED BY <1>3, <2>1, <2>2, <2>3, <2>4
<1> QED BY <1>2, <1>4, <1>5 DEF SetRestricted

(* The list is written first: only the request's own address may now differ *)
(* from its account, and no key is there.                                   *)
LEMMA PanelListsFirst ==
  ASSUME Typing, Granting, NEW s \in Slots, NEW j \in JobType, NEW k \in JobType,
         j = job[s], k = job'[s], Turn(s, j),
         AddEntry(s) \/ ChangeEntry(s) \/ RemoveEntry(s) \/ Assign(s)
  PROVE  Fits(s, k) /\ KeepsKeys(j, k)
<1>1. /\ j.pc \in {"add", "change", "remove", "assign"} /\ j.email \in Emails
      /\ UNCHANGED <<account, session, held, adopted>>
      /\ listed \subseteq listed'
      /\ \A e \in Emails \ {j.email} : entry'[e] = entry[e]
  BY DEF AddEntry, ChangeEntry, RemoveEntry, Assign, At, List, Typing, TypeOK, HasAddress
<1>2. /\ k.pc # "idle" => k.user = j.user /\ k.email = j.email /\ k.role = j.role
      /\ k.pc \in {"idle", "apply", "cut", "take"}
      /\ k.pc = "idle" => j.pc = "add" /\ entry[j.email] = "unlisted"
      /\ k.pc = "apply" => entry'[j.email] = j.role
      /\ k.pc = "take" => j.pc = "assign"
      /\ j.pc = "add" => entry[j.email] = "unlisted"
  <2>1. CASE AddEntry(s)
    <3>1. entry'[j.email] = j.role /\ entry[j.email] = "unlisted" /\ j.pc = "add"
      BY <1>1, <2>1 DEF AddEntry, At, List, Typing, TypeOK
    <3>2. k = Idle \/ k = [j EXCEPT !.pc = "apply"]
      BY <2>1, GoesTo DEF AddEntry
    <3> QED BY <3>1, <3>2 DEF Idle, JobType
  <2>2. CASE ChangeEntry(s)
    <3>1. entry'[j.email] = j.role /\ j.pc = "change"
      BY <1>1, <2>2 DEF ChangeEntry, At, List, Typing, TypeOK
    <3>2. k = [j EXCEPT !.pc = "apply"]
      BY <2>2, GoesTo DEF ChangeEntry
    <3> QED BY <3>1, <3>2 DEF JobType
  <2>3. CASE RemoveEntry(s)
    BY <2>3, GoesTo DEF RemoveEntry, At, JobType
  <2>4. CASE Assign(s)
    BY <2>4, GoesTo DEF Assign, At, JobType
  <2> QED BY <2>1, <2>2, <2>3, <2>4
<1>3. OneEach' /\ SessionsSound'
  BY <1>1 DEF Turn, OneEach, SessionsSound, Guest, Known
<1>4. StillSo(k)'
  BY <1>1, <1>2 DEF Turn, StillSo
<1>5. ASSUME NEW u \in Users, ~Elsewhere(s, u)
      PROVE  OnList(u)' \/ Settling(k, u)'
  <2>1. OnList(u)
    BY <1>1, <1>5 DEF Turn, Settling
  <2>2. CASE ~Usable(u) \/ account[u].role \notin Staff \/ Renamed(u) \/ Guest(u)
    BY <1>1, <2>2 DEF OnList, Guest, Usable, Renamed
  <2>3. CASE Usable(u) /\ account[u].role \in Staff /\ entry[account[u].email] = account[u].role
    <3>1. CASE account[u].email = j.email
      <4>1. entry[j.email] # "unlisted"
        BY <2>3, <3>1 DEF Staff
      <4> QED BY <1>1, <1>2, <3>1, <4>1 DEF Settling
    <3>2. CASE account[u].email # j.email
      <4>1. account[u].email \in Emails
        BY <2>3 DEF Usable, Turn, SessionsSound, Known, Typing, TypeOK
      <4> QED BY <1>1, <2>3, <3>2, <4>1 DEF OnList
    <3> QED BY <3>1, <3>2
  <2> QED BY <2>1, <2>2, <2>3 DEF OnList
<1>6. KeepsKeys(j, k)
  <2>1. ASSUME NEW e \in Emails, Opens(e), ~Threatens(j, e)
        PROVE  Opens(e)' /\ ~Threatens(k, e)
    <3>1. e # j.email
      BY <1>1, <1>2, <2>1 DEF Opens, Threatens
    <3> QED BY <1>1, <1>2, <2>1, <3>1 DEF Opens, Threatens
  <2> QED BY <2>1 DEF KeepsKeys
<1> QED BY <1>3, <1>4, <1>5, <1>6 DEF Fits

(* Then the account.  Nobody it reaches keeps a session the list does not   *)
(* stand behind, and only an account at that address is disabled.           *)
LEMMA PanelWritesThen ==
  ASSUME Typing, Granting, NEW s \in Slots, NEW j \in JobType, NEW k \in JobType,
         j = job[s], k = job'[s], Turn(s, j),
         Apply(s) \/ Cut(s) \/ Disable(s) \/ Enable(s) \/ Take(s)
  PROVE  Fits(s, k) /\ KeepsKeys(j, k)
<1>1. /\ j.pc \in {"apply", "cut", "disable", "enable", "take"} /\ j.email \in Emails
      /\ k.pc = "idle" /\ UNCHANGED <<entry, listed, held>>
  BY GoesTo DEF Apply, Cut, Disable, Enable, Take, At, Idle, Typing, HasAddress
<1>2. ASSUME NEW u \in Users
      PROVE  /\ account'[u].email = account[u].email
             /\ session'[u] => session[u] /\ (adopted[u] => adopted'[u])
             /\ account[u].email # j.email => account'[u] = account[u]
             /\ account'[u].disabled # account[u].disabled =>
                  IF account'[u].disabled THEN ~session'[u] /\ j.pc = "disable" ELSE j.pc = "enable"
             /\ account'[u].role = account[u].role \/ ~session'[u]
             /\ account[u].email = j.email =>
                  CASE j.pc = "apply" -> account'[u].role = j.role
                    [] j.pc \in {"cut", "take"} -> ~session'[u]
                    [] OTHER -> TRUE
  <2>0. /\ account[u] \in Account /\ session[u] \in BOOLEAN /\ adopted[u] \in BOOLEAN
        /\ account \in [Users -> Account] /\ session \in [Users -> BOOLEAN]
        /\ adopted \in [Users -> BOOLEAN]
    BY DEF Typing, TypeOK, Account
  <2>1. CASE Apply(s)
    <3>1. account'[u] = IF account[u].email = j.email /\ account[u].role # j.role
                          THEN [account[u] EXCEPT !.role = j.role] ELSE account[u]
      BY <2>1 DEF Apply, Holders
    <3>2. session'[u] = (session[u] /\ ~(account[u].email = j.email /\ account[u].role # j.role))
      BY <2>1 DEF Apply, Holders
    <3>3. adopted'[u] = (adopted[u] /\ ~(account[u].email = j.email /\ account[u].role # j.role))
      BY <2>1 DEF Apply, Holders
    <3>4. j.pc = "apply"
      BY <2>1 DEF Apply, At
    <3>5. CASE account[u].email = j.email /\ account[u].role # j.role
      BY <2>0, <3>1, <3>2, <3>3, <3>4, <3>5 DEF Account
    <3>6. CASE ~(account[u].email = j.email /\ account[u].role # j.role)
      BY <2>0, <3>1, <3>2, <3>3, <3>4, <3>6
    <3> QED BY <3>5, <3>6
  <2>2. CASE Cut(s)
    BY <2>0, <2>2 DEF Cut, At, Holders
  <2>3. ASSUME j.pc \in {"disable", "enable", "take"}
        PROVE  /\ j.user \in Users /\ account[j.user].email = j.email
               /\ account[u].email = j.email => u = j.user
    BY <1>1, <2>3 DEF Turn, StillSo, OneEach, Known
  <2>4. CASE Disable(s)
    <3>1. j.pc = "disable" /\ account' = [account EXCEPT ![j.user].disabled = TRUE]
          /\ session' = [session EXCEPT ![j.user] = FALSE]
          /\ adopted' = [adopted EXCEPT ![j.user] = FALSE]
      BY <2>4 DEF Disable, Revoke, At
    <3> QED BY <2>0, <2>3, <3>1 DEF Account
  <2>5. CASE Enable(s)
    <3>1. j.pc = "enable" /\ account' = [account EXCEPT ![j.user].disabled = FALSE]
          /\ session' = session /\ adopted' = adopted
      BY <2>5 DEF Enable, At
    <3> QED BY <2>0, <2>3, <3>1 DEF Account
  <2>6. CASE Take(s)
    <3>1. j.pc = "take" /\ account' = [account EXCEPT ![j.user].role = j.role]
          /\ session' = [session EXCEPT ![j.user] = FALSE]
          /\ adopted' = [adopted EXCEPT ![j.user] = FALSE]
      BY <2>6 DEF Take, Revoke, At
    <3> QED BY <2>0, <2>3, <3>1 DEF Account
  <2> QED BY <2>1, <2>2, <2>4, <2>5, <2>6
<1>3. OneEach'
  BY <1>2 DEF Turn, OneEach, Known
<1>4. SessionsSound'
  BY <1>2 DEF Turn, SessionsSound, Guest, Known
<1>5. StillSo(k)'
  BY <1>1 DEF StillSo
<1>6. ASSUME NEW u \in Users, ~Elsewhere(s, u)
      PROVE  OnList(u)'
  <2>1. SUFFICES ASSUME session'[u], account'[u].role \in Staff
                 PROVE  Renamed(u)' \/ entry'[account'[u].email] = account'[u].role \/ Guest(u)'
    BY DEF OnList, Usable
  <2>2. session[u] /\ account[u].role = account'[u].role /\ (Guest(u) => Guest(u)')
    BY <1>2, <2>1 DEF Guest
  <2>5. Usable(u) \/ Guest(u)
    BY <2>2 DEF Turn, SessionsSound, Usable
  <2>3. CASE OnList(u)
    BY <1>1, <1>2, <2>1, <2>2, <2>3, <2>5 DEF OnList, Renamed
  <2>4. CASE Settling(j, u)
    <3>1. j.pc = "apply" /\ account[u].email = j.email
      BY <1>2, <2>1, <2>4 DEF Settling
    <3>2. entry[j.email] = j.role
      BY <3>1 DEF Turn, StillSo
    <3> QED BY <1>1, <1>2, <3>1, <3>2
  <2> QED BY <1>6, <2>3, <2>4 DEF Turn
<1>7. KeepsKeys(j, k)
  <2>1. ASSUME NEW e \in Emails, Opens(e), ~Threatens(j, e)
        PROVE  Opens(e)' /\ ~Threatens(k, e)
    BY <1>1, <1>2, <2>1 DEF Opens, Threatens
  <2> QED BY <2>1 DEF KeepsKeys
<1> QED BY <1>3, <1>4, <1>5, <1>6, <1>7 DEF Fits

LEMMA ProfileTurns ==
  ASSUME Typing, Granting, NEW s \in Slots, NEW j \in JobType, NEW k \in JobType,
         j = job[s], k = job'[s], Turn(s, j), Profile(s)
  PROVE  Fits(s, k) /\ KeepsKeys(j, k)
<1>1. ASSUME NEW u \in Users, NEW e \in Emails, AskRename(s, u, e)
      PROVE  Fits(s, k) /\ KeepsKeys(j, k)
  <2>1. k.pc = "rename" /\ k.user = u /\ j.pc = "idle" /\ UNCHANGED <<entry, account, session, listed, held, made, adopted>>
    BY <1>1, GoesTo DEF AskRename, At, Job
  <2>2. StillSo(k)'
    BY <1>1, <2>1 DEF AskRename, Usable, Turn, SessionsSound, StillSo, Known
  <2> QED BY <2>1, <2>2, ReadingKeeps DEF Settling, Threatens
<1>2. CASE Rename(s)
  <2>1. /\ j.pc = "rename" /\ k.pc = "idle" /\ j.email \in Emails
        /\ Holders(j.email) = {} /\ UNCHANGED <<entry, session, listed, adopted>>
    BY <1>2, GoesTo DEF Rename, At, Idle, Typing, HasAddress
  <2>2. j.user \in Users /\ Known(j.user) /\ ~account[j.user].disabled
    BY <2>1 DEF Turn, StillSo
  <2>3. /\ account'[j.user].email = j.email
        /\ \A u \in Users : /\ account'[u].role = account[u].role
                            /\ account'[u].disabled = account[u].disabled
                            /\ u # j.user => account'[u] = account[u]
        /\ Grows /\ j.email \in held'[j.user]
    BY <1>2, <2>2 DEF Rename, Grows, Typing, TypeOK
  <2>4. OneEach' /\ SessionsSound'
    BY <2>1, <2>2, <2>3 DEF Turn, OneEach, SessionsSound, Guest, Known, Holders
  <2>5. Renamed(j.user)'
    <3>1. account[j.user].email \in held'[j.user]
      BY <2>2, <2>3 DEF Granting, AddressesHeld, Grows
    <3>2. account[j.user].email # j.email
      BY <2>1, <2>2 DEF Holders
    <3> QED BY <2>3, <3>1, <3>2 DEF Renamed
  <2>6. ASSUME NEW u \in Users, ~Elsewhere(s, u)
        PROVE  OnList(u)'
    <3>1. CASE u = j.user
      BY <2>5, <3>1 DEF OnList
    <3>2. CASE u # j.user
      <4>1. OnList(u) /\ (Renamed(u) => Renamed(u)')
        BY <2>1, <2>3, <2>6, PastStays DEF Turn, Settling
      <4> QED BY <2>1, <2>3, <3>2, <4>1 DEF OnList, Guest, Usable
    <3> QED BY <3>1, <3>2
  <2>7. StillSo(k)'
    BY <2>1 DEF StillSo
  <2>8. KeepsKeys(j, k)
    <3>1. \A e \in Emails : Opens(e) => Opens(e)'
      BY <2>1, <2>2, <2>3 DEF Opens
    <3> QED BY <2>1, <3>1 DEF KeepsKeys, Threatens
  <2> QED BY <2>4, <2>6, <2>7, <2>8 DEF Fits
<1> QED BY <1>1, <1>2 DEF Profile

-----------------------------------------------------------------------------
(* What a request does not reach: it writes at its own addresses, and where *)
(* there was no account.                                                    *)
Local(s) ==
  /\ \A r \in Slots \ {s} : job'[r] = job[r]
  /\ \A e \in Emails \ Addresses(job[s]) : entry'[e] = entry[e]
  /\ \A u \in Users : Known(u) /\ account[u].email \notin Addresses(job[s]) => account'[u] = account[u]

LEMMA Reaches ==
  ASSUME Typing, NEW s \in Slots, StillSo(job[s]), Door(s) \/ OpenDoor(s) \/ Panel(s) \/ Profile(s)
  PROVE  Local(s)
<1>1. (\E x : Do(s, x)) => \A r \in Slots \ {s} : job'[r] = job[r]
  BY DEF Do, Typing, TypeOK
<1>2. ASSUME NEW j \in JobType, j = job[s], ~At(s, "idle")
      PROVE  /\ j.email \in Addresses(job[s])
             /\ j.pc = "rename" => account[j.user].email \in Addresses(job[s])
  BY <1>2 DEF At, Addresses
<1>3. PICK j \in JobType : j = job[s]
  BY DEF Typing, TypeOK, JobType
<1>4. ASSUME UNCHANGED <<entry, account>>, UNCHANGED job \/ \E x : Do(s, x)
      PROVE  Local(s)
  BY <1>1, <1>4 DEF Local
<1>5. ASSUME UNCHANGED account, \E x : Do(s, x), ~At(s, "idle"),
             \A e \in Emails \ {j.email} : entry'[e] = entry[e]
      PROVE  Local(s)
  BY <1>1, <1>2, <1>3, <1>5 DEF Local
<1>6. ASSUME UNCHANGED entry, \E x : Do(s, x), ~At(s, "idle"),
             \A u \in Users : Known(u) /\ account[u].email # j.email => account'[u] = account[u]
      PROVE  Local(s)
  BY <1>1, <1>2, <1>3, <1>6 DEF Local
<1>7. CASE Door(s)
  <2>1. ASSUME NEW e \in Emails, SignIn(s, e) \/ Register(s, e)
        PROVE  Local(s)
    BY <1>4, <2>1, Zenon DEF SignIn, Register
  <2>2. CASE Admit(s) \/ OpenSession(s)
    BY <1>3, <1>4, <2>2, AdmitReads DEF OpenSession
  <2>3. ASSUME NEW u \in Users, CreateAccount(s, u)
        PROVE  Local(s)
    <3>1. UNCHANGED entry /\ (\E x : Do(s, x)) /\ ~At(s, "idle") /\ ~Known(u)
      BY <2>3 DEF CreateAccount, At
    <3>2. \A v \in Users \ {u} : account'[v] = account[v]
      BY <2>3 DEF CreateAccount, Typing, TypeOK
    <3> QED BY <1>6, <3>1, <3>2
  <2>4. CASE TakeRole(s)
    <3>1. UNCHANGED entry /\ (\E x : Do(s, x)) /\ ~At(s, "idle")
      BY <2>4 DEF TakeRole, At
    <3>2. account[j.user].email = j.email /\ \A u \in Users \ {j.user} : account'[u] = account[u]
      BY <1>3, <2>4 DEF TakeRole, At, StillSo, Typing, TypeOK
    <3> QED BY <1>6, <3>1, <3>2
  <2> QED BY <1>7, <2>1, <2>2, <2>3, <2>4 DEF Door
<1>8. CASE Panel(s)
  <2>1. ASSUME NEW me \in Users,
               \/ SetRestricted(s, me)
               \/ \E e \in Emails : AskAccess(s, me, e)
               \/ \E u \in Users : AskUser(s, me, u)
        PROVE  Local(s)
    <3>1. UNCHANGED <<entry, account>>
      BY <2>1 DEF SetRestricted, AskAccess, AskUser
    <3>2. UNCHANGED job \/ \E x : Do(s, x)
      BY <2>1, Zenon DEF SetRestricted, AskAccess, AskUser
    <3> QED BY <1>4, <3>1, <3>2
  <2>2. CASE AddEntry(s) \/ ChangeEntry(s) \/ RemoveEntry(s) \/ Assign(s)
    <3>1. UNCHANGED account /\ ~At(s, "idle")
      BY <2>2 DEF AddEntry, ChangeEntry, RemoveEntry, Assign, At
    <3>2. \E x : Do(s, x)
      BY <2>2, Zenon DEF AddEntry, ChangeEntry, RemoveEntry, Assign
    <3>3. \A e \in Emails \ {j.email} : entry'[e] = entry[e]
      BY <1>3, <2>2 DEF AddEntry, ChangeEntry, RemoveEntry, Assign, List, Typing, TypeOK
    <3> QED BY <1>5, <3>1, <3>2, <3>3
  <2>3. CASE Apply(s) \/ Cut(s)
    <3>1. UNCHANGED entry /\ ~At(s, "idle") /\ (\E x : Do(s, x))
      BY <2>3 DEF Apply, Cut, At
    <3>2. \A u \in Users : account[u].email # j.email => account'[u] = account[u]
      BY <1>3, <2>3 DEF Apply, Cut, Holders
    <3> QED BY <1>6, <3>1, <3>2
  <2>4. CASE Disable(s) \/ Enable(s) \/ Take(s)
    <3>1. UNCHANGED entry /\ ~At(s, "idle") /\ (\E x : Do(s, x))
      BY <2>4 DEF Disable, Enable, Take, At
    <3>2. account[j.user].email = j.email
      BY <1>3, <2>4 DEF Disable, Enable, Take, At, StillSo
    <3>3. \A u \in Users \ {j.user} : account'[u] = account[u]
      BY <1>3, <2>4 DEF Disable, Enable, Take, Typing, TypeOK
    <3> QED BY <1>6, <3>1, <3>2, <3>3
  <2> QED BY <1>8, <2>1, <2>2, <2>3, <2>4 DEF Panel
<1>9. CASE Profile(s)
  <2>1. ASSUME NEW u \in Users, NEW e \in Emails, AskRename(s, u, e)
        PROVE  Local(s)
    BY <1>4, <2>1, Zenon DEF AskRename
  <2>2. CASE Rename(s)
    <3>1. UNCHANGED entry /\ j.pc = "rename" /\ ~At(s, "idle") /\ (\E x : Do(s, x))
      BY <1>3, <2>2 DEF Rename, At
    <3>2. \A u \in Users \ {j.user} : account'[u] = account[u]
      BY <1>3, <2>2 DEF Rename, Typing, TypeOK
    <3>3. account[j.user].email \in Addresses(job[s])
      BY <1>2, <1>3, <3>1
    <3> QED BY <1>1, <3>1, <3>2, <3>3 DEF Local
  <2> QED BY <1>9, <2>1, <2>2 DEF Profile
<1>10. CASE OpenDoor(s)
  <2>1. ASSUME NEW r \in DOMAIN Demo, NEW e \in Demo[r], AskPortal(s, r, e)
        PROVE  Local(s)
    BY <1>4, <2>1, Zenon DEF AskPortal
  <2>2. CASE Adopt(s)
    BY <1>4, <2>2 DEF Adopt
  <2>3. ASSUME NEW u \in Users, Represent(s, u)
        PROVE  Local(s)
    <3>1. UNCHANGED entry /\ (\E x : Do(s, x)) /\ ~At(s, "idle") /\ ~Known(u)
      BY <2>3 DEF Represent, At
    <3>2. \A v \in Users \ {u} : account'[v] = account[v]
      BY <2>3 DEF Represent, Typing, TypeOK
    <3> QED BY <1>6, <3>1, <3>2
  <2> QED BY <1>10, <2>1, <2>2, <2>3 DEF OpenDoor
<1> QED BY <1>7, <1>8, <1>9, <1>10

(* So what the other requests have read is still so, and what they settle   *)
(* they still settle.                                                       *)
LEMMA OthersWait ==
  ASSUME Typing, AddressesApart, NEW s \in Slots, NEW r \in Slots \ {s}, Local(s),
         NEW j \in JobType, j = job[r]
  PROVE  /\ j = job'[r]
         /\ StillSo(j) => StillSo(j)'
         /\ \A u \in Users : Settling(j, u) => Settling(j, u)'
<1>1. j = job'[r]
  BY DEF Local
<1>2. \A e \in Addresses(j) : e \notin Addresses(job[s])
  BY <1>1 DEF AddressesApart
<1>3. j.pc # "idle" => j.email \in Emails /\ entry'[j.email] = entry[j.email]
  <2>1. j.pc # "idle" => j.email \in Emails
    BY DEF Typing, HasAddress
  <2>2. j.pc # "idle" => j.email \in Addresses(j)
    BY DEF Addresses
  <2> QED BY <1>2, <2>1, <2>2 DEF Local
<1>4. \A u \in Users : j.pc # "idle" /\ account[u].email = j.email => account'[u] = account[u]
  BY <1>2, <1>3 DEF Local, Addresses, Known
<1>5. \A u \in Users : j.pc = "rename" /\ j.user = u /\ Known(u) => account'[u] = account[u]
  BY <1>2 DEF Local, Addresses
<1>6. ASSUME StillSo(j)
      PROVE  StillSo(j)'
  BY <1>3, <1>4, <1>5, <1>6 DEF StillSo, JobType, Known
<1>7. \A u \in Users : Settling(j, u) => Settling(j, u)'
  BY <1>4 DEF Settling
<1> QED BY <1>1, <1>6, <1>7

LEMMA TornForGood == [Next]_vars /\ torn => torn'
<1>1. ASSUME NEW s \in Slots, Door(s)
      PROVE  torn' = torn
  BY <1>1, Zenon DEF Door, SignIn, Register, Admit, CreateAccount, TakeRole, OpenSession
<1>2. ASSUME NEW s \in Slots, Panel(s)
      PROVE  torn' = torn
  BY <1>2, Zenon DEF Panel, SetRestricted, AskAccess, AskUser, AddEntry, ChangeEntry, RemoveEntry,
                     Apply, Cut, Disable, Enable, Assign, Take
<1>3. ASSUME NEW s \in Slots, Profile(s)
      PROVE  torn' = torn
  BY <1>3, Zenon DEF Profile, AskRename, Rename
<1>4. ASSUME NEW s \in Slots, OpenDoor(s)
      PROVE  torn' = torn
  BY <1>4, Zenon DEF OpenDoor, AskPortal, Represent, Adopt
<1> QED BY <1>1, <1>2, <1>3, <1>4 DEF Next, Stop, EndSession, vars

LEMMA HistoryGrows ==
  ASSUME Typing, NEW s \in Slots, Door(s) \/ OpenDoor(s) \/ Panel(s) \/ Profile(s)
  PROVE  Grows
<1>1. CASE Door(s)
  <2>1. \/ UNCHANGED <<listed, held, made>>
        \/ \E u \in Users : CreateAccount(s, u)
    BY <1>1, Zenon DEF Door, SignIn, Register, Admit, TakeRole, OpenSession
  <2> QED BY <2>1 DEF CreateAccount, Grows, Typing, TypeOK
<1>2. CASE Panel(s)
  <2>1. UNCHANGED <<held, made>>
    BY <1>2, Zenon DEF Panel, SetRestricted, AskAccess, AskUser, AddEntry, ChangeEntry, RemoveEntry,
                       Apply, Cut, Disable, Enable, Assign, Take
  <2>2. UNCHANGED listed \/ List(job[s].email, job[s].role)
    BY <1>2, Zenon DEF Panel, SetRestricted, AskAccess, AskUser, AddEntry, ChangeEntry, RemoveEntry,
                       Apply, Cut, Disable, Enable, Assign, Take
  <2> QED BY <2>1, <2>2 DEF List, Grows
<1>3. CASE Profile(s)
  BY <1>3 DEF Profile, AskRename, Rename, Grows, Typing, TypeOK
<1>4. CASE OpenDoor(s)
  <2>1. \/ UNCHANGED <<listed, held, made>>
        \/ \E u \in Users : Represent(s, u)
    BY <1>4, Zenon DEF OpenDoor, AskPortal, Adopt
  <2> QED BY <2>1 DEF Represent, Grows, Typing, TypeOK
<1> QED BY <1>1, <1>2, <1>3, <1>4

-----------------------------------------------------------------------------
(* The invariants, step by step.                                            *)

LEMMA ApartInit == Init => ApartInv /\ KeyInv
<1> SUFFICES ASSUME Init PROVE ApartInv /\ KeyInv
  OBVIOUS
<1>1. /\ \A s \in Slots : job[s] = Idle
      /\ account[Root] = [email |-> RootEmail, role |-> "SUPERADMIN", disabled |-> FALSE]
      /\ \A u \in Users \ {Root} : account[u] = NoAccount
      /\ \A u \in Users : ~session[u]
  BY DEF Init
<1>2. OneEach /\ SessionsSound /\ StillSo(Idle)
  BY <1>1 DEF OneEach, SessionsSound, StillSo, Known, NoAccount, Idle
<1>3. \A u \in Users : OnList(u)
  BY <1>1 DEF OnList, Guest, Usable
<1>4. KeyInside
  <2>1. Opens(RootEmail) /\ ~Threatens(Idle, RootEmail)
    BY <1>1 DEF Init, Opens, Threatens, NoAccount, Idle
  <2> QED BY <1>1, <2>1 DEF KeyInside
<1> QED BY <1>1, <1>2, <1>3, <1>4 DEF ApartInv, KeyInv

(* A request's own view, and what its step owes, add up to the whole.       *)
LEMMA Seen ==
  ASSUME ApartInv, ~torn, NEW s \in Slots, NEW j, j = job[s]
  PROVE  Turn(s, j)
BY DEF ApartInv, Turn, Elsewhere

LEMMA AddsUp ==
  ASSUME Typing, AddressesApart, ApartInv, ~torn, NEW s \in Slots, Local(s),
         NEW k \in JobType, k = job'[s], Fits(s, k)
  PROVE  ApartInv'
<1>1. ASSUME NEW r \in Slots
      PROVE  StillSo(job[r])'
  <2>1. CASE r = s
    BY <2>1 DEF Fits, StillSo
  <2>2. CASE r # s
    <3>1. PICK j \in JobType : j = job[r]
      BY DEF Typing, TypeOK, JobType
    <3>2. j = job'[r] /\ StillSo(j)'
      BY <2>2, <3>1, OthersWait DEF ApartInv
    <3> QED BY <3>2 DEF StillSo
  <2> QED BY <2>1, <2>2
<1>2. ASSUME NEW u \in Users, Elsewhere(s, u)
      PROVE  \E r \in Slots : Settling(job[r], u)'
  <2>1. PICK r \in Slots \ {s} : Settling(job[r], u)
    BY <1>2 DEF Elsewhere
  <2>2. PICK j \in JobType : j = job[r]
    BY DEF Typing, TypeOK, JobType
  <2>3. j = job'[r] /\ Settling(j, u)'
    BY <2>1, <2>2, OthersWait
  <2> QED BY <2>3 DEF Settling
<1>3. ASSUME NEW u \in Users, ~Elsewhere(s, u)
      PROVE  OnList(u)' \/ \E r \in Slots : Settling(job[r], u)'
  BY <1>3 DEF Fits, Settling
<1> QED BY <1>1, <1>2, <1>3 DEF ApartInv, Fits

(* A step of a request, whichever it is.                                    *)
LEMMA RequestFits ==
  ASSUME Typing, Granting, NEW s \in Slots, NEW j \in JobType, NEW k \in JobType,
         j = job[s], k = job'[s], Turn(s, j), Door(s) \/ OpenDoor(s) \/ Panel(s) \/ Profile(s)
  PROVE  /\ Fits(s, k)
         /\ \/ KeepsKeys(j, k)
            \/ \E me \in Users : \/ SetRestricted(s, me)
                                \/ \E e \in Emails : AskAccess(s, me, e)
                                \/ \E u \in Users : AskUser(s, me, u)
<1>1. CASE Door(s)
  <2>1. \/ \E e \in Emails : SignIn(s, e) \/ Register(s, e)
        \/ Admit(s)
        \/ (\E u \in Users : CreateAccount(s, u)) \/ TakeRole(s) \/ OpenSession(s)
    BY <1>1 DEF Door
  <2> QED BY <2>1, DoorReads, DoorWrites
<1>2. CASE Panel(s)
  <2>1. \/ \E me \in Users : \/ SetRestricted(s, me)
                             \/ \E e \in Emails : AskAccess(s, me, e)
                             \/ \E u \in Users : AskUser(s, me, u)
        \/ AddEntry(s) \/ ChangeEntry(s) \/ RemoveEntry(s) \/ Assign(s)
        \/ Apply(s) \/ Cut(s) \/ Disable(s) \/ Enable(s) \/ Take(s)
    BY <1>2 DEF Panel
  <2> QED BY <2>1, PanelReads, PanelListsFirst, PanelWritesThen
<1>3. CASE Profile(s)
  BY <1>3, ProfileTurns
<1>4. CASE OpenDoor(s)
  BY <1>4, OpenDoorTurns
<1> QED BY <1>1, <1>2, <1>3, <1>4

LEMMA ApartStep ==
  ASSUME Typing, Typing', Granting, ApartInv, AddressesApart, [Next]_vars
  PROVE  ApartInv'
<1> SUFFICES ASSUME ~torn' PROVE ApartInv'
  BY DEF ApartInv
<1>1. ~torn
  BY TornForGood
<1>2. ASSUME NEW s \in Slots, Door(s) \/ OpenDoor(s) \/ Panel(s) \/ Profile(s)
      PROVE  ApartInv'
  <2>1. PICK j \in JobType : j = job[s]
    BY DEF Typing, TypeOK, JobType
  <2>2. PICK k \in JobType : k = job'[s]
    BY DEF Typing, TypeOK, JobType
  <2>3. Turn(s, j) /\ StillSo(job[s])
    BY <1>1, <2>1, Seen DEF ApartInv
  <2>4. Fits(s, k)
    BY <1>2, <2>1, <2>2, <2>3, RequestFits
  <2> QED BY <1>1, <1>2, <2>2, <2>3, <2>4, Reaches, AddsUp
<1>3. ASSUME UNCHANGED <<entry, account, job, listed, held, made>>,
             \A u \in Users : session'[u] => session[u] /\ (adopted[u] => adopted'[u])
      PROVE  ApartInv'
  <2>1. OneEach' /\ SessionsSound' /\ \A s \in Slots : StillSo(job[s])'
    BY <1>1, <1>3 DEF ApartInv, OneEach, SessionsSound, Guest, StillSo, Known
  <2>2. \A u \in Users : /\ OnList(u) => OnList(u)'
                         /\ \A s \in Slots : Settling(job[s], u) => Settling(job[s], u)'
    BY <1>3 DEF OnList, Guest, Usable, Renamed, Settling
  <2> QED BY <1>1, <2>1, <2>2 DEF ApartInv
<1>4. ASSUME NEW u \in Users, EndSession(u)
      PROVE  ApartInv'
  BY <1>3, <1>4 DEF EndSession, Revoke, Typing, TypeOK
<1>5. CASE UNCHANGED vars
  BY <1>3, <1>5 DEF vars
<1> QED BY <1>2, <1>4, <1>5 DEF Next, Stop

LEMMA KeyStep ==
  ASSUME Typing, Typing', Granting, ApartInv, KeyInv, PanelInTurn', [Next]_vars
  PROVE  KeyInv'
<1> SUFFICES ASSUME ~torn' PROVE KeyInside'
  BY DEF KeyInv
<1>1. ~torn /\ KeyInside
  BY TornForGood DEF KeyInv
<1>2. ASSUME NEW s \in Slots, Door(s) \/ OpenDoor(s) \/ Panel(s) \/ Profile(s)
      PROVE  KeyInside'
  <2>1. PICK j \in JobType : j = job[s]
    BY DEF Typing, TypeOK, JobType
  <2>2. PICK k \in JobType : k = job'[s]
    BY DEF Typing, TypeOK, JobType
  <2>3. Turn(s, j)
    BY <1>1, <2>1, Seen
  <2>4. \/ KeepsKeys(j, k)
        \/ \E me \in Users : \/ SetRestricted(s, me)
                            \/ \E e \in Emails : AskAccess(s, me, e)
                            \/ \E u \in Users : AskUser(s, me, u)
    BY <1>2, <2>1, <2>2, <2>3, RequestFits
  <2>5. Grows /\ \A r \in Slots \ {s} : job'[r] = job[r]
    BY <1>1, <1>2, Reaches, HistoryGrows DEF ApartInv, Local
  <2>6. CASE KeepsKeys(j, k)
    BY <1>1, <2>1, <2>2, <2>5, <2>6, KeyStays
  <2> QED BY <1>1, <2>4, <2>6, AsksSpare
<1>3. CASE UNCHANGED <<entry, account, job, listed, held, made>>
  BY <1>1, <1>3 DEF KeyInside, WasAdministrator, Renamed, Opens
<1> QED BY <1>2, <1>3 DEF Next, Stop, EndSession, vars

(* Between requests the two records agree: an operator who can act is on    *)
(* the list in that role, unless the account changed its address or open    *)
(* access let it in, as no administrator.  Any number of requests may       *)
(* overlap, as long as no two are at one address.                           *)
THEOREM OperatorsListedInTurn == Spec /\ []AddressesApart => []OperatorsListed
<1>1. Init => Typing /\ Granting /\ ApartInv
  BY TypingInit, GrantingInit, ApartInit
<1>2. Typing /\ Granting /\ ApartInv /\ AddressesApart /\ [Next]_vars
        => (Typing /\ Granting /\ ApartInv)'
  BY TypingNext, GrantingNext, ApartStep
<1>3. ApartInv => OperatorsListed
  <2> SUFFICES ASSUME ApartInv, Quiet, NEW u \in Users
               PROVE  OnList(u)
    BY DEF OperatorsListed, OnList, Guest
  <2> QED BY DEF ApartInv, Quiet, Settling, Idle
<1> QED BY <1>1, <1>2, <1>3, PTL DEF Spec

(* And the panel can never lock its last administrator out: between         *)
(* requests somebody may come in as one, unless an account that was one     *)
(* changed its address.  One request of the panel at a time, among others   *)
(* at other addresses: two administrators may disable each other.           *)
THEOREM SomeoneAdministersInTurn ==
  Spec /\ []AddressesApart /\ []PanelInTurn => []SomeoneAdministers
<1>1. Init => Typing /\ Granting /\ ApartInv /\ KeyInv
  BY TypingInit, GrantingInit, ApartInit
<1>2. Typing /\ Granting /\ ApartInv /\ KeyInv /\ AddressesApart /\ PanelInTurn' /\ [Next]_vars
        => (Typing /\ Granting /\ ApartInv /\ KeyInv)'
  BY TypingNext, GrantingNext, ApartStep, KeyStep
<1>3. KeyInv => SomeoneAdministers
  <2> SUFFICES ASSUME KeyInv, Quiet
               PROVE  WasAdministrator \/ \E e \in Emails : Opens(e)
    BY DEF SomeoneAdministers, WasAdministrator, Opens, Holders
  <2> QED BY DEF KeyInv, Quiet, KeyInside
<1> QED BY <1>1, <1>2, <1>3, PTL DEF Spec

(* The hypotheses are met where requests take turns.                        *)
LEMMA OneSlotIsApart ==
  ASSUME NEW r, Slots = {r}
  PROVE  AddressesApart /\ PanelInTurn
BY DEF AddressesApart, PanelInTurn

=============================================================================
