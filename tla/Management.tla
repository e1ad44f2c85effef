------------------------------ MODULE Management ------------------------------
(***************************************************************************)
(* The menus in which an administrator of a broker manages its users, its  *)
(* teams and the access to a repository (setup.go), the commands behind    *)
(* them (broker_commands.go), and what the broker does with their          *)
(* requests. A menu lists what the broker has; by the time something is    *)
(* chosen and confirmed, others may have changed it. An operation is a     *)
(* sequence of requests, which ends at the first that fails, and returns   *)
(* to the first menu with its message or the error.                        *)
(*                                                                         *)
(* One repository, and the menus of one of its teams. What a menu lists is *)
(* read at once. Bounds: Rounds operations, and MaxOthers requests of      *)
(* others.                                                                 *)
(***************************************************************************)
EXTENDS Naturals, Sequences, FiniteSets, SequencesExt

CONSTANTS
  User, Root,       \* names of users; Root owns the broker
  Key, KeyOf,       \* keys of the repository, and the user of each
  Team, Home,       \* teams; Home is the one whose menus are used
  Granted,          \* roles that are given in the repository
  None,
  Rounds, MaxOthers

VARIABLES
  broker,     \* what the broker has
  menu,       \* the menu on the screen
  was,        \* the broker when what the menu or the operation uses was read
  alone,      \* nobody has changed it since
  subject,    \* the user or team that the menu is about
  op,         \* the operation, once it is chosen
  todo,       \* its requests that are left to send
  outcome,    \* how the last operation ended
  rounds, others

vars == <<broker, menu, was, alone, subject, op, todo, outcome, rounds, others>>

Record == [role : {"user", "admin", "owner"}, suspended : BOOLEAN, pending : BOOLEAN, keys : BOOLEAN]
Brokers ==
  [users : [User -> Record \cup {None}], invited : SUBSET User,
   members : [Team -> [User -> Granted \cup {None}] \cup {None}],
   exists : BOOLEAN, shared : [Team -> Granted \cup {None}], transfer : BOOLEAN,
   grants : [User -> Granted \cup {None}], invites : [User -> Granted \cup {None}],
   keys : [Key -> [role : Granted \cup {"owner"}, suspended : BOOLEAN] \cup {None}]]

Parent == [users |-> "broker", teams |-> "broker", user |-> "users", team |-> "teams",
           members |-> "team", member |-> "members", repos |-> "team", repo |-> "repos",
           access |-> "repo", person |-> "access"]
Menus == DOMAIN Parent \cup {"broker"}

Operation(kind, who) == [kind |-> kind, who |-> who, role |-> None]
Nothing == Operation("nothing", Root)

TypeOK ==
  /\ broker \in Brokers /\ was \in Brokers \cup {None}
  /\ menu \in Menus /\ subject \in User \cup Team /\ alone \in BOOLEAN
  /\ op.kind # "nothing" => menu # "broker" /\ was # None
  /\ todo # << >> => op.kind # "nothing"
  /\ outcome \in {"none", "done", "error"} /\ rounds \in 0..Rounds /\ others \in 0..MaxOthers

UserRecord(role, suspended, pending, keys) ==
  [role |-> role, suspended |-> suspended, pending |-> pending, keys |-> keys]
Nobody == [u \in User |-> None]
Access(role) == [role |-> role, suspended |-> FALSE]

\* A broker with its owner, a user with keys, perhaps suspended, and one without; or with
\* the repository still to be made.
Init ==
  /\ \E one \in User \ {Root}, suspended, there, direct \in BOOLEAN, granted \in Granted \cup {None} :
       broker =
         [users |-> [u \in User |-> CASE u = Root -> UserRecord("owner", FALSE, FALSE, TRUE)
                                      [] u = one -> UserRecord("user", suspended, FALSE, TRUE)
                                      [] OTHER -> UserRecord("admin", FALSE, TRUE, FALSE)],
          invited |-> User \ {Root, one},
          members |-> [t \in Team |-> IF t = Home THEN [Nobody EXCEPT ![one] = CHOOSE r \in Granted : TRUE]
                                      ELSE None],
          exists |-> there, transfer |-> FALSE, invites |-> Nobody,
          shared |-> [t \in Team |-> IF t = Home /\ there THEN CHOOSE r \in Granted : TRUE ELSE None],
          grants |-> [Nobody EXCEPT ![one] = IF there THEN granted ELSE None],
          keys |-> [k \in Key |-> IF ~there \/ ~direct THEN None
                                  ELSE IF KeyOf[k] = Root THEN Access("owner")
                                  ELSE IF KeyOf[k] # one THEN None
                                  ELSE [Access(CHOOSE r \in Granted : TRUE) EXCEPT !.suspended = suspended]]]
  /\ menu = "broker" /\ was = None /\ alone = TRUE /\ subject = Root
  /\ op = Nothing /\ todo = << >> /\ outcome = "none" /\ rounds = 0 /\ others = 0

(***************************************************************************)
(* The broker                                                              *)
(***************************************************************************)
Request(kind, who, what) == [kind |-> kind, who |-> who, what |-> what]

Refused(b, r) ==
  LET u == r.who IN
  CASE r.kind = "upsert" -> b.users[u] # None /\ b.users[u].role = "owner"
    [] r.kind = "delete" -> b.users[u] = None \/ b.users[u].role = "owner"
    [] r.kind = "invite"   -> u \in b.invited
    [] r.kind = "cancel"   -> u \notin b.invited
    [] r.kind = "member"   -> b.members[Home] = None \/ (r.what # None /\ b.users[u] = None)
    [] r.kind = "team"     -> b.members[u] # None
    [] r.kind = "create"   -> b.exists
    [] r.kind = "share"    -> ~b.exists \/ (r.what # None /\ b.members[u] = None)
    [] r.kind = "grant"    -> ~b.exists \/ (IF r.what = None THEN b.grants[u] ELSE b.users[u]) = None
    [] r.kind = "welcome"  -> ~b.exists \/ (r.what = None <=> b.invites[u] = None)
    [] r.kind \in {"remove", "suspend"} -> b.keys[u] = None \/ b.keys[u].role = "owner"
    [] OTHER -> FALSE

\* A role and a suspension always come together, and a key that is there keeps its role.
Effect(b, r) ==
  LET u == r.who IN
  CASE r.kind = "upsert" ->
         [b EXCEPT !.users[u] = IF @ = None THEN UserRecord(r.what.role, r.what.suspended, FALSE, FALSE)
                                ELSE [@ EXCEPT !.role = r.what.role, !.suspended = r.what.suspended]]
    [] r.kind = "delete" ->
         [b EXCEPT !.users[u] = None, !.invited = @ \ {u}, !.invites[u] = None,
                   !.members = [t \in Team |-> IF @[t] = None THEN None ELSE [@[t] EXCEPT ![u] = None]],
                   !.keys = [k \in Key |-> IF KeyOf[k] = u THEN None ELSE @[k]]]
    [] r.kind = "invite" ->
         [b EXCEPT !.invited = @ \cup {u},
                   !.users[u] = IF @ = None THEN UserRecord(r.what, FALSE, TRUE, FALSE)
                                ELSE [@ EXCEPT !.role = r.what, !.pending = @ \/ ~b.users[u].keys]]
    [] r.kind = "cancel" ->
         [b EXCEPT !.invited = @ \ {u},
                   !.users[u] = IF @ # None /\ (@.keys \/ ~@.pending) THEN @ ELSE None]
    [] r.kind = "member"   -> [b EXCEPT !.members[Home] = [@ EXCEPT ![u] = r.what]]
    [] r.kind = "team"     -> [b EXCEPT !.members[u] = Nobody]
    [] r.kind = "create"   -> [b EXCEPT !.exists = TRUE, !.shared[Home] = r.what]
    [] r.kind = "share"    -> [b EXCEPT !.shared[u] = r.what]
    [] r.kind = "grant"    -> [b EXCEPT !.grants[u] = r.what]
    [] r.kind = "welcome"  -> [b EXCEPT !.invites[u] = r.what]
    [] r.kind = "transfer" -> [b EXCEPT !.transfer = TRUE]
    [] r.kind = "remove"   -> [b EXCEPT !.keys[u] = None]
    [] r.kind = "suspend"  -> [b EXCEPT !.keys[u] = [@ EXCEPT !.suspended = TRUE]]
    [] r.kind = "add"      -> [b EXCEPT !.keys = [k \in Key |-> IF k \in u /\ @[k] = None
                                                                THEN Access(r.what) ELSE @[k]]]

(***************************************************************************)
(* What a menu lists, of what was read for it                              *)
(***************************************************************************)
setupBrokerUserByName(u) == broker.users[u] # None
setupRepoKeysForUser(b, u) == {k \in Key : KeyOf[k] = u /\ b.keys[k] # None}

\* Whoever has a key or was granted the repository.
setupRepoUsers(b) == {u \in User : setupRepoKeysForUser(b, u) # {} \/ b.grants[u] # None}
setupTeamManagementChoices == {t \in Team : was.members[t] # None}
setupBrokerTeamRepoChoices == was.exists /\ was.shared[Home] # None
setupTeamUserManagementChoices == {u \in User : was.members[Home][u] # None}
setupAvailableTeamUserChoices == {u \in User : was.users[u] # None} \ setupTeamUserManagementChoices
setupPendingRepoInviteChoices == {u \in User : was.invites[u] # None}
setupAssignableRepoUserChoices == {u \in User : was.users[u] # None} \ setupRepoUsers(was)
setupAvailableRepoInviteUserChoices == setupAssignableRepoUserChoices \ setupPendingRepoInviteChoices
setupAvailableRepoTeamChoices == {t \in setupTeamManagementChoices : was.shared[t] = None}

(***************************************************************************)
(* The menus. Each reads what it lists whenever it is shown, but those of  *)
(* a member, of a repository and of its user, which list nothing.          *)
(***************************************************************************)
Idle == op.kind = "nothing"
Awaits(here) == Idle /\ rounds < Rounds /\ menu = here
AsListed == UNCHANGED <<was, alone>>
Fresh == was' = broker /\ alone' = TRUE

Show(to, about) ==
  /\ menu' = to /\ subject' = about
  /\ CASE to \in {"member", "repo", "person"} -> AsListed
       [] to \in {"broker", "team"} -> was' = None /\ alone' = TRUE
       [] OTHER -> Fresh
  /\ UNCHANGED <<broker, op, todo, outcome, rounds, others>>

runSetupBrokerManageAction == Awaits("broker") /\ \E to \in {"users", "teams"} : Show(to, Root)
runSetupTeamManagement == Awaits("teams") /\ Home \in setupTeamManagementChoices /\ Show("team", Root)
runSetupManagedTeam == Awaits("team") /\ \E to \in {"members", "repos"} : Show(to, Root)
runSetupManagedTeamUsers == Awaits("members") /\ \E u \in setupTeamUserManagementChoices : Show("member", u)
runSetupManagedTeamRepositories == Awaits("repos") /\ setupBrokerTeamRepoChoices /\ Show("repo", Root)
runSetupManagedTeamRepository == Awaits("repo") /\ Show("access", Root)
runSetupManagedTeamRepositoryAccess == Awaits("access") /\ \E u \in setupRepoUsers(was) : Show("person", u)

\* Where an operation has ended, with its message or the error; after a deletion among the users.
Leave(how) ==
  /\ IF op.kind = "delete user" /\ how = "done" THEN menu' = "users" /\ was' = broker'
     ELSE menu' = "broker" /\ was' = None
  /\ alone' = TRUE /\ subject' = Root
  /\ op' = Nothing /\ todo' = << >> /\ outcome' = how
  /\ UNCHANGED <<rounds, others>>

\* A user is looked up again; one who is gone is an error.
runSetupBrokerUsers ==
  /\ Awaits("users")
  /\ \E u \in User :
       /\ was.users[u] # None
       /\ IF setupBrokerUserByName(u) THEN Show("user", u) ELSE UNCHANGED broker /\ Leave("error")

\* "back", Esc and the left arrow.
Back == Idle /\ menu # "broker" /\ Show(Parent[menu], Root)

(***************************************************************************)
(* The operations that the menus offer                                     *)
(***************************************************************************)
Each(kind, some) == {Operation(kind, who) : who \in some}

setupBrokerUserActionChoices(u) ==
  LET user == was.users[u] IN
  IF user.role = "owner" THEN {"transfer ownership"}
  ELSE {"edit role", "delete user", IF user.suspended THEN "unsuspend user" ELSE "suspend user"}
       \cup (IF user.pending \/ ~user.keys THEN {"cancel invite"} ELSE {})

\* The users of the broker are offered where they could be listed, the invitations where not.
setupRepoAccessManagementChoices ==
  Each("assign users", SUBSET setupAssignableRepoUserChoices \ {{}})
  \cup Each("invite to repository", setupAvailableRepoInviteUserChoices)
  \cup Each("cancel repository invite", setupPendingRepoInviteChoices)
  \cup Each("grant team", setupAvailableRepoTeamChoices)

Offered ==
  CASE menu = "users"   -> Each("invite user", User)
    [] menu = "user"    -> {Operation(kind, subject) : kind \in setupBrokerUserActionChoices(subject)}
    [] menu = "teams"   -> Each("create team", Team)
    [] menu = "members" -> Each("add user", setupAvailableTeamUserChoices)
    [] menu = "member"  -> {Operation(kind, subject) : kind \in {"edit role cap", "remove user"}}
    [] menu = "repos"   -> {Operation("create repository", Home)}
    [] menu = "repo"    -> {Operation(kind, Home) : kind \in {"edit team", "remove team"}}
    [] menu = "access"  -> setupRepoAccessManagementChoices
    [] OTHER -> {}

Begin(o) ==
  /\ op' = o /\ rounds' = rounds + 1
  /\ UNCHANGED <<broker, menu, subject, todo, outcome, others>>
choose == Awaits(menu) /\ AsListed /\ \E o \in Offered : Begin(o)

\* The access of a user is read before a role is asked for.
runSetupManagedTeamRepositoryUser ==
  /\ Awaits("person") /\ subject \in setupRepoUsers(broker) /\ Fresh
  /\ \E kind \in {"edit access", "suspend access", "remove access"} : Begin(Operation(kind, subject))

\* Esc where a role is asked for: "No changes made."
cancel == /\ ~Idle /\ todo = << >> /\ op' = Nothing
          /\ UNCHANGED <<broker, menu, was, alone, subject, todo, outcome, rounds, others>>

(***************************************************************************)
(* The commands: what an operation asks of the broker, with what has been  *)
(* read.                                                                   *)
(***************************************************************************)
Roles(o) == IF o.kind \in {"invite user", "edit role"} THEN {"user", "admin"} ELSE Granted
For(some, kind, what) == LET list == SetToSeq(some) IN [i \in 1..Len(list) |-> Request(kind, list[i], what)]

brokerInviteBrokerUserCommand(u, role) == <<Request("invite", u, role)>>
brokerCancelBrokerInviteCommand(u) == <<Request("cancel", u, None)>>
brokerConfirmOwnershipTransferCommand == <<Request("transfer", Root, None)>>

\* Mutated: a suspension is not sent along with the role.
brokerUsersCommand_Role(u, role, suspended) == <<Request("upsert", u, [role |-> role, suspended |-> FALSE])>>

brokerUsersCommand(u, role, suspended) == <<Request("upsert", u, [role |-> role, suspended |-> suspended])>>
brokerTeamsCommand(kind, who, role) == <<Request(kind, who, role)>>

\* A suspension keeps the role that the menu has read, and a new role ends the suspension.
runSetupBrokerUserAction(o, role) ==
  CASE o.kind = "edit role"      -> brokerUsersCommand(o.who, role, FALSE)
    [] o.kind = "suspend user"   -> brokerUsersCommand(o.who, was.users[o.who].role, TRUE)
    [] o.kind = "unsuspend user" -> brokerUsersCommand(o.who, was.users[o.who].role, FALSE)
    [] o.kind = "delete user"    -> <<Request("delete", o.who, None)>>
    [] o.kind = "cancel invite"  -> brokerCancelBrokerInviteCommand(o.who)
    [] o.kind = "transfer ownership" -> brokerConfirmOwnershipTransferCommand

runSetupManagedTeamUserAction(o, role) ==
  brokerTeamsCommand("member", o.who, IF o.kind = "remove user" THEN None ELSE role)
runSetupTeamRepositoryCreate(role) == <<Request("create", Home, role)>>
runSetupTeamRepoAccessUpsert(o, role) ==
  brokerTeamsCommand("share", o.who, IF o.kind = "remove team" THEN None ELSE role)
runSetupManagedTeamRepositoryAction(o, role) ==
  <<Request("welcome", o.who, IF o.kind = "cancel repository invite" THEN None ELSE role)>>
runSetupRepoUserAssignment(some, role) == For(some, "grant", role)

\* An edit takes the keys away and adds them again with their new role.
runSetupManagedTeamRepositoryUserAction(o, role) ==
  LET keys == setupRepoKeysForUser(was, o.who)
      Grant(r) == IF was.grants[o.who] = None THEN << >> ELSE <<Request("grant", o.who, r)>>
  IN CASE o.kind = "edit access" -> Grant(role) \o For(keys, "remove", None) \o <<Request("add", keys, role)>>
       [] o.kind = "suspend access" -> For(keys, "suspend", None)
       [] o.kind = "remove access"  -> Grant(None) \o For(keys, "remove", None)

Requests(o, role) ==
  CASE o.kind = "invite user" -> brokerInviteBrokerUserCommand(o.who, role)
    [] o.kind = "create team" -> brokerTeamsCommand("team", o.who, None)
    [] o.kind = "create repository" -> runSetupTeamRepositoryCreate(role)
    [] o.kind \in {"add user", "edit role cap", "remove user"} -> runSetupManagedTeamUserAction(o, role)
    [] o.kind \in {"edit team", "remove team", "grant team"} -> runSetupTeamRepoAccessUpsert(o, role)
    [] o.kind \in {"invite to repository", "cancel repository invite"} ->
         runSetupManagedTeamRepositoryAction(o, role)
    [] o.kind = "assign users" -> runSetupRepoUserAssignment(o.who, role)
    [] o.kind \in {"edit access", "suspend access", "remove access"} ->
         runSetupManagedTeamRepositoryUserAction(o, role)
    [] OTHER -> runSetupBrokerUserAction(o, role)

confirm ==
  /\ ~Idle /\ todo = << >>
  /\ \E role \in Roles(op) :
       IF Requests(op, role) = << >> THEN UNCHANGED broker /\ Leave("done")
       ELSE /\ todo' = Requests(op, role) /\ op' = [op EXCEPT !.role = role]
            /\ UNCHANGED <<broker, menu, was, alone, subject, outcome, rounds, others>>

send ==
  /\ todo # << >> /\ ~Refused(broker, Head(todo))
  /\ broker' = Effect(broker, Head(todo))
  /\ IF Len(todo) = 1 THEN Leave("done")
     ELSE todo' = Tail(todo) /\ UNCHANGED <<menu, was, alone, subject, op, outcome, rounds, others>>

\* The broker refuses, or cannot be reached.
fail == todo # << >> /\ UNCHANGED broker /\ Leave("error")

\* Somebody else manages the same broker.
Elsewhere ==
  /\ others < MaxOthers /\ others' = others + 1 /\ alone' = (was = None)
  /\ \E u \in User \ {Root} : \E r \in {Request("delete", u, None), Request("grant", u, None)} \cup
         {Request("upsert", u, [role |-> "user", suspended |-> TRUE])} \cup
         {Request("remove", k, None) : k \in {k \in Key : KeyOf[k] = u}} :
       ~Refused(broker, r) /\ broker' = Effect(broker, r)
  /\ UNCHANGED <<menu, was, subject, op, todo, outcome, rounds>>

Next ==
  \/ runSetupBrokerManageAction \/ runSetupTeamManagement \/ runSetupManagedTeam
  \/ runSetupManagedTeamUsers \/ runSetupManagedTeamRepositories \/ runSetupManagedTeamRepository
  \/ runSetupManagedTeamRepositoryAccess \/ runSetupBrokerUsers \/ Back
  \/ choose \/ runSetupManagedTeamRepositoryUser \/ cancel \/ confirm \/ send \/ fail
  \/ Elsewhere

Spec == Init /\ [][Next]_vars

(***************************************************************************)
(* Properties                                                              *)
(***************************************************************************)
\* What an operation of several requests is meant to do at once.  A role that is edited lifts
\* the suspension of its user or key; suspended access leaves what was granted to the user.
Intended(b, o) ==
  LET u == o.who
      Keys(to(_)) == [k \in Key |-> IF k \in setupRepoKeysForUser(b, u) THEN to(b.keys[k]) ELSE b.keys[k]]
  IN CASE o.kind = "edit role"    -> [b EXCEPT !.users[u] = [@ EXCEPT !.role = o.role, !.suspended = FALSE]]
       [] o.kind = "suspend user" -> [b EXCEPT !.users[u] = [@ EXCEPT !.suspended = TRUE]]
       [] o.kind = "assign users" -> [b EXCEPT !.grants = [v \in User |-> IF v \in u THEN o.role ELSE @[v]]]
       [] o.kind = "edit access"  -> LET Edited(key) == Access(o.role)
                                     IN [b EXCEPT !.grants[u] = IF @ = None THEN None ELSE o.role, !.keys = Keys(Edited)]
       [] o.kind = "suspend access" -> LET Suspended(key) == [key EXCEPT !.suspended = TRUE]
                                       IN [b EXCEPT !.keys = Keys(Suspended)]
       [] o.kind = "remove access" -> LET Gone(key) == None IN [b EXCEPT !.grants[u] = None, !.keys = Keys(Gone)]

Several == {"edit role", "suspend user", "assign users", "edit access", "suspend access", "remove access"}

\* An operation that nobody disturbs does all that it is meant to and nothing else, or, when it
\* stops with an error, some of it: an edit that stops there may have taken keys away.
OperationsAreComplete ==
  [][op.kind \in Several /\ alone /\ menu' = "broker" =>
       LET all == Intended(was, op) IN
       IF outcome' = "done" THEN broker' = all
       ELSE /\ \A u \in User : broker'.grants[u] \in {was.grants[u], all.grants[u]}
            /\ \A k \in Key : broker'.keys[k] \in {was.keys[k], all.keys[k]} \cup
                               (IF op.kind = "edit access" /\ KeyOf[k] = op.who THEN {None} ELSE {})
            /\ [broker' EXCEPT !.grants = was.grants, !.keys = was.keys] = was]_vars

\* A menu makes a user by an invitation only, unless the user was deleted behind its back.
OnlyInvitedAppear ==
  [][op.kind \notin {"nothing", "invite user"} /\ alone /\ others' = others =>
       \A u \in User : broker'.users[u] # None => broker.users[u] # None]_vars
=============================================================================
