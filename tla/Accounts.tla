------------------------------- MODULE Accounts -------------------------------
(***************************************************************************)
(* Users, teams, members and owners of a deployed broker                   *)
(* (broker/gcp/index.js, from /owners/upsert to /owners/transfer/accept,   *)
(* and /members/reindex). They live in documents: _owners, _users, one per *)
(* team and one per repository. A handler reads what it needs, checks the  *)
(* signature against it, changes its copy and writes whole documents back, *)
(* one after the other and under no condition; other handlers run between  *)
(* its writes. A second store, the membership index, lists the             *)
(* repositories of a key for /repos/mine; every save of a repository       *)
(* brings it up to date.                                                   *)
(*                                                                         *)
(* A handler is one step that reads and decides, and then its writes       *)
(* (todo), one step each. A pending invitation or transfer may always have *)
(* expired. Refused requests change nothing and are left out. Bound: a key *)
(* is used in the name of its user only, so no key ever belongs to another *)
(* user.                                                                   *)
(***************************************************************************)
EXTENDS Naturals, Sequences

CONSTANTS
  Call,         \* requests in progress
  User, Root,   \* user names; Root is the one of the owner keys
  Key, KeyOf,   \* public keys, and the user of each
  Team, Name,   \* teams; logical names of repositories
  None,         \* nothing there
  Granted,      \* roles that are given to members, teams and users of repositories
  Appointed,    \* roles that are given to users of the broker
  MaxRequests   \* bound on the requests of a behaviour

VARIABLES
  owners,   \* _owners: the owner keys
  users,    \* _users: users.of[u] and users.invites[u]
  teams,    \* teams[t]: its members, or None
  repos,    \* repos[n]: a repository document, or None
  index,    \* index[k, n]: whether /repos/mine lists n for k
  todo,     \* todo[c]: the writes of c that are still to come
  doing,    \* doing[c]: what c is about, and the user concerned
  alone,    \* since when no requests have overlapped or failed (history)
  begun     \* requests so far

docs == <<owners, users, teams, repos, index>>
vars == <<docs, todo, doing, alone, begun>>

Role == {"read", "admin", "owner"}

Rank(r) == CASE r = "read" -> 1 [] r = "admin" -> 2 [] r = "owner" -> 3

\* The identity of a user is new each time the name is created; 0 is the owner's.
Users == [of : [User -> {None} \cup
                  [id : 0..MaxRequests, role : Appointed \cup {"owner"}, keys : SUBSET Key,
                   suspended : BOOLEAN, pending : BOOLEAN]],
          invites : [User -> Appointed \cup {None}]]
Members == [User -> {None} \cup [id : 0..MaxRequests, role : Granted]]
Repository == [keys : [Key -> {None} \cup [role : Granted \cup {"admin", "owner"}, suspended : BOOLEAN, transferred : BOOLEAN]],
               teams : [Team -> Granted \cup {None}], grants : [User -> Granted \cup {None}],
               invites : [User -> Granted \cup {None}], transfer : Key \cup {None}]

NewRepository ==
  [keys |-> [k \in Key |-> None], teams |-> [t \in Team |-> None],
   grants |-> [u \in User |-> None], invites |-> [u \in User |-> None], transfer |-> None]
NewTeam == [u \in User |-> None]
NoUsers == [of |-> [u \in User |-> None], invites |-> [u \in User |-> None]]

TypeOK ==
  /\ owners \subseteq Key
  /\ users \in Users
  /\ teams \in [Team -> Members \cup {None}]
  /\ repos \in [Name -> Repository \cup {None}]
  /\ index \in [Key \X Name -> {"unlisted", "suspended", "listed"}]
  /\ \A c \in Call : Len(todo[c]) <= 4
  /\ alone \in {"always", "since reindex", "no"}
  /\ begun \in 0..MaxRequests

Nothing == [kind |-> "nothing", user |-> Root]

\* A broker before its set-up, or after it: Root has the owner key, and there are
\* the teams and one repository, without members.
Init ==
  /\ \E ready \in BOOLEAN, first \in Name :
       /\ owners = IF ready THEN {k \in Key : KeyOf[k] = Root} ELSE {}
       /\ repos = [n \in Name |-> IF ready /\ n = first THEN NewRepository ELSE None]
       /\ teams = [t \in Team |-> IF ready THEN NewTeam ELSE None]
  /\ users = NoUsers
  /\ index = [p \in Key \X Name |-> "unlisted"]
  /\ todo = [c \in Call |-> <<>>]
  /\ doing = [c \in Call |-> Nothing]
  /\ alone = "always"
  /\ begun = 0

-----------------------------------------------------------------------------
(***************************************************************************)
(* Reading                                                                 *)
(***************************************************************************)

\* loadBrokerUsers: the owner keys are keys of a user of their own.
Loaded ==
  LET top == users.of[Root]
      owner == [id |-> 0, role |-> "owner", keys |-> owners, suspended |-> FALSE, pending |-> FALSE]
  IN IF owners = {} THEN users
     ELSE [users EXCEPT !.of[Root] = IF top = None THEN owner ELSE [top EXCEPT !.keys = @ \cup owners]]

Known(u) == Loaded.of[u] # None

\* loadRepo and ensureRepo: a repository that is missing is a new one, and broker
\* owners need no key of their own unless ownership was transferred to it.
Ensured(n) ==
  IF repos[n] = None THEN NewRepository
  ELSE [repos[n] EXCEPT !.keys = [k \in Key |->
          IF @[k] # None /\ @[k].role = "owner" /\ k \in owners /\ ~@[k].transferred THEN None ELSE @[k]]]

\* signedBrokerUser
Signs(k) == Known(KeyOf[k]) /\ ~Loaded.of[KeyOf[k]].suspended /\ k \in Loaded.of[KeyOf[k]].keys

BrokerRole(k) == IF Signs(k) THEN {Loaded.of[KeyOf[k]].role} ELSE {}

\* requireBrokerAdmin: some key administers the broker.
BrokerAdmin == \E k \in Key : k \in owners \/ BrokerRole(k) \cap {"admin", "owner"} # {}

Direct(k, d) == IF d.keys[k] = None \/ d.keys[k].suspended THEN {} ELSE {d.keys[k].role}

\* The grants of a user, and the weaker of the roles of the user in a team and of
\* the team.
ThroughUser(u, d) ==
  ({d.grants[u]} \ {None}) \cup
  {LET mine == teams[t][u].role IN IF Rank(d.teams[t]) < Rank(mine) THEN d.teams[t] ELSE mine :
     t \in {x \in Team : /\ d.teams[x] # None /\ teams[x] # None /\ teams[x][u] # None
                         /\ Known(u) /\ teams[x][u].id = Loaded.of[u].id}}

\* effectiveSignedKey
Roles(k, d) == Direct(k, d) \cup IF Signs(k) THEN ThroughUser(KeyOf[k], d) ELSE {}

\* requireAdmin, requireOwner
Administrators(d) == {k \in Key : (Roles(k, d) \cup BrokerRole(k)) \cap {"admin", "owner"} # {}}
Proprietors(d) == {k \in Key : "owner" \in Roles(k, d) \cup BrokerRole(k)}

-----------------------------------------------------------------------------
(***************************************************************************)
(* Writing                                                                 *)
(***************************************************************************)

\* Keys that reach a repository through a team or a grant of their user.
Reached(k, d) ==
  LET u == KeyOf[k]
  IN /\ Known(u) /\ k \in Loaded.of[u].keys
     /\ ~Loaded.of[u].suspended /\ ~Loaded.of[u].pending
     /\ ThroughUser(u, d) # {}

\* syncMembershipIndex: entries are set, and none is removed.
Listing(k, d, old) ==
  IF Reached(k, d) THEN "listed"
  ELSE IF d.keys[k] = None THEN old
  ELSE IF d.keys[k].suspended THEN "suspended" ELSE "listed"

Synced(some) ==
  [p \in Key \X Name |-> IF some[p[2]] = None THEN index[p] ELSE Listing(p[1], some[p[2]], index[p])]

\* deleteMembershipIndex: keys and grants, but not the keys of teams.
Unlisted(n, d) ==
  [p \in Key \X Name |->
     LET u == KeyOf[p[1]]
     IN IF p[2] = n /\ (d.keys[p[1]] # None \/ (d.grants[u] # None /\ Known(u) /\ p[1] \in Loaded.of[u].keys))
        THEN "unlisted" ELSE index[p]]

\* Mutated: the keys of the user stay in the repositories.
Forgotten_InvitesOnly(u, d) == [d EXCEPT !.invites[u] = None]

Forgotten(u, d) == [d EXCEPT !.keys = [k \in Key |-> IF KeyOf[k] = u THEN None ELSE @[k]], !.invites[u] = None]

\* The rest of /broker/users/delete: the user's index entries, memberships and keys.
\* Grants of the user stay.
Purge(u, gone) ==
  LET direct == {k \in Key : KeyOf[k] = u /\ \E n \in Name : repos[n] # None /\ repos[n].keys[k] # None}
  IN /\ teams' = [t \in Team |-> IF teams[t] = None THEN None ELSE [teams[t] EXCEPT ![u] = None]]
     /\ repos' = [n \in Name |-> IF repos[n] = None THEN None ELSE Forgotten(u, repos[n])]
     /\ index' = [p \in Key \X Name |-> IF p[1] \in gone \cup direct THEN "unlisted" ELSE index[p]]
     /\ UNCHANGED <<owners, users>>

Only(n, d) == [m \in Name |-> IF m = n THEN d ELSE None]

Granting(t) == [n \in Name |-> IF repos[n] # None /\ repos[n].teams[t] # None THEN repos[n] ELSE None]

\* A write is a record with one field, which says what is written.
Apply(w) ==
  LET is(kind) == kind \in DOMAIN w
      keep(those) == UNCHANGED those
  IN CASE is("owners") -> owners' = w.owners /\ keep(<<users, teams, repos, index>>)
       [] is("users") -> users' = w.users /\ keep(<<owners, teams, repos, index>>)
       [] is("team") -> teams' = [teams EXCEPT ![w.team.name] = w.team.members] /\ keep(<<owners, users, repos, index>>)
       [] is("repos") -> /\ repos' = [n \in Name |-> IF w.repos[n] = None THEN repos[n] ELSE w.repos[n]]
                         /\ keep(<<owners, users, teams, index>>)
       [] is("delete") -> repos' = [repos EXCEPT ![w.delete] = None] /\ keep(<<owners, users, teams, index>>)
       [] is("sync") -> index' = Synced(w.sync) /\ keep(<<owners, users, teams, repos>>)
       [] is("syncAll") -> index' = Synced(repos) /\ keep(<<owners, users, teams, repos>>)
       [] is("syncTeam") -> index' = Synced(Granting(w.syncTeam)) /\ keep(<<owners, users, teams, repos>>)
       [] is("unlist") -> index' = Unlisted(w.unlist.name, w.unlist.doc) /\ keep(<<owners, users, teams, repos>>)
       [] is("purge") -> Purge(w.purge.user, w.purge.keys)

W(kind, what) == <<[k \in {kind} |-> what]>>

\* saveRepo, of one or more repositories.
SaveAll(some) == W("repos", some) \o W("sync", some)
Save(n, d) == SaveAll(Only(n, d))
SaveTeam(t, members) == W("team", [name |-> t, members |-> members])

Busy == {c \in Call : todo[c] # <<>>}
Last(c) == Len(todo[c]) = 1

Write(c) ==
  /\ todo[c] # <<>>
  /\ Apply(Head(todo[c]))
  /\ todo' = [todo EXCEPT ![c] = Tail(@)]
  /\ doing' = IF Last(c) THEN [doing EXCEPT ![c] = Nothing] ELSE doing
  /\ alone' = IF doing[c].kind = "reindex" /\ Busy = {c} /\ alone = "no" THEN "since reindex" ELSE alone
  /\ UNCHANGED begun

\* A write fails, or the process ends: the writes that are left are not made.
Fail(c) ==
  /\ todo[c] # <<>>
  /\ todo' = [todo EXCEPT ![c] = <<>>]
  /\ doing' = [doing EXCEPT ![c] = Nothing]
  /\ alone' = "no"
  /\ UNCHANGED <<docs, begun>>

\* A request is read and decided; its writes follow.
Handle(c, kind, u, writes) ==
  /\ todo' = [todo EXCEPT ![c] = writes]
  /\ doing' = [doing EXCEPT ![c] = [kind |-> kind, user |-> u]]
  /\ alone' = IF Busy = {} THEN alone ELSE "no"
  /\ begun' = begun + 1
  /\ UNCHANGED docs

Do(c, writes) == Handle(c, "save", Root, writes)

\* A request is about to come in; the requests below happen then only.
Ready(c) == todo[c] = <<>> /\ begun < MaxRequests

-----------------------------------------------------------------------------
(***************************************************************************)
(* Owners and users                                                        *)
(***************************************************************************)

\* /owners/upsert: with the token of the set-up while there is no owner, and signed
\* by an owner afterwards.
UpsertOwner(c, k) ==
  /\ KeyOf[k] = Root
  /\ Do(c, W("owners", owners \cup {k}))

\* The user, or a new one.
Person(u, role, pending) ==
  IF Known(u) THEN Loaded.of[u]
  ELSE [id |-> begun + 1, role |-> role, keys |-> {}, suspended |-> FALSE, pending |-> pending]

\* /broker/users/upsert, with a key or without.
UpsertUser(c, u, role, keys, suspended) ==
  /\ BrokerAdmin
  /\ Known(u) => Loaded.of[u].role # "owner"
  /\ \A k \in keys : KeyOf[k] = u
  /\ Do(c, W("users", [Loaded EXCEPT !.of[u] =
       [Person(u, role, FALSE) EXCEPT !.role = role, !.suspended = suspended, !.keys = @ \cup keys]]))

DeleteUser(c, u) ==
  /\ BrokerAdmin
  /\ Known(u) /\ Loaded.of[u].role # "owner"
  /\ Handle(c, "delete user", u,
            W("users", [Loaded EXCEPT !.of[u] = None, !.invites[u] = None])
            \o W("purge", [user |-> u, keys |-> Loaded.of[u].keys]))

\* /broker/users/invite/create: a pending invitation, if it has expired, is replaced.
InviteUser(c, u, role) ==
  /\ BrokerAdmin
  /\ LET user == Person(u, role, TRUE)
     IN Do(c, W("users", [Loaded EXCEPT
          !.of[u] = [user EXCEPT !.role = role, !.pending = @ \/ user.keys = {}], !.invites[u] = role]))

\* /broker/users/invite/accept
AcceptUser(c, k) ==
  LET u == KeyOf[k]
      user == Person(u, "user", FALSE)
  IN /\ Loaded.invites[u] # None
     /\ Do(c, W("users", [Loaded EXCEPT
          !.of[u] = [user EXCEPT !.role = Loaded.invites[u], !.pending = FALSE, !.keys = @ \cup {k}],
          !.invites[u] = None]) \o W("syncAll", None))

\* /broker/users/invite/cancel: a user who was only invited goes with the invitation.
CancelUser(c, u) ==
  /\ BrokerAdmin
  /\ Loaded.invites[u] # None
  /\ LET stays == Known(u) /\ (Loaded.of[u].keys # {} \/ ~Loaded.of[u].pending)
     IN Do(c, W("users", [Loaded EXCEPT !.of[u] = IF stays THEN @ ELSE None, !.invites[u] = None])
              \o W("syncAll", None))

\* /profile/update: whoever signs with a key of the repository becomes a user.
UpdateProfile(c, n, k) ==
  /\ Roles(k, Ensured(n)) # {}
  /\ Do(c, W("users", [Loaded EXCEPT !.of[KeyOf[k]] = [Person(KeyOf[k], "user", FALSE) EXCEPT !.keys = @ \cup {k}]]))

-----------------------------------------------------------------------------
(***************************************************************************)
(* Teams                                                                   *)
(***************************************************************************)

CreateTeam(c, t) ==
  /\ BrokerAdmin
  /\ teams[t] = None
  /\ Do(c, SaveTeam(t, NewTeam))

\* Mutated: the grants of the team stay.
Ungranted_Kept(t, d) == d

Ungranted(t, d) == [d EXCEPT !.teams[t] = None]

\* /teams/delete saves every repository that grants the team, and deletes it.
DeleteTeam(c, t) ==
  /\ BrokerAdmin
  /\ teams[t] # None
  /\ Do(c, SaveAll([n \in Name |-> IF Granting(t)[n] = None THEN None ELSE Ungranted(t, repos[n])])
           \o SaveTeam(t, None))

\* /teams/member/upsert, /teams/member/remove
SetMember(c, t, u, role) ==
  /\ BrokerAdmin
  /\ teams[t] # None
  /\ role # None => Known(u)
  /\ Do(c, SaveTeam(t, [teams[t] EXCEPT ![u] = IF role = None THEN None ELSE [id |-> Loaded.of[u].id, role |-> role]])
           \o W("syncTeam", t))

-----------------------------------------------------------------------------
(***************************************************************************)
(* Repositories and their members                                          *)
(***************************************************************************)

NewKey(role, transferred) == [role |-> role, suspended |-> FALSE, transferred |-> transferred]

\* assertUniqueRepoKey: a key that is there stays as it is.
WithKey(d, k, role) == IF d.keys[k] = None THEN [d EXCEPT !.keys[k] = NewKey(role, FALSE)] ELSE d

\* /repos/create: it is saved with its team before the bucket exists, and with the
\* key of its administrator after it.
CreateRepository(c, n, t, k, role) ==
  /\ BrokerAdmin
  /\ repos[n] = None /\ teams[t] # None
  /\ LET d == [NewRepository EXCEPT !.teams[t] = role]
     IN Do(c, Save(n, d) \o Save(n, WithKey(d, k, role)))

\* /repos/upsert
UpsertRepository(c, n, t, k, role) ==
  /\ repos[n] # None /\ teams[t] # None
  /\ Administrators(repos[n]) # {}
  /\ LET d == IF repos[n].teams[t] = None THEN [repos[n] EXCEPT !.teams[t] = role] ELSE repos[n]
     IN Do(c, Save(n, WithKey(d, k, role)))

\* /repo/teams/upsert, /repo/teams/remove
SetTeam(c, n, t, role) ==
  /\ repos[n] # None
  /\ role # None => teams[t] # None
  /\ Administrators(repos[n]) # {}
  /\ Do(c, Save(n, [repos[n] EXCEPT !.teams[t] = role]))

\* /repo/users/upsert, /repo/users/remove
SetGrant(c, n, u, role) ==
  /\ repos[n] # None
  /\ BrokerAdmin /\ Administrators(repos[n]) # {}
  /\ IF role = None THEN repos[n].grants[u] # None ELSE Known(u)
  /\ Do(c, Save(n, [repos[n] EXCEPT !.grants[u] = role]))

\* /repo/update, and its like that change neither keys nor teams.
UpdateRepository(c, n) ==
  /\ Administrators(Ensured(n)) # {}
  /\ Do(c, Save(n, Ensured(n)))

\* /repo/rename: the document is written under its new name, the index is moved and
\* the old document is deleted.
Rename(c, n, m) ==
  /\ Proprietors(Ensured(n)) # {}
  /\ m # n /\ repos[m] = None
  /\ Do(c, W("repos", Only(m, Ensured(n))) \o W("unlist", [name |-> n, doc |-> Ensured(n)])
           \o W("delete", n) \o W("sync", Only(m, Ensured(n))))

\* /repo/delete: the bucket first, if need be after its creation.
DeleteRepository(c, n) ==
  /\ Proprietors(Ensured(n)) # {}
  /\ Do(c, W("unlist", [name |-> n, doc |-> Ensured(n)]) \o W("delete", n))

\* /keys/add
AddKey(c, n, k, role) ==
  /\ Administrators(Ensured(n)) # {}
  /\ Do(c, Save(n, WithKey(Ensured(n), k, role)))

\* /keys/remove, /keys/suspend, /keys/unsuspend
SetKey(c, n, k, to) ==
  LET d == Ensured(n)
  IN /\ d.keys[k] # None
     /\ Administrators(d) # {}
     /\ to # "unsuspended" => d.keys[k].role # "owner"
     /\ Do(c, Save(n, [d EXCEPT !.keys[k] = IF to = "removed" THEN None ELSE [@ EXCEPT !.suspended = (to = "suspended")]]))

\* /keys/invite/create, /keys/invite/cancel, /keys/invite/list
SetInvite(c, n, u, role) ==
  /\ repos[n] # None
  /\ Administrators(repos[n]) # {}
  /\ Do(c, Save(n, [repos[n] EXCEPT !.invites[u] = role]))

\* /keys/invite/accept
AcceptInvite(c, n, k) ==
  LET d == Ensured(n)
      role == d.invites[KeyOf[k]]
  IN /\ role # None
     /\ Do(c, Save(n, [d EXCEPT !.invites[KeyOf[k]] = None,
          !.keys[k] = IF @ = None THEN NewKey(role, FALSE) ELSE [@ EXCEPT !.role = role, !.suspended = FALSE]]))

\* /owners/transfer/confirm and /cancel
SetTransfer(c, n, to) ==
  /\ repos[n] # None
  /\ Proprietors(repos[n]) # {}
  /\ to # None => to \in Proprietors(repos[n])
  /\ Do(c, Save(n, [repos[n] EXCEPT !.transfer = to]))

\* /owners/transfer/accept: who asked for it becomes an administrator.
AcceptTransfer(c, n, k) ==
  LET d == Ensured(n)
      demoted == [x \in Key |-> IF x = d.transfer /\ d.keys[x] # None /\ d.keys[x].role = "owner"
                                THEN [d.keys[x] EXCEPT !.role = "admin"] ELSE d.keys[x]]
      new == IF demoted[k] = None THEN NewKey("owner", TRUE)
             ELSE [demoted[k] EXCEPT !.role = "owner", !.suspended = FALSE]
  IN /\ d.transfer # None
     /\ Do(c, Save(n, [d EXCEPT !.transfer = None, !.keys = [demoted EXCEPT ![k] = new]]))

\* /members/reindex, of the whole broker.
Reindex(c) ==
  /\ owners # {}
  /\ Handle(c, "reindex", Root, W("syncAll", None))

Request(c) ==
  \/ Reindex(c)
  \/ \E k \in Key : UpsertOwner(c, k) \/ AcceptUser(c, k)
  \/ \E u \in User :
       \/ DeleteUser(c, u) \/ CancelUser(c, u)
       \/ \E role \in Appointed :
            \/ InviteUser(c, u, role)
            \/ \E keys \in SUBSET Key, suspended \in BOOLEAN : UpsertUser(c, u, role, keys, suspended)
  \/ \E t \in Team :
       \/ CreateTeam(c, t) \/ DeleteTeam(c, t)
       \/ \E u \in User, role \in Granted \cup {None} : SetMember(c, t, u, role)
  \/ \E n \in Name :
       \/ UpdateRepository(c, n) \/ DeleteRepository(c, n)
       \/ \E m \in Name : Rename(c, n, m)
       \/ \E t \in Team, role \in Granted \cup {None} : SetTeam(c, n, t, role)
       \/ \E t \in Team, k \in Key, role \in Granted :
            CreateRepository(c, n, t, k, role) \/ UpsertRepository(c, n, t, k, role)
       \/ \E u \in User, role \in Granted \cup {None} : SetGrant(c, n, u, role) \/ SetInvite(c, n, u, role)
       \/ \E to \in Key \cup {None} : SetTransfer(c, n, to)
       \/ \E k \in Key :
            \/ UpdateProfile(c, n, k) \/ AcceptInvite(c, n, k) \/ AcceptTransfer(c, n, k)
            \/ \E role \in Granted : AddKey(c, n, k, role)
            \/ \E to \in {"removed", "suspended", "unsuspended"} : SetKey(c, n, k, to)

Next == \E c \in Call : Write(c) \/ Fail(c) \/ (Ready(c) /\ Request(c))

Spec == Init /\ [][Next]_vars

-----------------------------------------------------------------------------
(***************************************************************************)
(* Properties                                                              *)
(***************************************************************************)

\* As long as requests neither overlap nor fail, and again after a reindex, the
\* repositories of a key in /repos/mine include all that know the key.
MembersAreListed ==
  (alone # "no" /\ Busy = {}) =>
    \A n \in Name, k \in Key : repos[n] # None /\ Direct(k, repos[n]) # {} => index[<<k, n>>] = "listed"

\* A reindex that nothing overlaps lists every repository for every key that may read
\* it, whatever came before: users changed without a reindex, failures, overlaps.
\* (Users whose invitation is pending may read and are not listed.)
ReindexRestores ==
  [][\A c \in Call :
       (doing[c].kind = "reindex" /\ Busy = {c} /\ todo'[c] = <<>> /\ alone' # "no") =>
         \A n \in Name, k \in Key :
           (repos[n] # None /\ Roles(k, repos[n]) # {} /\ (Known(KeyOf[k]) => ~Loaded.of[KeyOf[k]].pending))
             => index'[<<k, n>>] = "listed"]_vars

\* A user who was deleted while nothing else ran has access to no repository, with
\* any key but those of the owners, whether it came from keys, grants or teams.
DeletedUsersAreOut ==
  [][\A c \in Call :
       (doing[c].kind = "delete user" /\ Last(c) /\ todo'[c] = <<>> /\ alone' # "no") =>
         \A n \in Name, k \in Key : KeyOf[k] = doing[c].user /\ k \notin owners /\ repos[n] # None => Roles(k, repos[n])' = {}]_vars

\* As long as requests neither overlap nor fail, repositories are granted to teams
\* that exist only.
GrantedTeamsExist ==
  (alone = "always" /\ Busy = {}) =>
    \A n \in Name, t \in Team : repos[n] # None /\ repos[n].teams[t] # None => teams[t] # None
=============================================================================
