-------------------------------- MODULE Admin --------------------------------
(***************************************************************************)
(* Repositories and owners as the local broker administers them            *)
(* (broker/local/admin.go, state.go). A repository is a repo.json at the   *)
(* place (bucket) that holds it; repos.json lists the place of every name, *)
(* and owners.json the owners. The two lists are read, changed in memory   *)
(* and replaced by a compare-and-swap of their content, which is retried.  *)
(* Creating a repository writes repo.json first and its list entry         *)
(* afterwards.                                                             *)
(*                                                                         *)
(* Keys, teams and times are left out of repo.json; the refs in it are the *)
(* subject of LocalRefs. Repositories are never removed.                   *)
(***************************************************************************)
EXTENDS Naturals

CONSTANTS
  Call,     \* callers, each with one request at a time
  Broker,   \* broker processes over the same directory
  Name,     \* logical names of repositories
  Place,    \* where a repository can be
  Local,    \* the places below the broker's own directory
  Owner,    \* public keys of owners
  Nothing,  \* no repository, no entry
  MaxTries  \* attempts at a list; 16 in the code

VARIABLES
  repo,    \* repo[p]: the name and the creator in the repo.json at p, or Nothing
  lists,   \* lists.repos[n]: the place listed for n; lists.owners: the owners
  pc,      \* pc[c]: what c does next
  asked,   \* asked[c]: c's request
  server,  \* server[c]: the process that serves it
  read,    \* read[c]: the lists as c has read them
  tries,   \* tries[c]: c's attempts so far
  kept     \* the creations and owners that were answered with success (history)

vars == <<repo, lists, pc, asked, server, read, tries, kept>>

Requests ==
  [kind : {"create", "list"}, name : Name, place : Place] \cup [kind : {"owner"}, owner : Owner]

Lists == [repos : [Name -> Place \cup {Nothing}], owners : SUBSET Owner]
Empty == [repos |-> [n \in Name |-> Nothing], owners |-> {}]

TypeOK ==
  /\ repo \in [Place -> [name : Name, by : Call] \cup {Nothing}]
  /\ lists \in Lists
  /\ pc \in [Call -> {"idle", "lock", "state", "find", "write", "read", "swap"}]
  /\ asked \in [Call -> Requests \cup {Nothing}]
  /\ server \in [Call -> Broker \cup {Nothing}]
  /\ read \in [Call -> Lists]
  /\ tries \in [Call -> 0..MaxTries - 1]
  /\ kept \subseteq Call \X Requests

Init ==
  /\ repo = [p \in Place |-> Nothing]
  /\ lists = Empty
  /\ pc = [c \in Call |-> "idle"]
  /\ asked = [c \in Call |-> Nothing]
  /\ server = [c \in Call |-> Nothing]
  /\ read = [c \in Call |-> Empty]
  /\ tries = [c \in Call |-> 0]
  /\ kept = {}

Goto(c, l) == pc' = [pc EXCEPT ![c] = l]

\* Bound: a caller creates one repository.
Begin(c, b, what) ==
  /\ pc[c] = "idle"
  /\ what.kind = "create" => \A p \in Place : repo[p] # Nothing => repo[p].by # c
  /\ asked' = [asked EXCEPT ![c] = what]
  /\ server' = [server EXCEPT ![c] = b]
  /\ Goto(c, IF what.kind = "owner" THEN "read" ELSE IF what.kind = "list" THEN "find" ELSE "lock")
  /\ UNCHANGED <<repo, lists, read, tries, kept>>

\* The request is over, and what it held in memory is gone.
Stop(c) ==
  /\ Goto(c, "idle")
  /\ asked' = [asked EXCEPT ![c] = Nothing]
  /\ server' = [server EXCEPT ![c] = Nothing]
  /\ read' = [read EXCEPT ![c] = Empty]
  /\ tries' = [tries EXCEPT ![c] = 0]

Refused(c) == Stop(c) /\ UNCHANGED <<repo, lists, kept>>

-----------------------------------------------------------------------------
(***************************************************************************)
(* CreateRepository                                                        *)
(***************************************************************************)

\* The mutex is one of the process, for the pair of a place and a name.
Free(c) ==
  \A d \in Call \ {c} : server[d] = server[c] /\ asked[d] = asked[c] => pc[d] \in {"idle", "lock"}

Lock(c) ==
  /\ pc[c] = "lock"
  /\ Free(c)
  /\ Goto(c, "state")
  /\ UNCHANGED <<repo, lists, asked, server, read, tries, kept>>

\* LoadRepositoryState: a repository at that place, of any name, is a conflict.
CheckState(c) ==
  /\ pc[c] = "state" /\ asked[c].kind = "create"
  /\ IF repo[asked[c].place] # Nothing THEN Refused(c)
     ELSE Goto(c, "find") /\ UNCHANGED <<repo, lists, asked, server, read, tries, kept>>

\* FindRepository: so is a listed name.
FindListed(c) ==
  /\ pc[c] = "find" /\ asked[c].kind = "create"
  /\ IF lists.repos[asked[c].name] # Nothing THEN Refused(c)
     ELSE Goto(c, "write") /\ UNCHANGED <<repo, lists, asked, server, read, tries, kept>>

Creatable(p) == repo[p] = Nothing

\* CompareAndSwapJSON of repo.json against "does not exist".
WriteState(c) ==
  /\ pc[c] = "write"
  /\ IF Creatable(asked[c].place)
     THEN /\ repo' = [repo EXCEPT ![asked[c].place] = [name |-> asked[c].name, by |-> c]]
          /\ Goto(c, "read")
          /\ UNCHANGED <<lists, asked, server, read, tries, kept>>
     ELSE Refused(c)

-----------------------------------------------------------------------------
(***************************************************************************)
(* loadRepoForRequest, before ReconcileRepository, which saves the state   *)
(* and lists the repository again                                          *)
(***************************************************************************)

\* The repository at the place of the request, whatever its name; or else the
\* listed one, if it has that name; or else any of that name below the directory.
Found(name, place) ==
  IF repo[place] # Nothing THEN {place}
  ELSE LET listed == lists.repos[name]
           named == {p \in Place : repo[p] # Nothing /\ repo[p].name = name}
       IN IF listed \in named THEN {listed} ELSE named \cap Local

FindRepo(c) ==
  /\ pc[c] = "find" /\ asked[c].kind = "list"
  /\ IF Found(asked[c].name, asked[c].place) = {} THEN Refused(c)
     ELSE \E p \in Found(asked[c].name, asked[c].place) :
            /\ asked' = [asked EXCEPT ![c].place = p]
            /\ Goto(c, "read")
            /\ UNCHANGED <<repo, lists, server, read, tries, kept>>

-----------------------------------------------------------------------------
(***************************************************************************)
(* UpsertRepository, UpsertOwners                                          *)
(***************************************************************************)

\* Mutated: the name of the request is listed.
Entry_AsAsked(c) == asked[c].name

\* The name in repo.json.
Entry(c) == repo[asked[c].place].name

Changed(c) ==
  IF asked[c].kind = "owner" THEN [read[c] EXCEPT !.owners = @ \cup {asked[c].owner}]
  ELSE [read[c] EXCEPT !.repos[Entry(c)] = asked[c].place]

File(c) == IF asked[c].kind = "owner" THEN "owners" ELSE "repos"

\* loadJSONState
ReadList(c) ==
  /\ pc[c] = "read"
  /\ read' = [read EXCEPT ![c] = IF File(c) = "owners" THEN [Empty EXCEPT !.owners = lists.owners]
                                 ELSE [Empty EXCEPT !.repos = lists.repos]]
  /\ Goto(c, "swap")
  /\ UNCHANGED <<repo, lists, asked, server, tries, kept>>

Current(c) == lists[File(c)] = read[c][File(c)]

Replace(c) ==
  /\ Current(c)
  /\ lists' = [lists EXCEPT ![File(c)] = Changed(c)[File(c)]]

SwapList(c) ==
  /\ pc[c] = "swap"
  /\ Replace(c)
  /\ kept' = IF asked[c].kind = "list" THEN kept ELSE kept \cup {<<c, asked[c]>>}
  /\ Stop(c)
  /\ UNCHANGED repo

LastTry(c) == tries[c] + 1 = MaxTries

\* The list has changed, or its lease is held by another: again, at once.
SwapConflict(c) ==
  /\ pc[c] = "swap"
  /\ IF LastTry(c) THEN Refused(c)
     ELSE /\ tries' = [tries EXCEPT ![c] = @ + 1]
          /\ read' = [read EXCEPT ![c] = Empty]
          /\ Goto(c, "read")
          /\ UNCHANGED <<repo, lists, asked, server, kept>>

\* An I/O error; the list may have been replaced before it.
Fail(c) ==
  /\ pc[c] \notin {"idle", "lock"}
  /\ UNCHANGED lists \/ (pc[c] = "swap" /\ Replace(c))
  /\ Stop(c)
  /\ UNCHANGED <<repo, kept>>

\* A process ends with its calls.
Crash(b) ==
  LET dead == {c \in Call : server[c] = b}
  IN /\ dead # {}
     /\ pc' = [c \in Call |-> IF c \in dead THEN "idle" ELSE pc[c]]
     /\ asked' = [c \in Call |-> IF c \in dead THEN Nothing ELSE asked[c]]
     /\ server' = [c \in Call |-> IF c \in dead THEN Nothing ELSE server[c]]
     /\ read' = [c \in Call |-> IF c \in dead THEN Empty ELSE read[c]]
     /\ tries' = [c \in Call |-> IF c \in dead THEN 0 ELSE tries[c]]
     /\ UNCHANGED <<repo, lists, kept>>

Next ==
  \/ \E c \in Call :
       \/ \E b \in Broker, what \in Requests : Begin(c, b, what)
       \/ Lock(c) \/ CheckState(c) \/ FindListed(c) \/ WriteState(c) \/ FindRepo(c)
       \/ ReadList(c) \/ SwapList(c) \/ SwapConflict(c) \/ Fail(c)
  \/ \E b \in Broker : Crash(b)

Spec == Init /\ [][Next]_vars

-----------------------------------------------------------------------------
(***************************************************************************)
(* Properties                                                              *)
(***************************************************************************)

\* A name is listed only for a place with a repository of that name, wherever
\* creations and listings crash, and whatever place a request names.
ListedExists ==
  \A n \in Name : lists.repos[n] # Nothing =>
    LET found == repo[lists.repos[n]] IN found # Nothing /\ found.name = n

\* Two requests, of one process or of two, never create a repository at the same
\* place: who was told so stays its creator.
CreatorsKeepPlaces ==
  \A done \in kept : done[2].kind = "create" =>
    repo[done[2].place] = [name |-> done[2].name, by |-> done[1]]

\* What was answered with success stays listed, whatever other processes put on
\* the lists at the same time.  (A repository of the same name at another place,
\* created at the same time, may take the entry.)
ListingsStay ==
  \A done \in kept :
    IF done[2].kind = "owner" THEN done[2].owner \in lists.owners
    ELSE lists.repos[repo[done[2].place].name] # Nothing
=============================================================================
