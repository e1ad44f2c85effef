----------------------------- MODULE CloudService -----------------------------
(***************************************************************************)
(* A deployed broker: either the requests on refs and pull requests of a   *)
(* repository (CloudBroker), or its users and teams (Accounts), its CI     *)
(* runs (CiRuns), or one signed call (SignedRequests). A part that is not  *)
(* explored stays as it starts.                                            *)
(***************************************************************************)
EXTENDS CloudBroker, Sequences, FiniteSets

CONSTANTS
  n1,
  Session, User, Root, Key, KeyOf, Team, Name, None, Granted, Appointed, MaxRequests,
  Keys, Window, Skew, MaxTime, MaxAccepted, Cap, MaxStamps

\* The client's clock is ahead by no more than the broker accepts.
ASSUME SignedAssumption ==
  /\ Keys \in Nat /\ Window \in Nat /\ MaxTime \in Nat \ {0} /\ MaxAccepted \in Nat
  /\ Skew \in 0..Window
ASSUME CiAssumption ==
  /\ IsFiniteSet(Session) /\ Cap \in Nat \ {0} /\ MaxStamps \in Nat
  /\ None \notin {"queued", "building", "passed", "failed"}

VARIABLES part,
  owners, users, teams, repos, index, todo, doing, alone, begun,
  standing, clock, stamp, current, outcome, sent, nonces, accepted, repeated,
  runs, nextId, build, ciPc, ciCopy, now, answered, starting, shared, torn

A == INSTANCE Accounts WITH Call <- Session
S == INSTANCE SignedRequests
R == INSTANCE CiRuns WITH Call <- Session, pc <- ciPc, copy <- ciCopy

\* Users have keys of their own, and a missing document is none of those there are.
ASSUME AccountsAssumption ==
  /\ Root \in User /\ KeyOf \in [Key -> User] /\ "user" \in Appointed /\ MaxRequests \in Nat
  /\ None \notin A!Members /\ None \notin A!Repository

accountVars == <<owners, users, teams, repos, index, todo, doing, alone, begun>>
signedVars == <<standing, clock, stamp, current, outcome, sent, nonces, accepted, repeated>>
ciVars == <<runs, nextId, build, ciPc, ciCopy, now, answered, starting, shared, torn>>
ServiceVars == <<part, vars, accountVars, signedVars, ciVars>>

\* Closing a pull request and protecting a branch from admins are left to the requests.
SomeRequests ==
  doc.prot[Target] # "override" /\ \A i \in Pr : prs[i].status # "closed"

\* (The repository that is there at first may as well be n1: names mean nothing.)
ServiceInit ==
  /\ part \in {"requests", "accounts", "signed", "ci"}
  /\ part \notin {"requests", "signed"} => cloud = "gcp"
  /\ Init /\ SomeRequests /\ (part # "requests" => doc = NoDoc)
  /\ A!Init /\ (part # "accounts" => owners = {}) /\ \A n \in Name \ {n1} : repos[n] = None
  /\ S!Init /\ (part # "signed" => \A i \in DOMAIN standing : standing[i] = "unknown")
  /\ R!Init

ServiceNext ==
  \/ \E c \in Call :
       \/ part = "requests" /\ Serve(c) /\ UNCHANGED <<part, accountVars, signedVars, ciVars>>
       \/ \E q \in Requests :
            part = "requests" /\ Begin(c, q) /\ UNCHANGED <<part, accountVars, signedVars, ciVars>>
  \/ part = "accounts" /\ A!Next /\ UNCHANGED <<part, vars, signedVars, ciVars>>
  \/ part = "signed" /\ S!Next /\ UNCHANGED <<part, doc, prs, objects, pc, memory, touched, moved, serial, accountVars, ciVars>>
  \/ part = "ci" /\ R!Next /\ UNCHANGED <<part, vars, accountVars, signedVars>>

ServiceSpec == ServiceInit /\ [][ServiceNext]_ServiceVars

\* Accounts are of their types; keys that are in a repository are listed for it, and
\* grants are to teams that exist (Accounts).
MembershipsHold == A!TypeOK /\ A!MembersAreListed /\ A!GrantedTeamsExist

\* A reindex lists whoever may read, and who was deleted has no access (Accounts).
AccountsRepaired == A!ReindexRestores /\ A!DeletedUsersAreOut

\* A call is made once, with the right key (SignedRequests).
CallsHold == S!TypeOK /\ S!MadeOnce /\ S!RightKeyIsFound

\* Started runs are kept, and the runs that are kept have ids of their own (CiRuns).
RunsHold == R!TypeOK /\ R!RunsAreKept /\ R!IdsAreNew
=============================================================================
