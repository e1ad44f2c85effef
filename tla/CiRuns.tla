-------------------------------- MODULE CiRuns --------------------------------
(***************************************************************************)
(* The CI runs of a repository at a deployed broker (broker/gcp/index.js:  *)
(* mergeCIState, saveRepo and the /ci requests). Runs are in the           *)
(* repository document. Every request that saves the document saves the    *)
(* runs it has loaded, merged with those that are there by then; a run is  *)
(* started at the build service before it is saved, and its status is      *)
(* asked for when somebody looks.                                          *)
(***************************************************************************)
EXTENDS Naturals, FiniteSets

CONSTANTS
  Call,      \* requests in progress; each starts one run at most
  Cap,       \* runs that are kept; 100 in the code
  None,
  MaxStamps  \* bound on the times a run is stamped

VARIABLES
  runs, nextId,  \* the document: ci_runs and next_ci_id
  build,         \* build[c]: the build that c has started, as the build service knows it
  pc, copy,      \* what c does, and the runs and next id in its memory
  now,           \* the clock that stamps updated_at
  answered,      \* the runs whose start was answered with success (history)
  starting,      \* the requests that are starting a run, from their load to their save (history)
  shared,        \* those whose start overlapped another one (history)
  torn           \* a save has read the document before and written it after another (history)

doc == <<runs, nextId>>
vars == <<runs, nextId, build, pc, copy, now, answered, starting, shared, torn>>

Status == {"queued", "building", "passed", "failed"}
Terminal == {"passed", "failed"}
Run == [id : 1..Cardinality(Call) + 1, of : Call, status : Status, at : 0..MaxStamps]
Copy == [runs : SUBSET Run, next : 1..Cardinality(Call) + 1]
Empty == [runs |-> {}, next |-> 1]

TypeOK ==
  /\ runs \subseteq Run /\ Cardinality(runs) <= Cap
  /\ nextId \in 1..Cardinality(Call) + 1
  /\ build \in [Call -> Status \cup {None}]
  /\ pc \in [Call -> {"idle", "start", "view", "ask", "save", "set"}]
  /\ \A c \in Call : copy[c].runs \subseteq Run
  /\ now \in 0..MaxStamps /\ answered \subseteq Run
  /\ starting \subseteq Call /\ shared \subseteq Call /\ torn \subseteq Call

Init ==
  /\ runs = {} /\ nextId = 1
  /\ build = [c \in Call |-> None]
  /\ pc = [c \in Call |-> "idle"] /\ copy = [c \in Call |-> Empty]
  /\ now = 0 /\ answered = {} /\ starting = {} /\ shared = {} /\ torn = {}

\* The document is loaded; to start a run, to look at runs or for another purpose.
Load(c, purpose) ==
  /\ pc[c] = "idle"
  /\ purpose = "start" => build[c] = None
  /\ copy' = [copy EXCEPT ![c] = [runs |-> runs, next |-> nextId]]
  /\ pc' = [pc EXCEPT ![c] = purpose]
  /\ starting' = IF purpose = "start" THEN starting \cup {c} ELSE starting
  /\ shared' = IF purpose = "start" /\ starting # {} THEN shared \cup starting' ELSE shared
  /\ UNCHANGED <<runs, nextId, build, now, answered, torn>>

\* The last Cap runs by id.
Latest(some) == {r \in some : Cardinality({s \in some : s.id > r.id}) < Cap}

Started(c, r) == {s \in copy[c].runs \cup {r} : s = r \/ Cardinality({q \in copy[c].runs : q.id > s.id}) < Cap - 1}

\* /ci/run: the build is started, then the run is stamped and put before the others.
Start(c) ==
  /\ pc[c] = "start" /\ now < MaxStamps
  /\ build' = [build EXCEPT ![c] = "queued"]
  /\ now' = now + 1
  /\ LET r == [id |-> copy[c].next, of |-> c, status |-> "queued", at |-> now + 1]
     IN copy' = [copy EXCEPT ![c] = [runs |-> Started(c, r), next |-> @.next + 1]]
  /\ pc' = [pc EXCEPT ![c] = "save"]
  /\ UNCHANGED <<runs, nextId, answered, starting, shared, torn>>

\* The build service goes on.
Build(c) ==
  /\ build[c] \in {"queued", "building"}
  /\ \E s \in IF build[c] = "queued" THEN {"building"} ELSE Terminal : build' = [build EXCEPT ![c] = s]
  /\ UNCHANGED <<runs, nextId, pc, copy, now, answered, starting, shared, torn>>

\* refreshCIRuns: the status of every run that is not over, as it is at some moment.
Refreshed(c) ==
  {IF r.status \in Terminal \/ r.status = build[r.of] THEN r ELSE [r EXCEPT !.status = build[r.of], !.at = now + 1] :
     r \in copy[c].runs}

Refresh(c) ==
  /\ pc[c] = "view" /\ now < MaxStamps
  /\ IF Refreshed(c) = copy[c].runs
     THEN pc' = [pc EXCEPT ![c] = "idle"] /\ copy' = [copy EXCEPT ![c] = Empty] /\ UNCHANGED now
     ELSE /\ copy' = [copy EXCEPT ![c].runs = Refreshed(c)]
          /\ now' = now + 1
          /\ pc' = [pc EXCEPT ![c] = "save"]
  /\ UNCHANGED <<runs, nextId, build, answered, starting, shared, torn>>

\* Mutated: the runs of the request replace those of the document.
Merged_Replaced(c) == copy[c].runs

\* mergeCIState: of two runs with one id the one stamped later, of equals the request's.
Merged(c) ==
  LET both == runs \cup copy[c].runs
      beaten(r) == \E s \in both \ {r} : s.id = r.id /\ (s.at > r.at \/ (s.at = r.at /\ r \notin copy[c].runs))
  IN Latest({r \in both : ~beaten(r)})

NextId(c) == IF nextId > copy[c].next THEN nextId ELSE copy[c].next

\* saveRepo reads the document again and merges its runs.
Read(c) ==
  /\ pc[c] = "save"
  /\ copy' = [copy EXCEPT ![c] = [runs |-> Merged(c), next |-> NextId(c)]]
  /\ pc' = [pc EXCEPT ![c] = "set"]
  /\ UNCHANGED <<runs, nextId, build, now, answered, starting, shared, torn>>

\* saveRepo writes it; other saves that are between their read and their write will
\* take this one back.
Write(c) ==
  /\ pc[c] = "set"
  /\ runs' = copy[c].runs /\ nextId' = copy[c].next
  /\ torn' = (torn \cup {d \in Call \ {c} : pc[d] = "set"}) \ {c}
  /\ answered' = IF c \in torn THEN {} ELSE answered \cup {r \in copy[c].runs : r.of = c}
  /\ starting' = starting \ {c} /\ shared' = IF c \in torn THEN Call ELSE shared
  /\ pc' = [pc EXCEPT ![c] = "idle"] /\ copy' = [copy EXCEPT ![c] = Empty]
  /\ UNCHANGED <<build, now>>

\* A request fails: at the build service, at the database, or with its process.
Fail(c) ==
  /\ pc[c] # "idle"
  /\ pc' = [pc EXCEPT ![c] = "idle"] /\ copy' = [copy EXCEPT ![c] = Empty]
  /\ build' = IF pc[c] = "start" THEN [build EXCEPT ![c] = "queued"] ELSE build
  /\ starting' = starting \ {c} /\ torn' = torn \ {c}
  /\ UNCHANGED <<runs, nextId, now, answered, shared>>

Next ==
  \E c \in Call :
    \/ \E purpose \in {"start", "view", "save"} : Load(c, purpose)
    \/ Start(c) \/ Build(c) \/ Refresh(c) \/ Read(c) \/ Write(c) \/ Fail(c)

Spec == Init /\ [][Next]_vars

\* Saves of any requests that loaded the document long ago do not lose a run: a run
\* whose start was answered stays, itself and not another one under its id, until Cap
\* newer ones are there. Of runs whose starts overlap, and may take one id, one with
\* that id stays. (When one save is written between the read and the write of another,
\* runs and ids may be lost: what was answered before is then left aside, and starts
\* count as overlapping.)
RunsAreKept ==
  \A a \in answered :
    \/ \E r \in runs : r.id = a.id /\ (r.of = a.of \/ a.of \in shared)
    \/ Cardinality({r \in runs : r.id > a.id}) = Cap

\* The runs that are kept have different ids, and ids that come later are new.
IdsAreNew == \A r, s \in runs : (r.id = s.id => r = s) /\ r.id < nextId
=============================================================================
