------------------------------ MODULE LocalRefs ------------------------------
(***************************************************************************)
(* The local broker's ref updates (broker/local/refs.go, state.go) on one  *)
(* repository. A ref has three copies: the Git ref itself, a record of its *)
(* own below .bucketgit/broker-state/v1/refs/, and an entry of the map in  *)
(* repo.json. UpdateRef writes them one after the other, and               *)
(* ReconcileRepository, which every /refs/list runs, copies the first to   *)
(* the other two. Only the Git ref is replaced by compare-and-swap.        *)
(*                                                                         *)
(* A broker serialises its calls by a mutex in memory; brokers of other    *)
(* processes share the storage and not the mutex.                          *)
(***************************************************************************)
EXTENDS Naturals

CONSTANTS
  Call,      \* callers, each with one call at a time
  NoCall,    \* nobody
  Broker,    \* broker processes
  BrokerOf,  \* BrokerOf[c]: the process that serves c
  Ref,       \* refs of the repository
  Oid,       \* object ids
  NoOid,     \* no object id: no such ref, record or entry
  MaxTries   \* attempts at the repository index; 16 in the code

Value == Oid \cup {NoOid}
Copy == [Ref -> Value]

ASSUME NoOidAssumption == NoOid \notin Oid
ASSUME NoCallAssumption == NoCall \notin Call
ASSUME BrokerAssumption == BrokerOf \in [Call -> Broker]
ASSUME TriesAssumption == MaxTries \in Nat \ {0}

VARIABLES
  refs,     \* the Git refs
  record,   \* the per-ref records
  cache,    \* the ref map in repo.json
  holder,   \* holder[b]: the call that holds b's mutex for the repository
  pc,       \* pc[c]: what c does next
  op,       \* op[c]: "update" or "reconcile"
  request,  \* request[c]: the ref, old and new value of an update
  state,    \* state[c]: c's copy of the ref map
  todo,     \* todo[c]: the records that a reconciliation has still to repair
  tries,    \* tries[c]: c's attempts at the repository index
  result,   \* result[c]: how c's last call ended
  suspect   \* a call has failed since a reconciliation last succeeded (history)

vars == <<refs, record, cache, holder, pc, op, request, state, todo, tries,
          result, suspect>>
disk == <<refs, record, cache>>
call == <<op, request>>

PC == {"idle", "lock", "load", "swap", "record", "list", "records", "repair",
       "save", "index"}
Request == [ref : Ref, old : Value, new : Value]

TypeOK ==
  /\ refs \in Copy /\ record \in Copy /\ cache \in Copy
  /\ holder \in [Broker -> Call \cup {NoCall}]
  /\ pc \in [Call -> PC]
  /\ op \in [Call -> {"update", "reconcile"}]
  /\ request \in [Call -> Request]
  /\ state \in [Call -> Copy]
  /\ todo \in [Call -> SUBSET Ref]
  /\ tries \in [Call -> 0..MaxTries]
  /\ result \in [Call -> {"none", "ok", "conflict", "failed"}]
  /\ suspect \in BOOLEAN

Goto(c, l) == pc' = [pc EXCEPT ![c] = l]

Init ==
  /\ refs \in Copy /\ record = refs /\ cache = refs
  /\ holder = [b \in Broker |-> NoCall]
  /\ pc = [c \in Call |-> "idle"]
  /\ op = [c \in Call |-> "update"]
  /\ request \in [Call -> {[ref |-> r, old |-> NoOid, new |-> NoOid] : r \in Ref}]
  /\ state = [c \in Call |-> [r \in Ref |-> NoOid]]
  /\ todo = [c \in Call |-> {}]
  /\ tries = [c \in Call |-> 0]
  /\ result = [c \in Call |-> "none"]
  /\ suspect = FALSE

-----------------------------------------------------------------------------
Begin(c, o, q) ==
  /\ pc[c] = "idle"
  /\ op' = [op EXCEPT ![c] = o]
  /\ request' = [request EXCEPT ![c] = q]
  /\ result' = [result EXCEPT ![c] = "none"]
  /\ Goto(c, "lock")
  /\ UNCHANGED <<disk, holder, state, todo, tries, suspect>>

\* Mutated: the repository is not locked.
Free_Always(c) == TRUE

Free(c) == holder[BrokerOf[c]] = NoCall

\* LockRepository
Acquire(c) ==
  /\ pc[c] = "lock"
  /\ Free(c)
  /\ holder' = [holder EXCEPT ![BrokerOf[c]] = c]
  /\ Goto(c, "load")
  /\ UNCHANGED <<disk, call, state, todo, tries, result, suspect>>

\* The call returns, and what it held in memory is gone with it.
Return(c, r) ==
  /\ result' = [result EXCEPT ![c] = r]
  /\ Goto(c, "idle")
  /\ holder' = [holder EXCEPT ![BrokerOf[c]] = NoCall]
  /\ state' = [state EXCEPT ![c] = [x \in Ref |-> NoOid]]
  /\ todo' = [todo EXCEPT ![c] = {}]
  /\ tries' = [tries EXCEPT ![c] = 0]

\* LoadRepositoryState
Load(c) ==
  /\ pc[c] = "load"
  /\ state' = [state EXCEPT ![c] = cache]
  /\ Goto(c, IF op[c] = "update" THEN "swap" ELSE "list")
  /\ UNCHANGED <<disk, holder, call, todo, tries, result, suspect>>

-----------------------------------------------------------------------------
(***************************************************************************)
(* UpdateRef                                                               *)
(***************************************************************************)
SetGitRef(c) ==
  /\ refs[request[c].ref] = request[c].old
  /\ refs' = [refs EXCEPT ![request[c].ref] = request[c].new]

\* CompareAndSwapRef as AtomicRef promises it, and the entry of the ref map.
Swap(c) ==
  /\ pc[c] = "swap"
  /\ SetGitRef(c)
  /\ state' = [state EXCEPT ![c][request[c].ref] = request[c].new]
  /\ Goto(c, "record")
  /\ UNCHANGED <<record, cache, holder, call, todo, tries, result, suspect>>

\* It is refused, or it fails: then the ref may have been changed all the same.
SwapFails(c) ==
  /\ pc[c] = "swap"
  /\ \/ Return(c, "conflict") /\ UNCHANGED <<refs, suspect>>
     \/ Return(c, "failed") /\ suspect' = TRUE /\ (SetGitRef(c) \/ UNCHANGED refs)
  /\ UNCHANGED <<record, cache, call>>

\* Mutated: the record of a deleted ref is left alone.
RecordRef_KeepDeleted(c) ==
  record' = IF request[c].new = NoOid THEN record
            ELSE [record EXCEPT ![request[c].ref] = request[c].new]

RecordRef(c) == record' = [record EXCEPT ![request[c].ref] = request[c].new]

WriteRecord(c) ==
  /\ pc[c] = "record"
  /\ RecordRef(c)
  /\ Goto(c, "save")
  /\ UNCHANGED <<refs, cache, holder, call, state, todo, tries, result, suspect>>

\* That the record of a deleted ref cannot be removed is ignored.
DeleteRecordFails(c) ==
  /\ pc[c] = "record"
  /\ request[c].new = NoOid
  /\ Goto(c, "save")
  /\ suspect' = TRUE
  /\ UNCHANGED <<disk, holder, call, state, todo, tries, result>>

-----------------------------------------------------------------------------
(***************************************************************************)
(* ReconcileRepository                                                     *)
(***************************************************************************)
ListGitRefs(c) ==
  /\ pc[c] = "list"
  /\ state' = [state EXCEPT ![c] = refs]
  /\ Goto(c, "records")
  /\ UNCHANGED <<disk, holder, call, todo, tries, result, suspect>>

\* Mutated: only the refs that exist are repaired.
Repairs_Existing(c) == {r \in Ref : state[c][r] # NoOid}

\* Refs get their record written, records of other refs are removed.
Repairs(c) == {r \in Ref : state[c][r] # NoOid \/ record[r] # NoOid}

ListRecords(c) ==
  /\ pc[c] = "records"
  /\ todo' = [todo EXCEPT ![c] = Repairs(c)]
  /\ Goto(c, "repair")
  /\ UNCHANGED <<disk, holder, call, state, tries, result, suspect>>

RepairRecord(c, r) ==
  /\ pc[c] = "repair"
  /\ r \in todo[c]
  /\ record' = [record EXCEPT ![r] = state[c][r]]
  /\ todo' = [todo EXCEPT ![c] = @ \ {r}]
  /\ UNCHANGED <<refs, cache, holder, pc, call, state, tries, result, suspect>>

EndRepair(c) ==
  /\ pc[c] = "repair" /\ todo[c] = {}
  /\ Goto(c, "save")
  /\ UNCHANGED <<disk, holder, call, state, todo, tries, result, suspect>>

-----------------------------------------------------------------------------
(***************************************************************************)
(* SaveRepositoryState: a plain write of repo.json, then UpsertRepository  *)
(***************************************************************************)
SaveState(c) ==
  /\ pc[c] = "save"
  /\ cache' = state[c]
  /\ tries' = [tries EXCEPT ![c] = 1]
  /\ Goto(c, "index")
  /\ UNCHANGED <<refs, record, holder, call, state, todo, result, suspect>>

Indexed(c) ==
  /\ pc[c] = "index"
  /\ Return(c, "ok")
  /\ suspect' = (suspect /\ op[c] = "update")
  /\ UNCHANGED <<disk, call>>

\* Mutated: the index is retried once more than there are attempts.
LastTry_OffByOne(c) == tries[c] > MaxTries

LastTry(c) == tries[c] = MaxTries

\* repos.json is changed, or its lease held, by others: try again, at once.
IndexConflict(c) ==
  /\ pc[c] = "index"
  /\ IF LastTry(c)
     THEN Return(c, "conflict")
     ELSE tries' = [tries EXCEPT ![c] = @ + 1] /\ UNCHANGED <<holder, pc, state, todo, result>>
  /\ UNCHANGED <<disk, call, suspect>>

-----------------------------------------------------------------------------
\* An I/O error ends the call where it is.
Fail(c) ==
  /\ \/ pc[c] \in {"load", "list", "records", "save", "index"}
     \/ pc[c] = "repair" /\ todo[c] # {}
     \/ pc[c] = "record" /\ request[c].new # NoOid
  /\ Return(c, "failed")
  /\ suspect' = TRUE
  /\ UNCHANGED <<disk, call>>

\* A process ends, and with it its mutexes and its calls.
Crash(b) ==
  LET dead == {c \in Call : BrokerOf[c] = b /\ pc[c] # "idle"}
  IN  /\ dead # {}
      /\ pc' = [c \in Call |-> IF c \in dead THEN "idle" ELSE pc[c]]
      /\ result' = [c \in Call |-> IF c \in dead THEN "failed" ELSE result[c]]
      /\ state' = [c \in Call |-> IF c \in dead THEN [r \in Ref |-> NoOid] ELSE state[c]]
      /\ todo' = [c \in Call |-> IF c \in dead THEN {} ELSE todo[c]]
      /\ tries' = [c \in Call |-> IF c \in dead THEN 0 ELSE tries[c]]
      /\ holder' = [holder EXCEPT ![b] = NoCall]
      /\ suspect' = TRUE
      /\ UNCHANGED <<disk, call>>

Work(c) ==
  \/ Acquire(c) \/ Load(c) \/ Swap(c) \/ SwapFails(c) \/ WriteRecord(c) \/ DeleteRecordFails(c)
  \/ ListGitRefs(c) \/ ListRecords(c) \/ (\E r \in Ref : RepairRecord(c, r)) \/ EndRepair(c)
  \/ SaveState(c) \/ Indexed(c) \/ IndexConflict(c) \/ Fail(c)

Calls ==
  \E c \in Call, q \in Request :
    \/ q.old # q.new /\ Begin(c, "update", q)
    \/ q = request[c] /\ Begin(c, "reconcile", q)

Next == Calls \/ (\E c \in Call : Work(c)) \/ \E b \in Broker : Crash(b)
Spec == Init /\ [][Next]_vars

-----------------------------------------------------------------------------
(***************************************************************************)
(* Properties                                                              *)
(***************************************************************************)
Agree == record = refs /\ cache = refs

\* The three copies of every ref agree whenever no call is at work and none
\* has crashed or met an I/O error since the last reconciliation.
AgreeWhenQuiet == ~suspect /\ (\A b \in Broker : holder[b] = NoCall) => Agree

\* A reconciliation that succeeds leaves three copies that agree, whatever
\* earlier calls that failed or crashed have left behind.
ReconcileRepairs ==
  [][\A c \in Call :
       op[c] = "reconcile" /\ result[c] # "ok" /\ result'[c] = "ok" => Agree']_vars

\* No step of a reconciliation turns a copy that agrees with its Git ref into
\* one that does not.
ReconcileIsSafe ==
  [][\A c \in Call, r \in Ref :
       op[c] = "reconcile" /\ (pc'[c] # pc[c] \/ todo'[c] # todo[c]) =>
         /\ record[r] = refs[r] => record'[r] = refs'[r]
         /\ cache[r] = refs[r] => cache'[r] = refs'[r]]_vars
=============================================================================
