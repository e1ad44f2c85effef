-------------------------- MODULE LocalBrokerProofs --------------------------
(***************************************************************************)
(* With one broker process, reconciliations repair the copies of the refs. *)
(* For any number of processes, columns, repositories, places and          *)
(* requests: a change of an issue that was answered with success stays in  *)
(* the issue's history, a story stands where it was asked to and others    *)
(* keep their order, and what the lists of the broker name exists, where   *)
(* its creator put it, whatever other processes store meanwhile.           *)
(***************************************************************************)
EXTENDS LocalBroker, FiniteSetTheorems, FunctionTheorems, SequenceTheorems, TLAPS

(***************************************************************************)
(* Updates of refs (LocalRefs): when one process serves the repository,    *)
(* its mutex keeps the copies of the refs together, and a reconciliation   *)
(* repairs what failures and crashes have left behind.                     *)
(***************************************************************************)

\* Every caller is served by the same process.
OneBroker == \A c, d \in Call : BrokerOf[c] = BrokerOf[d]

Working(c) == pc[c] \notin {"idle", "lock"}

Locked == \A c \in Call : Working(c) => holder[BrokerOf[c]] = c

\* How far a reconciliation has come.
Reconciled(c) ==
  /\ op[c] = "update" => pc[c] \notin {"list", "records", "repair"}
  /\ op[c] = "reconcile" =>
       /\ pc[c] \notin {"swap", "record"}
       /\ pc[c] \in {"records", "repair", "save", "index"} => state[c] = refs
       /\ pc[c] = "repair" => \A r \in Ref \ todo[c] : record[r] = refs[r]
       /\ pc[c] \in {"save", "index"} => record = refs
       /\ pc[c] = "index" => cache = refs

IInv == TypeOK /\ Locked /\ \A c \in Call : Reconciled(c)

-----------------------------------------------------------------------------
LEMMA InitInvariant == Init => IInv
<1> SUFFICES ASSUME Init PROVE IInv
  OBVIOUS
<1>1. [r \in Ref |-> NoOid] \in Copy
  BY DEF Copy, Value
<1>2. request \in [Call -> Request]
  <2>1. {[ref |-> r, old |-> NoOid, new |-> NoOid] : r \in Ref} \subseteq Request
    BY DEF Request, Value
  <2>2. QED
    BY <2>1 DEF Init
<1>3. state \in [Call -> Copy]
  BY <1>1 DEF Init
<1>4. suspect \in BOOLEAN
  BY DEF Init
<1>5. TypeOK
  BY <1>2, <1>3, <1>4, TriesAssumption DEF Init, TypeOK, PC
<1>6. QED
  BY <1>5 DEF Init, IInv, Locked, Working, Reconciled

LEMMA ReturnTypes ==
  ASSUME TypeOK, NEW c \in Call, NEW r \in {"ok", "conflict", "failed"}, Return(c, r),
         UNCHANGED <<disk, call>>, suspect' \in BOOLEAN
  PROVE  TypeOK'
<1>1. [x \in Ref |-> NoOid] \in Copy
  BY DEF Copy, Value
<1>2. /\ state' \in [Call -> Copy] /\ todo' \in [Call -> SUBSET Ref]
      /\ tries' \in [Call -> 0..MaxTries] /\ pc' \in [Call -> PC]
  BY <1>1, TriesAssumption DEF Return, TypeOK, Goto, PC
<1>3. /\ holder' \in [Broker -> Call \cup {NoCall}]
      /\ result' \in [Call -> {"none", "ok", "conflict", "failed"}]
  BY DEF Return, TypeOK
<1>4. QED
  BY <1>2, <1>3 DEF TypeOK, disk, call

LEMMA GitRefTypes ==
  ASSUME TypeOK, NEW c \in Call, SetGitRef(c)
  PROVE  refs' \in Copy
  BY DEF TypeOK, SetGitRef, Request, Copy

LEMMA StepTypes == TypeOK /\ [Next]_vars => TypeOK'
<1> SUFFICES ASSUME TypeOK, [Next]_vars PROVE TypeOK'
  OBVIOUS
<1> USE BrokerAssumption, TriesAssumption DEF Goto, PC, disk, call
<1>1. ASSUME NEW c \in Call, NEW q \in Request, NEW o \in {"update", "reconcile"},
             Begin(c, o, q)
      PROVE  TypeOK'
  BY <1>1 DEF Begin, TypeOK
<1>2. ASSUME NEW c \in Call, Acquire(c) \/ Load(c) PROVE TypeOK'
  BY <1>2 DEF Acquire, Load, TypeOK
<1>3. ASSUME NEW c \in Call, Swap(c) PROVE TypeOK'
  <2>1. refs' \in Copy
    BY <1>3, GitRefTypes DEF Swap
  <2>2. state' \in [Call -> Copy]
    BY <1>3 DEF Swap, TypeOK, Copy, Request
  <2>3. QED
    BY <1>3, <2>1, <2>2 DEF Swap, TypeOK
<1>4. ASSUME NEW c \in Call, SwapFails(c) PROVE TypeOK'
  <2>1. refs' \in Copy
    BY <1>4, GitRefTypes DEF SwapFails, TypeOK
  <2>2. PICK r \in {"conflict", "failed"} : Return(c, r)
    BY <1>4 DEF SwapFails
  <2>3. suspect' \in BOOLEAN
    BY <1>4 DEF SwapFails, TypeOK
  <2>4. QED
    BY <1>4, <2>1, <2>2, <2>3 DEF SwapFails, Return, TypeOK, Copy, Value
<1>5. ASSUME NEW c \in Call, WriteRecord(c) \/ DeleteRecordFails(c) PROVE TypeOK'
  <2>1. record' \in Copy
    BY <1>5 DEF WriteRecord, RecordRef, DeleteRecordFails, TypeOK, Copy, Request
  <2>2. QED
    BY <1>5, <2>1 DEF WriteRecord, DeleteRecordFails, TypeOK
<1>6. ASSUME NEW c \in Call, ListGitRefs(c) \/ ListRecords(c) \/ EndRepair(c) PROVE TypeOK'
  BY <1>6 DEF ListGitRefs, ListRecords, Repairs, EndRepair, TypeOK
<1>7. ASSUME NEW c \in Call, NEW r \in Ref, RepairRecord(c, r) PROVE TypeOK'
  <2>1. record' \in Copy
    BY <1>7 DEF RepairRecord, TypeOK, Copy
  <2>2. QED
    BY <1>7, <2>1 DEF RepairRecord, TypeOK
<1>8. ASSUME NEW c \in Call, SaveState(c) PROVE TypeOK'
  BY <1>8 DEF SaveState, TypeOK
<1>9. ASSUME NEW c \in Call, Indexed(c) \/ Fail(c) PROVE TypeOK'
  BY <1>9, ReturnTypes DEF Indexed, Fail, TypeOK
<1>10. ASSUME NEW c \in Call, IndexConflict(c) PROVE TypeOK'
  <2>1. CASE LastTry(c)
    BY <1>10, <2>1, ReturnTypes DEF IndexConflict, TypeOK
  <2>2. CASE ~LastTry(c)
    BY <1>10, <2>2 DEF IndexConflict, LastTry, TypeOK
  <2>3. QED
    BY <2>1, <2>2
<1>11. ASSUME NEW b \in Broker, Crash(b) PROVE TypeOK'
  BY <1>11 DEF Crash, TypeOK, Copy, Value
<1>12. CASE UNCHANGED vars
  BY <1>12 DEF vars, TypeOK
<1>13. QED
  BY <1>1, <1>2, <1>3, <1>4, <1>5, <1>6, <1>7, <1>8, <1>9, <1>10, <1>11, <1>12
     DEF Next, Calls, Work

-----------------------------------------------------------------------------
\* One process: nobody else works while c holds the mutex.
LEMMA Alone ==
  ASSUME OneBroker, Locked, NEW c \in Call, NEW d \in Call, Working(c), Working(d)
  PROVE  c = d
  BY DEF OneBroker, Locked

LEMMA ReturnLocked ==
  ASSUME TypeOK, OneBroker, Locked, NEW c \in Call, NEW r, Working(c), Return(c, r)
  PROVE  Locked' /\ \A d \in Call : ~Working(d)'
<1>1. \A d \in Call : d # c => ~Working(d)
  BY Alone
<1>2. QED
  BY <1>1 DEF Return, Goto, Working, Locked, TypeOK

LEMMA StepLocked == TypeOK /\ OneBroker /\ Locked /\ [Next]_vars => Locked'
<1> SUFFICES ASSUME TypeOK, OneBroker, Locked, [Next]_vars PROVE Locked'
  OBVIOUS
<1> USE BrokerAssumption, NoCallAssumption DEF Goto
<1>1. ASSUME NEW c \in Call, NEW q \in Request, NEW o \in {"update", "reconcile"},
             Begin(c, o, q)
      PROVE  Locked'
  BY <1>1 DEF Begin, TypeOK, Locked, Working
<1>2. ASSUME NEW c \in Call, Acquire(c) PROVE Locked'
  <2>1. \A d \in Call : ~Working(d)
    BY <1>2 DEF Acquire, Free, Locked, OneBroker
  <2>2. QED
    BY <1>2, <2>1 DEF Acquire, TypeOK, Locked, Working
<1>3. ASSUME NEW c \in Call, Working(c), UNCHANGED holder,
             \A d \in Call \ {c} : pc'[d] = pc[d]
      PROVE  Locked'
  BY <1>3 DEF Locked, Working
<1>4. ASSUME NEW c \in Call, Working(c), NEW r, Return(c, r) PROVE Locked'
  BY <1>4, ReturnLocked
<1>5. ASSUME NEW c \in Call,
             \/ Load(c) \/ Swap(c) \/ WriteRecord(c) \/ DeleteRecordFails(c)
             \/ ListGitRefs(c) \/ ListRecords(c) \/ EndRepair(c) \/ SaveState(c)
             \/ \E r \in Ref : RepairRecord(c, r)
      PROVE  Locked'
  <2>1. /\ Working(c) /\ UNCHANGED holder
        /\ \A d \in Call \ {c} : pc'[d] = pc[d]
    BY <1>5 DEF Load, Swap, WriteRecord, DeleteRecordFails, ListGitRefs, ListRecords,
                EndRepair, SaveState, RepairRecord, Working, TypeOK
  <2>2. QED
    BY <1>3, <2>1
<1>6. ASSUME NEW c \in Call, SwapFails(c) \/ Indexed(c) \/ IndexConflict(c) \/ Fail(c)
      PROVE  Locked'
  <2>1. Working(c)
    BY <1>6 DEF SwapFails, Indexed, IndexConflict, Fail, Working
  <2>2. CASE \E r : Return(c, r)
    BY <1>4, <2>1, <2>2
  <2>3. CASE UNCHANGED <<holder, pc>>
    BY <2>3 DEF Locked, Working
  <2>4. QED
    BY <1>6, <2>2, <2>3 DEF SwapFails, Indexed, IndexConflict, Fail
<1>7. ASSUME NEW b \in Broker, Crash(b) PROVE Locked'
  <2>1. \A d \in Call : Working(d)' => Working(d) /\ BrokerOf[d] # b
    BY <1>7 DEF Crash, Working
  <2>2. QED
    BY <1>7, <2>1 DEF Crash, Locked, TypeOK
<1>8. CASE UNCHANGED vars
  BY <1>8 DEF vars, Locked, Working
<1>9. QED
  BY <1>1, <1>2, <1>5, <1>6, <1>7, <1>8 DEF Next, Calls, Work

-----------------------------------------------------------------------------
\* Other calls of the one process do not move while a reconciliation works, so
\* what it has listed is what the refs are.
LEMMA StepReconciled ==
  ASSUME IInv, OneBroker, [Next]_vars, NEW c \in Call
  PROVE  Reconciled(c)'
<1> USE DEF IInv, Reconciled, Goto, disk, call
<1>1. ASSUME NEW d \in Call, NEW q \in Request, NEW o \in {"update", "reconcile"},
             Begin(d, o, q)
      PROVE  Reconciled(c)'
  BY <1>1 DEF Begin, TypeOK
<1>2. ASSUME NEW d \in Call, Acquire(d) PROVE Reconciled(c)'
  BY <1>2 DEF Acquire, TypeOK
<1>3. ASSUME NEW d \in Call, Working(d), d # c, op'[c] = op[c], pc'[c] = pc[c]
      PROVE  Reconciled(c)'
  <2>1. ~Working(c)
    BY <1>3, Alone
  <2>2. QED
    BY <1>3, <2>1 DEF Working
<1>4. ASSUME NEW d \in Call, Return(d, "ok") \/ Return(d, "conflict") \/ Return(d, "failed"),
             Working(d), UNCHANGED call
      PROVE  Reconciled(c)'
  <2>1. CASE d = c
    BY <1>4, <2>1 DEF Return, TypeOK
  <2>2. CASE d # c
    BY <1>3, <1>4, <2>2 DEF Return, TypeOK
  <2>3. QED
    BY <2>1, <2>2
<1>5. ASSUME NEW d \in Call,
             \/ Load(d) \/ Swap(d) \/ WriteRecord(d) \/ DeleteRecordFails(d)
             \/ ListGitRefs(d) \/ ListRecords(d) \/ EndRepair(d) \/ SaveState(d)
             \/ \E r \in Ref : RepairRecord(d, r)
      PROVE  Reconciled(c)'
  <2>1. CASE d # c
    <3>1. Working(d) /\ op'[c] = op[c] /\ pc'[c] = pc[c]
      BY <1>5, <2>1 DEF Load, Swap, WriteRecord, DeleteRecordFails, ListGitRefs,
           ListRecords, EndRepair, SaveState, RepairRecord, Working, TypeOK
    <3>2. QED
      BY <1>3, <2>1, <3>1
  <2>2. CASE d = c /\ op[c] # "reconcile"
    BY <1>5, <2>2 DEF Load, Swap, WriteRecord, DeleteRecordFails, ListGitRefs,
         ListRecords, EndRepair, SaveState, RepairRecord, TypeOK
  <2>3. CASE d = c /\ op[c] = "reconcile"
    <3>1. CASE Load(c)
      BY <2>3, <3>1 DEF Load, TypeOK
    <3>2. CASE Swap(c) \/ WriteRecord(c) \/ DeleteRecordFails(c)
      BY <2>3, <3>2 DEF Swap, WriteRecord, DeleteRecordFails
    <3>3. CASE ListGitRefs(c)
      BY <2>3, <3>3 DEF ListGitRefs, TypeOK
    <3>4. CASE ListRecords(c)
      BY <2>3, <3>4 DEF ListRecords, Repairs, TypeOK, Copy
    <3>5. CASE EndRepair(c)
      BY <2>3, <3>5 DEF EndRepair, TypeOK, Copy
    <3>6. CASE SaveState(c)
      BY <2>3, <3>6 DEF SaveState, TypeOK
    <3>7. CASE \E r \in Ref : RepairRecord(c, r)
      BY <2>3, <3>7 DEF RepairRecord, TypeOK, Copy
    <3>8. QED
      BY <1>5, <2>3, <3>1, <3>2, <3>3, <3>4, <3>5, <3>6, <3>7
  <2>4. QED
    BY <2>1, <2>2, <2>3
<1>6. ASSUME NEW d \in Call, SwapFails(d) \/ Indexed(d) \/ IndexConflict(d) \/ Fail(d)
      PROVE  Reconciled(c)'
  <2>1. Working(d) /\ UNCHANGED call
    BY <1>6 DEF SwapFails, Indexed, IndexConflict, Fail, Working
  <2>2. CASE Return(d, "ok") \/ Return(d, "conflict") \/ Return(d, "failed")
    BY <1>4, <2>1, <2>2
  <2>3. CASE UNCHANGED <<disk, pc, state, todo>>
    BY <2>1, <2>3
  <2>4. QED
    BY <1>6, <2>2, <2>3 DEF SwapFails, Indexed, IndexConflict, Fail
<1>7. ASSUME NEW b \in Broker, Crash(b) PROVE Reconciled(c)'
  BY <1>7 DEF Crash, TypeOK
<1>8. CASE UNCHANGED vars
  BY <1>8 DEF vars
<1>9. QED
  BY <1>1, <1>2, <1>5, <1>6, <1>7, <1>8 DEF Next, Calls, Work

LEMMA Invariant ==
  ASSUME OneBroker PROVE Spec => []IInv
<1>1. IInv /\ [Next]_vars => IInv'
  BY StepTypes, StepLocked, StepReconciled DEF IInv
<1>2. QED
  BY <1>1, InitInvariant, PTL DEF Spec

\* With one process, a reconciliation that succeeds repairs every copy.
THEOREM OneBrokerReconciles ==
  ASSUME OneBroker PROVE Spec => ReconcileRepairs
<1>1. ASSUME IInv, IInv', [Next]_vars, NEW c \in Call,
             op[c] = "reconcile", result[c] # "ok", result'[c] = "ok"
      PROVE  Agree'
  <2>1. Indexed(c)
    <3>1. ASSUME NEW d \in Call, NEW r, Return(d, r), r # "ok" \/ d # c
          PROVE  FALSE
      BY <1>1, <3>1 DEF Return, IInv, TypeOK
    <3>2. UNCHANGED result \/ \E d \in Call : SwapFails(d) \/ Indexed(d) \/ IndexConflict(d) \/ Fail(d)
      <4>1. CASE Calls
        BY <1>1, <4>1 DEF Calls, Begin, IInv, TypeOK
      <4>2. CASE \E b \in Broker : Crash(b)
        BY <1>1, <4>2 DEF Crash, IInv, TypeOK
      <4>3. ASSUME NEW d \in Call, Work(d),
                   ~(SwapFails(d) \/ Indexed(d) \/ IndexConflict(d) \/ Fail(d))
            PROVE  UNCHANGED result
        BY <4>3 DEF Work, Acquire, Load, Swap, WriteRecord, DeleteRecordFails,
             ListGitRefs, ListRecords, EndRepair, SaveState, RepairRecord
      <4>4. QED
        BY <1>1, <4>1, <4>2, <4>3 DEF Next, vars
    <3>3. QED
      BY <1>1, <3>1, <3>2 DEF SwapFails, Indexed, IndexConflict, Fail
  <2>2. QED
    BY <1>1, <2>1 DEF Indexed, IInv, Reconciled, Agree, disk
<1>2. IInv /\ IInv' /\ [Next]_vars =>
        [\A c \in Call : op[c] = "reconcile" /\ result[c] # "ok" /\ result'[c] = "ok" => Agree']_vars
  BY <1>1
<1>3. QED
  BY <1>2, Invariant, PTL DEF Spec, ReconcileRepairs

\* With one process, a reconciliation never turns a copy away from its ref: what it has
\* listed is what the refs are when it writes records and repo.json.
THEOREM OneBrokerReconcilesSafely ==
  ASSUME OneBroker PROVE Spec => ReconcileIsSafe
<1> DEFINE Safe(c, r) ==
             op[c] = "reconcile" /\ (pc'[c] # pc[c] \/ todo'[c] # todo[c]) =>
               /\ record[r] = refs[r] => record'[r] = refs'[r]
               /\ cache[r] = refs[r] => cache'[r] = refs'[r]
<1>1. ASSUME IInv, [Next]_vars, NEW c \in Call, NEW r \in Ref,
             op[c] = "reconcile", pc'[c] # pc[c] \/ todo'[c] # todo[c]
      PROVE  /\ record[r] = refs[r] => record'[r] = refs'[r]
             /\ cache[r] = refs[r] => cache'[r] = refs'[r]
  <2>1. CASE UNCHANGED disk
    BY <2>1 DEF disk
  <2>2. ASSUME NEW d \in Call, Swap(d) \/ SwapFails(d) \/ WriteRecord(d)
        PROVE  FALSE
    <3>1. d # c
      BY <1>1, <2>2 DEF IInv, Reconciled, Swap, SwapFails, WriteRecord
    <3>2. QED
      BY <1>1, <2>2, <3>1 DEF Swap, SwapFails, WriteRecord, Return, Goto, IInv, TypeOK
  <2>3. ASSUME NEW d \in Call, NEW x \in Ref, RepairRecord(d, x)
        PROVE  /\ record[r] = refs[r] => record'[r] = refs'[r]
               /\ cache[r] = refs[r] => cache'[r] = refs'[r]
    <3>1. d = c
      BY <1>1, <2>3 DEF RepairRecord, IInv, TypeOK
    <3>2. state[c] = refs
      BY <1>1, <2>3, <3>1 DEF RepairRecord, IInv, Reconciled
    <3>3. record \in [Ref -> Value]
      BY <1>1 DEF IInv, TypeOK, Copy
    <3>4. QED
      BY <2>3, <3>1, <3>2, <3>3 DEF RepairRecord
  <2>4. ASSUME NEW d \in Call, SaveState(d)
        PROVE  /\ record[r] = refs[r] => record'[r] = refs'[r]
               /\ cache[r] = refs[r] => cache'[r] = refs'[r]
    <3>1. d = c
      BY <1>1, <2>4 DEF SaveState, Goto, IInv, TypeOK
    <3>2. state[c] = refs
      BY <1>1, <2>4, <3>1 DEF SaveState, IInv, Reconciled
    <3>3. QED
      BY <2>4, <3>1, <3>2 DEF SaveState
  <2>5. CASE Calls
    BY <2>1, <2>5 DEF Calls, Begin
  <2>6. CASE \E b \in Broker : Crash(b)
    BY <2>1, <2>6 DEF Crash
  <2>7. ASSUME NEW d \in Call,
               \/ Acquire(d) \/ Load(d) \/ DeleteRecordFails(d) \/ ListGitRefs(d) \/ ListRecords(d)
               \/ EndRepair(d) \/ Indexed(d) \/ IndexConflict(d) \/ Fail(d)
        PROVE  UNCHANGED disk
    BY <2>7 DEF Acquire, Load, DeleteRecordFails, ListGitRefs, ListRecords, EndRepair, Indexed,
                IndexConflict, Fail
  <2>8. CASE UNCHANGED vars
    BY <1>1, <2>8 DEF vars
  <2>9. QED
    BY <1>1, <2>1, <2>2, <2>3, <2>4, <2>5, <2>6, <2>7, <2>8 DEF Next, Work
<1>2. IInv /\ [Next]_vars => [\A c \in Call, r \in Ref : Safe(c, r)]_vars
  BY <1>1
<1>3. QED
  BY <1>2, Invariant, PTL DEF Spec, ReconcileIsSafe

-----------------------------------------------------------------------------
(***************************************************************************)
(* Without failures since the last reconciliation, only an update between  *)
(* its compare-and-swap and its save of repo.json leaves copies that       *)
(* disagree, and it knows how.                                             *)
(***************************************************************************)
Underway(c) == pc[c] \in {"record", "save"}

Progress(c) ==
  /\ pc[c] = "swap" => state[c] = refs
  /\ pc[c] = "record" =>
       /\ state[c] = refs
       /\ refs = [record EXCEPT ![request[c].ref] = request[c].new]
  /\ pc[c] = "save" => state[c] = refs /\ record = refs

CalmInv ==
  /\ (\A c \in Call : ~Underway(c)) => Agree
  /\ \A c \in Call : Progress(c)

\* A call that is not yet under way finds copies that agree.
LEMMA AgreeBefore ==
  ASSUME IInv, OneBroker, CalmInv, NEW c \in Call, Working(c), ~Underway(c)
  PROVE  Agree
<1>1. \A d \in Call : Underway(d) => d = c
  BY Alone DEF IInv, Underway, Working
<1>2. QED
  BY <1>1 DEF CalmInv

\* To change memory, or to copy what agrees, leaves it so.
LEMMA StillCalm ==
  ASSUME IInv, OneBroker, CalmInv, NEW c \in Call, UNCHANGED disk, ~Underway(c), ~Underway(c)',
         Progress(c)', \A d \in Call \ {c} : pc'[d] = pc[d] /\ state'[d] = state[d] /\ request'[d] = request[d]
  PROVE  CalmInv'
  BY DEF CalmInv, Progress, Underway, Agree, disk

LEMMA CalmStep ==
  ASSUME IInv, OneBroker, CalmInv, ~suspect, ~suspect', [Next]_vars PROVE CalmInv'
<1> USE DEF Goto, disk, call
<1> DEFINE Others(c) ==
      \A d \in Call \ {c} : pc'[d] = pc[d] /\ state'[d] = state[d] /\ request'[d] = request[d]
<1>1. ASSUME NEW c \in Call, NEW q \in Request, NEW o \in {"update", "reconcile"},
             Begin(c, o, q)
      PROVE  CalmInv'
  <2>1. ~Underway(c) /\ ~Underway(c)' /\ Progress(c)' /\ UNCHANGED disk
    BY <1>1 DEF Begin, Underway, Progress, IInv, TypeOK
  <2>2. Others(c)
    BY <1>1 DEF Begin, IInv, TypeOK
  <2>3. QED
    BY <2>1, <2>2, StillCalm
<1>2. ASSUME NEW c \in Call, Acquire(c) \/ ListGitRefs(c) \/ ListRecords(c) PROVE CalmInv'
  <2>1. ~Underway(c) /\ ~Underway(c)' /\ Progress(c)' /\ UNCHANGED disk
    BY <1>2 DEF Acquire, ListGitRefs, ListRecords, Underway, Progress, IInv, TypeOK
  <2>2. Others(c)
    BY <1>2 DEF Acquire, ListGitRefs, ListRecords, IInv, TypeOK
  <2>3. QED
    BY <2>1, <2>2, StillCalm
<1>3. ASSUME NEW c \in Call, Load(c) PROVE CalmInv'
  <2>1. Agree
    BY <1>3, AgreeBefore DEF Load, Working, Underway
  <2>2. ~Underway(c) /\ ~Underway(c)' /\ Progress(c)' /\ UNCHANGED disk
    BY <1>3, <2>1 DEF Load, Underway, Progress, Agree, IInv, TypeOK
  <2>3. Others(c)
    BY <1>3 DEF Load, IInv, TypeOK
  <2>4. QED
    BY <2>2, <2>3, StillCalm
<1>4. ASSUME NEW c \in Call, Working(c), Progress(c)', Underway(c)',
             \A d \in Call \ {c} : pc'[d] = pc[d]
      PROVE  CalmInv'
  <2>1. \A d \in Call \ {c} : ~Working(d)
    BY <1>4, Alone DEF IInv
  <2>2. QED
    BY <1>4, <2>1 DEF CalmInv, Progress, Underway, Working
<1>5. ASSUME NEW c \in Call, Swap(c) PROVE CalmInv'
  <2>1. Agree
    BY <1>5, AgreeBefore DEF Swap, Working, Underway
  <2>2. Progress(c)'
    BY <1>5, <2>1 DEF Swap, SetGitRef, Progress, Agree, CalmInv, IInv, TypeOK, Copy
  <2>3. QED
    BY <1>4, <1>5, <2>2 DEF Swap, Working, Underway, IInv, TypeOK
<1>6. ASSUME NEW c \in Call, WriteRecord(c) PROVE CalmInv'
  <2>1. Progress(c)'
    BY <1>6 DEF WriteRecord, RecordRef, Progress, CalmInv, IInv, TypeOK
  <2>2. QED
    BY <1>4, <1>6, <2>1 DEF WriteRecord, Working, Underway, IInv, TypeOK
<1>7. ASSUME NEW c \in Call, EndRepair(c) PROVE CalmInv'
  <2>1. op[c] = "reconcile" => Progress(c)'
    BY <1>7 DEF EndRepair, Progress, IInv, Reconciled, TypeOK, Copy
  <2>2. op[c] = "reconcile"
    BY <1>7 DEF EndRepair, IInv, Reconciled, TypeOK
  <2>3. QED
    BY <1>4, <1>7, <2>1, <2>2 DEF EndRepair, Working, Underway, IInv, TypeOK
<1>8. ASSUME NEW c \in Call, NEW r \in Ref, RepairRecord(c, r) PROVE CalmInv'
  <2>1. Agree
    BY <1>8, AgreeBefore DEF RepairRecord, Working, Underway
  <2>2. record' = record
    BY <1>8, <2>1 DEF RepairRecord, IInv, Reconciled, Agree, TypeOK, Copy
  <2>3. ~Underway(c) /\ ~Underway(c)' /\ Progress(c)' /\ UNCHANGED disk
    BY <1>8, <2>2 DEF RepairRecord, Underway, Progress, IInv, TypeOK
  <2>4. QED
    BY <1>8, <2>3, StillCalm DEF RepairRecord
<1>9. ASSUME NEW c \in Call, SaveState(c) PROVE CalmInv'
  <2>1. Agree'
    BY <1>9 DEF SaveState, Agree, CalmInv, Progress
  <2>2. \A d \in Call \ {c} : ~Working(d)
    BY <1>9, Alone DEF SaveState, IInv, Working
  <2>3. QED
    BY <1>9, <2>1, <2>2 DEF SaveState, CalmInv, Progress, Underway, Working, IInv, TypeOK
<1>10. ASSUME NEW c \in Call, IndexConflict(c) \/ Indexed(c) \/ SwapFails(c)
       PROVE  CalmInv'
  <2>1. UNCHANGED disk
    BY <1>10 DEF IndexConflict, Indexed, SwapFails
  <2>2. ~Underway(c) /\ ~Underway(c)' /\ Progress(c)'
    BY <1>10 DEF IndexConflict, Indexed, SwapFails, Return, Underway, Progress, IInv, TypeOK
  <2>3. Others(c)
    BY <1>10 DEF IndexConflict, Indexed, SwapFails, Return, IInv, TypeOK
  <2>4. QED
    BY <2>1, <2>2, <2>3, StillCalm
<1>11. CASE UNCHANGED vars
  BY <1>11 DEF vars, CalmInv, Progress, Underway, Agree
<1>12. QED
  BY <1>1, <1>2, <1>3, <1>5, <1>6, <1>7, <1>8, <1>9, <1>10, <1>11
     DEF Next, Calls, Work, DeleteRecordFails, Fail, Crash

\* The end of a reconciliation makes a fresh start.
LEMMA FreshStart ==
  ASSUME IInv, OneBroker, suspect, ~suspect', [Next]_vars PROVE CalmInv'
<1>1. PICK c \in Call : Indexed(c) /\ op[c] = "reconcile"
  <2>1. ~Calls /\ ~UNCHANGED vars
    BY DEF Calls, Begin, vars
  <2>2. ASSUME NEW b \in Broker PROVE ~Crash(b)
    BY DEF Crash
  <2>3. PICK c \in Call : Work(c)
    BY <2>1, <2>2 DEF Next
  <2>4. ~UNCHANGED suspect /\ suspect' # TRUE
    OBVIOUS
  <2>5. Indexed(c)
    BY <2>3, <2>4 DEF Work, Acquire, Load, Swap, SwapFails, WriteRecord, DeleteRecordFails,
       ListGitRefs, ListRecords, RepairRecord, EndRepair, SaveState, IndexConflict, Fail
  <2>6. op[c] = "reconcile"
    BY <2>5 DEF Indexed, IInv, TypeOK
  <2>7. QED
    BY <2>5, <2>6
<1>2. Agree'
  BY <1>1 DEF Indexed, IInv, Reconciled, Agree, disk
<1>3. \A d \in Call : ~Working(d)'
  <2>1. Working(c)
    BY <1>1 DEF Indexed, Working
  <2>2. QED
    BY <1>1, <2>1, ReturnLocked DEF Indexed, IInv
<1>4. QED
  BY <1>2, <1>3 DEF CalmInv, Progress, Working

\* With one process, the copies of every ref agree at rest, unless a call has
\* failed since the last reconciliation.
THEOREM OneBrokerAgrees ==
  ASSUME OneBroker PROVE Spec => []AgreeWhenQuiet
<1>1. Init => (suspect \/ CalmInv)
  BY DEF Init, CalmInv, Progress, Agree
<1>2. IInv /\ (suspect \/ CalmInv) /\ [Next]_vars => (suspect \/ CalmInv)'
  BY CalmStep, FreshStart
<1>3. IInv /\ (suspect \/ CalmInv) => AgreeWhenQuiet
  BY BrokerAssumption, NoCallAssumption
     DEF IInv, Locked, CalmInv, Underway, Working, AgreeWhenQuiet
<1>4. QED
  BY <1>1, <1>2, <1>3, Invariant, PTL DEF Spec

-----------------------------------------------------------------------------
\* Every state is of the declared types, with any number of broker processes:
\* UpsertRepository never tries more than its sixteen times.
THEOREM LocalRefsTypes == Spec => []TypeOK
<1>1. Init => TypeOK
  BY InitInvariant DEF IInv
<1>2. QED
  BY <1>1, StepTypes, PTL DEF Spec

(***************************************************************************)
(* Issues (Board)                                                          *)
(***************************************************************************)

\* The columns that new and taken stories go to are there.
Bounds == {"backlog", "doing"} \subseteq Lane /\ MaxRequests \in Nat

Boards == Seq(B!Issue)

\* What a request does to a board it has read: no issue is dropped, and nothing of
\* the history of one.
Keeps(b, new) ==
  /\ new \in Boards
  /\ B!Ids(b) \subseteq B!Ids(new)
  /\ \A i \in B!Ids(b) : b[i].events \subseteq new[i].events

CopiesKeep == \A k \in Process : boardPc[k] = "save" => Keeps(expected[k], copy[k])

\* The issues of answered changes are there.
AnsweredThere == \A change \in boardKept : change[2] \in B!Ids(board)

\* Every copy has its story where the request asks for, seen from what was read.
CopiesStand ==
  \A k \in Process : boardPc[k] = "save" => B!Stands(expected[k], copy[k], moves[k])

BoardInv == B!TypeOK /\ CopiesKeep /\ CopiesStand /\ B!AnsweredStays /\ AnsweredThere

-----------------------------------------------------------------------------
(***************************************************************************)
(* Boards                                                                  *)
(***************************************************************************)

\* Board has its own instance of Cardinality.
LEMMA SameCount == \A S : B!Cardinality(S) = Cardinality(S)
  BY DEF B!Cardinality, Cardinality

LEMMA BoardIsFunction ==
  ASSUME NEW b \in Boards
  PROVE  Len(b) \in Nat /\ B!Ids(b) = 1..Len(b) /\ \A i \in B!Ids(b) : b[i] \in B!Issue
  BY DEF Boards, B!Ids

LEMMA FunctionIsBoard ==
  ASSUME NEW b \in Boards, NEW f, DOMAIN f = B!Ids(b), f = [i \in B!Ids(b) |-> f[i]],
         \A i \in B!Ids(b) : f[i] \in B!Issue
  PROVE  f \in Boards /\ B!Ids(f) = B!Ids(b)
  BY DEF Boards, B!Ids

\* The stories of a column can be counted.
LEMMA Counts ==
  ASSUME NEW b \in Boards, NEW lane, NEW except
  PROVE  /\ B!Stories(b, lane, except) \subseteq B!Ids(b)
         /\ IsFiniteSet(B!Stories(b, lane, except))
         /\ Cardinality(B!Stories(b, lane, except)) \in Nat
<1>1. B!Stories(b, lane, except) \subseteq 1..Len(b) /\ Len(b) \in Nat
  BY BoardIsFunction DEF B!Stories
<1>2. IsFiniteSet(1..Len(b))
  BY <1>1, FS_Interval
<1>3. QED
  BY <1>1, <1>2, BoardIsFunction, FS_Subset, FS_CardinalityType

LEMMA RankType ==
  ASSUME NEW b \in Boards, NEW lane, NEW except, NEW i
  PROVE  B!Rank(b, B!Stories(b, lane, except), i) \in Nat \ {0}
<1> DEFINE S == B!Stories(b, lane, except)
           T == {j \in S : B!Before(b, j, i)}
<1>1. IsFiniteSet(S)
  BY Counts
<1>2. T \subseteq S
  OBVIOUS
<1>3. Cardinality(T) \in Nat
  BY <1>1, <1>2, FS_Subset, FS_CardinalityType
<1>4. B!Rank(b, S, i) = 1 + Cardinality(T)
  BY SameCount DEF B!Rank
<1> HIDE DEF S, T
<1>5. B!Rank(b, S, i) \in Nat \ {0}
  BY <1>3, <1>4
<1>6. QED
  BY <1>5 DEF S

LEMMA KeepsItself == ASSUME NEW b \in Boards PROVE Keeps(b, b)
  BY DEF Keeps

LEMMA KeepsOn ==
  ASSUME NEW b \in Boards, NEW c, NEW d, Keeps(b, c), Keeps(c, d) PROVE Keeps(b, d)
  BY DEF Keeps

\* A board whose issues are changed one by one, but for their histories.
LEMMA ChangedKeeps ==
  ASSUME NEW b \in Boards, NEW f, f = [i \in B!Ids(b) |-> f[i]],
         \A i \in B!Ids(b) : f[i] \in B!Issue /\ b[i].events \subseteq f[i].events
  PROVE  Keeps(b, f)
  BY FunctionIsBoard DEF Keeps

-----------------------------------------------------------------------------
(***************************************************************************)
(* Changes in memory                                                       *)
(***************************************************************************)

LEMMA NewPosition ==
  ASSUME NEW issue \in B!Issue, NEW p \in Nat
  PROVE  /\ [issue EXCEPT !.position = p] \in B!Issue
         /\ [issue EXCEPT !.position = p].events = issue.events
  BY DEF B!Issue

LEMMA NewPlace ==
  ASSUME NEW issue \in B!Issue, NEW p \in Nat, NEW lane \in Lane
  PROVE  /\ [issue EXCEPT !.lane = lane, !.position = p] \in B!Issue
         /\ [issue EXCEPT !.lane = lane, !.position = p].events = issue.events
  BY DEF B!Issue

LEMMA NotedKeeps ==
  ASSUME NEW b \in Boards, NEW id \in B!Ids(b), Bounds, requests \in Nat,
         requests < MaxRequests
  PROVE  Keeps(b, B!Noted(b, id))
<1> DEFINE f == B!Noted(b, id)
<1>1. f = [i \in B!Ids(b) |-> IF i = id THEN [b[i] EXCEPT !.events = @ \cup {requests + 1}]
                             ELSE b[i]]
  BY DEF B!Noted, B!Ids
<1>2. ASSUME NEW issue \in B!Issue
      PROVE  /\ [issue EXCEPT !.events = @ \cup {requests + 1}] \in B!Issue
             /\ issue.events \subseteq [issue EXCEPT !.events = @ \cup {requests + 1}].events
  BY DEF B!Issue, Bounds
<1>3. \A i \in B!Ids(b) : b[i] \in B!Issue
  BY BoardIsFunction
<1> HIDE DEF f
<1>4. f = [i \in B!Ids(b) |-> f[i]]
  BY <1>1
<1>5. \A i \in B!Ids(b) : f[i] \in B!Issue /\ b[i].events \subseteq f[i].events
  BY <1>1, <1>2, <1>3
<1>6. Keeps(b, f)
  BY <1>4, <1>5, ChangedKeeps
<1>7. QED
  BY <1>6 DEF f

LEMMA NormalizedKeeps ==
  ASSUME NEW b \in Boards, NEW lane, NEW except
  PROVE  Keeps(b, B!Normalized(b, lane, except))
<1> DEFINE S == B!Stories(b, lane, except)
           f == B!Normalized(b, lane, except)
<1>1. f = [i \in B!Ids(b) |-> IF i \in S THEN [b[i] EXCEPT !.position = B!Rank(b, S, i)] ELSE b[i]]
  BY DEF B!Normalized, B!Numbered
<1>2. \A i : B!Rank(b, S, i) \in Nat
  BY RankType
<1> HIDE DEF f, S
<1>3. \A i \in B!Ids(b) : f[i] \in B!Issue /\ b[i].events \subseteq f[i].events
  BY <1>1, <1>2, BoardIsFunction, NewPosition
<1>4. f = [i \in B!Ids(b) |-> f[i]]
  BY <1>1
<1>5. Keeps(b, f)
  BY <1>3, <1>4, ChangedKeeps
<1>6. QED
  BY <1>5 DEF f

LEMMA OrderedKeeps ==
  ASSUME NEW b \in Boards, NEW id \in B!Ids(b), NEW lane \in Lane,
         NEW after \in Nat, NEW order \in Nat
  PROVE  Keeps(b, B!Ordered(b, id, lane, after, order))
<1> DEFINE S == B!Stories(b, lane, id)
           index == B!Index(b, S, after, order)
           place(i) == B!Rank(b, S, i)
           f == B!Ordered(b, id, lane, after, order)
<1>1. f = [i \in B!Ids(b) |->
            IF i = id THEN [b[i] EXCEPT !.lane = lane, !.position = index + 1]
            ELSE IF i \in S
                 THEN [b[i] EXCEPT !.position = IF place(i) > index THEN place(i) + 1 ELSE place(i)]
                 ELSE b[i]]
  BY DEF B!Ordered
<1>2. \A i : place(i) \in Nat
  BY RankType
<1>3. index \in Nat
  BY <1>2, Counts, SameCount DEF B!Index
<1> HIDE DEF f, S, place, index
<1>4. \A i \in B!Ids(b) : b[i] \in B!Issue
  BY BoardIsFunction
<1>5. \A i \in B!Ids(b) : f[i] \in B!Issue /\ b[i].events \subseteq f[i].events
  <2> SUFFICES ASSUME NEW i \in B!Ids(b) PROVE f[i] \in B!Issue /\ b[i].events \subseteq f[i].events
    OBVIOUS
  <2> DEFINE p == IF place(i) > index THEN place(i) + 1 ELSE place(i)
  <2>1. p \in Nat /\ index + 1 \in Nat /\ b[i] \in B!Issue
    BY <1>2, <1>3, <1>4
  <2>2. f[i] = IF i = id THEN [b[i] EXCEPT !.lane = lane, !.position = index + 1]
               ELSE IF i \in S THEN [b[i] EXCEPT !.position = p] ELSE b[i]
    BY <1>1
  <2> HIDE DEF p
  <2>3. /\ [b[i] EXCEPT !.position = p] \in B!Issue
        /\ [b[i] EXCEPT !.position = p].events = b[i].events
    BY <2>1, NewPosition
  <2>4. /\ [b[i] EXCEPT !.lane = lane, !.position = index + 1] \in B!Issue
        /\ [b[i] EXCEPT !.lane = lane, !.position = index + 1].events = b[i].events
    BY <2>1, NewPlace
  <2>5. CASE i = id
    BY <2>2, <2>4, <2>5
  <2>6. CASE i # id /\ i \in S
    BY <2>2, <2>3, <2>6
  <2>7. CASE i # id /\ i \notin S
    BY <2>1, <2>2, <2>7
  <2>8. QED
    BY <2>5, <2>6, <2>7
<1>6. f = [i \in B!Ids(b) |-> f[i]]
  BY <1>1
<1>7. Keeps(b, f)
  BY <1>5, <1>6, ChangedKeeps
<1>8. QED
  BY <1>7 DEF f

LEMMA LeftBehindKeeps ==
  ASSUME NEW b \in Boards, NEW c, Keeps(b, c), NEW id, NEW from, NEW to
  PROVE  Keeps(b, B!LeftBehind(c, id, from, to))
<1>1. c \in Boards
  BY DEF Keeps
<1>2. Keeps(c, B!Normalized(c, from, id))
  BY <1>1, NormalizedKeeps
<1>3. QED
  BY <1>1, <1>2, KeepsOn DEF B!LeftBehind

\* A flag of an issue changes.
LEMMA FlagKeeps ==
  ASSUME NEW b \in Boards, NEW id \in B!Ids(b), NEW yes \in BOOLEAN
  PROVE  /\ Keeps(b, [b EXCEPT ![id].story = yes])
         /\ Keeps(b, [b EXCEPT ![id].archived = yes])
         /\ Keeps(b, [b EXCEPT ![id].closed = yes])
<1>1. ASSUME NEW issue \in B!Issue
      PROVE  /\ [issue EXCEPT !.story = yes] \in B!Issue
             /\ [issue EXCEPT !.archived = yes] \in B!Issue
             /\ [issue EXCEPT !.closed = yes] \in B!Issue
             /\ [issue EXCEPT !.story = yes].events = issue.events
             /\ [issue EXCEPT !.archived = yes].events = issue.events
             /\ [issue EXCEPT !.closed = yes].events = issue.events
  BY DEF B!Issue
<1>2. \A i \in B!Ids(b) : b[i] \in B!Issue
  BY BoardIsFunction
<1> DEFINE f == [b EXCEPT ![id].story = yes]
           g == [b EXCEPT ![id].archived = yes]
           h == [b EXCEPT ![id].closed = yes]
<1>3. /\ f = [i \in B!Ids(b) |-> IF i = id THEN [b[i] EXCEPT !.story = yes] ELSE b[i]]
      /\ g = [i \in B!Ids(b) |-> IF i = id THEN [b[i] EXCEPT !.archived = yes] ELSE b[i]]
      /\ h = [i \in B!Ids(b) |-> IF i = id THEN [b[i] EXCEPT !.closed = yes] ELSE b[i]]
  BY DEF B!Ids
<1> HIDE DEF f, g, h
<1>4. /\ f = [i \in B!Ids(b) |-> f[i]]
      /\ g = [i \in B!Ids(b) |-> g[i]]
      /\ h = [i \in B!Ids(b) |-> h[i]]
  BY <1>3
<1>5. \A i \in B!Ids(b) : f[i] \in B!Issue /\ b[i].events \subseteq f[i].events
  BY <1>1, <1>2, <1>3
<1>6. \A i \in B!Ids(b) : g[i] \in B!Issue /\ b[i].events \subseteq g[i].events
  BY <1>1, <1>2, <1>3
<1>7. \A i \in B!Ids(b) : h[i] \in B!Issue /\ b[i].events \subseteq h[i].events
  BY <1>1, <1>2, <1>3
<1>8. Keeps(b, f) /\ Keeps(b, g) /\ Keeps(b, h)
  BY <1>4, <1>5, <1>6, <1>7, ChangedKeeps
<1>9. QED
  BY <1>8 DEF f, g, h

\* A story changes its column, or only its position there.
LEMMA PlaceKeeps ==
  ASSUME NEW b \in Boards, NEW id \in B!Ids(b), NEW lane \in Lane, NEW p \in Nat
  PROVE  /\ Keeps(b, [b EXCEPT ![id].lane = lane, ![id].position = p])
         /\ Keeps(b, [b EXCEPT ![id].position = p])
<1> DEFINE f == [b EXCEPT ![id].lane = lane, ![id].position = p]
           g == [b EXCEPT ![id].position = p]
<1>1. \A i \in B!Ids(b) : b[i] \in B!Issue
  BY BoardIsFunction
<1>2. f = [i \in B!Ids(b) |-> IF i = id THEN [b[i] EXCEPT !.lane = lane, !.position = p] ELSE b[i]]
  BY DEF B!Ids
<1>3. g = [i \in B!Ids(b) |-> IF i = id THEN [b[i] EXCEPT !.position = p] ELSE b[i]]
  BY DEF B!Ids
<1> HIDE DEF f, g
<1>4. f = [i \in B!Ids(b) |-> f[i]] /\ g = [i \in B!Ids(b) |-> g[i]]
  BY <1>2, <1>3
<1>5. \A i \in B!Ids(b) : f[i] \in B!Issue /\ b[i].events \subseteq f[i].events
  BY <1>1, <1>2, NewPlace
<1>6. \A i \in B!Ids(b) : g[i] \in B!Issue /\ b[i].events \subseteq g[i].events
  BY <1>1, <1>3, NewPosition
<1>7. Keeps(b, f) /\ Keeps(b, g)
  BY <1>4, <1>5, <1>6, ChangedKeeps
<1>8. QED
  BY <1>7 DEF f, g

LEMMA AppendKeeps ==
  ASSUME NEW b \in Boards, NEW issue \in B!Issue PROVE Keeps(b, Append(b, issue))
<1> DEFINE c == Append(b, issue)
<1>1. c \in Boards /\ Len(c) = Len(b) + 1 /\ \A i \in 1..Len(b) : c[i] = b[i]
  BY DEF Boards
<1> HIDE DEF c
<1>2. B!Ids(b) = 1..Len(b) /\ B!Ids(c) = 1..Len(c) /\ Len(b) \in Nat
  BY <1>1, BoardIsFunction
<1>3. Keeps(b, c)
  BY <1>1, <1>2 DEF Keeps
<1>4. QED
  BY <1>3 DEF c

-----------------------------------------------------------------------------
(***************************************************************************)
(* Places in a column                                                      *)
(***************************************************************************)

\* If the members of a set are numbered from 1 without a gap, as many come before one
\* as its number says.
LEMMA CountBelow ==
  ASSUME NEW T, IsFiniteSet(T), NEW f \in [T -> 1..Cardinality(T)],
         \A i, j \in T : f[i] = f[j] => i = j, NEW i \in T
  PROVE  Cardinality({j \in T : f[j] < f[i]}) = f[i] - 1
<1> DEFINE n == Cardinality(T)
           D == {j \in T : f[j] < f[i]}
           g == [j \in D |-> f[j]]
<1>1. n \in Nat /\ f[i] \in 1..n
  BY FS_CardinalityType
<1>2. IsFiniteSet(1..n) /\ Cardinality(1..n) = n
  BY <1>1, FS_Interval
<1>3. f \in Injection(T, 1..n)
  BY Fun_IsInj
<1>4. f \in Surjection(T, 1..n)
  BY <1>2, <1>3, FS_Injection
<1>5. \A t \in 1..n : \E s \in T : f[s] = t
  <2> HIDE DEF n
  <2>1. /\ f \in [T -> 1..n]
        /\ \A t \in 1..n : \E s \in T : f[s] = t
        /\ Range(f) = 1..n
    BY <1>4, Fun_SurjectionProperties
  <2>2. QED
    BY <2>1
<1>6. g \in [D -> 1..(f[i] - 1)]
  BY <1>1
<1>7. \A a, c \in D : g[a] = g[c] => a = c
  OBVIOUS
<1>8. \A t \in 1..(f[i] - 1) : \E s \in D : g[s] = t
  BY <1>1, <1>5
<1> HIDE DEF g
<1>9. g \in Bijection(D, 1..(f[i] - 1))
  BY <1>6, <1>7, <1>8, Fun_IsBij
<1>10. ExistsBijection(D, 1..(f[i] - 1))
  BY <1>9, Fun_ExistsBij
<1>11. IsFiniteSet(D)
  BY FS_Subset
<1>12. Cardinality(D) = Cardinality(1..(f[i] - 1))
  BY <1>10, <1>11, FS_Bijection
<1>13. Cardinality(1..(f[i] - 1)) = f[i] - 1
  BY <1>1, FS_Interval
<1>14. QED
  BY <1>12, <1>13

\* Positions order the stories, issues with the same position by their ids.
LEMMA BeforeOrders ==
  ASSUME NEW b \in Boards, NEW i \in B!Ids(b), NEW j \in B!Ids(b)
  PROVE  /\ ~B!Before(b, i, i)
         /\ i # j => B!Before(b, i, j) \/ B!Before(b, j, i)
         /\ \A k \in B!Ids(b) : B!Before(b, k, i) /\ B!Before(b, i, j) => B!Before(b, k, j)
<1>1. \A k \in B!Ids(b) : k \in Nat /\ b[k].position \in Nat
  BY BoardIsFunction DEF B!Issue
<1>2. QED
  BY <1>1 DEF B!Before

\* A story that comes before another one has the smaller place.
LEMMA RanksFollow ==
  ASSUME NEW b \in Boards, NEW lane, NEW except,
         NEW S, S = B!Stories(b, lane, except), NEW i \in S, NEW j \in S, B!Before(b, i, j)
  PROVE  B!Rank(b, S, i) < B!Rank(b, S, j)
<1> DEFINE Earlier(k) == {m \in S : B!Before(b, m, k)}
<1>1. S \subseteq B!Ids(b) /\ IsFiniteSet(S)
  BY Counts
<1>2. \A k \in S : IsFiniteSet(Earlier(k)) /\ Cardinality(Earlier(k)) \in Nat
  BY <1>1, FS_Subset, FS_CardinalityType
<1>3. \A k \in S : B!Rank(b, S, k) = 1 + Cardinality(Earlier(k))
  BY SameCount DEF B!Rank
<1>4. Earlier(i) \subseteq Earlier(j)
  BY <1>1, BeforeOrders
<1>5. i \in Earlier(j) /\ i \notin Earlier(i)
  BY <1>1, BeforeOrders
<1> HIDE DEF Earlier
<1>6. Earlier(i) \in SUBSET Earlier(j) /\ Earlier(i) # Earlier(j)
  BY <1>4, <1>5
<1>7. Cardinality(Earlier(i)) < Cardinality(Earlier(j))
  BY <1>2, <1>6, FS_Subset
<1>8. QED
  BY <1>2, <1>3, <1>7

\* The stories of a column have different places, none beyond their number.
LEMMA RanksDiffer ==
  ASSUME NEW b \in Boards, NEW lane, NEW except,
         NEW S, S = B!Stories(b, lane, except), NEW i \in S
  PROVE  /\ B!Rank(b, S, i) \in 1..Cardinality(S)
         /\ \A j \in S : B!Rank(b, S, i) = B!Rank(b, S, j) => i = j
<1> DEFINE Earlier(j) == {k \in S : B!Before(b, k, j)}
<1>1. S \subseteq B!Ids(b) /\ IsFiniteSet(S) /\ Cardinality(S) \in Nat
  BY Counts
<1>2. \A j \in S : IsFiniteSet(Earlier(j)) /\ Cardinality(Earlier(j)) \in Nat
  BY <1>1, FS_Subset, FS_CardinalityType
<1>3. \A j \in S : B!Rank(b, S, j) = 1 + Cardinality(Earlier(j))
  BY SameCount DEF B!Rank
<1>4. Cardinality(Earlier(i)) < Cardinality(S)
  <2>1. i \notin Earlier(i)
    BY <1>1, BeforeOrders
  <2>2. Earlier(i) \in SUBSET S /\ Earlier(i) # S
    BY <2>1
  <2> HIDE DEF Earlier
  <2>3. QED
    BY <1>1, <1>2, <2>2, FS_Subset
<1> HIDE DEF Earlier
<1>5. B!Rank(b, S, i) \in 1..Cardinality(S)
  BY <1>1, <1>2, <1>3, <1>4
<1>6. ASSUME NEW j \in S, i # j PROVE B!Rank(b, S, i) # B!Rank(b, S, j)
  <2>1. B!Before(b, i, j) \/ B!Before(b, j, i)
    BY <1>1, <1>6, BeforeOrders
  <2>2. B!Rank(b, S, i) < B!Rank(b, S, j) \/ B!Rank(b, S, j) < B!Rank(b, S, i)
    BY <2>1, RanksFollow
  <2>3. B!Rank(b, S, i) \in Nat /\ B!Rank(b, S, j) \in Nat
    BY <1>2, <1>3
  <2>4. QED
    BY <2>2, <2>3
<1>7. QED
  BY <1>5, <1>6

\* A column whose positions are different and at most its size is numbered without a gap.
LEMMA NumberedColumn ==
  ASSUME NEW c \in Boards, NEW lane, NEW T, T = B!Stories(c, lane, 0),
         \A i \in T : c[i].position \in 1..Cardinality(T),
         \A i, j \in T : c[i].position = c[j].position => i = j,
         NEW i \in T
  PROVE  c[i].position = B!Rank(c, T, i)
<1> DEFINE f == [j \in T |-> c[j].position]
<1>1. T \subseteq B!Ids(c) /\ IsFiniteSet(T) /\ Cardinality(T) \in Nat
  BY Counts
<1>2. f \in [T -> 1..Cardinality(T)] /\ \A j, k \in T : f[j] = f[k] => j = k
  OBVIOUS
<1>3. \A j \in T : B!Before(c, j, i) <=> f[j] < f[i]
  <2>1. \A j \in T : j \in Nat
    BY <1>1, BoardIsFunction
  <2>2. QED
    BY <1>1, <2>1 DEF B!Before
<1>4. B!Rank(c, T, i) = 1 + Cardinality({j \in T : B!Before(c, j, i)})
  BY SameCount DEF B!Rank
<1>5. {j \in T : B!Before(c, j, i)} = {j \in T : f[j] < f[i]}
  BY <1>3
<1>6. f[i] = c[i].position /\ f[i] \in 1..Cardinality(T)
  BY <1>2
<1> HIDE DEF f
<1>7. Cardinality({j \in T : f[j] < f[i]}) = f[i] - 1
  BY <1>1, <1>2, CountBelow, Zenon
<1>8. Cardinality({j \in T : B!Before(c, j, i)}) = f[i] - 1
  BY <1>5, <1>7
<1>9. QED
  BY <1>1, <1>4, <1>6, <1>8
\* What a move does to the columns: the story goes to its column, and those that come
\* after it there make room; nothing else of an issue changes, nor any position there.
LEMMA Moved ==
  ASSUME NEW b \in Boards, NEW id \in B!Ids(b), NEW lane \in Lane, NEW after \in Nat,
         NEW order \in Nat, NEW from,
         NEW S, S = B!Stories(b, lane, id),
         NEW index, index = B!Index(b, S, after, order),
         NEW N, N = B!Noted(B!LeftBehind(B!Ordered(b, id, lane, after, order), id, from, lane), id)
  PROVE  /\ B!Ids(N) = B!Ids(b)
         /\ \A i \in B!Ids(b) : /\ N[i].story = b[i].story /\ N[i].archived = b[i].archived
                                /\ N[i].lane = IF i = id THEN lane ELSE b[i].lane
         /\ N[id].position = index + 1
         /\ \A i \in S : N[i].position = IF B!Rank(b, S, i) > index THEN B!Rank(b, S, i) + 1
                                         ELSE B!Rank(b, S, i)
<1> DEFINE place(i) == B!Rank(b, S, i)
           O == B!Ordered(b, id, lane, after, order)
           L == B!LeftBehind(O, id, from, lane)
           p(i) == IF place(i) > index THEN place(i) + 1 ELSE place(i)
<1>1. O = [i \in B!Ids(b) |->
            IF i = id THEN [b[i] EXCEPT !.lane = lane, !.position = index + 1]
            ELSE IF i \in S THEN [b[i] EXCEPT !.position = p(i)] ELSE b[i]]
  BY DEF B!Ordered
<1>2. Keeps(b, O)
  BY OrderedKeeps
<1>3. \A i \in B!Ids(b) : b[i] \in B!Issue
  BY BoardIsFunction
<1> HIDE DEF O, p
<1>4. /\ B!Ids(O) = B!Ids(b)
      /\ \A i \in B!Ids(b) : /\ O[i].story = b[i].story /\ O[i].archived = b[i].archived
                             /\ O[i].lane = IF i = id THEN lane ELSE b[i].lane
      /\ O[id].position = index + 1
      /\ \A i \in S : O[i].position = p(i)
  <2>1. \A issue \in B!Issue : \A q :
          /\ [issue EXCEPT !.position = q].position = q
          /\ [issue EXCEPT !.position = q].story = issue.story
          /\ [issue EXCEPT !.position = q].archived = issue.archived
          /\ [issue EXCEPT !.position = q].lane = issue.lane
          /\ [issue EXCEPT !.lane = lane, !.position = q].position = q
          /\ [issue EXCEPT !.lane = lane, !.position = q].story = issue.story
          /\ [issue EXCEPT !.lane = lane, !.position = q].archived = issue.archived
          /\ [issue EXCEPT !.lane = lane, !.position = q].lane = lane
    BY DEF B!Issue
  <2>2. \A i \in S : i \in B!Ids(b) /\ i # id
    BY DEF B!Stories
  <2>3. ASSUME NEW i \in B!Ids(b)
        PROVE  /\ O[i].story = b[i].story /\ O[i].archived = b[i].archived
               /\ O[i].lane = IF i = id THEN lane ELSE b[i].lane
               /\ i = id => O[i].position = index + 1
               /\ i \in S => O[i].position = p(i)
    <3>1. b[i] \in B!Issue
      BY <1>3
    <3>2. O[i] = IF i = id THEN [b[i] EXCEPT !.lane = lane, !.position = index + 1]
                 ELSE IF i \in S THEN [b[i] EXCEPT !.position = p(i)] ELSE b[i]
      BY <1>1
    <3>3. CASE i = id
      <4>1. i \notin S /\ O[i] = [b[i] EXCEPT !.lane = lane, !.position = index + 1]
        BY <2>2, <3>2, <3>3
      <4>2. QED
        BY <2>1, <3>1, <3>3, <4>1
    <3>4. CASE i # id /\ i \in S
      BY <2>1, <3>1, <3>2, <3>4
    <3>5. CASE i # id /\ i \notin S
      BY <3>2, <3>5
    <3>6. QED
      BY <3>3, <3>4, <3>5
  <2>4. B!Ids(O) = B!Ids(b)
    BY <1>1 DEF B!Ids
  <2>5. QED
    BY <2>2, <2>3, <2>4
<1>5. \A i \in S : i \in B!Ids(b) /\ i # id /\ b[i].lane = lane
  BY DEF B!Stories
<1>6. /\ B!Ids(L) = B!Ids(b)
      /\ \A i \in B!Ids(b) : /\ L[i].story = O[i].story /\ L[i].archived = O[i].archived
                             /\ L[i].lane = O[i].lane
      /\ \A i \in S \cup {id} : L[i].position = O[i].position
  <2>1. CASE from = lane
    BY <1>4, <2>1 DEF B!LeftBehind
  <2>2. CASE from # lane
    <3> DEFINE X == B!Stories(O, from, id)
    <3>1. L = [i \in B!Ids(O) |-> IF i \in X THEN [O[i] EXCEPT !.position = B!Rank(O, X, i)] ELSE O[i]]
      BY <2>2 DEF B!LeftBehind, B!Normalized, B!Numbered
    <3>2. \A i \in S \cup {id} : i \notin X
      BY <1>4, <1>5, <2>2 DEF B!Stories
    <3>3. \A i \in B!Ids(O) : O[i] \in B!Issue
      BY <1>2, BoardIsFunction DEF Keeps
    <3>4. \A issue \in B!Issue : \A q : /\ [issue EXCEPT !.position = q].story = issue.story
                                        /\ [issue EXCEPT !.position = q].archived = issue.archived
                                        /\ [issue EXCEPT !.position = q].lane = issue.lane
      BY DEF B!Issue
    <3> HIDE DEF L, X
    <3>5. QED
      BY <1>4, <1>5, <3>1, <3>2, <3>3, <3>4 DEF B!Ids
  <2>3. QED
    BY <2>1, <2>2
<1>7. Keeps(b, L)
  BY <1>2, LeftBehindKeeps
<1> HIDE DEF L
<1>8. N = [i \in B!Ids(L) |-> IF i = id THEN [L[i] EXCEPT !.events = @ \cup {requests + 1}] ELSE L[i]]
  BY DEF B!Noted, B!Ids, L, O
<1>9. \A i \in B!Ids(L) : L[i] \in B!Issue
  BY <1>7, BoardIsFunction DEF Keeps
<1>10. /\ B!Ids(N) = B!Ids(b)
       /\ \A i \in B!Ids(b) : /\ N[i].story = L[i].story /\ N[i].archived = L[i].archived
                              /\ N[i].lane = L[i].lane /\ N[i].position = L[i].position
  <2>1. \A issue \in B!Issue : \A q : /\ [issue EXCEPT !.events = q].story = issue.story
                                      /\ [issue EXCEPT !.events = q].archived = issue.archived
                                      /\ [issue EXCEPT !.events = q].lane = issue.lane
                                      /\ [issue EXCEPT !.events = q].position = issue.position
    BY DEF B!Issue
  <2>2. QED
    BY <1>6, <1>8, <1>9, <2>1 DEF B!Ids
<1>11. \A i \in S : N[i].position = p(i)
  BY <1>4, <1>5, <1>6, <1>10
<1>12. QED
  BY <1>4, <1>6, <1>10, <1>11 DEF p

\* What numbering a column does: the positions of its stories become their places.
LEMMA NormalizedIs ==
  ASSUME NEW b \in Boards, NEW lane, NEW except, NEW S, S = B!Stories(b, lane, except),
         NEW N, N = B!Normalized(b, lane, except)
  PROVE  /\ N \in Boards /\ B!Ids(N) = B!Ids(b)
         /\ \A i \in B!Ids(b) : /\ N[i].story = b[i].story /\ N[i].archived = b[i].archived
                                /\ N[i].lane = b[i].lane
         /\ \A i \in S : N[i].position = B!Rank(b, S, i)
         /\ \A i \in B!Ids(b) \ S : N[i].position = b[i].position
<1>1. N = [i \in B!Ids(b) |-> IF i \in S THEN [b[i] EXCEPT !.position = B!Rank(b, S, i)] ELSE b[i]]
  BY DEF B!Normalized, B!Numbered
<1>2. \A issue \in B!Issue : \A q : /\ [issue EXCEPT !.position = q].story = issue.story
                                    /\ [issue EXCEPT !.position = q].archived = issue.archived
                                    /\ [issue EXCEPT !.position = q].lane = issue.lane
                                    /\ [issue EXCEPT !.position = q].position = q
  BY DEF B!Issue
<1>3. /\ \A i \in B!Ids(b) : b[i] \in B!Issue
      /\ S \subseteq B!Ids(b) /\ N \in Boards
  BY BoardIsFunction, Counts, NormalizedKeeps DEF Keeps
<1>4. B!Ids(N) = B!Ids(b)
  BY <1>1 DEF B!Ids
<1>5. ASSUME NEW i \in B!Ids(b)
      PROVE  /\ N[i].story = b[i].story /\ N[i].archived = b[i].archived /\ N[i].lane = b[i].lane
             /\ N[i].position = IF i \in S THEN B!Rank(b, S, i) ELSE b[i].position
  <2>1. N[i] = IF i \in S THEN [b[i] EXCEPT !.position = B!Rank(b, S, i)] ELSE b[i]
    BY <1>1
  <2>2. b[i] \in B!Issue
    BY <1>3
  <2>3. QED
    BY <1>2, <2>1, <2>2
<1>6. QED
  BY <1>3, <1>4, <1>5

\* A column is as dense as before when its stories and their positions are the same.
LEMMA DenseStays ==
  ASSUME NEW b \in Boards, NEW c, B!Ids(c) = B!Ids(b), NEW lane,
         \A i \in B!Ids(b) : /\ c[i].story = b[i].story /\ c[i].archived = b[i].archived
                             /\ c[i].lane = b[i].lane,
         \A i \in B!Stories(b, lane, 0) : c[i].position = b[i].position,
         B!Dense(b, lane)
  PROVE  B!Dense(c, lane)
<1> DEFINE T == B!Stories(b, lane, 0)
<1>1. B!Stories(c, lane, 0) = T
  BY DEF B!Stories
<1>2. \A i, j \in T : B!Before(c, i, j) <=> B!Before(b, i, j)
  BY DEF B!Before
<1> HIDE DEF T
<1>3. ASSUME NEW i \in T PROVE B!Rank(c, T, i) = B!Rank(b, T, i)
  <2>1. {j \in T : B!Before(c, j, i)} = {j \in T : B!Before(b, j, i)}
    BY <1>2
  <2>2. QED
    BY <2>1 DEF B!Rank
<1>4. QED
  BY <1>1, <1>3 DEF B!Dense, T

LEMMA NormalizedDense ==
  ASSUME NEW b \in Boards, NEW lane, NEW except, except \in B!Ids(b) => b[except].lane # lane
  PROVE  B!Dense(B!Normalized(b, lane, except), lane)
<1> DEFINE S == B!Stories(b, lane, except)
           N == B!Normalized(b, lane, except)
           column == B!Stories(N, lane, 0)
<1>1. /\ N \in Boards /\ B!Ids(N) = B!Ids(b)
      /\ \A i \in B!Ids(b) : /\ N[i].story = b[i].story /\ N[i].archived = b[i].archived
                             /\ N[i].lane = b[i].lane
      /\ \A i \in S : N[i].position = B!Rank(b, S, i)
  <2> HIDE DEF S, N
  <2>1. S = B!Stories(b, lane, except) /\ N = B!Normalized(b, lane, except)
    BY DEF S, N
  <2>2. QED
    BY <2>1, NormalizedIs
<1>2. \A i \in B!Ids(b) : i \in Nat /\ i # 0
  BY BoardIsFunction
<1> HIDE DEF N
<1>3. column = S
  BY <1>1, <1>2 DEF B!Stories
<1>4. \A i \in S : /\ B!Rank(b, S, i) \in 1..Cardinality(S)
                   /\ \A j \in S : B!Rank(b, S, i) = B!Rank(b, S, j) => i = j
  BY RanksDiffer
<1> HIDE DEF S, column
<1>5. /\ \A i \in column : N[i].position \in 1..Cardinality(column)
      /\ \A i, j \in column : N[i].position = N[j].position => i = j
  BY <1>1, <1>3, <1>4
<1>6. \A i \in column : N[i].position = B!Rank(N, column, i)
  BY <1>1, <1>5, NumberedColumn DEF column
<1>7. QED
  BY <1>6 DEF B!Dense, column, N

LEMMA NotedIs ==
  ASSUME NEW b \in Boards, NEW id \in B!Ids(b), NEW N, N = B!Noted(b, id)
  PROVE  /\ B!Ids(N) = B!Ids(b)
         /\ \A i \in B!Ids(b) : /\ N[i].story = b[i].story /\ N[i].archived = b[i].archived
                                /\ N[i].lane = b[i].lane /\ N[i].position = b[i].position
<1>1. N = [i \in B!Ids(b) |-> IF i = id THEN [b[i] EXCEPT !.events = @ \cup {requests + 1}] ELSE b[i]]
  BY DEF B!Noted, B!Ids
<1>2. \A issue \in B!Issue : \A q : /\ [issue EXCEPT !.events = q].story = issue.story
                                    /\ [issue EXCEPT !.events = q].archived = issue.archived
                                    /\ [issue EXCEPT !.events = q].lane = issue.lane
                                    /\ [issue EXCEPT !.events = q].position = issue.position
  BY DEF B!Issue
<1>3. \A i \in B!Ids(b) : b[i] \in B!Issue
  BY BoardIsFunction
<1>4. QED
  BY <1>1, <1>2, <1>3 DEF B!Ids

\* The column that a story has left is dense.
LEMMA LeftDense ==
  ASSUME NEW b \in Boards, NEW id \in B!Ids(b), NEW from, NEW to, from # to, b[id].lane = to
  PROVE  B!Dense(B!LeftBehind(b, id, from, to), from)
BY NormalizedDense DEF B!LeftBehind

\* A move to a rank, after a story or to the end numbers the column as it was asked to.
LEMMA MovedStands ==
  ASSUME NEW b \in Boards, NEW id \in B!Ids(b), NEW lane \in Lane, NEW after \in Nat,
         NEW order \in Nat, NEW from, NEW what,
         NEW N \in Boards,
         N = B!Noted(B!LeftBehind(B!Ordered(b, id, lane, after, order), id, from, lane), id),
         what.id = id, what.lane = lane, from = b[id].lane,
         \/ what.kind = "move" /\ what.after = after /\ what.order = order
         \/ what.kind = "take" /\ after = B!BeyondAll(b) /\ order = 0
  PROVE  B!Stands(b, N, what)
<1> SUFFICES ASSUME B!Shown(N, id) PROVE B!Stands(b, N, what)
  BY DEF B!Stands
<1> DEFINE S == B!Stories(b, lane, id)
           index == B!Index(b, S, after, order)
           column == B!Stories(N, lane, 0)
           rank(i) == B!Rank(b, S, i)
<1>1. /\ B!Ids(N) = B!Ids(b)
      /\ \A i \in B!Ids(b) : /\ N[i].story = b[i].story /\ N[i].archived = b[i].archived
                             /\ N[i].lane = IF i = id THEN lane ELSE b[i].lane
      /\ N[id].position = index + 1
      /\ \A i \in S : N[i].position = IF rank(i) > index THEN rank(i) + 1 ELSE rank(i)
  BY Moved
<1>2. S \subseteq B!Ids(b) /\ IsFiniteSet(S) /\ Cardinality(S) \in Nat
  BY Counts
<1>3. \A i \in S : rank(i) \in 1..Cardinality(S) /\ \A j \in S : rank(i) = rank(j) => i = j
  BY RanksDiffer
<1>4. index \in 0..Cardinality(S)
  BY <1>2, <1>3, SameCount DEF B!Index
<1>5. \A i \in B!Ids(b) : i \in Nat /\ i # 0 /\ i # B!BeyondAll(b)
  BY BoardIsFunction DEF B!BeyondAll
<1>6. id \notin S /\ column = S \cup {id}
  <2>1. N[id].story /\ ~N[id].archived /\ N[id].lane = lane
    BY <1>1 DEF B!Shown
  <2>2. QED
    BY <1>1, <1>5, <2>1 DEF B!Stories
<1>7. Cardinality(column) = Cardinality(S) + 1
  BY <1>2, <1>6, FS_AddElement
<1>8. after \in S => index = IF order > 0 THEN IF order - 1 < Cardinality(S) THEN order - 1
                                               ELSE Cardinality(S)
                             ELSE rank(after)
  BY <1>2, <1>5, SameCount DEF B!Index
<1>9. order > 0 => index = IF order - 1 < Cardinality(S) THEN order - 1 ELSE Cardinality(S)
  BY SameCount DEF B!Index
<1>10. order = 0 /\ after = B!BeyondAll(b) => index = Cardinality(S)
  <2>1. B!BeyondAll(b) \notin S /\ B!BeyondAll(b) # 0
    BY <1>2, <1>5, BoardIsFunction DEF B!BeyondAll
  <2>2. QED
    BY <2>1, SameCount DEF B!Index
<1> HIDE DEF S, index, rank
<1>11. \A i \in column : N[i].position \in 1..Cardinality(column)
  BY <1>1, <1>2, <1>3, <1>4, <1>6, <1>7
<1>12. \A i, j \in column : N[i].position = N[j].position => i = j
  BY <1>1, <1>2, <1>3, <1>4, <1>6
<1>13. \A i \in column : N[i].position = B!Rank(N, column, i)
  BY <1>11, <1>12, NumberedColumn
<1> HIDE DEF column
<1>14. B!Rank(N, column, id) = index + 1
  BY <1>1, <1>6, <1>13
<1>15. order > 0 => \/ index + 1 = order
                    \/ index + 1 = Cardinality(column) /\ order > index + 1
  BY <1>2, <1>7, <1>9
<1>16. order = 0 /\ after \in column \ {id} => index + 1 = B!Rank(N, column, after) + 1
  <2>1. ASSUME order = 0, after \in S PROVE B!Rank(N, column, after) = index
    <3>1. index = rank(after)
      BY <1>8, <2>1
    <3>2. rank(after) \in Nat
      BY <1>2, <1>3, <2>1
    <3>3. N[after].position = rank(after)
      BY <1>1, <2>1, <3>1, <3>2
    <3>4. N[after].position = B!Rank(N, column, after)
      BY <1>6, <1>13, <2>1
    <3>5. QED
      BY <3>1, <3>3, <3>4
  <2>2. QED
    BY <1>6, <2>1
<1>17. /\ order = 0 /\ after = B!BeyondAll(b) => index + 1 = Cardinality(column)
       /\ order = 0 /\ after # 0 /\ after \notin column \ {id} => index + 1 = Cardinality(column)
       /\ order = 0 /\ after = 0 => index + 1 = 1
  <2>1. order = 0 /\ after # 0 /\ after \notin S => index = Cardinality(S)
    BY SameCount DEF B!Index, index, S
  <2>2. order = 0 /\ after = 0 => index = 0
    BY DEF B!Index, index
  <2>3. QED
    BY <1>6, <1>7, <1>10, <2>1, <2>2
<1>18. N[id].lane = lane
  BY <1>1
<1>19. B!Dense(N, lane)
  BY <1>13 DEF B!Dense, column
<1>20. B!Dense(N, from)
  <2>1. CASE from = lane
    BY <1>19, <2>1
  <2>2. CASE from # lane
    <3> DEFINE O == B!Ordered(b, id, lane, after, order)
               L == B!LeftBehind(O, id, from, lane)
    <3>1. O \in Boards /\ B!Ids(O) = B!Ids(b) /\ L \in Boards /\ B!Ids(L) = B!Ids(b)
      <4>1. Keeps(b, O)
        BY OrderedKeeps
      <4>2. B!Ids(O) = B!Ids(b)
        BY DEF B!Ordered, B!Ids
      <4> HIDE DEF O
      <4>3. L = B!Normalized(O, from, id) /\ O \in Boards
        BY <2>2, <4>1 DEF B!LeftBehind, Keeps
      <4>4. L \in Boards /\ B!Ids(L) = B!Ids(O)
        BY <4>3, NormalizedIs
      <4>5. QED
        BY <4>2, <4>3, <4>4
    <3>2. O[id].lane = lane
      <4>1. b[id] \in B!Issue
        BY BoardIsFunction
      <4>2. \A q : [b[id] EXCEPT !.lane = lane, !.position = q].lane = lane
        BY <4>1 DEF B!Issue
      <4>3. QED
        BY <4>2 DEF B!Ordered
    <3> HIDE DEF O
    <3>3. B!Dense(L, from)
      BY <2>2, <3>1, <3>2, LeftDense
    <3> HIDE DEF L
    <3>4. N = B!Noted(L, id)
      BY DEF L, O
    <3>5. /\ B!Ids(N) = B!Ids(L)
          /\ \A i \in B!Ids(L) : /\ N[i].story = L[i].story /\ N[i].archived = L[i].archived
                                 /\ N[i].lane = L[i].lane /\ N[i].position = L[i].position
      BY <3>1, <3>4, NotedIs
    <3>6. \A i \in B!Stories(L, from, 0) : N[i].position = L[i].position
      BY <3>5 DEF B!Stories
    <3>7. QED
      BY <3>1, <3>3, <3>5, <3>6, DenseStays
  <2>3. QED
    BY <2>1, <2>2
<1>21. SUFFICES /\ what.kind = "move" /\ what.order > 0 =>
                     \/ index + 1 = what.order
                     \/ index + 1 = Cardinality(column) /\ what.order > Cardinality(column)
                /\ what.kind = "move" /\ what.order = 0 =>
                     index + 1 = IF what.after = 0 THEN 1
                                 ELSE IF what.after \in column \ {id} THEN B!Rank(N, column, what.after) + 1
                                 ELSE Cardinality(column)
                /\ what.kind = "take" => index + 1 = Cardinality(column)
                /\ what.kind # "end"
  BY <1>14, <1>18, <1>19, <1>20, SameCount DEF B!Stands, column
<1>22. ASSUME what.kind = "move", what.order = 0
       PROVE  index + 1 = IF what.after = 0 THEN 1
                          ELSE IF what.after \in column \ {id} THEN B!Rank(N, column, what.after) + 1
                          ELSE Cardinality(column)
  BY <1>16, <1>17, <1>22
<1>23. ASSUME what.kind = "move", what.order > 0
       PROVE  \/ index + 1 = what.order
              \/ index + 1 = Cardinality(column) /\ what.order > Cardinality(column)
  BY <1>15, <1>23
<1>24. what.kind = "take" => index + 1 = Cardinality(column)
  BY <1>17
<1>25. QED
  BY <1>22, <1>23, <1>24

\* When a column is numbered, a story that came before another one still does.
LEMMA StaysBefore ==
  ASSUME NEW b \in Boards, NEW lane, NEW T, T = B!Stories(b, lane, 0), NEW N,
         \A i \in T : N[i].position = B!Rank(b, T, i),
         NEW i \in T, NEW j \in T, B!Before(b, i, j)
  PROVE  ~B!Before(N, j, i)
<1>1. B!Rank(b, T, i) < B!Rank(b, T, j)
  BY RanksFollow
<1>2. B!Rank(b, T, i) \in Nat \ {0} /\ B!Rank(b, T, j) \in Nat \ {0}
  BY RankType
<1>3. N[i].position = B!Rank(b, T, i) /\ N[j].position = B!Rank(b, T, j)
  OBVIOUS
<1>4. QED
  BY <1>1, <1>2, <1>3 DEF B!Before

\* A story that is created comes after those of its column whose position is at most
\* their number.
LEMMA CreatedStands ==
  ASSUME NEW b \in Boards, NEW lane \in Lane, NEW issue \in B!Issue,
         issue.story, ~issue.archived, issue.lane = lane,
         issue.position = B!NextPosition(b, lane)
  PROVE  B!Stands(b, B!Normalized(Append(b, issue), lane, 0),
                  B!ToEnd(Len(Append(b, issue)), lane))
<1> DEFINE new == Append(b, issue)
           id == Len(new)
           N == B!Normalized(new, lane, 0)
           S == B!Stories(b, lane, 0)
           T == B!Stories(new, lane, 0)
<1>1. /\ new \in Boards /\ id = Len(b) + 1 /\ new[id] = issue
      /\ \A i \in 1..Len(b) : new[i] = b[i]
  BY DEF Boards
<1> HIDE DEF new
<1>2. Len(b) \in Nat /\ B!Ids(b) = 1..Len(b) /\ B!Ids(new) = 1..id
  BY <1>1, BoardIsFunction
<1>3. /\ S \subseteq B!Ids(b) /\ IsFiniteSet(S) /\ Cardinality(S) \in Nat
      /\ T \subseteq B!Ids(new)
  BY <1>1, Counts
<1>4. id \notin S /\ T = S \cup {id}
  <2> HIDE DEF id
  <2>1. id \notin B!Ids(b) /\ id # 0 /\ id \in 1..id
    BY <1>1, <1>2
  <2>2. \A i \in 1..id : i = id \/ i \in 1..Len(b)
    BY <1>1, <1>2
  <2>3. \A i \in 1..Len(b) : i \in 1..id /\ i # id
    BY <1>1, <1>2
  <2>4. QED
    BY <1>1, <1>2, <2>1, <2>2, <2>3 DEF B!Stories
<1>5. Cardinality(T) = Cardinality(S) + 1 /\ issue.position = Cardinality(S) + 1
  BY <1>3, <1>4, FS_AddElement, SameCount DEF B!NextPosition
<1>6. /\ N \in Boards /\ B!Ids(N) = B!Ids(new)
      /\ \A i \in B!Ids(new) : /\ N[i].story = new[i].story /\ N[i].archived = new[i].archived
                               /\ N[i].lane = new[i].lane
      /\ \A i \in T : N[i].position = B!Rank(new, T, i)
  <2> HIDE DEF T, N
  <2>1. T = B!Stories(new, lane, 0) /\ N = B!Normalized(new, lane, 0)
    BY DEF T, N
  <2>2. QED
    BY <1>1, <2>1, NormalizedIs
<1>7. B!Dense(N, lane)
  BY <1>1, <1>2, NormalizedDense
<1> HIDE DEF N
<1>8. B!Stories(N, lane, 0) = T
  BY <1>6 DEF B!Stories
<1> HIDE DEF S
<1>9. ASSUME NEW i \in T \ {id}, b[i].position \in 1..Cardinality(T)
      PROVE  ~B!Before(N, id, i)
  <2>1. i \in 1..Len(b) /\ new[i] = b[i] /\ i < id
    BY <1>1, <1>2, <1>3, <1>4
  <2>2. new[i].position \in 1..new[id].position /\ new[id].position \in Nat
    BY <1>1, <1>3, <1>5, <1>9, <2>1
  <2>3. B!Before(new, i, id)
    BY <2>1, <2>2 DEF B!Before
  <2> HIDE DEF T, id
  <2>4. T = B!Stories(new, lane, 0) /\ id \in T
    BY <1>4 DEF T
  <2>5. QED
    BY <1>1, <1>6, <2>3, <2>4, StaysBefore
<1>10. N[id].lane = lane /\ id \notin B!Ids(b)
  BY <1>1, <1>2, <1>6
<1> HIDE DEF T, id
<1>11. /\ B!ToEnd(id, lane).kind = "end" /\ B!ToEnd(id, lane).id = id
       /\ B!ToEnd(id, lane).lane = lane
  BY DEF B!ToEnd, B!About, B!NoRequest
<1> DEFINE what == B!ToEnd(id, lane)
<1> HIDE DEF what
<1>12. B!Stands(b, N, what)
  <2>1. what.kind = "end" /\ what.id = id /\ what.lane = lane
    BY <1>11 DEF what
  <2>2. QED
    BY <1>7, <1>8, <1>9, <1>10, <2>1, SameCount DEF B!Stands
<1>13. QED
  BY <1>12 DEF what, id, N, new

\* A story at another place, and at another position of its column.
PlacedAt(b, id, lane, p) == [b EXCEPT ![id].lane = lane, ![id].position = p]

Repositioned(b, id, p) == [b EXCEPT ![id].position = p]

\* What a story is when its place is changed.
LEMMA PlaceIs ==
  ASSUME NEW b \in Boards, NEW id \in B!Ids(b), NEW lane \in Lane, NEW p \in Nat,
         NEW f, f = PlacedAt(b, id, lane, p)
  PROVE  /\ f \in Boards /\ B!Ids(f) = B!Ids(b)
         /\ f[id].lane = lane /\ f[id].position = p
         /\ f[id].story = b[id].story /\ f[id].archived = b[id].archived
         /\ \A i \in B!Ids(b) \ {id} : f[i] = b[i]
<1>1. b[id] \in B!Issue
  BY BoardIsFunction
<1>2. \A issue \in B!Issue :
        /\ [issue EXCEPT !.lane = lane, !.position = p].lane = lane
        /\ [issue EXCEPT !.lane = lane, !.position = p].position = p
        /\ [issue EXCEPT !.lane = lane, !.position = p].story = issue.story
        /\ [issue EXCEPT !.lane = lane, !.position = p].archived = issue.archived
  BY DEF B!Issue
<1>3. f \in Boards
  BY PlaceKeeps, Zenon DEF Keeps, PlacedAt
<1>4. f = [i \in B!Ids(b) |-> IF i = id THEN [b[i] EXCEPT !.lane = lane, !.position = p] ELSE b[i]]
  BY DEF B!Ids, PlacedAt
<1>5. B!Ids(f) = B!Ids(b)
  BY <1>4 DEF B!Ids
<1>6. f[id] = [b[id] EXCEPT !.lane = lane, !.position = p]
  BY <1>4
<1>7. \A i \in B!Ids(b) \ {id} : f[i] = b[i]
  BY <1>4
<1>8. QED
  BY <1>1, <1>2, <1>3, <1>5, <1>6, <1>7

\* The same, when its position is.
LEMMA PositionIs ==
  ASSUME NEW b \in Boards, NEW id \in B!Ids(b), b[id].lane \in Lane, NEW p \in Nat,
         NEW f, f = Repositioned(b, id, p)
  PROVE  /\ f \in Boards /\ B!Ids(f) = B!Ids(b)
         /\ f[id].lane = b[id].lane /\ f[id].position = p
         /\ f[id].story = b[id].story /\ f[id].archived = b[id].archived
         /\ \A i \in B!Ids(b) \ {id} : f[i] = b[i]
<1>1. b[id] \in B!Issue
  BY BoardIsFunction
<1>2. \A issue \in B!Issue :
        /\ [issue EXCEPT !.position = p].lane = issue.lane
        /\ [issue EXCEPT !.position = p].position = p
        /\ [issue EXCEPT !.position = p].story = issue.story
        /\ [issue EXCEPT !.position = p].archived = issue.archived
  BY DEF B!Issue
<1>3. f \in Boards
  BY PlaceKeeps, Zenon DEF Keeps, Repositioned
<1>4. f = [i \in B!Ids(b) |-> IF i = id THEN [b[i] EXCEPT !.position = p] ELSE b[i]]
  BY DEF B!Ids, Repositioned
<1>5. B!Ids(f) = B!Ids(b)
  BY <1>4 DEF B!Ids
<1>6. f[id] = [b[id] EXCEPT !.position = p]
  BY <1>4
<1>7. \A i \in B!Ids(b) \ {id} : f[i] = b[i]
  BY <1>4
<1>8. QED
  BY <1>1, <1>2, <1>3, <1>5, <1>6, <1>7

\* A story that is moved to the end, to begin with: it comes after as many as are shown.
LEMMA PlacedAtEnd ==
  ASSUME NEW b \in Boards, NEW id \in B!Ids(b), NEW lane \in Lane,
         NEW moved, moved = PlacedAt(b, id, lane, 0),
         NEW placed, placed = Repositioned(moved, id, B!NextPosition(moved, lane))
  PROVE  /\ placed \in Boards /\ B!Ids(placed) = B!Ids(b)
         /\ placed[id].lane = lane /\ placed[id].story = b[id].story
         /\ placed[id].archived = b[id].archived
         /\ placed[id].position = Cardinality(B!Stories(placed, lane, 0)) + 1
         /\ \A i \in B!Ids(b) \ {id} : placed[i] = b[i]
<1>1. /\ moved \in Boards /\ B!Ids(moved) = B!Ids(b)
      /\ moved[id].lane = lane /\ moved[id].story = b[id].story
      /\ moved[id].archived = b[id].archived
      /\ \A i \in B!Ids(b) \ {id} : moved[i] = b[i]
  <2>1. 0 \in Nat
    OBVIOUS
  <2>2. QED
    BY <2>1, PlaceIs
<1> DEFINE p == B!NextPosition(moved, lane)
<1>2. p = Cardinality(B!Stories(moved, lane, 0)) + 1 /\ p \in Nat
  BY <1>1, Counts, SameCount DEF B!NextPosition
<1>3. placed = Repositioned(moved, id, p)
  OBVIOUS
<1> HIDE DEF p
<1>4. /\ placed \in Boards /\ B!Ids(placed) = B!Ids(moved)
      /\ placed[id].lane = lane /\ placed[id].position = p
      /\ placed[id].story = moved[id].story /\ placed[id].archived = moved[id].archived
      /\ \A i \in B!Ids(moved) \ {id} : placed[i] = moved[i]
  BY <1>1, <1>2, <1>3, PositionIs
<1>5. \A i \in B!Ids(b) : /\ placed[i].story = moved[i].story /\ placed[i].lane = moved[i].lane
                          /\ placed[i].archived = moved[i].archived
  BY <1>1, <1>4
<1>6. B!Stories(placed, lane, 0) = B!Stories(moved, lane, 0)
  BY <1>1, <1>4, <1>5 DEF B!Stories
<1>7. QED
  BY <1>1, <1>2, <1>4, <1>6

\* So does a story that is moved to the end; and the column it leaves is dense.
LEMMA EndStands ==
  ASSUME NEW b \in Boards, NEW id \in B!Ids(b), NEW lane \in Lane, NEW from, from = b[id].lane,
         NEW placed \in Boards, B!Ids(placed) = B!Ids(b),
         placed[id].lane = lane, placed[id].story = b[id].story,
         placed[id].archived = b[id].archived,
         placed[id].position = Cardinality(B!Stories(placed, lane, 0)) + 1,
         \A i \in B!Ids(b) \ {id} : placed[i] = b[i],
         NEW left, left = B!LeftBehind(placed, id, from, lane),
         NEW new, new = B!Normalized(left, lane, 0),
         NEW N, N = B!Noted(new, id), NEW T, T = B!Stories(left, lane, 0),
         NEW what, what = B!ToEnd(id, lane)
  PROVE  B!Stands(b, N, what)
<1>1. \A i \in B!Ids(b) : i # 0
  BY BoardIsFunction
<1>6. /\ left \in Boards /\ B!Ids(left) = B!Ids(b)
      /\ \A i \in B!Ids(b) : /\ left[i].story = placed[i].story
                             /\ left[i].archived = placed[i].archived
                             /\ left[i].lane = placed[i].lane
                             /\ placed[i].lane = lane => left[i].position = placed[i].position
  <2>1. CASE from = lane
    BY <2>1 DEF B!LeftBehind
  <2>2. CASE from # lane
    <3> DEFINE X == B!Stories(placed, from, id)
    <3>1. left = B!Normalized(placed, from, id)
      BY <2>2 DEF B!LeftBehind
    <3>2. \A i \in B!Ids(b) : placed[i].lane = lane => i \notin X
      BY <2>2 DEF B!Stories
    <3> HIDE DEF X
    <3>3. X = B!Stories(placed, from, id)
      BY DEF X
    <3>4. /\ left \in Boards /\ B!Ids(left) = B!Ids(placed)
          /\ \A i \in B!Ids(placed) : /\ left[i].story = placed[i].story
                                      /\ left[i].archived = placed[i].archived
                                      /\ left[i].lane = placed[i].lane
          /\ \A i \in B!Ids(placed) \ X : left[i].position = placed[i].position
      BY <3>1, <3>3, NormalizedIs
    <3>5. QED
      BY <3>2, <3>4
  <2>3. QED
    BY <2>1, <2>2
<1>7. from # lane => B!Dense(left, from)
  BY LeftDense
<1>8. /\ new \in Boards /\ B!Ids(new) = B!Ids(b)
      /\ \A i \in B!Ids(b) : /\ new[i].story = left[i].story /\ new[i].archived = left[i].archived
                             /\ new[i].lane = left[i].lane
      /\ \A i \in T : new[i].position = B!Rank(left, T, i)
      /\ \A i \in B!Ids(b) \ T : new[i].position = left[i].position
  BY <1>6, NormalizedIs
<1>9. B!Dense(new, lane)
  BY <1>1, <1>6, NormalizedDense
<1>10. from # lane => B!Dense(new, from)
  <2>1. \A i \in B!Stories(left, from, 0) : from # lane => new[i].position = left[i].position
    BY <1>6, <1>8 DEF B!Stories
  <2>2. QED
    BY <1>6, <1>7, <1>8, <2>1, DenseStays
<1>11. /\ B!Ids(N) = B!Ids(b)
       /\ \A i \in B!Ids(b) : /\ N[i].story = new[i].story /\ N[i].archived = new[i].archived
                              /\ N[i].lane = new[i].lane /\ N[i].position = new[i].position
  <2>1. id \in B!Ids(new)
    BY <1>8
  <2>2. /\ B!Ids(N) = B!Ids(new)
        /\ \A i \in B!Ids(new) : /\ N[i].story = new[i].story /\ N[i].archived = new[i].archived
                                 /\ N[i].lane = new[i].lane /\ N[i].position = new[i].position
    BY <1>8, <2>1, NotedIs
  <2>3. QED
    BY <1>8, <2>2
<1>12. B!Dense(N, lane) /\ B!Dense(N, from)
  <2>1. ASSUME NEW l, B!Dense(new, l) PROVE B!Dense(N, l)
    <3>1. \A i \in B!Stories(new, l, 0) : N[i].position = new[i].position
      BY <1>8, <1>11 DEF B!Stories
    <3>2. QED
      BY <1>8, <1>11, <2>1, <3>1, DenseStays
  <2>2. QED
    BY <1>9, <1>10, <2>1
<1>13. B!Stories(N, lane, 0) = T /\ B!Stories(placed, lane, 0) = T
  <2>1. ASSUME NEW i \in B!Ids(b)
        PROVE  /\ N[i].story = left[i].story /\ N[i].archived = left[i].archived
               /\ N[i].lane = left[i].lane
    BY <1>8, <1>11
  <2>2. B!Stories(N, lane, 0) = T
    BY <1>6, <1>11, <2>1 DEF B!Stories
  <2>3. B!Stories(placed, lane, 0) = T
    BY <1>6 DEF B!Stories
  <2>4. QED
    BY <2>2, <2>3
<1>14. T \subseteq B!Ids(b) /\ \A i \in T : placed[i].lane = lane
  <2>1. \A i \in T : i \in B!Ids(b) /\ left[i].lane = lane
    BY <1>6 DEF B!Stories
  <2>2. QED
    BY <1>6, <2>1
<1>15. ASSUME B!Shown(N, id) PROVE id \in T
  <2>1. N[id].story /\ ~N[id].archived
    BY <1>15 DEF B!Shown
  <2>2. left[id].story /\ ~left[id].archived /\ left[id].lane = lane
    BY <1>6, <1>8, <1>11, <2>1
  <2>3. QED
    BY <1>1, <1>6, <2>2 DEF B!Stories
<1>16. ASSUME id \in T, NEW i \in T \ {id}, b[i].position \in 1..Cardinality(T)
       PROVE  ~B!Before(N, id, i)
  <2>1. left[i].position = b[i].position
    <3>1. i \in B!Ids(b) /\ placed[i] = b[i] /\ placed[i].lane = lane
      BY <1>14, <1>16
    <3>2. QED
      BY <1>6, <3>1
  <2>2. left[id].position = Cardinality(T) + 1
    BY <1>6, <1>13
  <2>3. Cardinality(T) \in Nat
    BY <1>6, Counts
  <2>4. B!Before(left, i, id)
    BY <1>16, <2>1, <2>2, <2>3 DEF B!Before
  <2>5. \A j \in T : N[j].position = B!Rank(left, T, j)
    BY <1>8, <1>11, <1>14
  <2>6. i \in T
    BY <1>16
  <2>7. QED
    BY <1>6, <1>16, <2>4, <2>5, <2>6, StaysBefore
<1>17. N[id].lane = lane
  BY <1>6, <1>8, <1>11
<1>18. what.kind = "end" /\ what.id = id /\ what.lane = lane
  BY DEF B!ToEnd, B!About, B!NoRequest
<1>19. QED
  BY <1>12, <1>13, <1>15, <1>16, <1>17, <1>18, SameCount DEF B!Stands

-----------------------------------------------------------------------------
(***************************************************************************)
(* Requests                                                                *)
(***************************************************************************)

Asked == [kind : {"none", "edit", "move", "take", "end"}, id : Nat, lane : Lane, after : Nat, order : Nat]

LEMMA AboutType ==
  ASSUME Bounds, NEW kind \in {"none", "edit", "move", "take", "end"}, NEW id \in Nat
  PROVE  /\ B!NoRequest \in Asked /\ B!About(kind, id) \in Asked
         /\ \A lane \in Lane : B!ToEnd(id, lane) \in Asked
<1>1. B!NoRequest \in Asked
  BY DEF Bounds, B!NoRequest, Asked
<1>3. \A k \in {"none", "edit", "move", "take", "end"} :
        [B!NoRequest EXCEPT !.kind = k, !.id = id] \in Asked
  BY <1>1 DEF Asked
<1>4. \A what \in Asked : \A lane \in Lane : [what EXCEPT !.lane = lane] \in Asked
  BY DEF Asked
<1>5. QED
  BY <1>1, <1>3, <1>4 DEF B!About, B!ToEnd

\* Nothing is said of where other requests leave their issue.
LEMMA OthersStand ==
  ASSUME NEW b, NEW c, NEW what, what.kind \in {"none", "edit"} PROVE B!Stands(b, c, what)
  BY DEF B!Stands

LEMMA EditsAreOthers ==
  ASSUME NEW b, NEW c, NEW id
  PROVE  B!Stands(b, c, B!NoRequest) /\ B!Stands(b, c, B!About("edit", id))
<1>1. B!NoRequest.kind = "none" /\ B!About("edit", id).kind = "edit"
  BY DEF B!NoRequest, B!About
<1>2. QED
  BY <1>1, OthersStand

\* A request that keeps what it has read keeps the invariant.
LEMMA RequestKeeps ==
  ASSUME Bounds, BoardInv, NEW k \in Process, NEW what \in Asked, NEW new,
         Keeps(board, new), B!Stands(board, new, what), B!Request(k, what, new)
  PROVE  BoardInv'
<1> USE DEF BoardInv, B!TypeOK, B!Goto
<1>1. new \in Seq(B!Issue)
  BY DEF Keeps, Boards
<1>2. B!TypeOK'
  <2>1. requests' \in 0..MaxRequests
    BY DEF B!Request, Bounds
  <2>2. moves' \in [Process -> Asked]
    BY DEF B!Request, Asked
  <2>3. boardPc' \in [Process -> {"idle", "save"}]
    BY DEF B!Request
  <2>4. copy' \in [Process -> Seq(B!Issue)] /\ expected' \in [Process -> Seq(B!Issue)]
    BY <1>1 DEF B!Request
  <2>5. board' \in Seq(B!Issue) /\ boardKept' \subseteq (1..MaxRequests) \X (Nat \ {0})
    BY DEF B!Request
  <2>6. QED
    BY <2>1, <2>2, <2>3, <2>4, <2>5 DEF Asked
<1>3. CopiesKeep'
  <2> SUFFICES ASSUME NEW j \in Process, boardPc'[j] = "save"
               PROVE  Keeps(expected'[j], copy'[j])
    BY DEF CopiesKeep, Keeps, B!Ids
  <2>1. CASE j = k
    <3>1. expected'[j] = board /\ copy'[j] = new
      BY <2>1 DEF B!Request
    <3>2. QED
      BY <3>1
  <2>2. CASE j # k
    <3>1. boardPc[j] = "save" /\ expected'[j] = expected[j] /\ copy'[j] = copy[j]
      BY <2>2 DEF B!Request
    <3>2. QED
      BY <3>1 DEF CopiesKeep
  <2>3. QED
    BY <2>1, <2>2
<1>4. B!AnsweredStays' /\ AnsweredThere'
  BY DEF B!Request, B!AnsweredStays, AnsweredThere, B!Ids
<1>5. CopiesStand'
  <2> SUFFICES ASSUME NEW j \in Process, boardPc'[j] = "save"
               PROVE  B!Stands(expected'[j], copy'[j], moves'[j])
    BY DEF CopiesStand, B!Stands, B!Dense, B!Stories, B!Rank, B!Shown, B!Before, B!Ids
  <2>1. CASE j = k
    <3>1. expected'[j] = board /\ copy'[j] = new /\ moves'[j] = what
      BY <2>1 DEF B!Request
    <3>2. QED
      BY <3>1
  <2>2. CASE j # k
    <3>1. /\ boardPc[j] = "save" /\ expected'[j] = expected[j]
          /\ copy'[j] = copy[j] /\ moves'[j] = moves[j]
      BY <2>2 DEF B!Request
    <3>2. QED
      BY <3>1 DEF CopiesStand
  <2>3. QED
    BY <2>1, <2>2
<1>6. QED
  BY <1>2, <1>3, <1>4, <1>5

\* An edit is noted in the history of its issue.
LEMMA MutateKeeps ==
  ASSUME Bounds, BoardInv, NEW k \in Process, NEW id, NEW new, Keeps(board, new),
         id \in B!Ids(new), B!Mutate(k, id, new)
  PROVE  BoardInv'
<1>1. board \in Boards /\ new \in Boards
  BY DEF BoardInv, B!TypeOK, Boards, Keeps
<1>2. id \in Nat
  BY <1>1, BoardIsFunction
<1>3. requests \in Nat /\ requests < MaxRequests
  BY DEF B!Mutate, B!Request, BoardInv, B!TypeOK
<1>4. Keeps(new, B!Noted(new, id))
  BY <1>1, <1>3, NotedKeeps
<1>5. Keeps(board, B!Noted(new, id))
  BY <1>1, <1>4, KeepsOn
<1>6. B!About("edit", id) \in Asked
  BY <1>2, AboutType
<1>7. QED
  BY <1>5, <1>6, EditsAreOthers, RequestKeeps DEF B!Mutate

LEMMA CreateKeeps ==
  ASSUME Bounds, BoardInv, NEW k \in Process, NEW story \in BOOLEAN, NEW lane \in Lane,
         B!CreateIssue(k, story, lane)
  PROVE  BoardInv'
<1> DEFINE issue == [story |-> story, lane |-> lane, archived |-> FALSE, closed |-> FALSE,
                     position |-> IF story THEN B!NextPosition(board, lane) ELSE 0,
                     events |-> {requests + 1}]
           new == Append(board, issue)
<1>1. IF story THEN B!Request(k, B!ToEnd(Len(new), lane), B!Normalized(new, lane, 0))
      ELSE B!Request(k, B!About("edit", Len(new)), new)
  BY DEF B!CreateIssue
<1>2. board \in Boards
  BY DEF BoardInv, B!TypeOK, Boards
<1>3. B!NextPosition(board, lane) \in Nat
  BY <1>2, Counts, SameCount DEF B!NextPosition
<1>4. requests + 1 \in 1..MaxRequests
  BY <1>1 DEF B!Request, BoardInv, B!TypeOK, Bounds
<1>5. issue \in B!Issue
  BY <1>3, <1>4 DEF B!Issue
<1>6. issue.story = story /\ ~issue.archived /\ issue.lane = lane
      /\ (story => issue.position = B!NextPosition(board, lane))
  OBVIOUS
<1> HIDE DEF issue
<1>7. Keeps(board, new)
  BY <1>2, <1>5, AppendKeeps
<1>8. story => B!Stands(board, B!Normalized(new, lane, 0), B!ToEnd(Len(new), lane))
  BY <1>2, <1>5, <1>6, CreatedStands
<1> HIDE DEF new
<1>9. new \in Boards
  BY <1>7 DEF Keeps
<1>10. Keeps(board, B!Normalized(new, lane, 0))
  BY <1>2, <1>7, <1>9, NormalizedKeeps, KeepsOn
<1>11. B!About("edit", Len(new)) \in Asked /\ B!ToEnd(Len(new), lane) \in Asked
  BY <1>9, BoardIsFunction, AboutType
<1>12. CASE story
  BY <1>1, <1>8, <1>10, <1>11, <1>12, RequestKeeps
<1>13. CASE ~story
  BY <1>1, <1>7, <1>11, <1>13, EditsAreOthers, RequestKeeps
<1>14. QED
  BY <1>12, <1>13

\* Edits of one issue.
LEMMA EditKeeps ==
  ASSUME Bounds, BoardInv, NEW k \in Process, NEW id \in B!Ids(board), NEW yes \in BOOLEAN,
         \/ B!UpdateIssue(k, id, yes) \/ B!ArchiveIssue(k, id, yes)
         \/ B!SetIssueClosed(k, id, yes) \/ B!CommentIssue(k, id)
  PROVE  BoardInv'
<1>1. board \in Boards
  BY DEF BoardInv, B!TypeOK, Boards
<1>2. Keeps(board, board)
  BY <1>1, KeepsItself
<1>3. CASE B!UpdateIssue(k, id, yes)
  <2>1. Keeps(board, [board EXCEPT ![id].story = yes])
    BY <1>1, FlagKeeps
  <2>2. id \in B!Ids([board EXCEPT ![id].story = yes])
    BY <2>1 DEF Keeps
  <2>3. QED
    BY <1>3, <2>1, <2>2, MutateKeeps DEF B!UpdateIssue
<1>4. CASE B!ArchiveIssue(k, id, yes)
  <2>1. Keeps(board, [board EXCEPT ![id].archived = yes])
    BY <1>1, FlagKeeps
  <2>2. id \in B!Ids([board EXCEPT ![id].archived = yes])
    BY <2>1 DEF Keeps
  <2>3. QED
    BY <1>4, <2>1, <2>2, MutateKeeps DEF B!ArchiveIssue
<1>5. CASE B!SetIssueClosed(k, id, yes) /\ board[id].closed = yes
  BY <1>2, <1>5, AboutType, EditsAreOthers, RequestKeeps DEF B!SetIssueClosed
<1>6. CASE B!SetIssueClosed(k, id, yes) /\ board[id].closed # yes
  <2>1. Keeps(board, [board EXCEPT ![id].closed = yes])
    BY <1>1, FlagKeeps
  <2>2. id \in B!Ids([board EXCEPT ![id].closed = yes])
    BY <2>1 DEF Keeps
  <2>3. QED
    BY <1>6, <2>1, <2>2, MutateKeeps DEF B!SetIssueClosed
<1>7. CASE B!CommentIssue(k, id)
  BY <1>2, <1>7, MutateKeeps DEF B!CommentIssue
<1>8. QED
  BY <1>3, <1>4, <1>5, <1>6, <1>7

\* A move to a place that is asked for.
LEMMA MoveKeeps ==
  ASSUME Bounds, BoardInv, NEW k \in Process, NEW id \in B!Ids(board), NEW lane \in Lane,
         NEW after \in Nat, NEW order \in Nat, NEW what \in Asked, NEW from,
         what.id = id, what.lane = lane, from = board[id].lane,
         \/ what.kind = "move" /\ what.after = after /\ what.order = order
         \/ what.kind = "take" /\ after = B!BeyondAll(board) /\ order = 0,
         B!Request(k, what, B!Noted(B!LeftBehind(B!Ordered(board, id, lane, after, order), id, from, lane), id))
  PROVE  BoardInv'
<1> DEFINE placed == B!Ordered(board, id, lane, after, order)
           left == B!LeftBehind(placed, id, from, lane)
<1>1. board \in Boards /\ requests \in Nat /\ requests < MaxRequests
  BY DEF B!Request, BoardInv, B!TypeOK, Boards
<1>2. Keeps(board, placed)
  BY <1>1, OrderedKeeps
<1> HIDE DEF placed
<1>3. Keeps(board, left)
  BY <1>1, <1>2, LeftBehindKeeps
<1> HIDE DEF left
<1>4. left \in Boards /\ id \in B!Ids(left)
  BY <1>3 DEF Keeps
<1>5. Keeps(board, B!Noted(left, id))
  BY <1>1, <1>3, <1>4, NotedKeeps, KeepsOn
<1>6. B!Request(k, what, B!Noted(left, id))
  BY DEF left, placed
<1>7. B!Noted(left, id) \in Boards
  BY <1>5 DEF Keeps
<1>8. B!Stands(board, B!Noted(left, id), what)
  BY <1>1, <1>7, MovedStands DEF left, placed
<1>9. QED
  BY <1>5, <1>6, <1>8, RequestKeeps

LEMMA MoveStoryKeeps ==
  ASSUME Bounds, BoardInv, NEW k \in Process, NEW id \in B!Ids(board), NEW lane \in Lane,
         NEW after \in Nat, NEW order \in Nat, B!MoveStory(k, id, lane, after, order)
  PROVE  BoardInv'
<1> DEFINE what == [kind |-> "move", id |-> id, lane |-> lane, after |-> after, order |-> order]
<1>1. id \in Nat
  BY BoardIsFunction DEF BoardInv, B!TypeOK, Boards
<1>2. what \in Asked
  BY <1>1 DEF Asked
<1>3. B!Request(k, what, B!Noted(B!LeftBehind(B!Ordered(board, id, lane, after, order), id,
                                             board[id].lane, lane), id))
  BY DEF B!MoveStory
<1>4. what.kind = "move" /\ what.id = id /\ what.lane = lane /\ what.after = after /\ what.order = order
  OBVIOUS
<1> HIDE DEF what
<1>5. QED
  BY <1>2, <1>3, <1>4, MoveKeeps

LEMMA LaneEndKeeps ==
  ASSUME Bounds, BoardInv, NEW k \in Process, NEW id \in B!Ids(board), NEW lane \in Lane,
         B!MoveStoryToLaneEnd(k, id, lane)
  PROVE  BoardInv'
<1> DEFINE moved == [board EXCEPT ![id].lane = lane, ![id].position = 0]
           placed == [moved EXCEPT ![id].position = B!NextPosition(moved, lane)]
           left == B!LeftBehind(placed, id, board[id].lane, lane)
           new == B!Normalized(left, lane, 0)
           what == B!ToEnd(id, lane)
<1>1. B!Request(k, what, B!Noted(new, id))
  BY DEF B!MoveStoryToLaneEnd
<1>2. board \in Boards
  BY DEF BoardInv, B!TypeOK, Boards
<1>3. /\ moved = PlacedAt(board, id, lane, 0)
      /\ placed = Repositioned(moved, id, B!NextPosition(moved, lane))
  BY DEF PlacedAt, Repositioned
<1>4. Keeps(board, moved)
  BY <1>2, PlaceKeeps
<1> HIDE DEF moved
<1>5. moved \in Boards /\ id \in B!Ids(moved)
  BY <1>4 DEF Keeps
<1>6. B!NextPosition(moved, lane) \in Nat
  BY <1>5, Counts, SameCount DEF B!NextPosition
<1>7. Keeps(moved, placed)
  BY <1>5, <1>6, PlaceKeeps
<1> HIDE DEF placed
<1>8. /\ placed \in Boards /\ B!Ids(placed) = B!Ids(board)
      /\ placed[id].lane = lane /\ placed[id].story = board[id].story
      /\ placed[id].archived = board[id].archived
      /\ placed[id].position = Cardinality(B!Stories(placed, lane, 0)) + 1
      /\ \A i \in B!Ids(board) \ {id} : placed[i] = board[i]
  BY <1>2, <1>3, PlacedAtEnd
<1> HIDE DEF what
<1>9. B!Stands(board, B!Noted(new, id), what)
  BY <1>2, <1>8, EndStands DEF what
<1>10. Keeps(board, left)
  BY <1>2, <1>4, <1>7, KeepsOn, LeftBehindKeeps
<1> HIDE DEF left
<1>11. left \in Boards
  BY <1>10 DEF Keeps
<1>12. Keeps(board, new)
  BY <1>2, <1>10, <1>11, NormalizedKeeps, KeepsOn
<1> HIDE DEF new
<1>13. id \in B!Ids(new) /\ new \in Boards /\ id \in Nat
  BY <1>2, <1>12, BoardIsFunction DEF Keeps
<1>14. requests \in Nat /\ requests < MaxRequests
  BY <1>1 DEF B!Request, BoardInv, B!TypeOK
<1>15. Keeps(board, B!Noted(new, id))
  BY <1>2, <1>12, <1>13, <1>14, NotedKeeps, KeepsOn
<1>16. what \in Asked
  BY <1>13, AboutType DEF what
<1>17. QED
  BY <1>1, <1>9, <1>15, <1>16, RequestKeeps

LEMMA TakeKeeps ==
  ASSUME Bounds, BoardInv, NEW k \in Process, NEW id \in B!Ids(board), B!TakeStory(k, id)
  PROVE  BoardInv'
<1>1. board \in Boards
  BY DEF BoardInv, B!TypeOK, Boards
<1>2. id \in Nat /\ B!BeyondAll(board) \in Nat
  BY <1>1, BoardIsFunction DEF B!BeyondAll
<1>3. CASE board[id].lane = "backlog"
  <2> DEFINE what == [B!About("take", id) EXCEPT !.lane = "doing"]
  <2>1. B!About("take", id) \in Asked
    BY <1>2, AboutType
  <2>2. what \in Asked
    BY <2>1 DEF Asked, Bounds
  <2>3. B!Request(k, what, B!Noted(B!LeftBehind(B!Ordered(board, id, "doing", B!BeyondAll(board), 0),
                                          id, "backlog", "doing"), id))
    BY <1>3 DEF B!TakeStory
  <2>4. "doing" \in Lane
    BY DEF Bounds
  <2>5. what.kind = "take" /\ what.id = id /\ what.lane = "doing"
    BY DEF B!About, B!NoRequest
  <2> HIDE DEF what
  <2>6. "backlog" = board[id].lane /\ 0 \in Nat
    BY <1>3
  <2>7. QED
    BY <1>2, <2>2, <2>3, <2>4, <2>5, <2>6, MoveKeeps
<1>4. CASE board[id].lane # "backlog"
  <2> DEFINE new == IF board[id].position = 0 THEN B!Normalized(board, board[id].lane, 0) ELSE board
  <2>1. Keeps(board, new)
    BY <1>1, KeepsItself, NormalizedKeeps
  <2>2. B!Mutate(k, id, new)
    BY <1>4 DEF B!TakeStory
  <2> HIDE DEF new
  <2>3. id \in B!Ids(new)
    BY <2>1 DEF Keeps
  <2>4. QED
    BY <2>1, <2>2, <2>3, MutateKeeps
<1>5. QED
  BY <1>3, <1>4

-----------------------------------------------------------------------------
(***************************************************************************)
(* Storing                                                                 *)
(***************************************************************************)

\* The request is over: the file holds what it held, or the copy.
LEMMA StopKeeps ==
  ASSUME Bounds, BoardInv, NEW k \in Process, boardPc[k] = "save", B!Stop(k),
         board' = board \/ B!Replace(k),
         boardKept' = boardKept \/ (B!Replace(k) /\ boardKept' = boardKept \cup B!Numbers(k))
  PROVE  BoardInv'
<1> USE DEF BoardInv, B!TypeOK
<1>1. Keeps(expected[k], copy[k])
  BY DEF CopiesKeep
<1>2. Keeps(board, board')
  <2>1. CASE board' = board
    BY <2>1, KeepsItself DEF Boards
  <2>2. CASE B!Replace(k)
    BY <1>1, <2>2 DEF B!Replace, B!Current
  <2>3. QED
    BY <2>1, <2>2
<1>3. board' \in Boards
  BY <1>2 DEF Keeps
<1>4. ASSUME NEW x \in B!Numbers(k)
      PROVE  /\ x \in (1..MaxRequests) \X (Nat \ {0})
             /\ x[2] \in B!Ids(copy[k]) /\ x[1] \in copy[k][x[2]].events
  <2>1. copy[k] \in Boards
    BY DEF Boards
  <2>2. B!Ids(copy[k]) = 1..Len(copy[k]) /\ Len(copy[k]) \in Nat
    BY <2>1, BoardIsFunction
  <2>3. x \in (1..requests) \X B!Ids(copy[k]) /\ x[1] \in copy[k][x[2]].events
    BY DEF B!Numbers
  <2>4. QED
    BY <2>2, <2>3 DEF Bounds
<1>5. B!TypeOK'
  <2>1. B!NoRequest \in Asked
    BY AboutType
  <2>2. moves' \in [Process -> Asked]
    BY <2>1 DEF B!Stop, Asked
  <2>3. << >> \in Seq(B!Issue)
    OBVIOUS
  <2>4. copy' \in [Process -> Seq(B!Issue)] /\ expected' \in [Process -> Seq(B!Issue)]
    BY <2>3 DEF B!Stop
  <2>5. boardPc' \in [Process -> {"idle", "save"}] /\ requests' \in 0..MaxRequests
    BY DEF B!Stop, B!Goto
  <2>6. boardKept' \subseteq (1..MaxRequests) \X (Nat \ {0})
    BY <1>4
  <2>7. QED
    BY <1>3, <2>2, <2>4, <2>5, <2>6 DEF Asked, Boards
<1>6. CopiesKeep'
  <2> SUFFICES ASSUME NEW j \in Process, boardPc'[j] = "save"
               PROVE  Keeps(expected'[j], copy'[j])
    BY DEF CopiesKeep, Keeps, B!Ids
  <2>1. j # k
    BY DEF B!Stop, B!Goto
  <2>2. boardPc[j] = "save" /\ expected'[j] = expected[j] /\ copy'[j] = copy[j]
    BY <2>1 DEF B!Stop, B!Goto
  <2>3. QED
    BY <2>2 DEF CopiesKeep
<1>7. ASSUME NEW change \in boardKept'
      PROVE  change[2] \in B!Ids(board') /\ change[1] \in board'[change[2]].events
  <2>1. CASE change \in boardKept
    <3>1. change[2] \in B!Ids(board) /\ change[1] \in board[change[2]].events
      BY <2>1 DEF AnsweredThere, B!AnsweredStays
    <3>2. QED
      BY <1>2, <3>1 DEF Keeps
  <2>2. CASE B!Replace(k) /\ change \in B!Numbers(k)
    BY <1>4, <2>2 DEF B!Replace
  <2>3. QED
    BY <1>7, <2>1, <2>2
<1>8. B!AnsweredStays' /\ AnsweredThere'
  BY <1>7 DEF B!AnsweredStays, AnsweredThere, B!Ids
<1>9. CopiesStand'
  <2> SUFFICES ASSUME NEW j \in Process, boardPc'[j] = "save"
               PROVE  B!Stands(expected'[j], copy'[j], moves'[j])
    BY DEF CopiesStand, B!Stands, B!Dense, B!Stories, B!Rank, B!Shown, B!Before, B!Ids
  <2>1. j # k
    BY DEF B!Stop, B!Goto
  <2>2. /\ boardPc[j] = "save" /\ expected'[j] = expected[j]
        /\ copy'[j] = copy[j] /\ moves'[j] = moves[j]
    BY <2>1 DEF B!Stop, B!Goto
  <2>3. QED
    BY <2>2 DEF CopiesStand
<1>10. QED
  BY <1>5, <1>6, <1>8, <1>9

LEMMA BoardInit == ASSUME Bounds, B!Init PROVE BoardInv
<1>1. board \in Seq(B!Issue)
  <2>1. PICK hidden \in SUBSET (1..3), renumbered \in BOOLEAN :
          board = [i \in 1..3 |->
            [story |-> TRUE, lane |-> "backlog", archived |-> i \in hidden, closed |-> FALSE,
             position |-> IF renumbered /\ i \notin hidden
                          THEN Cardinality((1..i) \ hidden) ELSE i,
             events |-> {}]]
    BY SameCount DEF B!Init
  <2>2. ASSUME NEW i \in 1..3 PROVE Cardinality((1..i) \ hidden) \in Nat
    <3>1. IsFiniteSet(1..i)
      BY FS_Interval
    <3>2. QED
      BY <3>1, FS_Subset, FS_CardinalityType
  <2>3. ASSUME NEW i \in 1..3 PROVE board[i] \in B!Issue
    <3>1. (IF renumbered /\ i \notin hidden THEN Cardinality((1..i) \ hidden) ELSE i) \in Nat
      BY <2>2
    <3>2. "backlog" \in Lane
      BY DEF Bounds
    <3>3. QED
      BY <2>1, <3>1, <3>2 DEF B!Issue
  <2>4. board \in [1..3 -> B!Issue]
    BY <2>1, <2>3
  <2>5. \A n \in Nat : [1..n -> B!Issue] \subseteq UNION {[1..m -> B!Issue] : m \in Nat}
    OBVIOUS
  <2>6. [1..3 -> B!Issue] \subseteq Seq(B!Issue)
    BY <2>5, SeqDef, Zenon
  <2>7. QED
    BY <2>4, <2>6
<1>2. B!NoRequest \in Asked
  BY AboutType
<1>3. requests \in 0..MaxRequests /\ boardKept = {}
  BY DEF B!Init, Bounds
<1>4. B!TypeOK
  <2>1. moves \in [Process -> Asked]
    BY <1>2 DEF B!Init
  <2>2. << >> \in Seq(B!Issue)
    OBVIOUS
  <2>3. copy \in [Process -> Seq(B!Issue)] /\ expected \in [Process -> Seq(B!Issue)]
    BY <2>2 DEF B!Init
  <2>4. QED
    BY <1>1, <1>3, <2>1, <2>3 DEF B!Init, B!TypeOK, Asked
<1>5. CopiesKeep
  BY DEF B!Init, CopiesKeep
<1>6. CopiesStand
  BY DEF B!Init, CopiesStand
<1>7. QED
  BY <1>3, <1>4, <1>5, <1>6 DEF BoardInv, B!AnsweredStays, AnsweredThere

LEMMA BoardStep == ASSUME Bounds, BoardInv, [B!Next]_boardVars PROVE BoardInv'
<1>0. board \in Boards
  BY DEF BoardInv, B!TypeOK, Boards
<1>1. ASSUME NEW k \in Process, NEW story \in BOOLEAN, NEW lane \in Lane,
             B!CreateIssue(k, story, lane)
      PROVE  BoardInv'
  BY <1>1, CreateKeeps
<1>2. ASSUME NEW k \in Process, NEW id \in B!Ids(board), B!CommentIssue(k, id) PROVE BoardInv'
  BY <1>2, EditKeeps
<1>3. ASSUME NEW k \in Process, NEW id \in B!Ids(board), B!TakeStory(k, id) PROVE BoardInv'
  BY <1>3, TakeKeeps
<1>4. ASSUME NEW k \in Process, NEW id \in B!Ids(board), NEW yes \in BOOLEAN,
             B!UpdateIssue(k, id, yes) \/ B!ArchiveIssue(k, id, yes) \/ B!SetIssueClosed(k, id, yes)
      PROVE  BoardInv'
  BY <1>4, EditKeeps
<1>5. ASSUME NEW k \in Process, NEW id \in B!Ids(board), NEW lane \in Lane,
             B!MoveStoryToLaneEnd(k, id, lane)
      PROVE  BoardInv'
  BY <1>5, LaneEndKeeps
<1>6. ASSUME NEW k \in Process, NEW id \in B!Ids(board), NEW lane \in Lane,
             NEW order \in 1..Len(board), B!MoveStory(k, id, lane, 0, order)
      PROVE  BoardInv'
  <2>1. order \in Nat
    BY <1>0, BoardIsFunction
  <2>2. QED
    BY <1>6, <2>1, MoveStoryKeeps
<1>7. ASSUME NEW k \in Process, NEW id \in B!Ids(board), NEW lane \in Lane,
             NEW after \in 0..B!BeyondAll(board), B!MoveStory(k, id, lane, after, 0)
      PROVE  BoardInv'
  <2>1. after \in Nat
    BY <1>0, BoardIsFunction DEF B!BeyondAll
  <2>2. QED
    BY <1>7, <2>1, MoveStoryKeeps
<1>8. ASSUME NEW k \in Process, B!SaveIssues(k) PROVE BoardInv'
  BY <1>8, StopKeeps DEF B!SaveIssues
<1>9. ASSUME NEW k \in Process, B!Fail(k) PROVE BoardInv'
  BY <1>9, StopKeeps DEF B!Fail
<1>10. CASE UNCHANGED boardVars
  <2>1. UNCHANGED <<board, boardPc, moves, expected, copy, requests, boardKept>>
    BY <1>10 DEF boardVars
  <2>2. B!TypeOK' /\ CopiesKeep'
    BY <2>1 DEF BoardInv, B!TypeOK, CopiesKeep, Keeps, B!Ids
  <2>3. B!AnsweredStays' /\ AnsweredThere'
    BY <2>1 DEF BoardInv, B!AnsweredStays, AnsweredThere, B!Ids
  <2>4. CopiesStand'
    <3>1. SUFFICES ASSUME NEW j \in Process, boardPc'[j] = "save"
                   PROVE  B!Stands(expected'[j], copy'[j], moves'[j])
      BY DEF CopiesStand, B!Stands, B!Dense, B!Stories, B!Rank, B!Shown, B!Before, B!Ids
    <3>2. /\ boardPc[j] = "save" /\ expected'[j] = expected[j]
          /\ copy'[j] = copy[j] /\ moves'[j] = moves[j]
      BY <2>1, <3>1
    <3>3. B!Stands(expected[j], copy[j], moves[j])
      BY <3>2 DEF BoardInv, CopiesStand
    <3>4. QED
      BY <3>2, <3>3
  <2>5. QED
    BY <2>2, <2>3, <2>4 DEF BoardInv
<1>11. QED
  BY <1>1, <1>2, <1>3, <1>4, <1>5, <1>6, <1>7, <1>8, <1>9, <1>10 DEF B!Next

-----------------------------------------------------------------------------
(***************************************************************************)
(* The order of the other stories (Board): a request changes one story and *)
(* gives the others of a column new positions that follow the old ones.    *)
(***************************************************************************)

\* What OthersKeepOrder says of two boards.
Leaves(b, c, id) ==
  \A i, j \in B!Ids(b) \ {id} :
    B!Shown(b, i) /\ B!Shown(b, j) /\ b[i].lane = b[j].lane =>
      /\ c[i].lane = b[i].lane /\ c[j].lane = b[j].lane
      /\ B!Before(c, i, j) <=> B!Before(b, i, j)

\* The same issues with the same histories; id may have changed, and the positions of
\* others as far as their order allows.
Alike(b, c, id) ==
  /\ c \in Boards
  /\ B!Ids(c) = B!Ids(b)
  /\ \A i \in B!Ids(b) : c[i].events = b[i].events
  /\ \A i \in B!Ids(b) \ {id} :
       c[i].story = b[i].story /\ c[i].archived = b[i].archived /\ c[i].lane = b[i].lane
  /\ Leaves(b, c, id)

Events(b) == UNION {b[i].events : i \in B!Ids(b)}

\* A copy that differs from what was read holds the number of its request.
News(b, new) ==
  /\ Events(new) \subseteq Events(b) \cup {requests + 1}
  /\ new = b \/ requests + 1 \in Events(new)

CopiesLeave ==
  \A k \in Process : boardPc[k] = "save" => Leaves(expected[k], copy[k], moves[k].id)

\* No other request, and not the file, has all the numbers that a changed copy has:
\* what is stored tells which request has stored it.
CopiesOwn ==
  \A k \in Process : boardPc[k] = "save" /\ copy[k] # expected[k] =>
    \E n \in Events(copy[k]) :
      /\ n \notin Events(board)
      /\ \A l \in Process \ {k} : boardPc[l] = "save" => n \notin Events(copy[l])

NumbersGiven ==
  /\ Events(board) \subseteq 1..requests
  /\ \A k \in Process : boardPc[k] = "save" => Events(copy[k]) \subseteq 1..requests

OrderInv == CopiesLeave /\ CopiesOwn /\ NumbersGiven

LEMMA AlikeItself == ASSUME NEW b \in Boards, NEW id PROVE Alike(b, b, id)
  BY DEF Alike, Leaves

LEMMA AlikeOn ==
  ASSUME NEW b \in Boards, NEW c, NEW d, NEW id, Alike(b, c, id), Alike(c, d, id)
  PROVE  Alike(b, d, id)
<1>1. Leaves(b, d, id)
  <2> SUFFICES ASSUME NEW i \in B!Ids(b) \ {id}, NEW j \in B!Ids(b) \ {id},
                      B!Shown(b, i), B!Shown(b, j), b[i].lane = b[j].lane
               PROVE  /\ d[i].lane = b[i].lane /\ d[j].lane = b[j].lane
                      /\ B!Before(d, i, j) <=> B!Before(b, i, j)
    BY DEF Leaves
  <2>1. i \in B!Ids(c) \ {id} /\ j \in B!Ids(c) \ {id}
    BY DEF Alike
  <2>2. B!Shown(c, i) /\ B!Shown(c, j) /\ c[i].lane = b[i].lane /\ c[j].lane = b[j].lane
    BY DEF Alike, B!Shown
  <2>3. B!Before(c, i, j) <=> B!Before(b, i, j)
    BY DEF Alike, Leaves
  <2>4. /\ d[i].lane = c[i].lane /\ d[j].lane = c[j].lane
        /\ B!Before(d, i, j) <=> B!Before(c, i, j)
    BY <2>1, <2>2 DEF Alike, Leaves
  <2>5. QED
    BY <2>2, <2>3, <2>4
<1>2. QED
  BY <1>1 DEF Alike

\* One issue is changed.
LEMMA ChangedAlike ==
  ASSUME NEW b \in Boards, NEW id, NEW f, f = [i \in B!Ids(b) |-> f[i]],
         \A i \in B!Ids(b) : f[i] \in B!Issue /\ f[i].events = b[i].events,
         \A i \in B!Ids(b) \ {id} : f[i] = b[i]
  PROVE  Alike(b, f, id)
<1>1. f \in Boards /\ B!Ids(f) = B!Ids(b)
  BY FunctionIsBoard
<1>2. Leaves(b, f, id)
  BY DEF Leaves, B!Before
<1>3. QED
  BY <1>1, <1>2 DEF Alike

\* The others of a column get positions that follow their order.
LEMMA RenumberedAlike ==
  ASSUME NEW b \in Boards, NEW lane, NEW id, NEW except \in {0, id},
         NEW S, S = B!Stories(b, lane, except),
         NEW f, f = [i \in B!Ids(b) |-> f[i]],
         \A i \in B!Ids(b) : f[i] \in B!Issue /\ f[i].events = b[i].events,
         \A i \in B!Ids(b) \ {id} :
           f[i].story = b[i].story /\ f[i].archived = b[i].archived /\ f[i].lane = b[i].lane,
         \A i \in B!Ids(b) \ (S \cup {id}) : f[i].position = b[i].position,
         \A i \in S \ {id} : f[i].position > 0,
         \A i, j \in S \ {id} : B!Before(b, i, j) => f[i].position < f[j].position
  PROVE  Alike(b, f, id)
<1>1. f \in Boards /\ B!Ids(f) = B!Ids(b)
  BY FunctionIsBoard
<1>2. Leaves(b, f, id)
  <2> SUFFICES ASSUME NEW i \in B!Ids(b) \ {id}, NEW j \in B!Ids(b) \ {id},
                      B!Shown(b, i), B!Shown(b, j), b[i].lane = b[j].lane
               PROVE  B!Before(f, i, j) <=> B!Before(b, i, j)
    BY DEF Leaves
  <2>1. i \in Nat \ {0} /\ j \in Nat \ {0} /\ f[i].position \in Nat /\ f[j].position \in Nat
    BY BoardIsFunction DEF B!Issue
  <2>2. CASE b[i].lane = lane
    <3>1. i \in S \ {id} /\ j \in S \ {id}
      BY <2>1, <2>2 DEF B!Stories, B!Shown
    <3>2. f[i].position > 0 /\ f[j].position > 0
      BY <3>1
    <3>3. /\ B!Before(b, i, j) => f[i].position < f[j].position
          /\ B!Before(b, j, i) => f[j].position < f[i].position
      BY <3>1
    <3>4. CASE i = j
      BY <3>4, <1>1, BeforeOrders
    <3>5. CASE i # j
      <4>1. B!Before(b, i, j) \/ B!Before(b, j, i)
        BY <3>5, BeforeOrders
      <4>2. f[i].position < f[j].position => B!Before(f, i, j)
        BY <2>1, <3>2 DEF B!Before
      <4>3. f[j].position < f[i].position => ~B!Before(f, i, j)
        BY <2>1, <3>2 DEF B!Before
      <4>4. B!Before(b, j, i) => ~B!Before(b, i, j)
        BY BeforeOrders
      <4>5. QED
        BY <3>3, <4>1, <4>2, <4>3, <4>4
    <3>6. QED
      BY <3>4, <3>5
  <2>3. CASE b[i].lane # lane
    <3>1. i \notin S /\ j \notin S
      BY <2>3 DEF B!Stories
    <3>2. f[i].position = b[i].position /\ f[j].position = b[j].position
      BY <3>1
    <3>3. QED
      BY <3>2 DEF B!Before
  <2>4. QED
    BY <2>2, <2>3
<1>3. QED
  BY <1>1, <1>2 DEF Alike

LEMMA NewPositionOnly ==
  ASSUME NEW issue \in B!Issue, NEW p \in Nat
  PROVE  /\ [issue EXCEPT !.position = p].position = p
         /\ [issue EXCEPT !.position = p].story = issue.story
         /\ [issue EXCEPT !.position = p].archived = issue.archived
         /\ [issue EXCEPT !.position = p].lane = issue.lane
  BY DEF B!Issue

LEMMA NormalizedAlike ==
  ASSUME NEW b \in Boards, NEW lane, NEW id, NEW except \in {0, id}
  PROVE  Alike(b, B!Normalized(b, lane, except), id)
<1> DEFINE S == B!Stories(b, lane, except)
           f == B!Normalized(b, lane, except)
           rank(i) == B!Rank(b, S, i)
<1>1. f = [i \in B!Ids(b) |-> IF i \in S THEN [b[i] EXCEPT !.position = rank(i)] ELSE b[i]]
  BY DEF B!Normalized, B!Numbered
<1>2. \A i : rank(i) \in Nat /\ rank(i) > 0
  BY RankType
<1>3. \A i, j \in S : B!Before(b, i, j) => rank(i) < rank(j)
  BY RanksFollow
<1>4. S \subseteq B!Ids(b) /\ \A i \in B!Ids(b) : b[i] \in B!Issue
  BY Counts, BoardIsFunction
<1>5. S = B!Stories(b, lane, except)
  OBVIOUS
<1> HIDE DEF f, S, rank
<1>6. f = [i \in B!Ids(b) |-> f[i]]
  BY <1>1
<1>7. \A i \in S : f[i] = [b[i] EXCEPT !.position = rank(i)]
  BY <1>1, <1>4
<1>8. \A i \in B!Ids(b) \ S : f[i] = b[i]
  BY <1>1
<1>9. \A i \in S :
        /\ f[i] \in B!Issue /\ f[i].events = b[i].events /\ f[i].position = rank(i)
        /\ f[i].story = b[i].story /\ f[i].archived = b[i].archived /\ f[i].lane = b[i].lane
  <2> TAKE i \in S
  <2> DEFINE g == [b[i] EXCEPT !.position = rank(i)]
  <2>1. b[i] \in B!Issue /\ rank(i) \in Nat /\ f[i] = g
    BY <1>2, <1>4, <1>7
  <2>2. g \in B!Issue /\ g.events = b[i].events
    BY <2>1, NewPosition
  <2>3. /\ g.position = rank(i) /\ g.story = b[i].story
        /\ g.archived = b[i].archived /\ g.lane = b[i].lane
    BY <2>1, NewPositionOnly
  <2> HIDE DEF g
  <2>4. QED
    BY <2>1, <2>2, <2>3
<1>10. \A i \in B!Ids(b) : f[i] \in B!Issue /\ f[i].events = b[i].events
  BY <1>4, <1>8, <1>9
<1>11. \A i \in B!Ids(b) \ {id} :
         f[i].story = b[i].story /\ f[i].archived = b[i].archived /\ f[i].lane = b[i].lane
  BY <1>8, <1>9
<1>12. /\ \A i \in B!Ids(b) \ (S \cup {id}) : f[i].position = b[i].position
       /\ \A i \in S \ {id} : f[i].position > 0
       /\ \A i, j \in S \ {id} : B!Before(b, i, j) => f[i].position < f[j].position
  BY <1>2, <1>3, <1>8, <1>9
<1>13. Alike(b, f, id)
  BY <1>5, <1>6, <1>10, <1>11, <1>12, RenumberedAlike
<1>14. QED
  BY <1>13 DEF f

LEMMA OrderedAlike ==
  ASSUME NEW b \in Boards, NEW id \in B!Ids(b), NEW lane \in Lane,
         NEW after \in Nat, NEW order \in Nat
  PROVE  Alike(b, B!Ordered(b, id, lane, after, order), id)
<1> DEFINE S == B!Stories(b, lane, id)
           index == B!Index(b, S, after, order)
           rank(i) == B!Rank(b, S, i)
           p(i) == IF rank(i) > index THEN rank(i) + 1 ELSE rank(i)
           f == B!Ordered(b, id, lane, after, order)
<1>1. f = [i \in B!Ids(b) |->
            IF i = id THEN [b[i] EXCEPT !.lane = lane, !.position = index + 1]
            ELSE IF i \in S THEN [b[i] EXCEPT !.position = p(i)] ELSE b[i]]
  BY DEF B!Ordered
<1>2. \A i : rank(i) \in Nat /\ rank(i) > 0
  BY RankType
<1>3. index \in Nat
  BY <1>2, Counts, SameCount DEF B!Index
<1>4. \A i, j \in S : B!Before(b, i, j) => rank(i) < rank(j)
  BY RanksFollow
<1>5. id \notin S /\ S \subseteq B!Ids(b) /\ \A i \in B!Ids(b) : b[i] \in B!Issue
  BY Counts, BoardIsFunction DEF B!Stories
<1>6. S = B!Stories(b, lane, id)
  OBVIOUS
<1> HIDE DEF rank, index
<1>7. \A i : p(i) \in Nat /\ p(i) > 0
  BY <1>2, <1>3
<1>8. \A i, j \in S : B!Before(b, i, j) => p(i) < p(j)
  BY <1>2, <1>3, <1>4
<1> HIDE DEF f, S, p
<1>9. f = [i \in B!Ids(b) |-> f[i]]
  BY <1>1
<1>10. \A i \in S : f[i] = [b[i] EXCEPT !.position = p(i)]
  BY <1>1, <1>5
<1>11. \A i \in B!Ids(b) \ (S \cup {id}) : f[i] = b[i]
  BY <1>1
<1>12. f[id] = [b[id] EXCEPT !.lane = lane, !.position = index + 1]
  BY <1>1
<1>13. f[id] \in B!Issue /\ f[id].events = b[id].events
  <2>1. b[id] \in B!Issue /\ index + 1 \in Nat
    BY <1>3, <1>5
  <2>2. /\ [b[id] EXCEPT !.lane = lane, !.position = index + 1] \in B!Issue
        /\ [b[id] EXCEPT !.lane = lane, !.position = index + 1].events = b[id].events
    BY <2>1, NewPlace
  <2>3. QED
    BY <1>12, <2>2
<1>14. \A i \in S :
        /\ f[i] \in B!Issue /\ f[i].events = b[i].events /\ f[i].position = p(i)
        /\ f[i].story = b[i].story /\ f[i].archived = b[i].archived /\ f[i].lane = b[i].lane
  <2> TAKE i \in S
  <2> DEFINE g == [b[i] EXCEPT !.position = p(i)]
  <2>1. b[i] \in B!Issue /\ p(i) \in Nat /\ f[i] = g
    BY <1>5, <1>7, <1>10
  <2>2. g \in B!Issue /\ g.events = b[i].events
    BY <2>1, NewPosition
  <2>3. /\ g.position = p(i) /\ g.story = b[i].story
        /\ g.archived = b[i].archived /\ g.lane = b[i].lane
    BY <2>1, NewPositionOnly
  <2> HIDE DEF g
  <2>4. QED
    BY <2>1, <2>2, <2>3
<1>15. \A i \in B!Ids(b) : f[i] \in B!Issue /\ f[i].events = b[i].events
  BY <1>5, <1>11, <1>13, <1>14
<1>16. \A i \in B!Ids(b) \ {id} :
         f[i].story = b[i].story /\ f[i].archived = b[i].archived /\ f[i].lane = b[i].lane
  BY <1>11, <1>14
<1>17. /\ \A i \in B!Ids(b) \ (S \cup {id}) : f[i].position = b[i].position
       /\ \A i \in S \ {id} : f[i].position > 0
       /\ \A i, j \in S \ {id} : B!Before(b, i, j) => f[i].position < f[j].position
  BY <1>7, <1>8, <1>11, <1>14
<1>18. Alike(b, f, id)
  BY <1>6, <1>9, <1>15, <1>16, <1>17, RenumberedAlike
<1>19. QED
  BY <1>18 DEF f

LEMMA LeftBehindAlike ==
  ASSUME NEW b \in Boards, NEW c, NEW id, Alike(b, c, id), NEW from, NEW to
  PROVE  Alike(b, B!LeftBehind(c, id, from, to), id)
<1>1. c \in Boards
  BY DEF Alike
<1>2. Alike(c, B!Normalized(c, from, id), id)
  BY <1>1, NormalizedAlike
<1>3. QED
  BY <1>2, AlikeOn DEF B!LeftBehind

\* A flag of an issue changes.
LEMMA FlagAlike ==
  ASSUME NEW b \in Boards, NEW id \in B!Ids(b), NEW yes \in BOOLEAN
  PROVE  /\ Alike(b, [b EXCEPT ![id].story = yes], id)
         /\ Alike(b, [b EXCEPT ![id].archived = yes], id)
         /\ Alike(b, [b EXCEPT ![id].closed = yes], id)
<1>1. ASSUME NEW issue \in B!Issue
      PROVE  /\ [issue EXCEPT !.story = yes] \in B!Issue
             /\ [issue EXCEPT !.archived = yes] \in B!Issue
             /\ [issue EXCEPT !.closed = yes] \in B!Issue
             /\ [issue EXCEPT !.story = yes].events = issue.events
             /\ [issue EXCEPT !.archived = yes].events = issue.events
             /\ [issue EXCEPT !.closed = yes].events = issue.events
  BY DEF B!Issue
<1>2. \A i \in B!Ids(b) : b[i] \in B!Issue
  BY BoardIsFunction
<1> DEFINE f == [b EXCEPT ![id].story = yes]
           g == [b EXCEPT ![id].archived = yes]
           h == [b EXCEPT ![id].closed = yes]
<1>3. /\ f = [i \in B!Ids(b) |-> IF i = id THEN [b[i] EXCEPT !.story = yes] ELSE b[i]]
      /\ g = [i \in B!Ids(b) |-> IF i = id THEN [b[i] EXCEPT !.archived = yes] ELSE b[i]]
      /\ h = [i \in B!Ids(b) |-> IF i = id THEN [b[i] EXCEPT !.closed = yes] ELSE b[i]]
  BY DEF B!Ids
<1> HIDE DEF f, g, h
<1>4. /\ f = [i \in B!Ids(b) |-> f[i]]
      /\ g = [i \in B!Ids(b) |-> g[i]]
      /\ h = [i \in B!Ids(b) |-> h[i]]
  BY <1>3
<1>5. \A i \in B!Ids(b) : f[i] \in B!Issue /\ f[i].events = b[i].events
  BY <1>1, <1>2, <1>3
<1>6. \A i \in B!Ids(b) : g[i] \in B!Issue /\ g[i].events = b[i].events
  BY <1>1, <1>2, <1>3
<1>7. \A i \in B!Ids(b) : h[i] \in B!Issue /\ h[i].events = b[i].events
  BY <1>1, <1>2, <1>3
<1>8. \A i \in B!Ids(b) \ {id} : f[i] = b[i] /\ g[i] = b[i] /\ h[i] = b[i]
  BY <1>3
<1>9. Alike(b, f, id) /\ Alike(b, g, id) /\ Alike(b, h, id)
  BY <1>4, <1>5, <1>6, <1>7, <1>8, ChangedAlike
<1>10. QED
  BY <1>9 DEF f, g, h

\* A story changes its column, or only its position there.
LEMMA PlaceAlike ==
  ASSUME NEW b \in Boards, NEW id \in B!Ids(b), NEW lane \in Lane, NEW p \in Nat
  PROVE  /\ Alike(b, [b EXCEPT ![id].lane = lane, ![id].position = p], id)
         /\ Alike(b, [b EXCEPT ![id].position = p], id)
<1> DEFINE f == [b EXCEPT ![id].lane = lane, ![id].position = p]
           g == [b EXCEPT ![id].position = p]
<1>1. \A i \in B!Ids(b) : b[i] \in B!Issue
  BY BoardIsFunction
<1>2. f = [i \in B!Ids(b) |-> IF i = id THEN [b[i] EXCEPT !.lane = lane, !.position = p] ELSE b[i]]
  BY DEF B!Ids
<1>3. g = [i \in B!Ids(b) |-> IF i = id THEN [b[i] EXCEPT !.position = p] ELSE b[i]]
  BY DEF B!Ids
<1> HIDE DEF f, g
<1>4. f = [i \in B!Ids(b) |-> f[i]] /\ g = [i \in B!Ids(b) |-> g[i]]
  BY <1>2, <1>3
<1>5. \A i \in B!Ids(b) : f[i] \in B!Issue /\ f[i].events = b[i].events
  BY <1>1, <1>2, NewPlace
<1>6. \A i \in B!Ids(b) : g[i] \in B!Issue /\ g[i].events = b[i].events
  BY <1>1, <1>3, NewPosition
<1>7. \A i \in B!Ids(b) \ {id} : f[i] = b[i] /\ g[i] = b[i]
  BY <1>2, <1>3
<1>8. Alike(b, f, id) /\ Alike(b, g, id)
  BY <1>4, <1>5, <1>6, <1>7, ChangedAlike
<1>9. QED
  BY <1>8 DEF f, g

\* The note in the history changes no order, and tells the request from all others.
LEMMA NotedLeaves ==
  ASSUME NEW b \in Boards, NEW id \in B!Ids(b), NEW c, Alike(b, c, id)
  PROVE  Leaves(b, B!Noted(c, id), id) /\ News(b, B!Noted(c, id))
<1> DEFINE f == B!Noted(c, id)
<1>1. c \in Boards /\ B!Ids(c) = B!Ids(b) /\ \A i \in B!Ids(b) : c[i].events = b[i].events
  BY DEF Alike
<1>2. f = [i \in B!Ids(c) |-> IF i = id THEN [c[i] EXCEPT !.events = @ \cup {requests + 1}]
                             ELSE c[i]]
  BY DEF B!Noted, B!Ids
<1>3. ASSUME NEW issue \in B!Issue
      PROVE  /\ [issue EXCEPT !.events = @ \cup {requests + 1}].lane = issue.lane
             /\ [issue EXCEPT !.events = @ \cup {requests + 1}].position = issue.position
             /\ [issue EXCEPT !.events = @ \cup {requests + 1}].events
                  = issue.events \cup {requests + 1}
  BY DEF B!Issue
<1>4. \A i \in B!Ids(c) : c[i] \in B!Issue
  BY <1>1, BoardIsFunction
<1> HIDE DEF f
<1>5. B!Ids(f) = B!Ids(b)
  BY <1>1, <1>2 DEF B!Ids
<1>6. \A i \in B!Ids(b) :
        f[i].lane = c[i].lane /\ f[i].position = c[i].position
  BY <1>1, <1>2, <1>3, <1>4
<1>7. /\ f[id].events = b[id].events \cup {requests + 1}
      /\ \A i \in B!Ids(b) \ {id} : f[i].events = b[i].events
  <2>1. f[id] = [c[id] EXCEPT !.events = @ \cup {requests + 1}] /\ c[id] \in B!Issue
    BY <1>1, <1>2, <1>4
  <2>2. f[id].events = c[id].events \cup {requests + 1}
    BY <1>3, <2>1
  <2>3. \A i \in B!Ids(b) \ {id} : f[i] = c[i]
    BY <1>1, <1>2
  <2>4. QED
    BY <1>1, <2>2, <2>3
<1>8. Leaves(b, f, id)
  <2>1. \A i, j \in B!Ids(b) : B!Before(f, i, j) <=> B!Before(c, i, j)
    BY <1>6 DEF B!Before
  <2>2. QED
    BY <1>6, <2>1 DEF Alike, Leaves
<1>9. Events(f) \subseteq Events(b) \cup {requests + 1}
  <2> SUFFICES ASSUME NEW i \in B!Ids(b), NEW n \in f[i].events
               PROVE  n \in Events(b) \cup {requests + 1}
    BY <1>5 DEF Events
  <2>1. n \in b[i].events \cup {requests + 1}
    BY <1>7
  <2>2. QED
    BY <2>1 DEF Events
<1>10. requests + 1 \in Events(f)
  BY <1>5, <1>7 DEF Events
<1>11. Leaves(b, f, id) /\ News(b, f)
  BY <1>8, <1>9, <1>10 DEF News
<1>12. QED
  BY <1>11 DEF f

-----------------------------------------------------------------------------
\* A request that leaves the order and brings its number.
LEMMA RequestLeaves ==
  ASSUME BoardInv, OrderInv, NEW k \in Process, NEW what, NEW new,
         Leaves(board, new, what.id), News(board, new), B!Request(k, what, new)
  PROVE  OrderInv'
<1>1. /\ board' = board /\ requests' = requests + 1 /\ requests \in Nat
      /\ boardPc[k] = "idle"
      /\ boardPc' = [boardPc EXCEPT ![k] = "save"]
      /\ expected' = [expected EXCEPT ![k] = board]
      /\ copy' = [copy EXCEPT ![k] = new]
      /\ moves' = [moves EXCEPT ![k] = what]
  BY DEF B!Request, B!Goto, BoardInv, B!TypeOK
<1>2. /\ boardPc'[k] = "save" /\ expected'[k] = board /\ copy'[k] = new /\ moves'[k] = what
      /\ \A j \in Process \ {k} :
           /\ boardPc'[j] = boardPc[j] /\ expected'[j] = expected[j] /\ copy'[j] = copy[j]
           /\ moves'[j] = moves[j]
  BY <1>1 DEF BoardInv, B!TypeOK
<1>3. Events(new) \subseteq 1..(requests + 1)
  BY <1>1 DEF News, OrderInv, NumbersGiven
<1>4. NumbersGiven'
  <2> SUFFICES /\ Events(board') \subseteq 1..requests'
               /\ \A j \in Process : boardPc'[j] = "save" => Events(copy'[j]) \subseteq 1..requests'
    BY DEF NumbersGiven, Events, B!Ids
  <2>1. 1..requests \subseteq 1..requests'
    BY <1>1
  <2>2. Events(board') \subseteq 1..requests'
    BY <1>1, <2>1 DEF OrderInv, NumbersGiven
  <2>3. QED
    BY <1>1, <1>2, <1>3, <2>1, <2>2 DEF OrderInv, NumbersGiven
<1>5. CopiesLeave'
  <2> SUFFICES ASSUME NEW j \in Process, boardPc'[j] = "save"
               PROVE  Leaves(expected'[j], copy'[j], moves'[j].id)
    BY DEF CopiesLeave, Leaves, B!Shown, B!Before, B!Ids
  <2>1. CASE j = k
    <3>1. expected'[j] = board /\ copy'[j] = new /\ moves'[j] = what
      BY <1>2, <2>1
    <3>2. QED
      BY <3>1
  <2>2. CASE j # k
    <3>1. boardPc[j] = "save" /\ expected'[j] = expected[j] /\ copy'[j] = copy[j] /\ moves'[j] = moves[j]
      BY <1>2, <2>2
    <3>2. QED
      BY <3>1 DEF OrderInv, CopiesLeave
  <2>3. QED
    BY <2>1, <2>2
<1>6. CopiesOwn'
  <2> SUFFICES ASSUME NEW j \in Process, boardPc'[j] = "save", copy'[j] # expected'[j]
               PROVE  \E n \in Events(copy'[j]) :
                        /\ n \notin Events(board')
                        /\ \A l \in Process \ {j} : boardPc'[l] = "save" => n \notin Events(copy'[l])
    BY DEF CopiesOwn, Events, B!Ids
  <2>1. requests + 1 \notin Events(board)
        /\ \A l \in Process \ {k} : boardPc[l] = "save" => requests + 1 \notin Events(copy[l])
    BY <1>1 DEF OrderInv, NumbersGiven
  <2>2. CASE j = k
    <3>1. requests + 1 \in Events(copy'[j])
      BY <1>2, <2>2 DEF News
    <3>2. QED
      BY <1>1, <1>2, <2>1, <2>2, <3>1
  <2>3. CASE j # k
    <3>1. boardPc[j] = "save" /\ copy[j] # expected[j] /\ copy'[j] = copy[j]
      BY <1>2, <2>3
    <3>2. PICK n \in Events(copy[j]) :
            /\ n \notin Events(board)
            /\ \A l \in Process \ {j} : boardPc[l] = "save" => n \notin Events(copy[l])
      BY <3>1 DEF OrderInv, CopiesOwn
    <3>3. n \in 1..requests
      BY <3>1 DEF OrderInv, NumbersGiven
    <3>4. n # requests + 1
      BY <1>1, <3>3
    <3>5. n \notin Events(new)
      BY <3>2, <3>4 DEF News
    <3>6. \A l \in Process \ {j} : boardPc'[l] = "save" => n \notin Events(copy'[l])
      BY <1>2, <3>2, <3>5
    <3>7. QED
      BY <1>1, <3>1, <3>2, <3>6
  <2>4. QED
    BY <2>2, <2>3
<1>7. QED
  BY <1>4, <1>5, <1>6 DEF OrderInv

LEMMA MutateLeaves ==
  ASSUME BoardInv, OrderInv, NEW k \in Process, NEW id \in B!Ids(board), NEW new,
         Alike(board, new, id), B!Mutate(k, id, new)
  PROVE  OrderInv'
<1>1. board \in Boards
  BY DEF BoardInv, B!TypeOK, Boards
<1>2. Leaves(board, B!Noted(new, id), id) /\ News(board, B!Noted(new, id))
  BY <1>1, NotedLeaves
<1>3. B!About("edit", id).id = id
  BY DEF B!About, B!NoRequest
<1>4. B!Request(k, B!About("edit", id), B!Noted(new, id))
  BY DEF B!Mutate
<1>5. Leaves(board, B!Noted(new, id), B!About("edit", id).id)
  BY <1>2, <1>3
<1>6. QED
  BY <1>2, <1>4, <1>5, RequestLeaves

LEMMA CreateLeaves ==
  ASSUME Bounds, BoardInv, OrderInv, NEW k \in Process, NEW story \in BOOLEAN, NEW lane \in Lane,
         B!CreateIssue(k, story, lane)
  PROVE  OrderInv'
<1> DEFINE issue == [story |-> story, lane |-> lane, archived |-> FALSE, closed |-> FALSE,
                     position |-> IF story THEN B!NextPosition(board, lane) ELSE 0,
                     events |-> {requests + 1}]
           new == Append(board, issue)
           id == Len(new)
           res == IF story THEN B!Normalized(new, lane, 0) ELSE new
           what == IF story THEN B!ToEnd(id, lane) ELSE B!About("edit", id)
<1>1. B!Request(k, what, res)
  BY DEF B!CreateIssue
<1>2. board \in Boards
  BY DEF BoardInv, B!TypeOK, Boards
<1>3. B!NextPosition(board, lane) \in Nat
  BY <1>2, Counts, SameCount DEF B!NextPosition
<1>4. requests + 1 \in 1..MaxRequests
  BY <1>1 DEF B!Request, BoardInv, B!TypeOK, Bounds
<1>5. issue \in B!Issue /\ issue.events = {requests + 1}
  BY <1>3, <1>4 DEF B!Issue
<1> HIDE DEF issue
<1>6. /\ new \in Boards /\ id = Len(board) + 1 /\ new[id] = issue
      /\ \A i \in 1..Len(board) : new[i] = board[i]
  BY <1>2, <1>5 DEF Boards
<1>7. Alike(new, res, id)
  <2> HIDE DEF new
  <2>1. Alike(new, B!Normalized(new, lane, 0), id)
    BY <1>6, NormalizedAlike
  <2>2. Alike(new, new, id)
    BY <1>6, AlikeItself
  <2>3. QED
    BY <2>1, <2>2
<1> HIDE DEF new, id, res
<1>8. /\ Len(board) \in Nat /\ B!Ids(board) = 1..Len(board) /\ B!Ids(new) = 1..id
      /\ id \notin B!Ids(board)
  <2>1. Len(board) \in Nat /\ B!Ids(board) = 1..Len(board) /\ B!Ids(new) = 1..Len(new)
    BY <1>2, <1>6, BoardIsFunction
  <2>2. QED
    BY <1>6, <2>1 DEF id
<1>9. Leaves(board, res, id)
  <2> SUFFICES ASSUME NEW i \in B!Ids(board) \ {id}, NEW j \in B!Ids(board) \ {id},
                      B!Shown(board, i), B!Shown(board, j), board[i].lane = board[j].lane
               PROVE  /\ res[i].lane = board[i].lane /\ res[j].lane = board[j].lane
                      /\ B!Before(res, i, j) <=> B!Before(board, i, j)
    BY DEF Leaves
  <2>1. /\ i \in B!Ids(new) \ {id} /\ j \in B!Ids(new) \ {id}
        /\ new[i] = board[i] /\ new[j] = board[j]
    BY <1>6, <1>8
  <2>2. B!Shown(new, i) /\ B!Shown(new, j) /\ new[i].lane = new[j].lane
    BY <2>1 DEF B!Shown
  <2>3. /\ res[i].lane = new[i].lane /\ res[j].lane = new[j].lane
        /\ B!Before(res, i, j) <=> B!Before(new, i, j)
    BY <1>7, <2>1, <2>2 DEF Alike, Leaves
  <2>4. B!Before(new, i, j) <=> B!Before(board, i, j)
    BY <2>1 DEF B!Before
  <2>5. QED
    BY <2>1, <2>3, <2>4
<1>10. B!Ids(res) = B!Ids(new) /\ \A i \in B!Ids(new) : res[i].events = new[i].events
  BY <1>7 DEF Alike
<1>11. News(board, res)
  <2>1. requests + 1 \in Events(res)
    <3>1. id \in B!Ids(new)
      BY <1>6, <1>8
    <3>2. res[id].events = {requests + 1}
      BY <1>5, <1>6, <1>10, <3>1
    <3>3. QED
      BY <1>10, <3>1, <3>2 DEF Events
  <2>2. Events(res) \subseteq Events(board) \cup {requests + 1}
    <3> SUFFICES ASSUME NEW i \in B!Ids(new), NEW n \in res[i].events
                 PROVE  n \in Events(board) \cup {requests + 1}
      BY <1>10 DEF Events
    <3>1. n \in new[i].events
      BY <1>10
    <3>2. CASE i = id
      BY <1>5, <1>6, <3>1, <3>2
    <3>3. CASE i # id
      <4>1. i \in B!Ids(board) /\ new[i] = board[i]
        BY <1>6, <1>8, <3>3
      <4>2. QED
        BY <3>1, <4>1 DEF Events
    <3>4. QED
      BY <3>2, <3>3
  <2>3. QED
    BY <2>1, <2>2 DEF News
<1>12. what.id = id
  BY DEF B!ToEnd, B!About, B!NoRequest
<1> HIDE DEF what
<1>13. Leaves(board, res, what.id)
  BY <1>9, <1>12
<1>14. QED
  BY <1>1, <1>11, <1>13, RequestLeaves

LEMMA EditLeaves ==
  ASSUME BoardInv, OrderInv, NEW k \in Process, NEW id \in B!Ids(board), NEW yes \in BOOLEAN,
         \/ B!UpdateIssue(k, id, yes) \/ B!ArchiveIssue(k, id, yes)
         \/ B!SetIssueClosed(k, id, yes) \/ B!CommentIssue(k, id)
  PROVE  OrderInv'
<1>1. board \in Boards
  BY DEF BoardInv, B!TypeOK, Boards
<1>2. /\ Alike(board, [board EXCEPT ![id].story = yes], id)
      /\ Alike(board, [board EXCEPT ![id].archived = yes], id)
      /\ Alike(board, [board EXCEPT ![id].closed = yes], id)
  BY <1>1, FlagAlike
<1>3. CASE B!UpdateIssue(k, id, yes)
  BY <1>2, <1>3, MutateLeaves DEF B!UpdateIssue
<1>4. CASE B!ArchiveIssue(k, id, yes)
  BY <1>2, <1>4, MutateLeaves DEF B!ArchiveIssue
<1>5. CASE B!SetIssueClosed(k, id, yes) /\ board[id].closed = yes
  <2>1. B!Request(k, B!NoRequest, board)
    BY <1>5 DEF B!SetIssueClosed
  <2>2. Leaves(board, board, B!NoRequest.id) /\ News(board, board)
    BY <1>1, AlikeItself DEF Alike, News
  <2>3. QED
    BY <2>1, <2>2, RequestLeaves
<1>6. CASE B!SetIssueClosed(k, id, yes) /\ board[id].closed # yes
  BY <1>2, <1>6, MutateLeaves DEF B!SetIssueClosed
<1>7. CASE B!CommentIssue(k, id)
  BY <1>1, <1>7, AlikeItself, MutateLeaves DEF B!CommentIssue
<1>8. QED
  BY <1>3, <1>4, <1>5, <1>6, <1>7

\* A move to a place that is asked for.
LEMMA MoveLeaves ==
  ASSUME BoardInv, OrderInv, NEW k \in Process, NEW id \in B!Ids(board), NEW lane \in Lane,
         NEW after \in Nat, NEW order \in Nat, NEW what, what.id = id, NEW from,
         B!Request(k, what, B!Noted(B!LeftBehind(B!Ordered(board, id, lane, after, order), id, from, lane), id))
  PROVE  OrderInv'
<1> DEFINE placed == B!Ordered(board, id, lane, after, order)
           left == B!LeftBehind(placed, id, from, lane)
<1>1. board \in Boards
  BY DEF BoardInv, B!TypeOK, Boards
<1>2. Alike(board, placed, id)
  BY <1>1, OrderedAlike
<1> HIDE DEF placed
<1>3. Alike(board, left, id)
  BY <1>1, <1>2, LeftBehindAlike
<1> HIDE DEF left
<1>4. Leaves(board, B!Noted(left, id), id) /\ News(board, B!Noted(left, id))
  BY <1>1, <1>3, NotedLeaves
<1>5. B!Request(k, what, B!Noted(left, id))
  BY DEF left, placed
<1>6. Leaves(board, B!Noted(left, id), what.id)
  BY <1>4
<1>7. QED
  BY <1>4, <1>5, <1>6, RequestLeaves

LEMMA LaneEndLeaves ==
  ASSUME BoardInv, OrderInv, NEW k \in Process, NEW id \in B!Ids(board), NEW lane \in Lane,
         B!MoveStoryToLaneEnd(k, id, lane)
  PROVE  OrderInv'
<1> DEFINE moved == [board EXCEPT ![id].lane = lane, ![id].position = 0]
           placed == [moved EXCEPT ![id].position = B!NextPosition(moved, lane)]
           left == B!LeftBehind(placed, id, board[id].lane, lane)
           new == B!Normalized(left, lane, 0)
<1>0. B!Request(k, B!ToEnd(id, lane), B!Noted(new, id))
  BY DEF B!MoveStoryToLaneEnd
<1>1. board \in Boards
  BY DEF BoardInv, B!TypeOK, Boards
<1>2. Alike(board, moved, id)
  BY <1>1, PlaceAlike
<1> HIDE DEF moved
<1>3. moved \in Boards /\ id \in B!Ids(moved)
  BY <1>2 DEF Alike
<1>4. B!NextPosition(moved, lane) \in Nat
  BY <1>3, Counts, SameCount DEF B!NextPosition
<1>5. Alike(moved, placed, id)
  BY <1>3, <1>4, PlaceAlike
<1> HIDE DEF placed
<1>6. Alike(board, placed, id)
  BY <1>1, <1>2, <1>5, AlikeOn
<1>7. Alike(board, left, id)
  BY <1>1, <1>6, LeftBehindAlike
<1> HIDE DEF left
<1>8. left \in Boards
  BY <1>7 DEF Alike
<1>9. Alike(left, new, id)
  BY <1>8, NormalizedAlike
<1> HIDE DEF new
<1>10. Alike(board, new, id)
  BY <1>1, <1>7, <1>9, AlikeOn
<1>11. Leaves(board, B!Noted(new, id), id) /\ News(board, B!Noted(new, id))
  BY <1>1, <1>10, NotedLeaves
<1>12. B!ToEnd(id, lane).id = id
  BY DEF B!ToEnd, B!About, B!NoRequest
<1>13. Leaves(board, B!Noted(new, id), B!ToEnd(id, lane).id)
  BY <1>11, <1>12
<1>14. QED
  BY <1>0, <1>11, <1>13, RequestLeaves

LEMMA TakeLeaves ==
  ASSUME Bounds, BoardInv, OrderInv, NEW k \in Process, NEW id \in B!Ids(board), B!TakeStory(k, id)
  PROVE  OrderInv'
<1>1. board \in Boards
  BY DEF BoardInv, B!TypeOK, Boards
<1>2. B!BeyondAll(board) \in Nat
  BY <1>1, BoardIsFunction DEF B!BeyondAll
<1>3. CASE board[id].lane = "backlog"
  <2> DEFINE what == [B!About("take", id) EXCEPT !.lane = "doing"]
  <2>1. B!Request(k, what, B!Noted(B!LeftBehind(B!Ordered(board, id, "doing", B!BeyondAll(board), 0),
                                          id, "backlog", "doing"), id))
    BY <1>3 DEF B!TakeStory
  <2>2. "doing" \in Lane
    BY DEF Bounds
  <2>3. what.id = id
    BY DEF B!About, B!NoRequest
  <2> HIDE DEF what
  <2>4. QED
    BY <1>2, <2>1, <2>2, <2>3, MoveLeaves
<1>4. CASE board[id].lane # "backlog"
  <2> DEFINE new == IF board[id].position = 0 THEN B!Normalized(board, board[id].lane, 0) ELSE board
  <2>1. Alike(board, new, id)
    BY <1>1, AlikeItself, NormalizedAlike
  <2>2. B!Mutate(k, id, new)
    BY <1>4 DEF B!TakeStory
  <2> HIDE DEF new
  <2>3. QED
    BY <2>1, <2>2, MutateLeaves
<1>5. QED
  BY <1>3, <1>4

\* The request is over: the file holds what it held, or the copy.
LEMMA StopLeaves ==
  ASSUME BoardInv, OrderInv, NEW k \in Process, boardPc[k] = "save", B!Stop(k),
         board' = board \/ B!Replace(k)
  PROVE  OrderInv'
<1>1. /\ board' = board \/ board' = copy[k]
      /\ requests' = requests /\ boardPc'[k] = "idle"
      /\ \A j \in Process \ {k} :
           /\ boardPc'[j] = boardPc[j] /\ expected'[j] = expected[j] /\ copy'[j] = copy[j]
           /\ moves'[j] = moves[j]
  BY DEF B!Stop, B!Goto, B!Replace, BoardInv, B!TypeOK
<1>2. Events(board') \subseteq 1..requests
  <2>1. CASE board' = board
    BY <2>1 DEF OrderInv, NumbersGiven
  <2>2. CASE board' = copy[k]
    BY <2>2 DEF OrderInv, NumbersGiven
  <2>3. QED
    BY <1>1, <2>1, <2>2
<1>3. NumbersGiven'
  <2> SUFFICES /\ Events(board') \subseteq 1..requests'
               /\ \A j \in Process : boardPc'[j] = "save" => Events(copy'[j]) \subseteq 1..requests'
    BY DEF NumbersGiven, Events, B!Ids
  <2>1. ASSUME NEW j \in Process, boardPc'[j] = "save" PROVE Events(copy'[j]) \subseteq 1..requests'
    <3>1. boardPc[j] = "save" /\ copy'[j] = copy[j]
      BY <1>1, <2>1
    <3>2. QED
      BY <1>1, <3>1 DEF OrderInv, NumbersGiven
  <2>2. QED
    BY <1>1, <1>2, <2>1
<1>4. CopiesLeave'
  <2> SUFFICES ASSUME NEW j \in Process, boardPc'[j] = "save"
               PROVE  Leaves(expected'[j], copy'[j], moves'[j].id)
    BY DEF CopiesLeave, Leaves, B!Shown, B!Before, B!Ids
  <2>1. boardPc[j] = "save" /\ expected'[j] = expected[j] /\ copy'[j] = copy[j] /\ moves'[j] = moves[j]
    BY <1>1
  <2>2. QED
    BY <2>1 DEF OrderInv, CopiesLeave
<1>5. CopiesOwn'
  <2> SUFFICES ASSUME NEW j \in Process, boardPc'[j] = "save", copy'[j] # expected'[j]
               PROVE  \E n \in Events(copy'[j]) :
                        /\ n \notin Events(board')
                        /\ \A l \in Process \ {j} : boardPc'[l] = "save" => n \notin Events(copy'[l])
    BY DEF CopiesOwn, Events, B!Ids
  <2>1. j # k /\ boardPc[j] = "save" /\ copy[j] # expected[j] /\ copy'[j] = copy[j]
    BY <1>1
  <2>2. PICK n \in Events(copy[j]) :
          /\ n \notin Events(board)
          /\ \A l \in Process \ {j} : boardPc[l] = "save" => n \notin Events(copy[l])
    BY <2>1 DEF OrderInv, CopiesOwn
  <2>3. n \notin Events(copy[k])
    BY <2>1, <2>2
  <2>4. n \notin Events(board')
    <3>1. CASE board' = board
      BY <2>2, <3>1
    <3>2. CASE board' = copy[k]
      BY <2>3, <3>2
    <3>3. QED
      BY <1>1, <3>1, <3>2
  <2>5. ASSUME NEW l \in Process \ {j}, boardPc'[l] = "save" PROVE n \notin Events(copy'[l])
    <3>1. boardPc[l] = "save" /\ copy'[l] = copy[l]
      BY <1>1, <2>5
    <3>2. QED
      BY <2>2, <3>1
  <2>6. QED
    BY <2>1, <2>4, <2>5
<1>6. QED
  BY <1>3, <1>4, <1>5 DEF OrderInv

LEMMA OrderStarts == ASSUME B!Init PROVE OrderInv
<1>1. \A i \in B!Ids(board) : board[i].events = {}
  BY DEF B!Init, B!Ids
<1>2. Events(board) = {}
  BY <1>1 DEF Events
<1>3. QED
  BY <1>2 DEF B!Init, OrderInv, CopiesLeave, CopiesOwn, NumbersGiven

LEMMA OrderStep == ASSUME Bounds, BoardInv, OrderInv, [B!Next]_boardVars PROVE OrderInv'
<1>0. board \in Boards
  BY DEF BoardInv, B!TypeOK, Boards
<1>1. ASSUME NEW k \in Process, NEW story \in BOOLEAN, NEW lane \in Lane,
             B!CreateIssue(k, story, lane)
      PROVE  OrderInv'
  BY <1>1, CreateLeaves
<1>2. ASSUME NEW k \in Process, NEW id \in B!Ids(board), B!CommentIssue(k, id) PROVE OrderInv'
  BY <1>2, EditLeaves
<1>3. ASSUME NEW k \in Process, NEW id \in B!Ids(board), B!TakeStory(k, id) PROVE OrderInv'
  BY <1>3, TakeLeaves
<1>4. ASSUME NEW k \in Process, NEW id \in B!Ids(board), NEW yes \in BOOLEAN,
             B!UpdateIssue(k, id, yes) \/ B!ArchiveIssue(k, id, yes) \/ B!SetIssueClosed(k, id, yes)
      PROVE  OrderInv'
  BY <1>4, EditLeaves
<1>5. ASSUME NEW k \in Process, NEW id \in B!Ids(board), NEW lane \in Lane,
             B!MoveStoryToLaneEnd(k, id, lane)
      PROVE  OrderInv'
  BY <1>5, LaneEndLeaves
<1>6. ASSUME NEW k \in Process, NEW id \in B!Ids(board), NEW lane \in Lane,
             NEW after \in Nat, NEW order \in Nat, B!MoveStory(k, id, lane, after, order)
      PROVE  OrderInv'
  <2> DEFINE what == [kind |-> "move", id |-> id, lane |-> lane, after |-> after, order |-> order]
  <2>1. B!Request(k, what, B!Noted(B!LeftBehind(B!Ordered(board, id, lane, after, order), id,
                                               board[id].lane, lane), id))
    BY <1>6 DEF B!MoveStory
  <2>2. what.id = id
    OBVIOUS
  <2> HIDE DEF what
  <2>3. QED
    BY <2>1, <2>2, MoveLeaves
<1>7. 0 \in Nat /\ 1..Len(board) \subseteq Nat /\ 0..B!BeyondAll(board) \subseteq Nat
  BY <1>0, BoardIsFunction DEF B!BeyondAll
<1>8. ASSUME NEW k \in Process, B!SaveIssues(k) \/ B!Fail(k) PROVE OrderInv'
  BY <1>8, StopLeaves DEF B!SaveIssues, B!Fail
<1>9. CASE UNCHANGED boardVars
  <2>1. UNCHANGED <<board, boardPc, moves, expected, copy, requests, boardKept>>
    BY <1>9 DEF boardVars
  <2>2. CopiesLeave'
    <3> SUFFICES ASSUME NEW j \in Process, boardPc'[j] = "save"
                 PROVE  Leaves(expected'[j], copy'[j], moves'[j].id)
      BY DEF CopiesLeave, Leaves, B!Shown, B!Before, B!Ids
    <3>1. QED
      BY <2>1 DEF OrderInv, CopiesLeave
  <2>3. CopiesOwn' /\ NumbersGiven'
    BY <2>1 DEF OrderInv, CopiesOwn, NumbersGiven, Events, B!Ids
  <2>4. QED
    BY <2>2, <2>3 DEF OrderInv
<1>10. QED
  BY <1>1, <1>2, <1>3, <1>4, <1>5, <1>6, <1>7, <1>8, <1>9 DEF B!Next

\* What is stored is what the one request that has it wants, made from what the file
\* held: a step that changes the file leaves its order, and a story where it belongs.
LEMMA StoredLeaves ==
  ASSUME BoardInv, OrderInv, [B!Next]_boardVars, NEW k \in Process,
         boardPc[k] = "save", board' # board, board' = copy[k]
  PROVE  Leaves(board, board', moves[k].id) /\ B!Stands(board, board', moves[k])
<1>1. PICK l \in Process : boardPc[l] = "save" /\ B!Replace(l)
  <2>1. \A l, what, new : ~B!Request(l, what, new)
    BY DEF B!Request
  <2>2. \A l, id, new : ~B!Mutate(l, id, new)
    BY <2>1 DEF B!Mutate
  <2>3. /\ \A l, story, lane : ~B!CreateIssue(l, story, lane)
        /\ \A l, id, lane, after, order : ~B!MoveStory(l, id, lane, after, order)
        /\ \A l, id, lane : ~B!MoveStoryToLaneEnd(l, id, lane)
    BY <2>1, Zenon DEF B!CreateIssue, B!MoveStory, B!MoveStoryToLaneEnd
  <2>4. /\ \A l, id : ~B!CommentIssue(l, id) /\ ~B!TakeStory(l, id)
        /\ \A l, id, yes :
             ~B!UpdateIssue(l, id, yes) /\ ~B!ArchiveIssue(l, id, yes) /\ ~B!SetIssueClosed(l, id, yes)
    BY <2>1, <2>2, Zenon DEF B!CommentIssue, B!TakeStory, B!UpdateIssue, B!ArchiveIssue,
                      B!SetIssueClosed
  <2>5. \E l \in Process : B!SaveIssues(l) \/ B!Fail(l)
    <3>1. B!Next
      BY DEF boardVars
    <3>2. QED
      BY <2>3, <2>4, <3>1, Zenon DEF B!Next
  <2>6. QED
    BY <2>5 DEF B!SaveIssues, B!Fail
<1>2. board = expected[l] /\ board' = copy[l]
  BY <1>1 DEF B!Replace, B!Current
<1>3. k = l
  <2> SUFFICES ASSUME k # l PROVE FALSE
    OBVIOUS
  <2>1. PICK n \in Events(copy[l]) :
          \A j \in Process \ {l} : boardPc[j] = "save" => n \notin Events(copy[j])
    BY <1>1, <1>2 DEF OrderInv, CopiesOwn
  <2>2. n \notin Events(copy[k])
    BY <2>1
  <2>3. copy[k] = copy[l]
    BY <1>2
  <2>4. QED
    BY <2>1, <2>2, <2>3
<1>4. Leaves(expected[k], copy[k], moves[k].id)
  BY DEF OrderInv, CopiesLeave
<1>5. B!Stands(expected[k], copy[k], moves[k])
  BY DEF BoardInv, CopiesStand
<1>6. board = expected[k] /\ board' = copy[k]
  BY <1>2, <1>3
<1>7. QED
  BY <1>4, <1>5, <1>6

-----------------------------------------------------------------------------
(***************************************************************************)
(* Repositories and owners (Admin)                                         *)
(***************************************************************************)

\* A call at work has a request that leads to where it is; once it has come to the
\* lists, the repository that it lists is there, made by itself if it creates one.
Prepared(c) ==
  LET what == asked[c]
  IN adminPc[c] # "idle" =>
       /\ what \in A!Requests
       /\ what.kind = "owner" => adminPc[c] \in {"read", "swap"}
       /\ what.kind = "list" => adminPc[c] \in {"find", "read", "swap"}
       /\ what.kind # "owner" /\ adminPc[c] \in {"read", "swap"} => repo[what.place] # Nothing
       /\ what.kind = "create" /\ adminPc[c] \in {"read", "swap"} =>
            repo[what.place] = [name |-> what.name, by |-> c]

\* Only creations and owners are answered for good.
KeptKinds == \A done \in kept : done[2].kind \in {"create", "owner"}

Listed ==
  /\ lists \in A!Lists
  /\ KeptKinds /\ A!ListedExists /\ A!CreatorsKeepPlaces /\ A!ListingsStay

AdminInv == A!TypeOK /\ (\A c \in Call : Prepared(c)) /\ Listed

\* Requests are told apart by their kind.
LEMMA RequestKinds ==
  ASSUME NEW what \in A!Requests
  PROVE  /\ what.kind \in {"create", "list", "owner"}
         /\ what.kind = "owner" => what.owner \in Owner
         /\ what.kind # "owner" => what.name \in Name /\ what.place \in Place
  BY DEF A!Requests

\* What is at a place is a repository with a name.
LEMMA RepositoryHasName ==
  ASSUME A!TypeOK, NEW p \in Place, repo[p] # Nothing
  PROVE  repo[p] \in [name : Name, by : Call] /\ repo[p].name \in Name
  BY DEF A!TypeOK

\* Nothing that the invariant speaks of changes, but one call goes on to another step.
LEMMA GoesOn ==
  ASSUME AdminInv, NEW c \in Call, NEW l \in {"lock", "state", "find", "write", "read", "swap"},
         A!Goto(c, l), UNCHANGED <<repo, lists, asked, server, adminTries, kept>>,
         read' \in [Call -> A!Lists], Prepared(c)'
  PROVE  AdminInv'
<1>1. A!TypeOK'
  BY DEF AdminInv, A!TypeOK, A!Goto
<1>2. ASSUME NEW d \in Call PROVE Prepared(d)'
  BY DEF AdminInv, A!TypeOK, A!Goto, Prepared
<1>3. KeptKinds' /\ A!ListedExists' /\ A!CreatorsKeepPlaces' /\ A!ListingsStay'
  BY DEF AdminInv, Listed, KeptKinds, A!ListedExists, A!CreatorsKeepPlaces, A!ListingsStay
<1>4. QED
  BY <1>1, <1>2, <1>3 DEF AdminInv, Listed, A!TypeOK

\* A call that is over: the lists are as they were, or have been replaced by it.
LEMMA Stops ==
  ASSUME AdminInv, NEW c \in Call, A!Stop(c), UNCHANGED repo,
         \/ UNCHANGED lists /\ kept' = kept
         \/ /\ adminPc[c] = "swap" /\ A!Replace(c)
            /\ \/ kept' = kept
               \/ asked[c].kind # "list" /\ kept' = kept \cup {<<c, asked[c]>>}
  PROVE  AdminInv'
<1> USE DEF AdminInv, Listed, A!TypeOK
<1>1. CASE UNCHANGED lists /\ kept' = kept
  <2>1. A!TypeOK'
    <3>1. A!Empty \in A!Lists
      BY DEF A!Empty, A!Lists
    <3>2. 0 \in 0..MaxTries - 1
      BY TriesAssumption
    <3>3. QED
      BY <1>1, <3>1, <3>2 DEF A!Stop, A!Goto
  <2>2. ASSUME NEW d \in Call PROVE Prepared(d)'
    BY DEF A!Stop, A!Goto, Prepared
  <2>3. KeptKinds' /\ A!ListedExists' /\ A!CreatorsKeepPlaces' /\ A!ListingsStay'
    BY <1>1 DEF KeptKinds, A!ListedExists, A!CreatorsKeepPlaces, A!ListingsStay
  <2>4. QED
    BY <2>1, <2>2, <2>3
<1>2. CASE adminPc[c] = "swap" /\ A!Replace(c) /\ kept' \in {kept, kept \cup {<<c, asked[c]>>}}
           /\ (kept' = kept \/ asked[c].kind # "list")
  <2> DEFINE what == asked[c]
  <2>1. Prepared(c) /\ what \in A!Requests
    BY <1>2 DEF Prepared
  <2>2. lists \in A!Lists
    OBVIOUS
  <2>3. ASSUME what.kind = "owner" PROVE Listed'
    <3>1. what.owner \in Owner
      BY <2>1, <2>3, RequestKinds
    <3>2. lists' = [lists EXCEPT !.owners = lists.owners \cup {what.owner}]
      BY <1>2, <2>2, <2>3 DEF A!Replace, A!Current, A!Changed, A!File, A!Lists
    <3>3. /\ lists' \in A!Lists /\ lists'.repos = lists.repos
          /\ lists'.owners = lists.owners \cup {what.owner}
      BY <2>2, <3>1, <3>2 DEF A!Lists
    <3>4. A!ListedExists'
      BY <3>3 DEF A!ListedExists
    <3>5. A!CreatorsKeepPlaces' /\ A!ListingsStay' /\ KeptKinds'
      BY <1>2, <2>3, <3>3 DEF A!CreatorsKeepPlaces, A!ListingsStay, KeptKinds
    <3>6. QED
      BY <3>3, <3>4, <3>5 DEF Listed
  <2>4. ASSUME what.kind # "owner" PROVE Listed'
    <3> DEFINE p == what.place
               n == A!Entry(c)
    <3>1. p \in Place /\ repo[p] # Nothing
      BY <1>2, <2>1, <2>4, RequestKinds DEF Prepared
    <3>2. n = repo[p].name /\ n \in Name
      BY <3>1, RepositoryHasName DEF A!Entry
    <3>3. lists' = [lists EXCEPT !.repos = [lists.repos EXCEPT ![n] = p]]
      BY <1>2, <2>2, <2>4 DEF A!Replace, A!Current, A!Changed, A!File, A!Lists
    <3> HIDE DEF n
    <3>4. /\ lists' \in A!Lists /\ lists'.owners = lists.owners
          /\ lists'.repos = [lists.repos EXCEPT ![n] = p]
      BY <2>2, <3>1, <3>2, <3>3 DEF A!Lists
    <3>5. \A m \in Name : lists'.repos[m] = IF m = n THEN p ELSE lists.repos[m]
      BY <2>2, <3>4 DEF A!Lists
    <3>6. A!ListedExists'
      BY <3>1, <3>2, <3>5 DEF A!ListedExists
    <3>7. A!CreatorsKeepPlaces' /\ KeptKinds'
      BY <1>2, <2>1, <2>4, RequestKinds DEF A!CreatorsKeepPlaces, KeptKinds, Prepared
    <3>8. ASSUME NEW done \in kept'
          PROVE  IF done[2].kind = "owner" THEN done[2].owner \in lists'.owners
                 ELSE lists'.repos[repo[done[2].place].name] # Nothing
      <4>1. CASE done \in kept
        <5>1. CASE done[2].kind = "owner"
          BY <3>4, <4>1, <5>1 DEF A!ListingsStay
        <5>2. CASE done[2].kind # "owner"
          <6>1. done[2].kind = "create" /\ done[2] \in A!Requests /\ done[1] \in Call
            BY <4>1, <5>2 DEF KeptKinds
          <6>2. repo[done[2].place] = [name |-> done[2].name, by |-> done[1]] /\ done[2].name \in Name
            BY <4>1, <6>1, RequestKinds DEF A!CreatorsKeepPlaces
          <6>3. lists.repos[done[2].name] # Nothing
            BY <4>1, <5>2, <6>2 DEF A!ListingsStay
          <6>4. QED
            BY <3>1, <3>5, <5>2, <6>2, <6>3, NothingAssumption
        <5>3. QED
          BY <5>1, <5>2
      <4>2. CASE done = <<c, what>>
        BY <2>4, <3>1, <3>2, <3>5, <4>2, NothingAssumption
      <4>3. QED
        BY <1>2, <4>1, <4>2
    <3>9. A!ListingsStay'
      BY <3>8 DEF A!ListingsStay
    <3>10. QED
      BY <3>4, <3>6, <3>7, <3>9 DEF Listed
  <2>5. Listed'
    BY <1>2, <2>1, <2>3, <2>4
  <2>6. A!TypeOK'
    <3>1. A!Empty \in A!Lists
      BY DEF A!Empty, A!Lists
    <3>2. 0 \in 0..MaxTries - 1
      BY TriesAssumption
    <3>3. kept' \subseteq Call \X A!Requests
      BY <1>2, <2>1
    <3>4. QED
      BY <2>5, <3>1, <3>2, <3>3 DEF Listed, A!Stop, A!Goto
  <2>7. ASSUME NEW d \in Call PROVE Prepared(d)'
    BY DEF A!Stop, A!Goto, Prepared
  <2>8. QED
    BY <2>5, <2>6, <2>7 DEF Listed
<1>3. QED
  BY <1>1, <1>2

LEMMA AdminStarts == A!Init => AdminInv
<1> SUFFICES ASSUME A!Init PROVE AdminInv
  OBVIOUS
<1>1. A!Empty \in A!Lists /\ \A n \in Name : A!Empty.repos[n] = Nothing
  BY DEF A!Empty, A!Lists
<1>2. 0 \in 0..MaxTries - 1
  BY TriesAssumption
<1>3. A!TypeOK
  BY <1>1, <1>2 DEF A!Init, A!TypeOK
<1>4. Listed
  BY <1>1 DEF A!Init, Listed, KeptKinds, A!ListedExists, A!CreatorsKeepPlaces, A!ListingsStay
<1>5. QED
  BY <1>3, <1>4 DEF AdminInv, A!Init, Prepared

\* A creation writes where nothing is; nothing that is there is replaced.
LEMMA Writes == ASSUME AdminInv, NEW c \in Call, A!WriteState(c) PROVE AdminInv'
<1> DEFINE what == asked[c]
           p == what.place
           made == [name |-> what.name, by |-> c]
<1>1. CASE ~A!Creatable(p)
  BY <1>1, Stops DEF A!WriteState, A!Refused
<1>2. CASE A!Creatable(p)
  <2>1. /\ repo[p] = Nothing /\ repo' = [repo EXCEPT ![p] = made]
        /\ adminPc' = [adminPc EXCEPT ![c] = "read"]
        /\ UNCHANGED <<lists, asked, server, read, adminTries, kept>>
    BY <1>2 DEF A!WriteState, A!Creatable, A!Goto
  <2>2. what \in A!Requests /\ what.kind = "create" /\ p \in Place /\ what.name \in Name
    BY RequestKinds DEF A!WriteState, AdminInv, Prepared
  <2>3. /\ made \in [name : Name, by : Call] /\ made # Nothing
        /\ repo'[p] = made /\ \A q \in Place : q # p => repo'[q] = repo[q]
    BY <2>1, <2>2, NothingAssumption DEF AdminInv, A!TypeOK
  <2>4. A!TypeOK'
    BY <2>1, <2>2, <2>3 DEF AdminInv, A!TypeOK
  <2>5. \A q \in Place : repo[q] # Nothing => repo'[q] = repo[q]
    BY <2>1, <2>3
  <2>6. ASSUME NEW d \in Call PROVE Prepared(d)'
    <3>1. CASE d = c
      BY <2>1, <2>2, <2>3, <3>1 DEF Prepared, AdminInv, A!TypeOK
    <3>2. CASE d # c
      <4>1. adminPc'[d] = adminPc[d] /\ asked'[d] = asked[d] /\ Prepared(d)
        BY <2>1, <3>2 DEF AdminInv, A!TypeOK
      <4>2. CASE adminPc[d] # "idle"
        BY <2>2, <2>3, <2>5, <4>1, <4>2, RequestKinds DEF Prepared
      <4>3. QED
        BY <4>1, <4>2 DEF Prepared
    <3>3. QED
      BY <3>1, <3>2
  <2>7. A!ListedExists'
    <3>1. \A n \in Name : lists.repos[n] # Nothing => lists.repos[n] \in Place
      BY DEF AdminInv, A!TypeOK, A!Lists
    <3>2. QED
      BY <2>1, <2>5, <3>1 DEF AdminInv, Listed, A!ListedExists
  <2>8. ASSUME NEW done \in kept
        PROVE  done[2].kind = "create" => repo'[done[2].place] = repo[done[2].place]
    <3>1. done[2] \in A!Requests
      BY DEF AdminInv, A!TypeOK
    <3>2. CASE done[2].kind = "create"
      <4>1. done[2].place \in Place /\ done[2].name \in Name
        BY <3>1, <3>2, RequestKinds
      <4>2. repo[done[2].place] = [name |-> done[2].name, by |-> done[1]] /\ done[1] \in Call
        BY <3>2 DEF AdminInv, A!TypeOK, Listed, A!CreatorsKeepPlaces
      <4>3. QED
        BY <2>5, <4>1, <4>2, NothingAssumption
    <3>3. QED
      BY <3>2
  <2>9. A!CreatorsKeepPlaces' /\ A!ListingsStay' /\ KeptKinds'
    <3>1. KeptKinds /\ A!CreatorsKeepPlaces /\ A!ListingsStay
      BY DEF AdminInv, Listed
    <3>2. A!CreatorsKeepPlaces' /\ KeptKinds'
      BY <2>1, <2>8, <3>1 DEF A!CreatorsKeepPlaces, KeptKinds
    <3>3. A!ListingsStay'
      BY <2>1, <2>8, <3>1 DEF A!ListingsStay, KeptKinds
    <3>4. QED
      BY <3>2, <3>3
  <2>10. QED
    BY <2>4, <2>6, <2>7, <2>9 DEF AdminInv, Listed, A!TypeOK
<1>3. QED
  BY <1>1, <1>2

\* What is found for a listing is there.
LEMMA FoundExists ==
  ASSUME NEW name, NEW place \in Place, NEW p \in A!Found(name, place)
  PROVE  p \in Place /\ repo[p] # Nothing
  BY DEF A!Found

LEMMA AdminStep == AdminInv /\ [A!Next]_adminVars => AdminInv'
<1> SUFFICES ASSUME AdminInv, [A!Next]_adminVars PROVE AdminInv'
  OBVIOUS
<1>1. ASSUME NEW c \in Call, NEW b \in Process, NEW what \in A!Requests, A!Begin(c, b, what)
      PROVE  AdminInv'
  <2>1. what.kind \in {"create", "list", "owner"}
    BY RequestKinds
  <2>2. A!TypeOK'
    BY <1>1, <2>1 DEF AdminInv, A!TypeOK, A!Begin, A!Goto
  <2>3. ASSUME NEW d \in Call PROVE Prepared(d)'
    BY <1>1, <2>1 DEF AdminInv, A!TypeOK, A!Begin, A!Goto, Prepared
  <2>4. Listed'
    BY <1>1 DEF AdminInv, Listed, A!Begin, KeptKinds, A!ListedExists, A!CreatorsKeepPlaces,
                A!ListingsStay
  <2>5. QED
    BY <2>2, <2>3, <2>4 DEF AdminInv
<1>2. ASSUME NEW c \in Call, A!Lock(c) PROVE AdminInv'
  BY <1>2, GoesOn DEF A!Lock, A!Goto, AdminInv, A!TypeOK, Prepared
<1>3. ASSUME NEW c \in Call, A!CheckState(c) PROVE AdminInv'
  <2>1. CASE A!Refused(c)
    BY <2>1, Stops DEF A!Refused
  <2>2. CASE A!Goto(c, "find") /\ UNCHANGED <<repo, lists, asked, server, read, adminTries, kept>>
    BY <1>3, <2>2, GoesOn DEF A!CheckState, A!Goto, AdminInv, A!TypeOK, Prepared
  <2>3. QED
    BY <1>3, <2>1, <2>2 DEF A!CheckState
<1>4. ASSUME NEW c \in Call, A!FindListed(c) PROVE AdminInv'
  <2>1. CASE A!Refused(c)
    BY <2>1, Stops DEF A!Refused
  <2>2. CASE A!Goto(c, "write") /\ UNCHANGED <<repo, lists, asked, server, read, adminTries, kept>>
    BY <1>4, <2>2, GoesOn DEF A!FindListed, A!Goto, AdminInv, A!TypeOK, Prepared
  <2>3. QED
    BY <1>4, <2>1, <2>2 DEF A!FindListed
<1>5. ASSUME NEW c \in Call, A!WriteState(c) PROVE AdminInv'
  BY <1>5, Writes
<1>6. ASSUME NEW c \in Call, A!FindRepo(c) PROVE AdminInv'
  <2>1. CASE A!Refused(c)
    BY <2>1, Stops DEF A!Refused
  <2>2. CASE ~A!Refused(c)
    <3>1. asked[c] \in A!Requests /\ asked[c].kind = "list" /\ asked[c].place \in Place
      BY <1>6, RequestKinds DEF A!FindRepo, AdminInv, Prepared
    <3>2. PICK p \in A!Found(asked[c].name, asked[c].place) :
            /\ asked' = [asked EXCEPT ![c].place = p] /\ A!Goto(c, "read")
            /\ UNCHANGED <<repo, lists, server, read, adminTries, kept>>
      BY <1>6, <2>2 DEF A!FindRepo
    <3>3. p \in Place /\ repo[p] # Nothing
      BY <3>1, <3>2, FoundExists
    <3> DEFINE new == [asked[c] EXCEPT !.place = p]
    <3>4. new \in A!Requests /\ new.kind = "list" /\ new.place = p
      BY <3>1, <3>3 DEF A!Requests
    <3>5. asked' = [asked EXCEPT ![c] = new]
      BY <3>2
    <3> HIDE DEF new
    <3>6. A!TypeOK'
      BY <3>2, <3>4, <3>5 DEF AdminInv, A!TypeOK, A!Goto
    <3>7. ASSUME NEW d \in Call PROVE Prepared(d)'
      BY <3>2, <3>3, <3>4, <3>5 DEF AdminInv, A!TypeOK, A!Goto, Prepared
    <3>8. Listed'
      BY <3>2 DEF AdminInv, Listed, KeptKinds, A!ListedExists, A!CreatorsKeepPlaces, A!ListingsStay
    <3>9. QED
      BY <3>6, <3>7, <3>8 DEF AdminInv
  <2>3. QED
    BY <2>1, <2>2
<1>7. ASSUME NEW c \in Call, A!ReadList(c) PROVE AdminInv'
  <2>1. read' \in [Call -> A!Lists]
    BY <1>7 DEF A!ReadList, AdminInv, A!TypeOK, A!Empty, A!Lists
  <2>2. QED
    BY <1>7, <2>1, GoesOn DEF A!ReadList, A!Goto, AdminInv, A!TypeOK, Prepared
<1>8. ASSUME NEW c \in Call, A!SwapList(c) PROVE AdminInv'
  BY <1>8, Stops DEF A!SwapList
<1>9. ASSUME NEW c \in Call, A!SwapConflict(c) PROVE AdminInv'
  <2>1. CASE A!LastTry(c)
    BY <1>9, <2>1, Stops DEF A!SwapConflict, A!Refused
  <2>2. CASE ~A!LastTry(c)
    <3>1. A!Empty \in A!Lists
      BY DEF A!Empty, A!Lists
    <3>2. adminTries[c] + 1 \in 0..MaxTries - 1
      BY <2>2, TriesAssumption DEF A!LastTry, AdminInv, A!TypeOK
    <3>3. A!TypeOK'
      BY <1>9, <2>2, <3>1, <3>2 DEF A!SwapConflict, A!Goto, AdminInv, A!TypeOK
    <3>4. ASSUME NEW d \in Call PROVE Prepared(d)'
      BY <1>9, <2>2 DEF A!SwapConflict, A!Goto, AdminInv, A!TypeOK, Prepared
    <3>5. Listed'
      BY <1>9, <2>2 DEF A!SwapConflict, AdminInv, Listed, KeptKinds, A!ListedExists,
                        A!CreatorsKeepPlaces, A!ListingsStay
    <3>6. QED
      BY <3>3, <3>4, <3>5 DEF AdminInv
  <2>3. QED
    BY <2>1, <2>2
<1>10. ASSUME NEW c \in Call, A!Fail(c) PROVE AdminInv'
  BY <1>10, Stops DEF A!Fail
<1>11. ASSUME NEW b \in Process, A!Crash(b) PROVE AdminInv'
  <2>1. A!TypeOK'
    <3>1. A!Empty \in A!Lists
      BY DEF A!Empty, A!Lists
    <3>2. 0 \in 0..MaxTries - 1
      BY TriesAssumption
    <3>3. QED
      BY <1>11, <3>1, <3>2 DEF A!Crash, AdminInv, A!TypeOK
  <2>2. ASSUME NEW d \in Call PROVE Prepared(d)'
    BY <1>11 DEF A!Crash, AdminInv, Prepared
  <2>3. Listed'
    BY <1>11 DEF A!Crash, AdminInv, Listed, KeptKinds, A!ListedExists, A!CreatorsKeepPlaces,
                 A!ListingsStay
  <2>4. QED
    BY <2>1, <2>2, <2>3 DEF AdminInv
<1>12. CASE UNCHANGED adminVars
  <2>1. UNCHANGED <<repo, lists, adminPc, asked, server, read, adminTries, kept>>
    BY <1>12 DEF adminVars
  <2>2. QED
    BY <2>1 DEF AdminInv, A!TypeOK, Prepared, Listed, KeptKinds, A!ListedExists,
                A!CreatorsKeepPlaces, A!ListingsStay
<1>13. QED
  BY <1>1, <1>2, <1>3, <1>4, <1>5, <1>6, <1>7, <1>8, <1>9, <1>10, <1>11, <1>12 DEF A!Next

-----------------------------------------------------------------------------
(***************************************************************************)
(* The theorems                                                            *)
(***************************************************************************)

\* A change of an issue that was answered with success stays in the issue's history,
\* whatever other processes store (SaveIssues compares with what was read).
THEOREM IssuesAreKept == BrokerSpec => []IssuesHold
<1>0. Bounds
  BY LaneAssumption, RequestsAssumption DEF Bounds
<1>1. BrokerInit => BoardInv
  BY <1>0, BoardInit DEF BrokerInit
<1>2. BoardInv /\ [BrokerNext]_BrokerVars => BoardInv'
  BY <1>0, BoardStep DEF BrokerNext, BrokerVars, boardVars
<1>3. BoardInv => IssuesHold
  BY DEF BoardInv, IssuesHold
<1>4. QED
  BY <1>1, <1>2, <1>3, PTL DEF BrokerSpec

\* Moving, taking, creating or editing a story leaves the other stories of a column in
\* their order, and stores the story where it was asked to stand, with the columns it
\* came to and left numbered without a gap, in whatever order the requests of several
\* processes are stored (applyOrder, MoveStoryToLaneEnd, normalizeStoryPositions).
THEOREM OrderIsKept == BrokerSpec => OrderHolds
<1> DEFINE Kept(k) ==
      boardPc[k] = "save" /\ board' # board /\ board' = copy[k] =>
        \A i, j \in B!Ids(board) \ {moves[k].id} :
          B!Shown(board, i) /\ B!Shown(board, j) /\ board[i].lane = board[j].lane
            => /\ board'[i].lane = board[i].lane /\ board'[j].lane = board[j].lane
               /\ B!Before(board', i, j) <=> B!Before(board, i, j)
           Stood(k) ==
      boardPc[k] = "save" /\ board' # board /\ board' = copy[k] =>
        B!Stands(board, board', moves[k])
<1>0. Bounds
  BY LaneAssumption, RequestsAssumption DEF Bounds
<1>1. BrokerInit => BoardInv /\ OrderInv
  BY <1>0, BoardInit, OrderStarts DEF BrokerInit
<1>2. [BrokerNext]_BrokerVars => [B!Next]_boardVars
  BY DEF BrokerNext, BrokerVars
<1>3. BoardInv /\ OrderInv /\ [BrokerNext]_BrokerVars => BoardInv' /\ OrderInv'
  BY <1>0, <1>2, BoardStep, OrderStep
<1>4. BoardInv /\ OrderInv /\ [BrokerNext]_BrokerVars => [\A k \in Process : Kept(k)]_(B!vars)
  BY <1>2, StoredLeaves DEF Leaves
<1>5. BoardInv /\ OrderInv /\ [BrokerNext]_BrokerVars => [\A k \in Process : Stood(k)]_(B!vars)
  BY <1>2, StoredLeaves
<1>6. QED
  BY <1>1, <1>3, <1>4, <1>5, PTL
  DEF BrokerSpec, OrderHolds, B!OthersKeepOrder, B!StandsAsAsked

\* What repos.json lists exists, under its name, wherever creations, listings and
\* processes stop (UpsertRepository after CreateRepository); who was told that a
\* repository was created stays its creator, and answered entries are never lost.
THEOREM ListingsAreKept == BrokerSpec => []ListingsHold
<1>1. BrokerInit => AdminInv
  BY AdminStarts DEF BrokerInit
<1>2. AdminInv /\ [BrokerNext]_BrokerVars => AdminInv'
  BY AdminStep DEF BrokerNext, BrokerVars, adminVars
<1>3. AdminInv => ListingsHold
  BY DEF AdminInv, Listed, ListingsHold
<1>4. QED
  BY <1>1, <1>2, <1>3, PTL DEF BrokerSpec
=============================================================================
