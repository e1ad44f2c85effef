-------------------------- MODULE FsRefStoreProofs --------------------------
(***************************************************************************)
(* For any set of processes, object ids and requests: as long as no lease  *)
(* reaches its lifetime, the filesystem store's CompareAndSwapRef is an    *)
(* atomic compare-and-swap, in spite of crashes and I/O errors.            *)
(***************************************************************************)
EXTENDS FsRefStore, TLAPS

(***************************************************************************)
(* The inductive invariant. A holder is the creator of the lease file that *)
(* is there, so there is one holder at most; what it has compared with the *)
(* ref file stays true until it replaces the file; and a process that      *)
(* still has to compare or replace has not answered yet.                   *)
(***************************************************************************)
LeaseOwned ==
  \A p \in Proc : Holds(p) => lease = "fresh" /\ owner = p

NothingStale ==
  /\ lease # "stale"
  /\ \A p \in Proc : pc[p] # "remove"

Compared == \A p \in Proc : pc[p] = "write" => ref = old[p]

CalledWhileWorking ==
  \A p \in Proc :
    /\ pc[p] \in {"create", "stat", "read", "write"} => status[p] = "called"
    /\ pc[p] = "release" => status[p] \in {"applied", "conflict", "failed"}
    /\ pc[p] \in {"idle", "down"} => status[p] \in Status \ {"called", "applied"}

IInv == TypeOK /\ LeaseOwned /\ NothingStale /\ Compared /\ CalledWhileWorking

-----------------------------------------------------------------------------
\* The invariant holds before any process has called.
LEMMA InitInvariant == Init => IInv
  BY NoOidAssumption
     DEF Init, IInv, TypeOK, LeaseOwned, NothingStale, Compared,
         CalledWhileWorking, Holds, PC, Status, Value

\* Every system call, crash and restart preserves the invariant.
LEMMA StepInvariant == IInv /\ [NoExpiryNext]_vars => IInv'
<1> SUFFICES ASSUME IInv, [NoExpiryNext]_vars PROVE IInv'
  OBVIOUS
<1> USE DEF IInv, TypeOK, LeaseOwned, NothingStale, Compared,
            CalledWhileWorking, Holds, PC, Status, Value, Goto, Mark, Stop, args
<1>1. ASSUME NEW p \in Proc, NEW r \in Requests, Begin(p, r[1], r[2])
      PROVE  IInv'
  <2>1. r[1] \in Value /\ r[2] \in Value
    BY RequestsAssumption
  <2>2. QED
    BY <1>1, <2>1 DEF Begin
<1>2. ASSUME NEW p \in Proc, CreateLease(p) PROVE IInv'
  BY <1>2 DEF CreateLease, Creatable
<1>3. ASSUME NEW p \in Proc, StatLease(p) PROVE IInv'
  BY <1>3 DEF StatLease, Takeable
<1>4. ASSUME NEW p \in Proc, RemoveLease(p) \/ RemoveFails(p) PROVE IInv'
  BY <1>4 DEF RemoveLease, RemoveFails
<1>5. ASSUME NEW p \in Proc, ReadRef(p) PROVE IInv'
  BY <1>5 DEF ReadRef, Matches
<1>6. ASSUME NEW p \in Proc, WriteRef(p) PROVE IInv'
  <2>1. \A q \in Proc : q # p => ~Holds(q)
    BY <1>6 DEF WriteRef
  <2>2. QED
    BY <1>6, <2>1 DEF WriteRef
<1>7. ASSUME NEW p \in Proc, ReleaseLease(p) PROVE IInv'
  <2>1. \A q \in Proc : q # p => ~Holds(q)
    BY <1>7 DEF ReleaseLease
  <2>2. QED
    BY <1>7, <2>1 DEF ReleaseLease
<1>8. ASSUME NEW p \in Proc, Fail(p) PROVE IInv'
  BY <1>8 DEF Fail
<1>9. ASSUME NEW p \in Proc, Crash(p) PROVE IInv'
  BY <1>9 DEF Crash
<1>10. ASSUME NEW p \in Proc, Restart(p) PROVE IInv'
  BY <1>10 DEF Restart
<1>11. CASE UNCHANGED vars
  BY <1>11 DEF vars
<1>12. QED
  BY <1>1, <1>2, <1>3, <1>4, <1>5, <1>6, <1>7, <1>8, <1>9, <1>10, <1>11
     DEF NoExpiryNext, Calls, Steps, Step

LEMMA Invariant == NoExpirySpec => []IInv
  BY InitInvariant, StepInvariant, PTL DEF NoExpirySpec

-----------------------------------------------------------------------------
\* Two processes are never both inside the lease of store/fs.
THEOREM LeaseIsExclusive == NoExpirySpec => []LeaseExclusive
<1>1. IInv => LeaseExclusive
  BY DEF IInv, LeaseOwned, LeaseExclusive
<1>2. QED
  BY <1>1, Invariant, PTL

\* Every step of the store is a step of the atomic compare-and-swap or leaves
\* it unchanged.
LEMMA StepRefines ==
  IInv /\ [NoExpiryNext]_vars => [Abstract!Next]_(Abstract!vars)
<1> SUFFICES ASSUME IInv, [NoExpiryNext]_vars
             PROVE  Abstract!Next \/ UNCHANGED Abstract!vars
  OBVIOUS
<1> USE DEF IInv, TypeOK, NothingStale, Compared, CalledWhileWorking,
            Goto, Mark, Stop, args, Abstract!vars
<1>1. ASSUME NEW p \in Proc, NEW r \in Requests, Begin(p, r[1], r[2])
      PROVE  Abstract!Next
  <2>1. r[1] \in Abstract!Value /\ r[2] \in Abstract!Value
    BY RequestsAssumption DEF Value, Abstract!Value
  <2>2. Abstract!Begin(p, r[1], r[2])
    BY <1>1 DEF Begin, Abstract!Begin, Abstract!AtRest, Status
  <2>3. QED
    BY <2>1, <2>2 DEF Abstract!Next
<1>2. ASSUME NEW p \in Proc, CreateLease(p) \/ Restart(p)
      PROVE  UNCHANGED Abstract!vars
  BY <1>2 DEF CreateLease, Restart
<1>3. ASSUME NEW p \in Proc, StatLease(p)
      PROVE  Abstract!Next
  <2>1. Abstract!Answer(p)
    BY <1>3 DEF StatLease, Takeable, Abstract!Answer
  <2>2. QED
    BY <2>1 DEF Abstract!Next
<1>4. ASSUME NEW p \in Proc, RemoveLease(p) \/ RemoveFails(p)
      PROVE  FALSE
  BY <1>4 DEF RemoveLease, RemoveFails
<1>5. ASSUME NEW p \in Proc, ReadRef(p)
      PROVE  Abstract!Next \/ UNCHANGED Abstract!vars
  <2>1. CASE Matches(p)
    BY <1>5, <2>1 DEF ReadRef
  <2>2. CASE ~Matches(p)
    <3>1. Abstract!Answer(p)
      BY <1>5, <2>2 DEF ReadRef, Abstract!Answer
    <3>2. QED
      BY <3>1 DEF Abstract!Next
  <2>3. QED
    BY <2>1, <2>2
<1>6. ASSUME NEW p \in Proc, WriteRef(p)
      PROVE  Abstract!Next
  <2>1. Abstract!Apply(p)
    BY <1>6 DEF WriteRef, Abstract!Apply
  <2>2. QED
    BY <2>1 DEF Abstract!Next
<1>7. ASSUME NEW p \in Proc, ReleaseLease(p)
      PROVE  Abstract!Next \/ UNCHANGED Abstract!vars
  <2>1. CASE status[p] = "applied"
    <3>1. Abstract!Answer(p)
      BY <1>7, <2>1 DEF ReleaseLease, Abstract!Answer
    <3>2. QED
      BY <3>1 DEF Abstract!Next
  <2>2. CASE status[p] # "applied"
    BY <1>7, <2>2 DEF ReleaseLease
  <2>3. QED
    BY <2>1, <2>2
<1>8. ASSUME NEW p \in Proc, Fail(p)
      PROVE  Abstract!Next
  <2>1. Abstract!Answer(p)
    BY <1>8 DEF Fail, Abstract!Answer, Abstract!InProgress
  <2>2. QED
    BY <2>1 DEF Abstract!Next
<1>9. ASSUME NEW p \in Proc, Crash(p)
      PROVE  Abstract!Next \/ UNCHANGED Abstract!vars
  <2>1. CASE status[p] \in {"called", "applied"}
    <3>1. Abstract!Answer(p)
      BY <1>9, <2>1 DEF Crash, Abstract!Answer, Abstract!InProgress
    <3>2. QED
      BY <3>1 DEF Abstract!Next
  <2>2. CASE status[p] \notin {"called", "applied"}
    BY <1>9, <2>2 DEF Crash
  <2>3. QED
    BY <2>1, <2>2
<1>10. CASE UNCHANGED vars
  BY <1>10 DEF vars
<1>11. QED
  BY <1>1, <1>2, <1>3, <1>4, <1>5, <1>6, <1>7, <1>8, <1>9, <1>10
     DEF NoExpiryNext, Calls, Steps, Step

\* Without an expired lease, CompareAndSwapRef of store/fs is atomic.
THEOREM FsRefStoreIsAtomic == NoExpirySpec => ImplementsAtomicRef
<1>1. Init => Abstract!Init
  BY DEF Init, Abstract!Init, Value, Abstract!Value
<1>2. QED
  BY <1>1, Invariant, StepRefines, PTL
     DEF NoExpirySpec, ImplementsAtomicRef, Abstract!Spec

-----------------------------------------------------------------------------
\* Every state is of the declared types, whatever leases expire and whoever
\* takes them over: the acquisition loop of store/fs never starts a third round.
THEOREM FsRefStoreTypes == Spec => []TypeOK
<1>1. Init => TypeOK
  BY NoOidAssumption DEF Init, TypeOK, PC, Status, Value
<1>2. TypeOK /\ [Next]_vars => TypeOK'
  <2> SUFFICES ASSUME TypeOK, [Next]_vars PROVE TypeOK'
    OBVIOUS
  <2> USE DEF TypeOK, PC, Status, Value, Goto, Mark, Stop, args
  <2>1. ASSUME NEW p \in Proc, NEW r \in Requests, Begin(p, r[1], r[2])
        PROVE  TypeOK'
    <3>1. r[1] \in Value /\ r[2] \in Value
      BY RequestsAssumption
    <3>2. QED
      BY <2>1, <3>1 DEF Begin
  <2>2. ASSUME NEW p \in Proc, CreateLease(p) \/ StatLease(p) PROVE TypeOK'
    BY <2>2 DEF CreateLease, StatLease
  <2>3. ASSUME NEW p \in Proc, RemoveLease(p) \/ RemoveFails(p) PROVE TypeOK'
    BY <2>3 DEF RemoveLease, RemoveFails, NextAttempt
  <2>4. ASSUME NEW p \in Proc, ReadRef(p) \/ WriteRef(p) \/ Fail(p) PROVE TypeOK'
    BY <2>4 DEF ReadRef, WriteRef, Fail
  <2>5. ASSUME NEW p \in Proc, ReleaseLease(p) PROVE TypeOK'
    BY <2>5 DEF ReleaseLease
  <2>6. ASSUME NEW p \in Proc, Crash(p) \/ Restart(p) PROVE TypeOK'
    BY <2>6 DEF Crash, Restart
  <2>7. CASE ExpireOrphan \/ ExpireHeld
    BY <2>7 DEF ExpireOrphan, ExpireHeld
  <2>8. CASE UNCHANGED vars
    BY <2>8 DEF vars
  <2>9. QED
    BY <2>1, <2>2, <2>3, <2>4, <2>5, <2>6, <2>7, <2>8
       DEF Next, OrphanNext, NoExpiryNext, Calls, Steps, Step
<1>3. QED
  BY <1>1, <1>2, PTL DEF Spec
=============================================================================
