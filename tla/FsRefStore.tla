----------------------------- MODULE FsRefStore -----------------------------
(***************************************************************************)
(* The filesystem store's CompareAndSwapRef (store/fs/store.go), for one   *)
(* ref. Processes that share the directory serialise through a lease file  *)
(* "<ref>.bgit-lock" that is created with O_EXCL, is never waited for, and *)
(* is taken over once it is older than fileLeaseLifetime. Every system     *)
(* call is a step of its own, so those of different processes interleave.  *)
(* CompareAndSwap of a metadata object has the same shape under its own    *)
(* lease, "<path>.bgit-cas-lock".                                          *)
(***************************************************************************)
EXTENDS Naturals

CONSTANTS
  Proc,     \* processes sharing the store
  Oid,      \* object ids
  NoOid,    \* the zero object id: no such ref
  Requests  \* the <<old, new>> pairs that callers ask for

Value == Oid \cup {NoOid}

ASSUME NoOidAssumption == NoOid \notin Oid
ASSUME RequestsAssumption == Requests \subseteq Value \X Value

VARIABLES
  ref,      \* the loose ref file: its object id, or NoOid when it is absent
  lease,    \* the lease file: "none", "fresh", or "stale" (over two minutes old)
  owner,    \* who created the lease file last (history: the file does not say)
  pc,       \* pc[p]: the system call p is about to make
  attempt,  \* attempt[p]: the round of the acquisition loop p is in
  old, new, \* old[p], new[p]: the arguments of p's call
  status    \* status[p]: how far p's call is, or how its last call ended

vars == <<ref, lease, owner, pc, attempt, old, new, status>>
args == <<old, new>>

PC == {"idle", "create", "stat", "remove", "read", "write", "release", "down"}
Status == {"idle", "called", "applied", "ok", "conflict", "failed"}

TypeOK ==
  /\ ref \in Value
  /\ lease \in {"none", "fresh", "stale"}
  /\ owner \in Proc
  /\ pc \in [Proc -> PC]
  /\ attempt \in [Proc -> {1, 2}]
  /\ old \in [Proc -> Value]
  /\ new \in [Proc -> Value]
  /\ status \in [Proc -> Status]

\* p is between the creation of the lease file and its removal.
Holds(p) == pc[p] \in {"read", "write", "release"}

Goto(p, l) == pc' = [pc EXCEPT ![p] = l]
Mark(p, s) == status' = [status EXCEPT ![p] = s]
Stop(p, s) == Goto(p, "idle") /\ Mark(p, s)

Init ==
  /\ ref \in Value
  /\ lease = "none"
  /\ owner \in Proc
  /\ pc = [p \in Proc |-> "idle"]
  /\ attempt = [p \in Proc |-> 1]
  /\ old = [p \in Proc |-> NoOid]
  /\ new = [p \in Proc |-> NoOid]
  /\ status = [p \in Proc |-> "idle"]

-----------------------------------------------------------------------------
(***************************************************************************)
(* acquireFileLease                                                        *)
(***************************************************************************)
Begin(p, o, n) ==
  /\ pc[p] = "idle"
  /\ old' = [old EXCEPT ![p] = o]
  /\ new' = [new EXCEPT ![p] = n]
  /\ attempt' = [attempt EXCEPT ![p] = 1]
  /\ Goto(p, "create")
  /\ Mark(p, "called")
  /\ UNCHANGED <<ref, lease, owner>>

\* Mutated: the lease file is created without O_EXCL.
Creatable_WithoutExcl == TRUE

\* O_CREATE|O_EXCL succeeds only when there is no lease file.
Creatable == lease = "none"

CreateLease(p) ==
  /\ pc[p] = "create"
  /\ IF Creatable
     THEN lease' = "fresh" /\ owner' = p /\ Goto(p, "read")
     ELSE Goto(p, "stat") /\ UNCHANGED <<lease, owner>>
  /\ UNCHANGED <<ref, attempt, args, status>>

\* Mutated: a lease never grows too old to be respected.
Takeable_Never == FALSE

Takeable == lease = "stale"

\* A lease that is fresh, or gone by now, is a conflict at once.
StatLease(p) ==
  /\ pc[p] = "stat"
  /\ IF Takeable
     THEN Goto(p, "remove") /\ UNCHANGED status
     ELSE Stop(p, "conflict")
  /\ UNCHANGED <<ref, lease, owner, attempt, args>>

\* Mutated: the loop has no bound.
NextAttempt_Unbounded(p) ==
  /\ attempt' = [attempt EXCEPT ![p] = @ + 1]
  /\ Goto(p, "create")
  /\ UNCHANGED status

\* Mutated: an attempt is not counted.
NextAttempt_Uncounted(p) ==
  Goto(p, "create") /\ UNCHANGED <<attempt, status>>

\* Two attempts, then ErrConflict.
NextAttempt(p) ==
  IF attempt[p] = 1
  THEN /\ attempt' = [attempt EXCEPT ![p] = 2]
       /\ Goto(p, "create")
       /\ UNCHANGED status
  ELSE Stop(p, "conflict") /\ UNCHANGED attempt

\* Removes whatever lease is there by now: the one seen stale, or a newer one.
RemoveLease(p) ==
  /\ pc[p] = "remove"
  /\ lease' = "none"
  /\ NextAttempt(p)
  /\ UNCHANGED <<ref, owner, args>>

RemoveFails(p) ==
  /\ pc[p] = "remove"
  /\ Stop(p, "conflict")
  /\ UNCHANGED <<ref, lease, owner, attempt, args>>

-----------------------------------------------------------------------------
(***************************************************************************)
(* CompareAndSwapRef, once the lease is acquired                           *)
(***************************************************************************)

\* Mutated: an update that creates the ref does not look at the file.
Matches_CreateBlindly(p) == ref = old[p] \/ old[p] = NoOid

\* An absent ref matches the zero object id, any other only itself.
Matches(p) == ref = old[p]

ReadRef(p) ==
  /\ pc[p] = "read"
  /\ IF Matches(p)
     THEN Goto(p, "write") /\ UNCHANGED status
     ELSE Goto(p, "release") /\ Mark(p, "conflict")
  /\ UNCHANGED <<ref, lease, owner, attempt, args>>

\* Write renames a complete temporary file, Delete unlinks: both are atomic.
WriteRef(p) ==
  /\ pc[p] = "write"
  /\ ref' = new[p]
  /\ Goto(p, "release")
  /\ Mark(p, "applied")
  /\ UNCHANGED <<lease, owner, attempt, args>>

\* The deferred release: os.Remove, whoever created the file that is there.
ReleaseLease(p) ==
  /\ pc[p] = "release"
  /\ lease' = "none"
  /\ Stop(p, IF status[p] = "applied" THEN "ok" ELSE status[p])
  /\ UNCHANGED <<ref, owner, attempt, args>>

\* An I/O error or a cancelled context, before the ref file is replaced.
Fail(p) ==
  /\ \/ pc[p] = "create" /\ Stop(p, "failed")
     \/ pc[p] \in {"read", "write"} /\ Goto(p, "release") /\ Mark(p, "failed")
  /\ UNCHANGED <<ref, lease, owner, attempt, args>>

-----------------------------------------------------------------------------
(***************************************************************************)
(* The processes and the clock                                             *)
(***************************************************************************)
Crash(p) ==
  /\ pc[p] \notin {"idle", "down"}
  /\ Goto(p, "down")
  /\ Mark(p, IF status[p] \in {"called", "applied"} THEN "failed" ELSE status[p])
  /\ UNCHANGED <<ref, lease, owner, attempt, args>>

Restart(p) ==
  /\ pc[p] = "down"
  /\ Goto(p, "idle")
  /\ UNCHANGED <<ref, lease, owner, attempt, args, status>>

\* fileLeaseLifetime passes; only a lease whose creator is gone gets that old.
ExpireOrphan ==
  /\ lease = "fresh"
  /\ ~Holds(owner)
  /\ lease' = "stale"
  /\ UNCHANGED <<ref, owner, pc, attempt, args, status>>

\* fileLeaseLifetime passes while the creator is still at work: it is slow.
ExpireHeld ==
  /\ lease = "fresh"
  /\ Holds(owner)
  /\ lease' = "stale"
  /\ UNCHANGED <<ref, owner, pc, attempt, args, status>>

Step(p) ==
  \/ CreateLease(p) \/ StatLease(p) \/ RemoveLease(p) \/ RemoveFails(p)
  \/ ReadRef(p) \/ WriteRef(p) \/ ReleaseLease(p) \/ Fail(p)

Calls == \E p \in Proc, r \in Requests : Begin(p, r[1], r[2])
Steps == \E p \in Proc : Step(p) \/ Crash(p) \/ Restart(p)

\* No lease reaches its lifetime.
NoExpiryNext == Calls \/ Steps
NoExpirySpec == Init /\ [][NoExpiryNext]_vars

\* Leases outlive the processes that crashed holding them.
OrphanNext == NoExpiryNext \/ ExpireOrphan

\* Leases may also outlive their lifetime in the hands of a slow holder.
Next == OrphanNext \/ ExpireHeld
Spec == Init /\ [][Next]_vars

\* A process that runs is scheduled, and time passes.  Crashes and I/O errors
\* do not hit the acquisition of a lease every single time.
Fairness ==
  /\ \A p \in Proc :
       /\ WF_vars(Step(p))
       /\ SF_vars(CreateLease(p))
       /\ SF_vars(StatLease(p))
       /\ SF_vars(RemoveLease(p))
  /\ WF_vars(ExpireOrphan)

FairSpec == Spec /\ Fairness
OrphanSpec == Init /\ [][OrphanNext]_vars /\ Fairness

-----------------------------------------------------------------------------
(***************************************************************************)
(* Properties                                                              *)
(***************************************************************************)

\* Two processes are never both between acquireFileLease and its release.
LeaseExclusive == \A p, q \in Proc : Holds(p) /\ Holds(q) => p = q

\* A call is one atomic compare-and-swap, and its answer is true of it.
Abstract == INSTANCE AtomicRef WITH
  Proc <- Proc, Oid <- Oid, NoOid <- NoOid,
  ref <- ref, old <- old, new <- new, status <- status
ImplementsAtomicRef == Abstract!Spec

\* A writer whose expectation is stale does not replace the ref.
StaleWritersRejected ==
  [][\A p \in Proc :
       status[p] = "called" /\ status'[p] = "applied" => ref = old[p]]_vars

\* The lease is never waited for: whatever the other processes do, or leave
\* behind by crashing, a call returns unless its own process crashes.
CallsReturn ==
  \A p \in Proc : pc[p] \notin {"idle", "down"} ~> pc[p] \in {"idle", "down"}

\* A lease left behind by a crash does not block the ref forever, as long as
\* somebody keeps asking for it.
Orphaned == lease # "none" /\ ~Holds(owner)
OrphanIsTakenOver ==
  []<>(\E p \in Proc : pc[p] = "create") => (Orphaned ~> ~Orphaned)
=============================================================================
