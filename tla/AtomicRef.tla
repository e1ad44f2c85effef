------------------------------ MODULE AtomicRef ------------------------------
(***************************************************************************)
(* What store.RefStore promises its callers of CompareAndSwapRef           *)
(* (store/store.go), for one ref: a call takes effect at one instant       *)
(* between its start and its answer, and then only if the ref holds the    *)
(* value the caller expected; "ok" is answered by a call that took effect, *)
(* "conflict" (store.ErrConflict) by one that did not, and "failed" (any   *)
(* other error, or a caller that died) says nothing of the ref.            *)
(* store.CompareAndSwap makes the same promise for one metadata object.    *)
(***************************************************************************)
CONSTANTS
  Proc,   \* the callers: processes that share the store
  Oid,    \* the values a ref may hold
  NoOid   \* no value: the ref does not exist (the zero object id)

VARIABLES
  ref,    \* the value of the ref, or NoOid
  old,    \* old[p]: the value p's current call expects
  new,    \* new[p]: the value p's current call asks for
  status  \* status[p]: how far p's current call is, or how its last one ended

vars == <<ref, old, new, status>>

Value == Oid \cup {NoOid}
AtRest == {"idle", "ok", "conflict", "failed"}
InProgress == {"called", "applied"}

Init ==
  /\ ref \in Value
  /\ old = [p \in Proc |-> NoOid]
  /\ new = [p \in Proc |-> NoOid]
  /\ status = [p \in Proc |-> "idle"]

Begin(p, o, n) ==
  /\ status[p] \in AtRest
  /\ old' = [old EXCEPT ![p] = o]
  /\ new' = [new EXCEPT ![p] = n]
  /\ status' = [status EXCEPT ![p] = "called"]
  /\ UNCHANGED ref

\* The linearization point.
Apply(p) ==
  /\ status[p] = "called"
  /\ ref = old[p]
  /\ ref' = new[p]
  /\ status' = [status EXCEPT ![p] = "applied"]
  /\ UNCHANGED <<old, new>>

\* A call may be refused at any time: the lease of a store is not waited for.
Answer(p) ==
  /\ \/ status[p] = "applied" /\ status' = [status EXCEPT ![p] = "ok"]
     \/ status[p] = "called" /\ status' = [status EXCEPT ![p] = "conflict"]
     \/ status[p] \in InProgress /\ status' = [status EXCEPT ![p] = "failed"]
  /\ UNCHANGED <<ref, old, new>>

Next ==
  \E p \in Proc :
    \/ \E o, n \in Value : Begin(p, o, n)
    \/ Apply(p)
    \/ Answer(p)

Spec == Init /\ [][Next]_vars
=============================================================================
