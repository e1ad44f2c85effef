---------------------- MODULE ConditionalRefStoreProofs ----------------------
(***************************************************************************)
(* For any set of callers, object ids and requests, and however often the  *)
(* library sends a request: the S3 and GCS stores replace a ref only when  *)
(* it holds what the caller expected; and when a request is sent once,     *)
(* their CompareAndSwapRef is an atomic compare-and-swap.                  *)
(***************************************************************************)
EXTENDS ConditionalRefStore, TLAPS

(***************************************************************************)
(* The inductive invariant: a caller about to send its request has fetched *)
(* the content it expected, and as long as the object still has the tag it *)
(* had then, it also has that content.                                     *)
(***************************************************************************)
Types ==
  /\ tags \in {"etag", "generation"}
  /\ attempts \in 1..MaxSends
  /\ ref \in Value
  /\ gen \in Nat
  /\ pc \in [Proc -> {"idle", "attrs", "fetch", "send", "reply", "done"}]
  /\ seen \in [Proc -> [oid : Value, gen : Nat]]
  /\ sends \in [Proc -> Nat]
  /\ old \in [Proc -> Value]
  /\ new \in [Proc -> Value]
  /\ status \in [Proc -> {"idle", "called", "applied", "ok", "conflict", "failed"}]
  /\ applied \in [Proc -> Nat]

Fetched(p) ==
  /\ seen[p].oid = old[p]
  /\ tags = "generation" /\ ref # NoOid /\ seen[p].oid # NoOid /\ seen[p].gen = gen
       => ref = seen[p].oid

IInv ==
  /\ Types
  /\ \A p \in Proc : seen[p].gen <= gen
  /\ \A p \in Proc : pc[p] \in {"send", "reply"} => Fetched(p)

\* A request whose condition holds finds the ref as the caller expects it.
LEMMA ConditionIsEnough ==
  ASSUME IInv, NEW p \in Proc, pc[p] = "send", Condition(p)
  PROVE  ref = old[p]
  BY DEF IInv, Types, Fetched, Condition

\* The invariant holds before any call.
LEMMA InitInvariant == Init => IInv
  BY DEF Init, IInv, Types, Value, NoSeen, Fetched

\* Every request and every lost reply preserves the invariant.
LEMMA StepInvariant == IInv /\ [Next]_vars => IInv'
<1> SUFFICES ASSUME IInv, [Next]_vars PROVE IInv'
  OBVIOUS
<1>0. UNCHANGED <<tags, attempts>>
  BY DEF Next, vars, deployment
<1> USE <1>0 DEF IInv, Types, Fetched, Value, Goto, Mark, Stop, args, bucket, NoSeen
<1>1. ASSUME NEW p \in Proc, NEW r \in Requests, Begin(p, r[1], r[2])
      PROVE  IInv'
  <2>1. r[1] \in Value /\ r[2] \in Value
    BY RequestsAssumption
  <2>2. QED
    BY <1>1, <2>1 DEF Begin
<1>2. ASSUME NEW p \in Proc, FetchAttrs(p) PROVE IInv'
  <2>1. PICK s \in {"idle", "send", "done", "fetch"}, t \in {"conflict", "applied", status[p]} :
          /\ pc' = [pc EXCEPT ![p] = s]
          /\ status' = [status EXCEPT ![p] = t]
          /\ s = "send" => ref = NoOid /\ old[p] = NoOid
    <3>1. CASE ref = NoOid
      BY <1>2, <3>1 DEF FetchAttrs, Compare
    <3>2. CASE ref # NoOid
      BY <1>2, <3>2 DEF FetchAttrs
    <3>3. QED
      BY <3>1, <3>2
  <2>2. QED
    BY <1>2, <2>1 DEF FetchAttrs
<1>3. ASSUME NEW p \in Proc, FetchContent(p) PROVE IInv'
  <2>1. PICK s \in {"idle", "send", "done"}, t \in {"conflict", "applied", "failed", status[p]},
             x \in {seen[p], [oid |-> ref, gen |-> gen]} :
          /\ pc' = [pc EXCEPT ![p] = s]
          /\ status' = [status EXCEPT ![p] = t]
          /\ seen' = [seen EXCEPT ![p] = x]
          /\ s = "send" => ref = old[p] /\ x = [oid |-> ref, gen |-> gen]
    BY <1>3 DEF FetchContent, Compare
  <2>2. Types' /\ x \in [oid : Value, gen : Nat] /\ x.gen <= gen
    BY <1>3, <2>1 DEF FetchContent
  <2>3. UNCHANGED <<ref, gen, old>>
    BY <1>3 DEF FetchContent
  <2>4. \A q \in Proc : q # p => pc'[q] = pc[q] /\ seen'[q] = seen[q]
    BY <2>1
  <2>5. pc'[p] = s /\ seen'[p] = x
    BY <2>1
  <2>6. QED
    BY <2>1, <2>2, <2>3, <2>4, <2>5
<1>4. ASSUME NEW p \in Proc, Send(p), Accepted(p) PROVE IInv'
  <2>1. ref' \in Value /\ gen' \in Nat
    BY <1>4 DEF Accepted, Replace
  <2>2. Types'
    BY <1>4, <2>1 DEF Send, Accepted, Replace
  <2>3. \/ gen' = gen + 1
        \/ gen' = gen /\ ref' = NoOid
    BY <1>4 DEF Accepted, Replace
  <2>4. \A q \in Proc : pc'[q] \in {"send", "reply"} => pc[q] \in {"send", "reply"}
    BY <1>4 DEF Send, Accepted
  <2>5. seen' = seen /\ old' = old
    BY <1>4 DEF Send
  <2>6. QED
    BY <2>2, <2>3, <2>4, <2>5
<1>5. ASSUME NEW p \in Proc, Send(p), Refused(p) \/ Lost(p) PROVE IInv'
  <2>1. PICK s \in {"idle", "send"}, t \in {"conflict", "failed", status[p]} :
          /\ pc' = [pc EXCEPT ![p] = s]
          /\ status' = [status EXCEPT ![p] = t]
    BY <1>5 DEF Refused, Lost, NoReply
  <2>2. QED
    BY <1>5, <2>1 DEF Send, Refused, Lost
<1>6. ASSUME NEW p \in Proc, Reply(p) \/ Done(p) \/ Fail(p) PROVE IInv'
  <2>1. PICK s \in {"idle", "send"}, t \in {"ok", "failed", status[p]} :
          /\ pc' = [pc EXCEPT ![p] = s]
          /\ status' = [status EXCEPT ![p] = t]
          /\ s = "send" => pc[p] = "reply"
    BY <1>6 DEF Reply, Done, Fail, NoReply
  <2>2. QED
    BY <1>6, <2>1 DEF Reply, Done, Fail
<1>7. CASE UNCHANGED vars
  BY <1>7 DEF vars
<1>8. QED
  BY <1>1, <1>2, <1>3, <1>4, <1>5, <1>6, <1>7 DEF Next, Step, Send

LEMMA Invariant == Spec => []IInv
  BY InitInvariant, StepInvariant, PTL DEF Spec

-----------------------------------------------------------------------------
\* The bucket replaces a ref only when it holds what the caller expected,
\* however often the request is sent (CompareAndSwapRef of store/s3, store/gcs).
THEOREM StaleWritersAreRejected == Spec => StaleWritersRejected
<1> DEFINE A == \A p \in Proc : applied'[p] > applied[p] => ref = old[p]
<1>1. IInv /\ [Next]_vars => [A]_vars
  <2> SUFFICES ASSUME IInv, Next, NEW q \in Proc, applied'[q] > applied[q]
               PROVE  ref = old[q]
    OBVIOUS
  <2> USE DEF IInv, Types, Goto, Mark, Stop, args, bucket
  <2>1. ASSUME NEW p \in Proc, NEW r \in Requests, Begin(p, r[1], r[2])
        PROVE  FALSE
    BY <2>1 DEF Begin
  <2>2. ASSUME NEW p \in Proc, FetchAttrs(p) \/ FetchContent(p) PROVE FALSE
    BY <2>2 DEF FetchAttrs, FetchContent
  <2>3. ASSUME NEW p \in Proc, Send(p), Accepted(p) PROVE ref = old[q]
    <3>1. q = p
      BY <2>3 DEF Send, Accepted, Replace
    <3>2. QED
      BY <2>3, <3>1, ConditionIsEnough DEF Send, Accepted
  <2>4. ASSUME NEW p \in Proc, Send(p), Refused(p) \/ Lost(p) PROVE FALSE
    BY <2>4 DEF Refused, Lost
  <2>5. ASSUME NEW p \in Proc, Reply(p) \/ Done(p) \/ Fail(p) PROVE FALSE
    BY <2>5 DEF Reply, Done, Fail
  <2>6. QED
    BY <2>1, <2>2, <2>3, <2>4, <2>5 DEF Next, Step, Send
<1>2. QED
  BY <1>1, Invariant, PTL DEF Spec, StaleWritersRejected

-----------------------------------------------------------------------------
(***************************************************************************)
(* A request that is sent once: the second part of the invariant says how  *)
(* far each call is.                                                       *)
(***************************************************************************)
Progress ==
  \A p \in Proc :
    /\ pc[p] = "idle" => status[p] \notin {"called", "applied"}
    /\ pc[p] \in {"attrs", "fetch", "send"} => status[p] = "called" /\ sends[p] = 0
    /\ pc[p] = "reply" => status[p] = "applied" /\ sends[p] = 1
    /\ pc[p] = "done" => status[p] = "applied"

Once == attempts = 1 => Progress

\* Progress is inductive when a lost reply ends the call.
LEMMA StepProgress == IInv /\ Once /\ [Next]_vars => Once'
<1> SUFFICES ASSUME IInv, Once, [Next]_vars, attempts' = 1 PROVE Progress'
  BY DEF Once
<1>0. attempts = 1 /\ Progress
  BY DEF Next, Once, vars, deployment
<1> USE <1>0
<1> USE DEF IInv, Types, Progress, Goto, Mark, Stop, args, bucket
<1>1. ASSUME NEW p \in Proc, NEW r \in Requests, Begin(p, r[1], r[2])
      PROVE  Progress'
  BY <1>1 DEF Begin
<1>2. ASSUME NEW p \in Proc, FetchAttrs(p) PROVE Progress'
  <2>1. CASE ref = NoOid
    BY <1>2, <2>1 DEF FetchAttrs, Compare
  <2>2. CASE ref # NoOid
    BY <1>2, <2>2 DEF FetchAttrs
  <2>3. QED
    BY <2>1, <2>2
<1>3. ASSUME NEW p \in Proc, FetchContent(p) PROVE Progress'
  BY <1>3 DEF FetchContent, Compare
<1>4. ASSUME NEW p \in Proc, Send(p) PROVE Progress'
  BY <1>4 DEF Send, Accepted, Replace, Refused, Lost, NoReply
<1>5. ASSUME NEW p \in Proc, Reply(p) \/ Done(p) \/ Fail(p) PROVE Progress'
  BY <1>5 DEF Reply, Done, Fail, NoReply
<1>6. CASE UNCHANGED vars
  BY <1>6 DEF vars
<1>7. QED
  BY <1>1, <1>2, <1>3, <1>4, <1>5, <1>6 DEF Next, Step

\* Every request and reply is a step of the atomic compare-and-swap.
LEMMA StepRefines ==
  IInv /\ Once /\ [Next]_vars
    => [attempts = 1 => Abstract!Next]_(Abstract!vars)
<1> SUFFICES ASSUME IInv, Progress, [Next]_vars, attempts = 1
             PROVE  Abstract!Next \/ UNCHANGED Abstract!vars
  BY DEF Once
<1> USE DEF IInv, Types, Progress, Goto, Mark, Stop, args, bucket, Abstract!vars
<1>1. ASSUME NEW p \in Proc, NEW r \in Requests, Begin(p, r[1], r[2])
      PROVE  Abstract!Next
  <2>1. r[1] \in Abstract!Value /\ r[2] \in Abstract!Value
    BY RequestsAssumption DEF Value, Abstract!Value
  <2>2. Abstract!Begin(p, r[1], r[2])
    BY <1>1 DEF Begin, Abstract!Begin, Abstract!AtRest
  <2>3. QED
    BY <2>1, <2>2 DEF Abstract!Next
<1>2. ASSUME NEW p \in Proc, status[p] = "called",
             UNCHANGED <<ref, old, new>>,
             \/ UNCHANGED status
             \/ status' = [status EXCEPT ![p] = "conflict"]
             \/ status' = [status EXCEPT ![p] = "failed"]
             \/ /\ status' = [status EXCEPT ![p] = "applied"]
                /\ ref = old[p] /\ ref = new[p]
      PROVE  Abstract!Next \/ UNCHANGED Abstract!vars
  BY <1>2 DEF Abstract!Next, Abstract!Answer, Abstract!InProgress, Abstract!Apply
<1>3. ASSUME NEW p \in Proc, FetchAttrs(p)
      PROVE  Abstract!Next \/ UNCHANGED Abstract!vars
  <2>1. CASE ref = NoOid
    BY <1>2, <1>3, <2>1 DEF FetchAttrs, Compare
  <2>2. CASE ref # NoOid
    BY <1>2, <1>3, <2>2 DEF FetchAttrs
  <2>3. QED
    BY <2>1, <2>2
<1>4. ASSUME NEW p \in Proc, FetchContent(p)
      PROVE  Abstract!Next \/ UNCHANGED Abstract!vars
  BY <1>2, <1>4 DEF FetchContent, Compare
<1>5. ASSUME NEW p \in Proc, Send(p), Accepted(p)
      PROVE  Abstract!Next
  <2>1. Abstract!Apply(p)
    BY <1>5, ConditionIsEnough DEF Send, Accepted, Replace, Abstract!Apply
  <2>2. QED
    BY <2>1 DEF Abstract!Next
<1>6. ASSUME NEW p \in Proc, Send(p), Refused(p) \/ Lost(p)
      PROVE  Abstract!Next \/ UNCHANGED Abstract!vars
  BY <1>2, <1>6 DEF Send, Refused, Lost, NoReply
<1>7. ASSUME NEW p \in Proc, Reply(p) \/ Done(p) \/ Fail(p)
      PROVE  Abstract!Next
  <2>1. Abstract!Answer(p)
    BY <1>7 DEF Reply, Done, Fail, NoReply, Abstract!Answer, Abstract!InProgress
  <2>2. QED
    BY <2>1 DEF Abstract!Next
<1>8. CASE UNCHANGED vars
  BY <1>8 DEF vars
<1>9. QED
  BY <1>1, <1>3, <1>4, <1>5, <1>6, <1>7, <1>8 DEF Next, Step, Send

\* When the library sends a request once, CompareAndSwapRef of the S3 and GCS
\* stores is an atomic compare-and-swap, with either kind of tag.
THEOREM SentOnceIsAtomic == Spec => ImplementsAtomicRef
<1>1. Init => Once
  BY DEF Init, Once, Progress
<1>2. Init => Abstract!Init
  BY DEF Init, Abstract!Init, Value, Abstract!Value
<1>3. IInv /\ Once /\ [Next]_vars => Once'
  BY StepProgress
<1>4. IInv /\ Once /\ [Next]_vars
        => [attempts = 1 => Abstract!Next]_(Abstract!vars)
  BY StepRefines
<1>5. QED
  BY <1>1, <1>2, <1>3, <1>4, Invariant, PTL DEF Spec, ImplementsAtomicRef

-----------------------------------------------------------------------------
(***************************************************************************)
(* How often a request is sent and applied. A request that has been        *)
(* applied leaves no object, or one of a later generation than it names.   *)
(***************************************************************************)
Counts ==
  /\ gen <= MaxGen
  /\ \A p \in Proc :
       /\ sends[p] <= attempts
       /\ applied[p] <= sends[p]
       /\ pc[p] = "send" => sends[p] < attempts
       /\ pc[p] \in {"attrs", "fetch"} => sends[p] = 0

Spent(p) ==
  tags = "generation" /\ old[p] # NoOid /\ applied[p] > 0
    => /\ applied[p] = 1
       /\ ref = NoOid \/ seen[p].gen < gen

\* Every request sent is counted, and none is sent beyond the limit.
LEMMA StepCounts == IInv /\ Counts /\ [Next]_vars => Counts'
<1> SUFFICES ASSUME IInv, Counts, [Next]_vars PROVE Counts'
  OBVIOUS
<1> USE SendsAssumption, GenAssumption
    DEF IInv, Types, Counts, Goto, Mark, Stop, args, bucket, deployment
<1>1. ASSUME NEW p \in Proc, NEW r \in Requests, Begin(p, r[1], r[2]),
             UNCHANGED deployment
      PROVE  Counts'
  BY <1>1 DEF Begin
<1>2. ASSUME NEW p \in Proc, FetchAttrs(p), UNCHANGED deployment PROVE Counts'
  BY <1>2 DEF FetchAttrs, Compare
<1>3. ASSUME NEW p \in Proc, FetchContent(p), UNCHANGED deployment PROVE Counts'
  BY <1>3 DEF FetchContent, Compare
<1>4. ASSUME NEW p \in Proc, Send(p), UNCHANGED deployment PROVE Counts'
  BY <1>4 DEF Send, Accepted, Replace, Refused, Lost, NoReply
<1>5. ASSUME NEW p \in Proc, Reply(p) \/ Done(p) \/ Fail(p), UNCHANGED deployment
      PROVE  Counts'
  BY <1>5 DEF Reply, Done, Fail, NoReply
<1>6. CASE UNCHANGED vars
  BY <1>6 DEF vars
<1>7. QED
  BY <1>1, <1>2, <1>3, <1>4, <1>5, <1>6 DEF Next, Step

\* A spent request stays spent: the bucket never gives a generation twice.
LEMMA StepSpent ==
  IInv /\ Counts /\ (\A p \in Proc : Spent(p)) /\ [Next]_vars
    => (\A p \in Proc : Spent(p))'
<1> SUFFICES ASSUME IInv, Counts, \A p \in Proc : Spent(p), [Next]_vars,
                    NEW q \in Proc
             PROVE  Spent(q)'
  OBVIOUS
<1> USE DEF IInv, Types, Counts, Spent, Goto, Mark, Stop, args, bucket, deployment
<1>1. ASSUME NEW p \in Proc, NEW r \in Requests, Begin(p, r[1], r[2]),
             UNCHANGED deployment
      PROVE  Spent(q)'
  BY <1>1 DEF Begin
<1>2. ASSUME NEW p \in Proc, FetchAttrs(p) \/ FetchContent(p), UNCHANGED deployment
      PROVE  Spent(q)'
  <2>1. applied[p] = 0
    BY <1>2 DEF FetchAttrs, FetchContent
  <2>2. CASE q = p
    BY <1>2, <2>1, <2>2 DEF FetchAttrs, FetchContent
  <2>3. CASE q # p
    <3>1. seen'[q] = seen[q]
      BY <1>2, <2>3 DEF FetchAttrs, FetchContent
    <3>2. QED
      BY <1>2, <3>1 DEF FetchAttrs, FetchContent
  <2>4. QED
    BY <2>2, <2>3
<1>3. ASSUME NEW p \in Proc, Send(p), Accepted(p), UNCHANGED deployment
      PROVE  Spent(q)'
  <2>1. (ref' = NoOid /\ gen' = gen) \/ gen' = gen + 1
    BY <1>3 DEF Accepted, Replace
  <2>2. seen[q].gen <= gen /\ gen \in Nat /\ seen[q].gen \in Nat
    OBVIOUS
  <2>3. CASE q = p
    <3>1. tags = "generation" /\ old[p] # NoOid => applied[p] = 0
      BY <1>3 DEF Send, Accepted, Condition, Fetched
    <3>2. applied'[p] = applied[p] + 1
      BY <1>3 DEF Accepted, Replace
    <3>3. UNCHANGED <<tags, old, seen>>
      BY <1>3 DEF Send
    <3>4. QED
      BY <2>1, <2>2, <2>3, <3>1, <3>2, <3>3
  <2>4. CASE q # p
    BY <1>3, <2>1, <2>2, <2>4 DEF Send, Accepted, Replace
  <2>5. QED
    BY <2>3, <2>4
<1>4. ASSUME NEW p \in Proc, Send(p), Refused(p) \/ Lost(p), UNCHANGED deployment
      PROVE  Spent(q)'
  BY <1>4 DEF Send, Refused, Lost
<1>5. ASSUME NEW p \in Proc, Reply(p) \/ Done(p) \/ Fail(p), UNCHANGED deployment
      PROVE  Spent(q)'
  BY <1>5 DEF Reply, Done, Fail
<1>6. CASE UNCHANGED vars
  BY <1>6 DEF vars
<1>7. QED
  BY <1>1, <1>2, <1>3, <1>4, <1>5, <1>6 DEF Next, Step, Send

LEMMA Counting == Spec => [](IInv /\ Counts /\ \A p \in Proc : Spent(p))
<1>1. Init => Counts /\ \A p \in Proc : Spent(p)
  BY SendsAssumption, GenAssumption DEF Init, Counts, Spent
<1>2. QED
  BY <1>1, InitInvariant, StepInvariant, StepCounts, StepSpent, PTL DEF Spec

\* Every state of any number of calls is of the declared types, the bounds on
\* requests and generations included.
THEOREM ConditionalTypes == Spec => []TypeOK
<1>1. IInv /\ Counts => TypeOK
  <2> SUFFICES ASSUME IInv, Counts PROVE TypeOK
    OBVIOUS
  <2> USE GenAssumption, SendsAssumption DEF IInv, Types, Counts
  <2>1. ASSUME NEW p \in Proc PROVE seen[p] \in [oid : Value, gen : 0..MaxGen]
    <3>1. seen[p] \in [oid : Value, gen : Nat]
      OBVIOUS
    <3>2. seen[p].gen \in 0..MaxGen
      BY <3>1
    <3>3. QED
      BY <3>1, <3>2
  <2>2. seen \in [Proc -> [oid : Value, gen : 0..MaxGen]]
    BY <2>1
  <2>3. sends \in [Proc -> 0..attempts] /\ applied \in [Proc -> 0..attempts]
    OBVIOUS
  <2>4. QED
    BY <2>2, <2>3 DEF TypeOK
<1>2. QED
  BY <1>1, Counting, PTL

\* However often GCS is sent the request of one call to replace or delete a
\* generation, it is applied once at most, although the ref may have come back.
THEOREM NothingIsAppliedTwice == Spec => []AppliedAtMostOnce
<1>1. IInv /\ (\A p \in Proc : Spent(p)) => AppliedAtMostOnce
  BY DEF IInv, Types, Spent, AppliedAtMostOnce
<1>2. QED
  BY <1>1, Counting, PTL
=============================================================================
