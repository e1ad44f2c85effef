-------------------------- MODULE ReceivePackProofs --------------------------
(***************************************************************************)
(* For any number of pushes, refs and commits, and any commit graph: ref   *)
(* updates are fast-forwards and name objects that are there, and pushes   *)
(* with complete packs keep the history of every ref complete.             *)
(***************************************************************************)
EXTENDS Pushes, TLAPS

(***************************************************************************)
(* What validateCommand found for a command stays true until the command   *)
(* is applied: it speaks of the ids in the command and of objects that are *)
(* not removed, and not of the refs. The comparison with the ref itself is *)
(* left to CompareAndSwapRef.                                              *)
(***************************************************************************)
ValidatedObjects ==
  \A s \in Session : pc[s] = "apply" =>
    \A r \in todo[s] : want[s][r] # NoOid => want[s][r] \in objects

ValidatedDescent ==
  \A s \in Session : pc[s] = "apply" =>
    \A r \in todo[s] \cap Heads :
      base[s][r] # NoOid /\ want[s][r] # NoOid => base[s][r] \in Ancestors(want[s][r])

IInv == TypeOK /\ ValidatedObjects /\ ValidatedDescent /\ NoDanglingRef

-----------------------------------------------------------------------------
(***************************************************************************)
(* The commit graph                                                        *)
(***************************************************************************)

\* A walk meets its start.
LEMMA ReachSelf ==
  ASSUME NEW o \in Oid, NEW present PROVE o \in Reach(o, present)
  BY DEF Reach

\* A walk that cannot load every commit meets nothing but ancestors.
LEMMA ReachIsAncestry ==
  ASSUME NEW o \in Oid, NEW present \in SUBSET Oid
  PROVE  Reach(o, present) \subseteq Ancestors(o)
<1> SUFFICES ASSUME NEW x \in Reach(o, present) PROVE x \in Ancestors(o)
  OBVIOUS
<1>1. ASSUME NEW C \in SUBSET Oid, o \in C,
             \A c \in C \cap Oid : Parents[c] \subseteq C
      PROVE  x \in C
  <2>1. \A c \in C \cap present : Parents[c] \subseteq C
    BY <1>1
  <2>2. QED
    BY <1>1, <2>1 DEF Reach
<1>2. x \in Oid
  BY DEF Reach
<1>3. QED
  BY <1>1, <1>2 DEF Ancestors, Reach

\* A history is made of the ancestors of its values.
LEMMA HistoryIsAncestry ==
  ASSUME NEW S, NEW f
  PROVE  /\ History(Values(f, S)) \subseteq Oid
         /\ \A X : History(Values(f, S)) \subseteq X <=>
                     \A r \in S : f[r] # NoOid => Ancestors(f[r]) \subseteq X
  BY DEF History, Values, Ancestors, Reach

-----------------------------------------------------------------------------
LEMMA InitInvariant == Init => IInv
<1> SUFFICES ASSUME Init PROVE IInv
  OBVIOUS
<1>1. objects \subseteq Oid
  BY HistoryIsAncestry DEF Init
<1>2. TypeOK
  BY <1>1, NoOidAssumption DEF Init, TypeOK, PC, NoRefs, Value
<1>3. NoDanglingRef
  <2> SUFFICES ASSUME NEW r \in Ref, refs[r] # NoOid PROVE refs[r] \in objects
    BY DEF NoDanglingRef
  <2>1. Ancestors(refs[r]) \subseteq objects
    BY HistoryIsAncestry DEF Init
  <2>2. refs[r] \in Oid
    BY DEF Init, Value
  <2>3. QED
    BY <2>1, <2>2, ReachSelf DEF Ancestors
<1>4. QED
  BY <1>2, <1>3 DEF Init, IInv, ValidatedObjects, ValidatedDescent

\* Whatever the pack, a request is of the right type.
LEMMA SendTypes ==
  ASSUME TypeOK, NEW s \in Session, AnySend(s) \/ FullSend(s)
  PROVE  TypeOK'
<1> USE DEF TypeOK, PC, Send, Goto, store, listing, answer
<1>1. CASE AnySend(s)
  BY <1>1 DEF AnySend
<1>2. CASE FullSend(s)
  <2>1. PICK C \in SUBSET Ref, w \in [Ref -> Value], a \in BOOLEAN :
          Send(s, C, w, a, CompletePack(s, C, w))
    BY <1>2 DEF FullSend
  <2>2. CompletePack(s, C, w) \subseteq Oid
    BY HistoryIsAncestry DEF CompletePack
  <2>3. QED
    BY <2>1, <2>2
<1>3. QED
  BY <1>1, <1>2

\* One swap leaves everything of its type.
LEMMA SwapTypes ==
  ASSUME TypeOK, NEW s \in Session, NEW r \in Ref, Swap(s, r)
  PROVE  TypeOK'
<1> USE DEF store, request, listing, answer
<1>1. errors' \in [Session -> [Ref -> {"none", "rejected", "atomic", "conflict", "failed"}]]
  <2>1. PICK e \in {"conflict", "failed"} :
          errors' = errors \/ errors' = [errors EXCEPT ![s][r] = e]
    BY DEF Swap
  <2>2. CASE errors' = errors
    BY <2>2 DEF TypeOK
  <2>3. CASE errors' = [errors EXCEPT ![s][r] = e]
    BY <2>3 DEF TypeOK
  <2>4. QED
    BY <2>1, <2>2, <2>3
<1>2. refs' \in [Ref -> Value] /\ applied' \in [Session -> SUBSET Ref]
  <2>1. want[s][r] \in Value
    BY DEF TypeOK
  <2>2. CASE SetRef(s, r)
    BY <2>1, <2>2 DEF SetRef, TypeOK
  <2>3. CASE UNCHANGED <<refs, applied>>
    BY <2>3 DEF TypeOK
  <2>4. QED
    BY <2>2, <2>3 DEF Swap
<1>3. todo' \in [Session -> SUBSET Ref]
  BY DEF Swap, TypeOK
<1>4. QED
  BY <1>1, <1>2, <1>3 DEF Swap, TypeOK

LEMMA ValidateTypes ==
  ASSUME TypeOK, NEW s \in Session, NEW R \in SUBSET Ref, Validate(s, R)
  PROVE  TypeOK'
  BY DEF Validate, Reject, TypeOK, PC, NoRefs, Value, Goto, store, request

\* A report without command errors is a report.
LEMMA AbortTypes ==
  ASSUME TypeOK, NEW s \in Session, UnpackFails(s) \/ ListFails(s)
  PROVE  TypeOK'
<1> USE DEF store, Goto, PC, NoRefs, Value
<1>1. AllOk(s) \in [Ref -> {"none", "ok", "ng"}]
  BY DEF AllOk
<1>2. CASE UnpackFails(s)
  BY <1>1, <1>2 DEF UnpackFails, Discard, TypeOK
<1>3. CASE ListFails(s)
  BY <1>1, <1>3 DEF ListFails, Discard, TypeOK
<1>4. QED
  BY <1>2, <1>3

\* A command that is not rejected may be applied.
LEMMA ValidateEstablishes ==
  ASSUME TypeOK, NEW s \in Session, NEW R \in SUBSET Ref, Validate(s, R),
         NEW r \in todo'[s]
  PROVE  /\ r \in Ref
         /\ want[s][r] # NoOid => want[s][r] \in objects
         /\ r \in Heads /\ base[s][r] # NoOid /\ want[s][r] # NoOid =>
              base[s][r] \in Ancestors(want[s][r])
<1>1. r \in cmds[s] \ R
  BY DEF Validate, Reject, TypeOK
<1>2. TRUE \in Verdicts(s, r)
  BY <1>1 DEF Validate
<1>3. r \in Ref
  BY <1>1 DEF TypeOK
<1>4. ASSUME want[s][r] # NoOid PROVE want[s][r] \in objects
  BY <1>2, <1>4 DEF Verdicts, Present
<1>5. ASSUME r \in Heads, base[s][r] # NoOid, want[s][r] # NoOid
      PROVE  base[s][r] \in Ancestors(want[s][r])
  <2>1. want[s][r] \in Oid
    BY <1>3, <1>5 DEF TypeOK, Value
  <2>2. TRUE \in FastForward(base[s][r], want[s][r])
    BY <1>2, <1>5 DEF Verdicts
  <2>3. base[s][r] \in Reach(want[s][r], objects)
    BY <2>2 DEF FastForward
  <2>4. QED
    BY <2>1, <2>3, ReachIsAncestry DEF TypeOK
<1>6. QED
  BY <1>3, <1>4, <1>5

LEMMA StepInvariant == IInv /\ [Next]_vars => IInv'
<1> SUFFICES ASSUME IInv, [Next]_vars PROVE IInv'
  OBVIOUS
<1> USE DEF IInv, ValidatedObjects, ValidatedDescent, NoDanglingRef, Goto,
            store, request, listing, answer
<1>1. ASSUME NEW s \in Session, AnySend(s) \/ FullSend(s) PROVE IInv'
  <2>1. TypeOK'
    BY <1>1, SendTypes
  <2>2. PICK C, w, a, pack : Send(s, C, w, a, pack)
    BY <1>1 DEF AnySend, FullSend
  <2>3. QED
    BY <2>1, <2>2 DEF Send, TypeOK
<1>2. ASSUME NEW s \in Session, NEW r \in Ref, Swap(s, r) PROVE IInv'
  <2>1. TypeOK'
    BY <1>2, SwapTypes
  <2>2. NoDanglingRef'
    BY <1>2 DEF Swap, SetRef, TypeOK
  <2>3. QED
    BY <1>2, <2>1, <2>2 DEF Swap, TypeOK
<1>3. ASSUME NEW s \in Session, NEW R \in SUBSET Ref, Validate(s, R) PROVE IInv'
  <2>1. TypeOK'
    BY <1>3, ValidateTypes
  <2>2. \A r \in todo'[s] :
          /\ want[s][r] # NoOid => want[s][r] \in objects
          /\ r \in Heads /\ base[s][r] # NoOid /\ want[s][r] # NoOid =>
               base[s][r] \in Ancestors(want[s][r])
    BY <1>3, ValidateEstablishes
  <2>3. QED
    BY <1>3, <2>1, <2>2 DEF Validate, Reject, TypeOK
<1>4. ASSUME NEW s \in Session, NEW o \in Oid, StoreObject(s, o) PROVE IInv'
  BY <1>4 DEF StoreObject, TypeOK
<1>5. ASSUME NEW s \in Session, NEW r \in Ref, ListRef(s, r) PROVE IInv'
  BY <1>5 DEF ListRef, TypeOK
<1>6. ASSUME NEW s \in Session, Connect(s) \/ EndUnpack(s) PROVE IInv'
  <2>1. CASE Connect(s)
    BY <2>1 DEF Connect, TypeOK, PC
  <2>2. CASE EndUnpack(s)
    <3>1. NoRefs \in [Ref -> Value]
      BY DEF NoRefs, Value
    <3>2. TypeOK'
      BY <2>2, <3>1 DEF EndUnpack, TypeOK, PC
    <3>3. QED
      BY <2>2, <3>2 DEF EndUnpack, TypeOK
  <2>3. QED
    BY <1>6, <2>1, <2>2
<1>7. ASSUME NEW s \in Session, UnpackFails(s) \/ ListFails(s) PROVE IInv'
  <2>1. TypeOK'
    BY <1>7, AbortTypes
  <2>2. /\ UNCHANGED store
        /\ pc'[s] # "apply"
        /\ \A t \in Session \ {s} :
             /\ pc'[t] = pc[t]
             /\ todo'[t] = todo[t]
             /\ want'[t] = want[t]
             /\ base'[t] = base[t]
    <3>1. CASE UnpackFails(s)
      BY <3>1 DEF UnpackFails, Discard, TypeOK
    <3>2. CASE ListFails(s)
      BY <3>2 DEF ListFails, Discard, TypeOK
    <3>3. QED
      BY <1>7, <3>1, <3>2
  <2>3. QED
    BY <2>1, <2>2
<1>8. ASSUME NEW s \in Session, Report(s) PROVE IInv'
  BY <1>8 DEF Report, Line, TypeOK, PC, NoRefs, Value
<1>9. ASSUME NEW s \in Session, Break(s) PROVE IInv'
  BY <1>9 DEF Break, Discard, TypeOK, PC, NoRefs, Value
<1>10. CASE UNCHANGED vars
  BY <1>10 DEF vars, TypeOK
<1>11. QED
  BY <1>1, <1>2, <1>3, <1>4, <1>5, <1>6, <1>7, <1>8, <1>9, <1>10
     DEF Next, FullNext, Serve

LEMMA Invariant == Spec => []IInv
  BY InitInvariant, StepInvariant, PTL DEF Spec

-----------------------------------------------------------------------------
\* The state of every push session and of the repository is of its type.
THEOREM ReceivePackTypes == Spec => []TypeOK
<1>1. IInv => TypeOK
  BY DEF IInv
<1>2. QED
  BY <1>1, Invariant, PTL

\* A ref never names an object that is not in the store.
THEOREM RefsNameObjects == Spec => []NoDanglingRef
<1>1. IInv => NoDanglingRef
  BY DEF IInv
<1>2. QED
  BY <1>1, Invariant, PTL

\* Branches only move to descendants of where they are.
THEOREM PushesFastForward == Spec => FastForwardOnly
<1> DEFINE Forward(r) == refs[r] # NoOid /\ refs'[r] # NoOid => refs[r] \in Ancestors(refs'[r])
<1>1. ASSUME IInv, UNCHANGED refs PROVE \A r \in Heads : Forward(r)
  BY <1>1, HeadsAssumption, ReachSelf DEF IInv, TypeOK, Value, Ancestors
<1>2. ASSUME IInv, NEW s \in Session, NEW x \in Ref, Swap(s, x)
      PROVE  \A r \in Heads : Forward(r)
  <2>1. CASE UNCHANGED refs
    BY <1>1, <1>2, <2>1
  <2>2. CASE Current(s, x) /\ SetRef(s, x)
    <3>1. Forward(x) \/ x \notin Heads
      BY <1>2, <2>2 DEF Swap, SetRef, Current, IInv, TypeOK, ValidatedDescent
    <3>2. ASSUME NEW r \in Heads, r # x PROVE Forward(r)
      <4>1. refs'[r] = refs[r]
        BY <2>2, <3>2, HeadsAssumption DEF SetRef, IInv, TypeOK
      <4>2. QED
        BY <1>2, <4>1, HeadsAssumption, ReachSelf DEF IInv, TypeOK, Value, Ancestors
    <3>3. QED
      BY <3>1, <3>2
  <2>3. QED
    BY <1>2, <2>1, <2>2 DEF Swap
<1>3. ASSUME IInv, [Next]_vars
      PROVE  [\A r \in Heads : Forward(r)]_vars
  <2>1. CASE UNCHANGED refs
    BY <1>1, <1>3, <2>1
  <2>2. CASE \E s \in Session, x \in Ref : Swap(s, x)
    BY <1>2, <1>3, <2>2
  <2>3. ASSUME NEW s \in Session, AnySend(s) \/ FullSend(s) PROVE UNCHANGED refs
    BY <2>3 DEF AnySend, FullSend, Send, store
  <2>4. ASSUME NEW s \in Session, Serve(s)
        PROVE  UNCHANGED refs \/ \E x \in Ref : Swap(s, x)
    BY <2>4 DEF Serve, Connect, ListRef, StoreObject, Validate, EndUnpack,
                UnpackFails, Report, Break, store
  <2>5. ASSUME NEW s \in Session, ListFails(s) PROVE UNCHANGED refs
    BY <2>5 DEF ListFails, store
  <2>6. CASE UNCHANGED vars
    BY <1>1, <1>3, <2>6 DEF vars
  <2>7. QED
    BY <1>3, <2>1, <2>2, <2>3, <2>4, <2>5, <2>6 DEF Next, FullNext
<1>4. QED
  BY <1>3, Invariant, PTL DEF Spec, FastForwardOnly

-----------------------------------------------------------------------------
(***************************************************************************)
(* Complete packs. What was advertised has a complete history, objects are *)
(* never removed, so what a command asks for is complete once the pack is  *)
(* stored, however the refs have moved since.                              *)
(***************************************************************************)
Advertised ==
  \A s \in Session : pc[s] \in {"idle", "advertise"} =>
    \A r \in Ref : listed[s][r] # NoOid => Ancestors(listed[s][r]) \subseteq objects

Covered ==
  \A s \in Session : pc[s] \in {"unpack", "list", "apply"} =>
    \A r \in cmds[s] : want[s][r] # NoOid =>
      Ancestors(want[s][r]) \subseteq objects \cup pending[s]

AllStored ==
  \A s \in Session : pc[s] \in {"list", "apply"} => pending[s] = {}

ToDoAreCommands == \A s \in Session : pc[s] = "apply" => todo[s] \subseteq cmds[s]

RefsComplete ==
  \A r \in Ref : refs[r] # NoOid => Ancestors(refs[r]) \subseteq objects

FullInv ==
  TypeOK /\ Advertised /\ Covered /\ AllStored /\ ToDoAreCommands /\ RefsComplete

\* The refs that exist have a complete history, said two ways.
LEMMA CompleteIsRefsComplete == HistoryComplete <=> RefsComplete
  BY HistoryIsAncestry DEF HistoryComplete, Complete, RefsComplete

LEMMA FullInit == Init => FullInv
<1> SUFFICES ASSUME Init PROVE FullInv
  OBVIOUS
<1>1. TypeOK
  BY InitInvariant DEF IInv
<1>2. RefsComplete
  BY HistoryIsAncestry DEF Init, RefsComplete
<1>3. QED
  BY <1>1, <1>2
     DEF Init, FullInv, Advertised, Covered, AllStored, ToDoAreCommands, NoRefs

\* A complete pack brings everything that was not advertised.
LEMMA SendCovers ==
  ASSUME FullInv, NEW s \in Session, NEW C \in SUBSET Ref, NEW w \in [Ref -> Value],
         NEW a, Send(s, C, w, a, CompletePack(s, C, w))
  PROVE  \A r \in C : w[r] # NoOid => Ancestors(w[r]) \subseteq objects \cup CompletePack(s, C, w)
<1>1. History(Values(listed[s], Ref)) \subseteq objects
  BY HistoryIsAncestry DEF FullInv, Advertised, Send
<1>2. History(Values(w, C)) \subseteq objects \cup CompletePack(s, C, w)
  BY <1>1 DEF CompletePack
<1>3. QED
  BY <1>2, HistoryIsAncestry

LEMMA FullStep == FullInv /\ [FullNext]_vars => FullInv'
<1> SUFFICES ASSUME FullInv, [FullNext]_vars PROVE FullInv'
  OBVIOUS
<1> USE DEF FullInv, Advertised, Covered, AllStored, ToDoAreCommands, RefsComplete,
            Goto, store, request, listing, answer
<1>1. ASSUME NEW s \in Session, FullSend(s) PROVE FullInv'
  <2>1. TypeOK'
    BY <1>1, SendTypes
  <2>2. PICK C \in SUBSET Ref, w \in [Ref -> Value], a \in BOOLEAN :
          Send(s, C, w, a, CompletePack(s, C, w))
    BY <1>1 DEF FullSend
  <2>3. \A r \in C : w[r] # NoOid =>
          Ancestors(w[r]) \subseteq objects \cup CompletePack(s, C, w)
    BY <2>2, SendCovers
  <2>4. QED
    BY <2>1, <2>2, <2>3 DEF Send, TypeOK
<1>2. ASSUME NEW s \in Session, NEW r \in Ref, Swap(s, r) PROVE FullInv'
  <2>1. TypeOK'
    BY <1>2, SwapTypes
  <2>2. RefsComplete'
    <3>1. want[s][r] # NoOid => Ancestors(want[s][r]) \subseteq objects
      BY <1>2 DEF Swap
    <3>2. QED
      BY <1>2, <3>1 DEF Swap, SetRef, TypeOK
  <2>3. QED
    BY <1>2, <2>1, <2>2 DEF Swap, TypeOK
<1>3. ASSUME NEW s \in Session, NEW R \in SUBSET Ref, Validate(s, R) PROVE FullInv'
  <2>1. TypeOK'
    BY <1>3, ValidateTypes
  <2>2. QED
    BY <1>3, <2>1 DEF Validate, Reject, TypeOK
<1>4. ASSUME NEW s \in Session, NEW o \in Oid, StoreObject(s, o) PROVE FullInv'
  BY <1>4 DEF StoreObject, TypeOK
<1>5. ASSUME NEW s \in Session, NEW r \in Ref, ListRef(s, r) PROVE FullInv'
  BY <1>5 DEF ListRef, TypeOK
<1>6. ASSUME NEW s \in Session, Connect(s) PROVE FullInv'
  BY <1>6 DEF Connect, TypeOK, PC
<1>7. ASSUME NEW s \in Session, EndUnpack(s) PROVE FullInv'
  BY <1>7 DEF EndUnpack, Unpacked, TypeOK, PC, NoRefs, Value
<1>8. ASSUME NEW s \in Session, UnpackFails(s) PROVE FullInv'
  <2>1. TypeOK'
    BY <1>8, AbortTypes
  <2>2. QED
    BY <1>8, <2>1 DEF UnpackFails, Discard, TypeOK
<1>9. ASSUME NEW s \in Session, Report(s) PROVE FullInv'
  BY <1>9 DEF Report, Line, TypeOK, PC, NoRefs, Value
<1>10. ASSUME NEW s \in Session, Break(s) PROVE FullInv'
  BY <1>10 DEF Break, Discard, TypeOK, PC, NoRefs, Value
<1>11. CASE UNCHANGED vars
  BY <1>11 DEF vars, TypeOK
<1>12. QED
  BY <1>1, <1>2, <1>3, <1>4, <1>5, <1>6, <1>7, <1>8, <1>9, <1>10, <1>11
     DEF FullNext, Serve

\* If packs are complete, so is the history of every ref at any time.
THEOREM HistoriesStayComplete == FullSpec => []HistoryComplete
<1>1. FullInv => HistoryComplete
  BY CompleteIsRefsComplete DEF FullInv
<1>2. QED
  BY <1>1, FullInit, FullStep, PTL DEF FullSpec

-----------------------------------------------------------------------------
(***************************************************************************)
(* What a session knows of its commands, when listings do not fail: one    *)
(* that is still to be swapped has no error and has changed nothing; one   *)
(* without an error after that has been applied; and the command that      *)
(* spoils an atomic push leaves nothing to do.                             *)
(***************************************************************************)
Reset(s) == todo[s] = {} /\ applied[s] = {} /\ errors[s] = [r \in Ref |-> "none"]

Spoils(s) == atomic[s] /\ \E r \in Ref : errors[s][r] = "rejected"

Accounted(s, r) ==
  /\ r \in todo[s] => r \in cmds[s] /\ errors[s][r] = "none" /\ r \notin applied[s]
  /\ pc[s] \in {"apply", "done"} /\ r \in cmds[s] \ todo[s] /\ errors[s][r] = "none"
       => r \in applied[s]
  /\ errors[s][r] \in {"rejected", "atomic", "conflict"} => r \notin applied[s]
  /\ pc[s] = "done" => report[s][r] = IF r \in cmds[s] THEN Line(errors[s][r]) ELSE "none"

Booked(s) ==
  /\ pc[s] \notin {"apply", "done"} => Reset(s)
  /\ pc[s] = "done" => todo[s] = {}
  /\ Spoils(s) => todo[s] = {} /\ applied[s] = {}
  /\ \A r \in Ref : Accounted(s, r)

Ledger == \A s \in Session : Booked(s)

\* A step of another session changes nothing of it.
LEMMA BookedApart ==
  ASSUME NEW q \in Session, Booked(q),
         UNCHANGED <<pc[q], cmds[q], atomic[q], report[q], todo[q], applied[q], errors[q]>>
  PROVE  Booked(q)'
<1>1. Spoils(q)' <=> Spoils(q)
  BY DEF Spoils
<1>2. \A r \in Ref : Accounted(q, r)'
  BY DEF Booked, Accounted
<1>3. QED
  BY <1>1, <1>2 DEF Booked, Reset

LEMMA BookedReset ==
  ASSUME NEW s \in Session, pc[s] \notin {"apply", "done"}, Reset(s)
  PROVE  Booked(s)
<1>1. ~Spoils(s)
  BY DEF Spoils, Reset
<1>2. \A r \in Ref : Accounted(s, r)
  BY DEF Accounted, Reset
<1>3. QED
  BY <1>1, <1>2 DEF Booked

\* Steps of a session that leave its commands and their errors alone.
LEMMA LedgerKept ==
  ASSUME TypeOK, Ledger, NEW s \in Session, NEW l \in PC,
         pc[s] \notin {"apply", "done"}, l \notin {"apply", "done"},
         pc' = [pc EXCEPT ![s] = l] \/ UNCHANGED pc,
         \A q \in Session \ {s} : UNCHANGED <<cmds[q], atomic[q], report[q]>>,
         UNCHANGED <<todo, applied, errors>>
  PROVE  Ledger'
<1> USE DEF TypeOK
<1>1. ASSUME NEW q \in Session, q # s
      PROVE  UNCHANGED <<pc[q], cmds[q], atomic[q], report[q], todo[q], applied[q], errors[q]>>
  BY <1>1
<1>2. pc'[s] \notin {"apply", "done"} /\ Reset(s)'
  BY DEF Ledger, Booked, Reset
<1>3. Booked(s)'
  <2>1. ~Spoils(s)' /\ \A r \in Ref : Accounted(s, r)'
    BY <1>2 DEF Spoils, Accounted, Reset
  <2>2. QED
    BY <1>2, <2>1 DEF Booked
<1>4. QED
  BY <1>1, <1>3, BookedApart DEF Ledger

\* Steps of a session that end it before its commands.
LEMMA LedgerDropped ==
  ASSUME TypeOK, Ledger, NEW s \in Session, Discard(s),
         pc'[s] \notin {"apply", "done"},
         \A q \in Session \ {s} : UNCHANGED <<pc[q], report[q]>>
  PROVE  Ledger'
<1> USE DEF TypeOK
<1>1. ASSUME NEW q \in Session, q # s
      PROVE  UNCHANGED <<pc[q], cmds[q], atomic[q], report[q], todo[q], applied[q], errors[q]>>
  BY <1>1 DEF Discard
<1>2. pc'[s] \notin {"apply", "done"} /\ Reset(s)'
  BY DEF Discard, Reset
<1>3. Booked(s)'
  <2>1. ~Spoils(s)' /\ \A r \in Ref : Accounted(s, r)'
    BY <1>2 DEF Spoils, Accounted, Reset
  <2>2. QED
    BY <1>2, <2>1 DEF Booked
<1>4. QED
  BY <1>1, <1>3, BookedApart DEF Ledger

LEMMA LedgerStep == IInv /\ Ledger /\ [FullNext]_vars => Ledger'
<1> SUFFICES ASSUME TypeOK, Ledger, [FullNext]_vars PROVE Ledger'
  BY DEF IInv
<1> USE DEF TypeOK, Goto, PC, store, request, listing, answer
<1>1. ASSUME NEW s \in Session, Connect(s) PROVE Ledger'
  BY <1>1, LedgerKept DEF Connect
<1>2. ASSUME NEW s \in Session, NEW r \in Ref, ListRef(s, r) PROVE Ledger'
  BY <1>2, LedgerKept DEF ListRef
<1>3. ASSUME NEW s \in Session, NEW o \in Oid, StoreObject(s, o) PROVE Ledger'
  BY <1>3, LedgerKept DEF StoreObject
<1>4. ASSUME NEW s \in Session, EndUnpack(s) PROVE Ledger'
  BY <1>4, LedgerKept DEF EndUnpack
<1>5. ASSUME NEW s \in Session, FullSend(s) PROVE Ledger'
  <2>1. PICK C \in SUBSET Ref, w \in [Ref -> Value], a \in BOOLEAN :
          Send(s, C, w, a, CompletePack(s, C, w))
    BY <1>5 DEF FullSend
  <2>2. QED
    BY <2>1, LedgerKept DEF Send
<1>6. ASSUME NEW s \in Session, UnpackFails(s) \/ Break(s) PROVE Ledger'
  BY <1>6, LedgerDropped DEF UnpackFails, Break
<1>7. ASSUME NEW s \in Session, NEW R \in SUBSET Ref, Validate(s, R) PROVE Ledger'
  <2>1. ASSUME NEW q \in Session, q # s
        PROVE  UNCHANGED <<pc[q], cmds[q], atomic[q], report[q], todo[q], applied[q], errors[q]>>
    BY <1>7, <2>1 DEF Validate, Reject
  <2>2. Reset(s)
    BY <1>7 DEF Validate, Ledger, Booked
  <2>3. pc'[s] = "apply" /\ cmds' = cmds /\ atomic' = atomic /\ applied'[s] = {}
    BY <1>7, <2>2 DEF Validate, Reset
  <2>4. todo'[s] = IF Spoiled(s, R) THEN {} ELSE cmds[s] \ R
    BY <1>7 DEF Validate, Reject
  <2>5. \A r \in Ref : errors'[s][r] =
          IF r \in R THEN "rejected"
          ELSE IF r \in cmds[s] /\ Spoiled(s, R) THEN "atomic" ELSE "none"
    BY <1>7 DEF Validate, Reject
  <2>6. Spoils(s)' => todo'[s] = {}
    BY <2>3, <2>4, <2>5 DEF Spoils, Spoiled
  <2>7. \A r \in Ref : Accounted(s, r)'
    BY <2>3, <2>4, <2>5 DEF Accounted
  <2>8. Booked(s)'
    BY <2>3, <2>6, <2>7 DEF Booked
  <2>9. QED
    BY <2>1, <2>8, BookedApart DEF Ledger
<1>8. ASSUME NEW s \in Session, NEW t \in Ref, Swap(s, t) PROVE Ledger'
  <2>1. ASSUME NEW q \in Session, q # s
        PROVE  UNCHANGED <<pc[q], cmds[q], atomic[q], report[q], todo[q], applied[q], errors[q]>>
    BY <1>8, <2>1 DEF Swap, SetRef
  <2>2. /\ UNCHANGED <<pc, cmds, atomic, report>>
        /\ pc[s] = "apply" /\ t \in todo[s] /\ todo'[s] = todo[s] \ {t}
    BY <1>8 DEF Swap
  <2>3. Accounted(s, t) /\ ~Spoils(s)
    BY <2>2 DEF Ledger, Booked
  <2>4. \/ errors' = errors /\ applied'[s] = applied[s] \cup {t}
        \/ errors'[s][t] = "failed" /\ applied'[s] = applied[s] \cup {t}
        \/ errors'[s][t] \in {"conflict", "failed"} /\ applied' = applied
    BY <1>8 DEF Swap, SetRef
  <2>5. \A r \in Ref \ {t} : errors'[s][r] = errors[s][r]
    BY <1>8 DEF Swap, SetRef
  <2>6. ~Spoils(s)'
    BY <2>2, <2>3, <2>4, <2>5 DEF Spoils
  <2>7. Accounted(s, t)'
    BY <2>2, <2>3, <2>4 DEF Accounted
  <2>8. ASSUME NEW r \in Ref \ {t} PROVE Accounted(s, r)'
    BY <2>2, <2>4, <2>5 DEF Ledger, Booked, Accounted
  <2>9. Booked(s)'
    BY <2>2, <2>6, <2>7, <2>8 DEF Booked
  <2>10. QED
    BY <2>1, <2>9, BookedApart DEF Ledger
<1>9. ASSUME NEW s \in Session, Report(s) PROVE Ledger'
  <2>1. ASSUME NEW q \in Session, q # s
        PROVE  UNCHANGED <<pc[q], cmds[q], atomic[q], report[q], todo[q], applied[q], errors[q]>>
    BY <1>9, <2>1 DEF Report
  <2>2. /\ UNCHANGED <<cmds, atomic, todo, applied, errors>>
        /\ pc[s] = "apply" /\ todo[s] = {} /\ pc'[s] = "done"
        /\ \A r \in Ref : report'[s][r] =
             IF r \in cmds[s] THEN Line(errors[s][r]) ELSE "none"
    BY <1>9 DEF Report
  <2>3. Spoils(s)' <=> Spoils(s)
    BY <2>2 DEF Spoils
  <2>4. \A r \in Ref : Accounted(s, r)'
    BY <2>2 DEF Ledger, Booked, Accounted
  <2>5. Booked(s)'
    BY <2>2, <2>3, <2>4 DEF Ledger, Booked
  <2>6. QED
    BY <2>1, <2>5, BookedApart DEF Ledger
<1>10. CASE UNCHANGED vars
  BY <1>10, BookedApart DEF vars, Ledger
<1>11. QED
  BY <1>1, <1>2, <1>3, <1>4, <1>5, <1>6, <1>7, <1>8, <1>9, <1>10 DEF FullNext, Serve

LEMMA Ledgers == FullSpec => [](IInv /\ Ledger)
<1>1. Init => Ledger
  BY BookedReset DEF Init, Ledger, Reset
<1>2. IInv /\ [FullNext]_vars => IInv'
  BY StepInvariant DEF Next
<1>3. QED
  BY <1>1, <1>2, InitInvariant, LedgerStep, PTL DEF FullSpec

\* One command that validateCommand rejects keeps an atomic push from changing
\* any ref, however many pushes overlap.
THEOREM AtomicPushesAreSpoiled == FullSpec => []AtomicRejectsAll
<1>1. IInv /\ Ledger => AtomicRejectsAll
  BY DEF IInv, TypeOK, Ledger, Booked, Spoils, AtomicRejectsAll
<1>2. QED
  BY <1>1, Ledgers, PTL

\* A ledger that is true makes true reports.
LEMMA LedgerReports == IInv /\ Ledger => ReportIsTrue
<1> SUFFICES ASSUME TypeOK, Ledger, NEW s \in Session, NEW r \in Ref, pc[s] = "done"
             PROVE  /\ report[s][r] = "ok" => r \in applied[s]
                    /\ report[s][r] = "ng" /\ errors[s][r] # "failed" => r \notin applied[s]
  BY DEF IInv, ReportIsTrue
<1>1. Accounted(s, r) /\ todo[s] = {}
  BY DEF Ledger, Booked
<1>2. errors[s][r] \in {"none", "rejected", "atomic", "conflict", "failed"}
  BY DEF TypeOK
<1>3. QED
  BY <1>1, <1>2 DEF Accounted, Line

\* As long as refs can be listed, writeReceiveReport tells every client which of
\* its commands took effect.
THEOREM ReportsAreTrue == FullSpec => []ReportIsTrue
  BY LedgerReports, Ledgers, PTL

-----------------------------------------------------------------------------
(***************************************************************************)
(* Pushes at once (Pushes)                                                 *)
(***************************************************************************)

\* A push to the branch alone is one that any client may send.
LEMMA AnyPushIsAnySend ==
  ASSUME NEW s \in Session, AnyPush(s) PROVE AnySend(s)
<1>1. PICK v \in Value, a \in BOOLEAN, pack \in SUBSET Oid :
        pack \subseteq History({v}) /\ Send(s, {main}, [NoRefs EXCEPT ![main] = v], a, pack)
  BY DEF AnyPush
<1> DEFINE w == [NoRefs EXCEPT ![main] = v]
<1>2. w \in [Ref -> Value] /\ w[main] = v /\ {main} \in SUBSET Ref
  BY MainAssumption DEF NoRefs, Value
<1> HIDE DEF w
<1>3. History(Values(w, {main})) = History({v})
  BY <1>2 DEF Values, History
<1>4. Send(s, {main}, w, a, pack)
  BY <1>1 DEF w
<1>5. QED
  BY <1>1, <1>2, <1>3, <1>4 DEF AnySend

LEMMA PushStep == [PushNext]_pushVars => [Next]_vars
  BY AnyPushIsAnySend DEF PushNext, FullPush, Next, FullNext, pushVars

\* Pushes at once are pushes: what is said of these holds of those.
THEOREM PushesAreServed == PushSpec => Spec
<1>1. PushInit => Init
  BY DEF PushInit
<1>2. QED
  BY <1>1, PushStep, PTL DEF PushSpec, Spec

\* While packs are complete, no listing fails and the history of every ref stays
\* complete; the ledger of every push is true.
CompleteInv == completePacks => FullInv /\ IInv /\ Ledger

\* As long as clients send complete packs and refs can be listed, histories stay
\* complete (validateCommand looks at tips only) and every report is true
\* (writeReceiveReport), however the pushes overlap.
THEOREM CompletePushes == PushSpec => []CompletePushesHold
<1>1. PushInit => CompleteInv
  BY FullInit, InitInvariant, BookedReset DEF PushInit, CompleteInv, Init, Ledger, Reset
<1>2. CompleteInv /\ [PushNext]_pushVars => CompleteInv'
  <2> SUFFICES ASSUME CompleteInv, [PushNext]_pushVars, completePacks' PROVE CompleteInv'
    BY DEF CompleteInv
  <2>1. completePacks /\ [FullNext]_vars
    BY DEF PushNext, FullPush, FullNext, pushVars
  <2>2. FullInv' /\ IInv' /\ Ledger'
    BY <2>1, FullStep, StepInvariant, LedgerStep DEF CompleteInv, Next
  <2>3. QED
    BY <2>2 DEF CompleteInv
<1>3. CompleteInv => CompletePushesHold
  BY CompleteIsRefsComplete, LedgerReports DEF CompleteInv, FullInv, CompletePushesHold
<1>4. QED
  BY <1>1, <1>2, <1>3, PTL DEF PushSpec
=============================================================================
