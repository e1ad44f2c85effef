----------------------------- MODULE ReceivePack -----------------------------
(***************************************************************************)
(* Git pushes against one repository: transport.ServeReceivePack           *)
(* (transport/receive_pack.go), one session per push, over a store whose   *)
(* CompareAndSwapRef is the atomic one of AtomicRef. A session advertises  *)
(* the refs, receives commands and a pack, stores the objects one by one,  *)
(* lists the refs again, validates every command against that snapshot,    *)
(* and then swaps the refs one after the other. Sessions interleave.       *)
(*                                                                         *)
(* Objects are commits; decoding a pack either works or fails as a whole.  *)
(* A client sends at most one command per ref, and none that changes       *)
(* nothing, as git does.                                                   *)
(***************************************************************************)
CONSTANTS
  Session,  \* pushes
  Ref,      \* ref names
  Heads,    \* those below refs/heads/
  Oid,      \* object ids
  NoOid,    \* the zero object id: no such ref
  Parents   \* Parents[o]: the parents of commit o

Value == Oid \cup {NoOid}

ASSUME NoOidAssumption == NoOid \notin Oid
ASSUME HeadsAssumption == Heads \subseteq Ref
ASSUME ParentsAssumption == Parents \in [Oid -> SUBSET Oid]

VARIABLES
  refs,     \* refs[r]: the object id of ref r, or NoOid
  objects,  \* the objects in the store
  pc,       \* pc[s]: where session s is
  unread,   \* unread[s]: the refs that s's current listing has not read yet
  listed,   \* listed[s]: the refs as s has listed them
  base,     \* base[s]: the refs that were advertised, the old ids of its commands
  cmds,     \* cmds[s]: the refs that s has a command for
  want,     \* want[s][r]: the new object id of the command for r
  atomic,   \* atomic[s]: the client asked for the atomic capability
  pending,  \* pending[s]: objects of s's pack that are not stored yet
  todo,     \* todo[s]: the commands applyCommands has not reached yet
  errors,   \* errors[s][r]: commandErrors
  report,   \* report[s][r]: the line of the report about r
  applied   \* applied[s]: the refs that s has changed (history)

vars == <<refs, objects, pc, unread, listed, base, cmds, want, atomic,
          pending, todo, errors, report, applied>>
store == <<refs, objects>>
request == <<base, cmds, want, atomic>>
listing == <<unread, listed>>
answer == <<errors, report>>

PC == {"idle", "advertise", "unpack", "list", "apply", "done", "refused", "gone"}

TypeOK ==
  /\ refs \in [Ref -> Value]
  /\ objects \subseteq Oid
  /\ pc \in [Session -> PC]
  /\ unread \in [Session -> SUBSET Ref]
  /\ listed \in [Session -> [Ref -> Value]]
  /\ base \in [Session -> [Ref -> Value]]
  /\ cmds \in [Session -> SUBSET Ref]
  /\ want \in [Session -> [Ref -> Value]]
  /\ atomic \in [Session -> BOOLEAN]
  /\ pending \in [Session -> SUBSET Oid]
  /\ todo \in [Session -> SUBSET Ref]
  /\ errors \in [Session -> [Ref -> {"none", "rejected", "atomic", "conflict", "failed"}]]
  /\ report \in [Session -> [Ref -> {"none", "ok", "ng"}]]
  /\ applied \in [Session -> SUBSET Ref]

-----------------------------------------------------------------------------
(***************************************************************************)
(* The commit graph                                                        *)
(***************************************************************************)

\* What a walk from o meets when it can load only the commits that are present.
Reach(o, present) ==
  {x \in Oid :
    \A C \in SUBSET Oid :
      o \in C /\ (\A c \in C \cap present : Parents[c] \subseteq C) => x \in C}

\* o and everything it descends from.
Ancestors(o) == Reach(o, Oid)

History(values) == UNION {Ancestors(o) : o \in values \ {NoOid}}

Values(f, S) == {f[r] : r \in S}

\* The history of every value in f is in the store.
Complete(f, S) == History(Values(f, S)) \subseteq objects

-----------------------------------------------------------------------------
Goto(s, l) == pc' = [pc EXCEPT ![s] = l]
NoRefs == [r \in Ref |-> NoOid]

Init ==
  /\ refs \in [Ref -> Value]
  /\ objects = History(Values(refs, Ref))
  /\ pc = [s \in Session |-> "idle"]
  /\ unread = [s \in Session |-> {}]
  /\ listed = [s \in Session |-> NoRefs]
  /\ base = [s \in Session |-> NoRefs]
  /\ cmds = [s \in Session |-> {}]
  /\ want = [s \in Session |-> NoRefs]
  /\ atomic = [s \in Session |-> FALSE]
  /\ pending = [s \in Session |-> {}]
  /\ todo = [s \in Session |-> {}]
  /\ errors = [s \in Session |-> [r \in Ref |-> "none"]]
  /\ report = [s \in Session |-> [r \in Ref |-> "none"]]
  /\ applied = [s \in Session |-> {}]

Connect(s) ==
  /\ pc[s] = "idle"
  /\ Goto(s, "advertise")
  /\ unread' = [unread EXCEPT ![s] = Ref]
  /\ UNCHANGED <<store, listed, request, pending, todo, answer, applied>>

\* ReadRefs reads one ref file after the other, those of refs/heads/ first: a
\* listing is not a snapshot.
ListRef(s, r) ==
  /\ pc[s] \in {"advertise", "list"}
  /\ r \in unread[s]
  /\ r \in Heads \/ unread[s] \cap Heads = {}
  /\ listed' = [listed EXCEPT ![s][r] = refs[r]]
  /\ unread' = [unread EXCEPT ![s] = @ \ {r}]
  /\ UNCHANGED <<store, pc, request, pending, todo, answer, applied>>

-----------------------------------------------------------------------------
(***************************************************************************)
(* The client, and the pack                                                *)
(***************************************************************************)

\* The client sees the advertised refs and sends its commands, with a pack.
Send(s, C, w, a, pack) ==
  /\ pc[s] = "advertise" /\ unread[s] = {}
  /\ C # {}
  /\ \A r \in Ref : IF r \in C THEN w[r] # listed[s][r] ELSE w[r] = NoOid
  /\ base' = [base EXCEPT ![s] = listed[s]]
  /\ cmds' = [cmds EXCEPT ![s] = C]
  /\ want' = [want EXCEPT ![s] = w]
  /\ atomic' = [atomic EXCEPT ![s] = a]
  /\ pending' = [pending EXCEPT ![s] = pack]
  /\ Goto(s, "unpack")
  /\ UNCHANGED <<store, listing, todo, answer, applied>>

\* The pack of git push: the new history, without what was advertised.
CompletePack(s, C, w) == History(Values(w, C)) \ History(Values(listed[s], Ref))

\* ingestPack stores the objects of the pack one at a time.
StoreObject(s, o) ==
  /\ pc[s] = "unpack"
  /\ o \in pending[s]
  /\ objects' = objects \cup {o}
  /\ pending' = [pending EXCEPT ![s] = @ \ {o}]
  /\ UNCHANGED <<refs, pc, listing, request, todo, answer, applied>>

\* Mutated: the refs are updated while objects are still being written.
Unpacked_Early(s) == TRUE

Unpacked(s) == pending[s] = {}

EndUnpack(s) ==
  /\ pc[s] = "unpack"
  /\ Unpacked(s)
  /\ Goto(s, "list")
  /\ unread' = [unread EXCEPT ![s] = Ref]
  /\ listed' = [listed EXCEPT ![s] = NoRefs]
  /\ UNCHANGED <<store, request, pending, todo, answer, applied>>

\* The call ends, and what it held in memory is gone.
Discard(s) ==
  /\ unread' = [unread EXCEPT ![s] = {}]
  /\ listed' = [listed EXCEPT ![s] = NoRefs]
  /\ base' = [base EXCEPT ![s] = NoRefs]
  /\ cmds' = [cmds EXCEPT ![s] = {}]
  /\ want' = [want EXCEPT ![s] = NoRefs]
  /\ atomic' = [atomic EXCEPT ![s] = FALSE]
  /\ pending' = [pending EXCEPT ![s] = {}]
  /\ todo' = [todo EXCEPT ![s] = {}]
  /\ errors' = [errors EXCEPT ![s] = [r \in Ref |-> "none"]]
  /\ applied' = [applied EXCEPT ![s] = {}]

AllOk(s) == [r \in Ref |-> IF r \in cmds[s] THEN "ok" ELSE "none"]

\* The pack is not decoded, or an object not written: no ref is touched.  The
\* report is refused by its first line, the unpack error; it still has an ok
\* line for every command.
UnpackFails(s) ==
  /\ pc[s] = "unpack"
  /\ \E r \in cmds[s] : want[s][r] # NoOid
  /\ report' = [report EXCEPT ![s] = AllOk(s)]
  /\ Goto(s, "refused")
  /\ Discard(s)
  /\ UNCHANGED store

\* ReadRefs fails, for one when a file is gone between List and Read.
\* applyCommands returns no command errors, and the report says ok for all.
ListFails(s) ==
  /\ pc[s] = "list"
  /\ report' = [report EXCEPT ![s] = AllOk(s)]
  /\ Goto(s, "done")
  /\ Discard(s)
  /\ UNCHANGED store

-----------------------------------------------------------------------------
(***************************************************************************)
(* applyCommands                                                           *)
(***************************************************************************)

\* The answers isAncestor may give: a commit that is missing on the way is an
\* error, unless the walk finds the ancestor first.
FastForward(o, n) ==
  {o \in Reach(n, objects)} \cup {FALSE : x \in Reach(n, objects) \ (objects \cup {o})}

\* Mutated: the pack is trusted to have brought the object.
Present_Trusted(o) == TRUE

Present(o) == o \in objects

\* What validateCommand may answer: TRUE is no error.
Verdicts(s, r) ==
  LET o == base[s][r]
      n == want[s][r]
  IN  IF listed[s][r] # o THEN {FALSE}
      ELSE IF n = NoOid THEN {TRUE}
      ELSE IF o # NoOid /\ r \in Heads
           THEN {v /\ Present(n) : v \in FastForward(o, n)}
           ELSE {Present(n)}

\* Mutated: the commands that passed are applied although others did not.
Spoiled_Never(s, R) == FALSE

\* One rejected command spoils an atomic push.
Spoiled(s, R) == atomic[s] /\ R # {}

Reject(s, R) ==
  /\ errors' = [errors EXCEPT ![s] = [r \in Ref |->
       IF r \in R THEN "rejected"
       ELSE IF r \in cmds[s] /\ Spoiled(s, R) THEN "atomic" ELSE "none"]]
  /\ todo' = [todo EXCEPT ![s] = IF Spoiled(s, R) THEN {} ELSE cmds[s] \ R]

\* R: the commands that validateCommand rejects.
Validate(s, R) ==
  /\ pc[s] = "list" /\ unread[s] = {}
  /\ R \subseteq cmds[s]
  /\ \A r \in R : FALSE \in Verdicts(s, r)
  /\ \A r \in cmds[s] \ R : TRUE \in Verdicts(s, r)
  /\ Reject(s, R)
  /\ Goto(s, "apply")
  /\ listed' = [listed EXCEPT ![s] = NoRefs]
  /\ UNCHANGED <<store, unread, request, pending, report, applied>>

\* Mutated: what was validated is not compared again when it is replaced.
Current_Validated(s, r) == TRUE

Current(s, r) == refs[r] = base[s][r]

SetRef(s, r) ==
  /\ refs' = [refs EXCEPT ![r] = want[s][r]]
  /\ applied' = [applied EXCEPT ![s] = @ \cup {r}]

\* CompareAndSwapRef for one command.  A failure may hide that it was applied.
Swap(s, r) ==
  /\ pc[s] = "apply"
  /\ r \in todo[s]
  /\ todo' = [todo EXCEPT ![s] = @ \ {r}]
  /\ \/ Current(s, r) /\ SetRef(s, r) /\ UNCHANGED errors
     \/ Current(s, r) /\ SetRef(s, r) /\ errors' = [errors EXCEPT ![s][r] = "failed"]
     \/ /\ \E e \in {"conflict", "failed"} : errors' = [errors EXCEPT ![s][r] = e]
        /\ UNCHANGED <<refs, applied>>
  /\ UNCHANGED <<objects, pc, listing, request, pending, report>>

\* Mutated: a command without an error has no line of its own.
Line_Silent(e) == IF e = "none" THEN e ELSE "failed"

Line(e) == IF e = "none" THEN "ok" ELSE "ng"

\* writeReceiveReport, the last use of the request.
Report(s) ==
  /\ pc[s] = "apply" /\ todo[s] = {}
  /\ report' = [report EXCEPT ![s] =
       [r \in Ref |-> IF r \in cmds[s] THEN Line(errors[s][r]) ELSE "none"]]
  /\ base' = [base EXCEPT ![s] = NoRefs]
  /\ want' = [want EXCEPT ![s] = NoRefs]
  /\ Goto(s, "done")
  /\ UNCHANGED <<store, listing, cmds, atomic, pending, todo, errors, applied>>

\* The connection is lost, or the process ends, and its memory with it.
Break(s) ==
  /\ pc[s] \in {"advertise", "unpack", "list", "apply"}
  /\ Goto(s, "gone")
  /\ Discard(s)
  /\ UNCHANGED <<store, report>>

-----------------------------------------------------------------------------
Serve(s) ==
  \/ Connect(s)
  \/ \E r \in Ref : ListRef(s, r) \/ Swap(s, r)
  \/ \E o \in Oid : StoreObject(s, o)
  \/ \E R \in SUBSET Ref : Validate(s, R)
  \/ EndUnpack(s) \/ UnpackFails(s) \/ Report(s) \/ Break(s)

\* Any client: its pack may lack objects, as that of a shallow clone does.
AnySend(s) ==
  \E C \in SUBSET Ref, w \in [Ref -> Value], a \in BOOLEAN, pack \in SUBSET Oid :
    /\ pack \subseteq History(Values(w, C))
    /\ Send(s, C, w, a, pack)

\* A client with the whole history of what it pushes.
FullSend(s) ==
  \E C \in SUBSET Ref, w \in [Ref -> Value], a \in BOOLEAN :
    Send(s, C, w, a, CompletePack(s, C, w))

FullNext == \E s \in Session : Serve(s) \/ FullSend(s)
Next == FullNext \/ \E s \in Session : AnySend(s) \/ ListFails(s)

\* Complete packs, and listings that do not fail.
FullSpec == Init /\ [][FullNext]_vars
Spec == Init /\ [][Next]_vars

-----------------------------------------------------------------------------
(***************************************************************************)
(* Properties                                                              *)
(***************************************************************************)

\* Whatever pushes overlap, a branch only ever moves to a descendant of where
\* it is: what isAncestor found for a listed value holds for the ref itself.
FastForwardOnly ==
  [][\A r \in Heads :
       refs[r] # NoOid /\ refs'[r] # NoOid => refs[r] \in Ancestors(refs'[r])]_vars

\* A ref never names an object that is not there, whatever the pack brought.
NoDanglingRef == \A r \in Ref : refs[r] # NoOid => refs[r] \in objects

\* With complete packs the whole history of every ref is in the store.
HistoryComplete == Complete(refs, Ref)

\* An atomic push with a command that is found invalid changes no ref.
AtomicRejectsAll ==
  \A s \in Session :
    atomic[s] /\ (\E r \in cmds[s] : errors[s][r] = "rejected") => applied[s] = {}

\* The report tells the client truly which of its refs it has changed.
ReportIsTrue ==
  \A s \in Session, r \in Ref :
    pc[s] = "done" =>
      /\ report[s][r] = "ok" => r \in applied[s]
      /\ report[s][r] = "ng" /\ errors[s][r] # "failed" => r \notin applied[s]
=============================================================================
