-------------------------- MODULE CloudServiceProofs --------------------------
(***************************************************************************)
(* For any number of requests, refs, object ids and pull requests, with    *)
(* failures at any point: the deployed brokers' compare-and-swap honours   *)
(* the protections there are when it takes effect, changes nothing but its *)
(* ref, and precedes the record of every merge (CloudBroker). Then, for    *)
(* any number of keys, and of CI runs: a signed call is made once          *)
(* (SignedRequests), and runs are kept (CiRuns). Last, for any number of   *)
(* users, keys, teams and repositories (Accounts): while requests neither  *)
(* overlap nor fail, every key that a repository knows finds it and grants *)
(* are to teams that exist; a reindex repairs the lists whatever came      *)
(* before, and who was deleted has no access.                              *)
(***************************************************************************)
EXTENDS CloudService, FiniteSetTheorems, FunctionTheorems, SequenceTheorems, TLAPS


(***************************************************************************)
(* The inductive invariant. As long as nobody has written the document     *)
(* that a request has read, it is the document, and what the request has   *)
(* found in it is still so; and a merge that is past its compare-and-swap, *)
(* or has been recorded, has moved its target.                             *)
(***************************************************************************)
StillAsRead(c) ==
  pc[c] = "put" /\ c \notin touched =>
    fresh[c] = doc /\ Allowed(c, doc) /\ Matches(c, doc)

MergeMoved(c) ==
  /\ pr[c].status = "merged" => pc[c] \in {"drop", "save", "record"} /\ req[c].id \in moved
  /\ \/ pc[c] \in {"again", "drop"}
     \/ req[c].kind = "merge" /\ pc[c] \in {"object", "save", "record"}
     => req[c].id \in moved

\* A request about a pull request says which one.
Named(c) ==
  LET about == {"merge", "close", "reopen", "note"}
  IN  /\ req[c].kind \in about => req[c].id \in Pr
      /\ pc[c] = "pr" => req[c].kind \in about

TypesInv == TypeOK /\ \A c \in Call : Named(c)

IInv == TypesInv /\ MergedHasMoved /\ \A c \in Call : StillAsRead(c) /\ MergeMoved(c)

-----------------------------------------------------------------------------
(***************************************************************************)
(* Types                                                                   *)
(***************************************************************************)
LEMMA Defaults == NoPr \in Record /\ NoDoc \in Doc /\ NoRequest \in Request
<1>1. NoPr \in Record
  BY DEF NoPr, Record, Value
<1>2. NoDoc \in Doc
  BY MaxPrAssumption DEF NoDoc, Doc, Value, Protection
<1>3. NoRequest \in Request
  BY MaxPrAssumption, BranchAssumption DEF NoRequest, Request, Kind, Value, Protection
<1>4. QED
  BY <1>1, <1>2, <1>3

\* What every request has in memory is of the right type.
PC == {"idle", "load", "pr", "cas", "put", "object", "again", "drop", "save", "record", "done"}

MemoryOK ==
  /\ pc \in [Call -> PC]
  /\ req \in [Call -> Request]
  /\ copy \in [Call -> Doc]
  /\ fresh \in [Call -> Doc]
  /\ pr \in [Call -> Record]
  /\ result \in [Call -> {"none", "ok", "stale", "forbidden", "failed"}]

LEMMA AnswerTypes ==
  ASSUME TypeOK, NEW c \in Call, NEW a \in {"ok", "stale", "forbidden", "failed"}, Answer(c, a)
  PROVE  MemoryOK'
  BY Defaults DEF Answer, TypeOK, MemoryOK, PC, Goto

LEMMA EditedTypes ==
  ASSUME TypeOK, NEW c \in Call, NEW d \in Doc
  PROVE  Edited(c, d) \in Doc /\ Merged(c, d) \in Doc
<1>1. req[c].ref \in Ref /\ req[c].new \in Value
  BY DEF TypeOK, Request
<1>2. Edited(c, d) \in Doc
  BY <1>1 DEF Edited, Doc
<1>3. QED
  BY <1>2 DEF Merged
LEMMA StepTypes == TypesInv /\ [Next]_vars => TypeOK'
<1> SUFFICES ASSUME TypesInv, [Next]_vars PROVE TypeOK'
  OBVIOUS
<1> USE DEF Goto, disk, memory, PC, TypesInv
<1>1. ASSUME NEW c \in Call, NEW q \in Requests, Begin(c, q) PROVE TypeOK'
  BY <1>1 DEF Begin, Requests, TypeOK
<1>2. ASSUME NEW c \in Call, Load(c) PROVE TypeOK'
  <2>1. copy' \in [Call -> Doc]
    <3>1. CASE copy' = [copy EXCEPT ![c] = doc]
      BY <3>1 DEF TypeOK
    <3>2. CASE copy' = [copy EXCEPT ![c] = [doc EXCEPT !.prot[req[c].ref] = req[c].prot]]
      BY <3>2 DEF TypeOK, Doc, Request
    <3>3. CASE doc.next <= MaxPr /\ copy' = [copy EXCEPT ![c] = [doc EXCEPT !.next = @ + 1]]
      <4>1. doc.next + 1 \in 1..MaxPr + 1
        BY <3>3, MaxPrAssumption DEF TypeOK, Doc
      <4>2. QED
        BY <3>3, <4>1 DEF TypeOK, Doc
    <3>4. QED
      BY <1>2, <3>1, <3>2, <3>3 DEF Load, ReadCopy, EditElsewhere, Protect, CreatePr
  <2>2. req' \in [Call -> Request]
    <3>1. CASE doc.next <= MaxPr /\ req' = [req EXCEPT ![c].id = NextPrId(doc)]
      <4>1. doc.next \in 0..MaxPr
        BY <3>1, MaxPrAssumption DEF TypeOK, Doc
      <4>2. QED
        BY <3>1, <4>1 DEF TypeOK, NextPrId, Request
    <3>2. QED
      BY <1>2, <3>1 DEF Load, ReadCopy, EditElsewhere, Protect, CreatePr, TypeOK
  <2>3. pr' \in [Call -> Record]
    BY <1>2, BranchAssumption DEF Load, ReadCopy, EditElsewhere, Protect, CreatePr, TypeOK,
                                  Record, Doc
  <2>4. serial' \in BOOLEAN
    BY <1>2 DEF Load, ReadCopy, EditElsewhere, Protect, CreatePr
  <2>5. QED
    BY <1>2, <2>1, <2>2, <2>3, <2>4 DEF Load, ReadCopy, EditElsewhere, Protect, CreatePr, TypeOK
<1>3. ASSUME NEW c \in Call, LoadPr(c) PROVE TypeOK'
  <2>1. CASE Answer(c, "failed")
    <3>1. MemoryOK'
      BY <2>1, AnswerTypes
    <3>2. QED
      BY <1>3, <3>1 DEF LoadPr, TypeOK, MemoryOK
  <2>2. CASE StartMerge(c)
    <3>1. req[c].id \in Pr
      BY <1>3 DEF LoadPr, Named
    <3>2. prs[req[c].id] \in Record /\ MergeHead(c) \in Value /\ copy[c].refs[Target] \in Value
      BY <3>1, BranchAssumption DEF TypeOK, Record, Doc, MergeHead
    <3>3. req' \in [Call -> Request]
      <4>1. [req[c] EXCEPT !.ref = Target, !.old = copy[c].refs[Target], !.new = MergeHead(c)]
              \in Request
        BY <3>2, BranchAssumption DEF TypeOK, Request
      <4>2. QED
        BY <2>2, <4>1 DEF StartMerge, TypeOK
    <3>4. QED
      BY <1>3, <2>2, <3>2, <3>3 DEF LoadPr, StartMerge, TypeOK
  <2>3. ASSUME NEW x \in {prs[req[c].id].status, "closed", "open"}, EditRecord(c, x),
               prs[req[c].id].status # "none"
        PROVE  TypeOK'
    <3>1. req[c].id \in Pr
      BY <1>3 DEF LoadPr, Named
    <3>2. [prs[req[c].id] EXCEPT !.status = x] \in Record
      BY <2>3, <3>1 DEF TypeOK, Record
    <3>3. QED
      BY <1>3, <2>3, <3>2 DEF LoadPr, EditRecord, TypeOK
  <2>4. QED
    BY <1>3, <2>1, <2>2, <2>3 DEF LoadPr
<1>4. ASSUME NEW c \in Call, Transact(c) PROVE TypeOK'
  <2>1. CASE Commit(c, Merged(c, doc))
    <3>1. doc' \in Doc
      BY <2>1, EditedTypes DEF Commit, WriteDoc, TypeOK
    <3>2. QED
      BY <1>4, <2>1, <3>1 DEF Transact, Commit, WriteDoc, TypeOK, Named
  <2>2. CASE Refuse(c, doc) /\ UNCHANGED <<doc, touched, moved>>
    <3>1. MemoryOK'
      BY <2>2, AnswerTypes DEF Refuse
    <3>2. QED
      BY <1>4, <2>2, <3>1 DEF Transact, TypeOK, MemoryOK
  <2>3. QED
    BY <1>4, <2>1, <2>2 DEF Transact
<1>5. ASSUME NEW c \in Call, ReadDoc(c) PROVE TypeOK'
  <2>1. CASE Refuse(c, doc) /\ UNCHANGED touched
    <3>1. MemoryOK'
      BY <2>1, AnswerTypes DEF Refuse
    <3>2. QED
      BY <1>5, <2>1, <3>1 DEF ReadDoc, TypeOK, MemoryOK
  <2>2. CASE ~(Refuse(c, doc) /\ UNCHANGED touched)
    BY <1>5, <2>2 DEF ReadDoc, TypeOK
  <2>3. QED
    BY <2>1, <2>2
<1>6. ASSUME NEW c \in Call, Put(c) PROVE TypeOK'
  <2>1. CASE Commit(c, Edited(c, fresh[c]))
    <3>1. doc' \in Doc
      BY <2>1, EditedTypes DEF Commit, WriteDoc, TypeOK
    <3>2. QED
      BY <1>6, <2>1, <3>1 DEF Put, Commit, WriteDoc, TypeOK, Named
  <2>2. CASE Answer(c, "stale") /\ UNCHANGED <<doc, touched, moved>>
    <3>1. MemoryOK'
      BY <2>2, AnswerTypes
    <3>2. QED
      BY <1>6, <2>2, <3>1 DEF Put, TypeOK, MemoryOK
  <2>3. QED
    BY <1>6, <2>1, <2>2 DEF Put
<1>7. ASSUME NEW c \in Call, WriteObject(c) \/ SaveRecord(c) \/ Fail(c) PROVE TypeOK'
  <2>1. MemoryOK'
    <3>1. CASE Answer(c, "ok") \/ Answer(c, "failed")
      BY <3>1, AnswerTypes
    <3>2. CASE WriteObject(c) /\ UNCHANGED memory
      BY <3>2 DEF WriteObject, Answer, TypeOK, MemoryOK
    <3>3. QED
      BY <1>7, <3>1, <3>2 DEF WriteObject, SaveRecord, Fail
  <2>2. /\ doc' \in Doc /\ prs' \in [Pr -> Record] /\ objects' \in [Ref -> Value]
        /\ cloud' = cloud /\ touched' = touched /\ moved' = moved
    BY <1>7 DEF WriteObject, SaveRecord, Fail, TypeOK, Request
  <2>3. serial' \in BOOLEAN
    BY <1>7 DEF WriteObject, SaveRecord, Fail, TypeOK
  <2>4. QED
    BY <2>1, <2>2, <2>3 DEF TypeOK, MemoryOK
<1>8. ASSUME NEW c \in Call, WriteAgain(c) PROVE TypeOK'
  BY <1>8, BranchAssumption DEF WriteAgain, TypeOK, Request, Doc, Record
<1>9. ASSUME NEW c \in Call, DropSource(c) PROVE TypeOK'
  BY <1>9 DEF DropSource, Forget, TypeOK, Doc, Value
<1>10. ASSUME NEW c \in Call, Save(c) PROVE TypeOK'
  <2>1. MemoryOK'
    <3>1. CASE Answer(c, "ok")
      BY <3>1, AnswerTypes
    <3>2. CASE ~Answer(c, "ok")
      BY <1>10, <3>2 DEF Save, TypeOK, MemoryOK
    <3>3. QED
      BY <3>1, <3>2
  <2>2. QED
    BY <1>10, <2>1 DEF Save, WriteDoc, TypeOK, MemoryOK
<1>11. CASE UNCHANGED vars
  BY <1>11 DEF vars, TypeOK
<1>12. QED
  BY <1>1, <1>2, <1>3, <1>4, <1>5, <1>6, <1>7, <1>8, <1>9, <1>10, <1>11 DEF Next, Serve

LEMMA StepNames == TypesInv /\ [Next]_vars => \A c \in Call : Named(c)'
<1> SUFFICES ASSUME TypesInv, [Next]_vars PROVE \A c \in Call : Named(c)'
  OBVIOUS
<1> USE DEF TypesInv, Named
<1>1. ASSUME NEW c \in Call, NEW q \in Requests, Begin(c, q) PROVE \A b \in Call : Named(b)'
  <2>1. q.kind \in {"merge", "close", "reopen", "note"} => q.id \in Pr
    BY DEF Requests, IsUpdate, IsPrRequest, IsProtect, IsOther, NoRequest
  <2>2. QED
    BY <1>1, <2>1 DEF Begin, TypeOK, Goto
<1>2. ASSUME NEW c \in Call, Load(c) PROVE \A b \in Call : Named(b)'
  <2>1. \A b \in Call : req'[b].kind = req[b].kind /\ (b # c => req'[b] = req[b] /\ pc'[b] = pc[b])
    BY <1>2 DEF Load, ReadCopy, EditElsewhere, Protect, CreatePr, TypeOK, Goto, Request
  <2>2. req[c].kind # "create" => req'[c] = req[c]
    BY <1>2 DEF Load, ReadCopy, EditElsewhere, Protect, CreatePr
  <2>3. pc'[c] = "pr" => req[c].kind \in {"merge", "close", "reopen", "note"}
    BY <1>2 DEF Load, ReadCopy, EditElsewhere, Protect, CreatePr, TypeOK, Goto
  <2>4. QED
    BY <2>1, <2>2, <2>3
<1>3. ASSUME NEW c \in Call, LoadPr(c) PROVE \A b \in Call : Named(b)'
  <2>1. /\ \A b \in Call \ {c} : req'[b] = req[b] /\ pc'[b] = pc[b]
        /\ pc'[c] # "pr"
    BY <1>3 DEF LoadPr, EditRecord, StartMerge, Answer, TypeOK, Goto
  <2>2. \/ req'[c] = NoRequest
        \/ req'[c].kind = req[c].kind /\ req'[c].id = req[c].id
    <3>1. CASE StartMerge(c)
      BY <3>1 DEF StartMerge, TypeOK, Request
    <3>2. CASE ~StartMerge(c)
      BY <1>3, <3>2 DEF LoadPr, EditRecord, Answer, TypeOK
    <3>3. QED
      BY <3>1, <3>2
  <2>3. QED
    BY <2>1, <2>2 DEF NoRequest
<1>4. ASSUME NEW c \in Call, Transact(c) \/ ReadDoc(c) \/ Put(c) PROVE \A b \in Call : Named(b)'
  BY <1>4 DEF Transact, ReadDoc, Put, Refuse, Commit, Answer, NoRequest, TypeOK, Goto, memory
<1>5. ASSUME NEW c \in Call,
             WriteObject(c) \/ WriteAgain(c) \/ DropSource(c) \/ Save(c) \/ SaveRecord(c) \/ Fail(c)
      PROVE  \A b \in Call : Named(b)'
  BY <1>5 DEF WriteObject, WriteAgain, DropSource, Save, SaveRecord, Fail, Answer, NoRequest,
              TypeOK, Goto, memory
<1>6. CASE UNCHANGED vars
  BY <1>6 DEF vars
<1>7. QED
  BY <1>1, <1>2, <1>3, <1>4, <1>5, <1>6 DEF Next, Serve

-----------------------------------------------------------------------------
(***************************************************************************)
(* The compare-and-swap                                                    *)
(***************************************************************************)

\* The document is unchanged, or written, and then no reader takes it for the
\* one it has read.
LEMMA StepKeepsRead ==
  TypesInv /\ (\A c \in Call : StillAsRead(c)) /\ [Next]_vars
    => \A c \in Call : StillAsRead(c)'
<1> SUFFICES ASSUME TypesInv, \A c \in Call : StillAsRead(c), [Next]_vars
             PROVE  \A c \in Call : StillAsRead(c)'
  OBVIOUS
<1> USE DEF TypesInv, StillAsRead, Allowed, Matches, Goto, TypeOK, disk, memory
<1>1. ASSUME NEW c \in Call, NEW q \in Requests, Begin(c, q) PROVE \A b \in Call : StillAsRead(b)'
  BY <1>1 DEF Begin
<1>2. ASSUME NEW c \in Call, Load(c) PROVE \A b \in Call : StillAsRead(b)'
  <2>1. \A b \in Call : pc'[b] = "put" => /\ b # c /\ pc[b] = "put"
                                          /\ req'[b] = req[b]
    BY <1>2 DEF Load, ReadCopy, EditElsewhere, Protect, CreatePr
  <2>2. QED
    BY <1>2, <2>1 DEF Load, ReadCopy, EditElsewhere, Protect, CreatePr
<1>3. ASSUME NEW c \in Call, LoadPr(c) PROVE \A b \in Call : StillAsRead(b)'
  <2>1. \A b \in Call : pc'[b] = "put" => /\ b # c /\ pc[b] = "put"
                                          /\ req'[b] = req[b] /\ fresh'[b] = fresh[b]
    BY <1>3 DEF LoadPr, EditRecord, StartMerge, Answer
  <2>2. QED
    BY <1>3, <2>1 DEF LoadPr
<1>4. ASSUME NEW c \in Call, Transact(c) PROVE \A b \in Call : StillAsRead(b)'
  BY <1>4 DEF Transact, Refuse, Commit, WriteDoc, Answer
<1>5. ASSUME NEW c \in Call, ReadDoc(c) PROVE \A b \in Call : StillAsRead(b)'
  BY <1>5 DEF ReadDoc, Refuse, Answer
<1>6. ASSUME NEW c \in Call, Put(c) PROVE \A b \in Call : StillAsRead(b)'
  BY <1>6 DEF Put, Commit, WriteDoc, Answer
<1>7. ASSUME NEW c \in Call, WriteObject(c) \/ SaveRecord(c) \/ Fail(c)
      PROVE  \A b \in Call : StillAsRead(b)'
  BY <1>7 DEF WriteObject, SaveRecord, Fail, Answer
<1>8. ASSUME NEW c \in Call, WriteAgain(c) \/ DropSource(c) PROVE \A b \in Call : StillAsRead(b)'
  BY <1>8 DEF WriteAgain, DropSource
<1>9. ASSUME NEW c \in Call, Save(c) PROVE \A b \in Call : StillAsRead(b)'
  BY <1>9 DEF Save, WriteDoc, Answer
<1>10. CASE UNCHANGED vars
  BY <1>10 DEF vars
<1>11. QED
  BY <1>1, <1>2, <1>3, <1>4, <1>5, <1>6, <1>7, <1>8, <1>9, <1>10 DEF Next, Serve

-----------------------------------------------------------------------------
(***************************************************************************)
(* Merges                                                                  *)
(***************************************************************************)
Moved == MergedHasMoved /\ \A c \in Call : MergeMoved(c)

LEMMA StepMoves == TypesInv /\ Moved /\ [Next]_vars => Moved'
<1> SUFFICES ASSUME TypesInv, Moved, [Next]_vars PROVE Moved'
  OBVIOUS
<1> USE DEF TypesInv, Moved, MergedHasMoved, MergeMoved, Goto, TypeOK, disk, memory
<1>1. ASSUME NEW c \in Call, NEW q \in Requests, Begin(c, q) PROVE Moved'
  BY <1>1 DEF Begin
<1>2. ASSUME NEW c \in Call, Load(c) PROVE Moved'
  <2>1. /\ \A b \in Call \ {c} : pc'[b] = pc[b] /\ req'[b] = req[b] /\ pr'[b] = pr[b]
        /\ pr'[c].status # "merged"
    BY <1>2 DEF Load, ReadCopy, EditElsewhere, Protect, CreatePr, Record
  <2>2. /\ pc'[c] \notin {"again", "drop"}
        /\ ~(req'[c].kind = "merge" /\ pc'[c] \in {"object", "save", "record"})
    BY <1>2 DEF Load, ReadCopy, EditElsewhere, Protect, CreatePr, Request
  <2>3. QED
    BY <1>2, <2>1, <2>2 DEF Load, ReadCopy, EditElsewhere, Protect, CreatePr
<1>3. ASSUME NEW c \in Call, LoadPr(c) PROVE Moved'
  <2>1. \A b \in Call \ {c} : pc'[b] = pc[b] /\ req'[b] = req[b] /\ pr'[b] = pr[b]
    BY <1>3 DEF LoadPr, EditRecord, StartMerge, Answer
  <2>2. /\ pr'[c].status = "merged" =>
             pc'[c] = "save" /\ req'[c] = req[c] /\ prs[req[c].id].status = "merged"
        /\ req'[c].kind = "merge" => pc'[c] = "cas"
        /\ pc'[c] \in {"cas", "save", "done"}
    <3>1. ASSUME NEW x \in {prs[req[c].id].status, "closed", "open"}, EditRecord(c, x),
                 req[c].kind # "merge"
          PROVE  <2>2!1 /\ <2>2!2 /\ <2>2!3
      <4>1. prs[req[c].id] \in Record
        BY <1>3 DEF LoadPr, Named
      <4>2. QED
        BY <1>3, <3>1, <4>1 DEF LoadPr, EditRecord, Record
    <3>2. CASE StartMerge(c) /\ prs[req[c].id].status = "open"
      BY <1>3, <3>2 DEF LoadPr, StartMerge
    <3>3. CASE Answer(c, "failed")
      BY <1>3, <3>3 DEF LoadPr, Answer, NoPr, NoRequest
    <3>4. QED
      BY <1>3, <3>1, <3>2, <3>3 DEF LoadPr
  <2>3. req[c].id \in Pr
    BY <1>3 DEF LoadPr, Named
  <2>4. QED
    BY <1>3, <2>1, <2>2, <2>3 DEF LoadPr
<1>4. ASSUME NEW c \in Call, Transact(c) \/ ReadDoc(c) \/ Put(c) PROVE Moved'
  BY <1>4 DEF Transact, ReadDoc, Put, Refuse, Commit, WriteDoc, Answer, NoPr, NoRequest
<1>5. ASSUME NEW c \in Call, WriteObject(c) \/ Fail(c) \/ Save(c) PROVE Moved'
  BY <1>5 DEF WriteObject, Fail, Save, WriteDoc, Answer, NoPr, NoRequest
<1>6. ASSUME NEW c \in Call, WriteAgain(c) \/ DropSource(c) PROVE Moved'
  <2>1. /\ \A b \in Call : req'[b] = req[b]
        /\ \A b \in Call \ {c} : pc'[b] = pc[b] /\ pr'[b] = pr[b]
        /\ pc[c] \in {"again", "drop"} /\ pc'[c] \in {"drop", "save"}
    BY <1>6 DEF WriteAgain, DropSource
  <2>2. req[c].id \in moved
    BY <1>6 DEF WriteAgain, DropSource
  <2>3. QED
    BY <1>6, <2>1, <2>2 DEF WriteAgain, DropSource
<1>7. ASSUME NEW c \in Call, SaveRecord(c) PROVE Moved'
  BY <1>7 DEF SaveRecord, Answer, NoPr, NoRequest
<1>8. CASE UNCHANGED vars
  BY <1>8 DEF vars
<1>9. QED
  BY <1>1, <1>2, <1>3, <1>4, <1>5, <1>6, <1>7, <1>8 DEF Next, Serve

-----------------------------------------------------------------------------
LEMMA InitInvariant == Init => IInv
<1> SUFFICES ASSUME Init PROVE IInv
  OBVIOUS
<1>1. TypeOK
  BY Defaults, CloudAssumption DEF Init, TypeOK, Record, Doc, Pr
<1>2. \A i \in Pr : prs[i].status # "merged"
  BY DEF Init, NoPr
<1>3. QED
  BY <1>1, <1>2 DEF Init, IInv, TypesInv, Named, MergedHasMoved, StillAsRead, MergeMoved,
                    NoRequest, NoPr

LEMMA StepInvariant == IInv /\ [Next]_vars => IInv'
<1> SUFFICES ASSUME IInv, [Next]_vars PROVE IInv'
  OBVIOUS
<1>1. TypesInv'
  BY StepTypes, StepNames DEF IInv, TypesInv
<1>2. \A c \in Call : StillAsRead(c)'
  BY StepKeepsRead DEF IInv
<1>3. Moved'
  BY StepMoves DEF IInv, Moved
<1>4. QED
  BY <1>1, <1>2, <1>3 DEF IInv, Moved

LEMMA Invariant == Spec => []IInv
  BY InitInvariant, StepInvariant, PTL DEF Spec

\* An accepted request has been allowed on, and has matched, the very document
\* it replaces, and replaces it by one with its ref edited, or with nothing.
LEMMA CommitIsPrecise ==
  ASSUME IInv, [Next]_vars, NEW c \in Call, Commits(c)
  PROVE  Allowed(c, doc) /\ Matches(c, doc) /\ doc' \in {doc, Edited(c, doc)}
<1>1. Transact(c) \/ Put(c)
  <2>1. PICK b \in Call : Serve(b) \/ \E q \in Requests : Begin(b, q)
    BY DEF Next, vars, Commits
  <2>2. b = c
    BY <2>1 DEF Commits, Serve, Begin, Load, ReadCopy, EditElsewhere, Protect, CreatePr,
                LoadPr, EditRecord, StartMerge, Transact, ReadDoc,
                Put, Refuse, Commit, WriteObject, WriteAgain, DropSource, Save, SaveRecord, Fail,
                Answer, Goto, IInv, TypesInv, TypeOK
  <2>3. QED
    BY <2>1, <2>2 DEF Commits, Serve, Begin, Load, ReadCopy, EditElsewhere, Protect,
                      CreatePr, LoadPr, ReadDoc, Refuse, WriteObject,
                      WriteAgain, DropSource, Save, SaveRecord, Fail, Answer, Goto, IInv,
                      TypesInv, TypeOK
<1>2. CASE Transact(c)
  BY <1>2 DEF Transact, Refuse, Answer, Commit, WriteDoc, Merged, Commits, Goto, IInv,
              TypesInv, TypeOK
<1>3. CASE Put(c)
  BY <1>3 DEF Put, Unchanged, Answer, Commit, WriteDoc, StillAsRead, Commits, Goto, IInv,
              TypesInv, TypeOK
<1>4. QED
  BY <1>1, <1>2, <1>3

-----------------------------------------------------------------------------
\* The branch protections that are in force when a push takes effect allow it,
\* whatever admins have changed since the request was authorized.
THEOREM ProtectionsAreHonoured == Spec => ProtectionHolds
<1>1. IInv /\ [Next]_vars =>
        [\A c \in Call : Commits(c) /\ req[c].kind = "update" =>
           \/ doc.prot[req[c].ref] = "open"
           \/ doc.prot[req[c].ref] = "override" /\ c \in Admin]_vars
  BY CommitIsPrecise DEF Allowed
<1>2. QED
  BY <1>1, Invariant, PTL DEF Spec, ProtectionHolds

\* An accepted update finds its ref as expected, or absent, and edits nothing
\* of the document but that ref, in a transaction as with a conditional put.
THEOREM SwapsArePrecise == Spec => SwapIsPrecise
<1>1. ASSUME IInv, [Next]_vars, NEW c \in Call, Commits(c)
      PROVE  /\ doc.refs[req[c].ref] \in {req[c].old, NoOid}
             /\ doc' = [doc EXCEPT !.refs[req[c].ref] = doc'.refs[req[c].ref]]
  <2>1. doc \in Doc /\ req[c].ref \in Ref
    BY <1>1 DEF IInv, TypesInv, TypeOK, Request
  <2>2. QED
    BY <1>1, <2>1, CommitIsPrecise DEF Matches, Edited, Doc
<1>2. IInv /\ [Next]_vars =>
        [\A c \in Call : Commits(c) =>
           /\ doc.refs[req[c].ref] \in {req[c].old, NoOid}
           /\ doc' = [doc EXCEPT !.refs[req[c].ref] = doc'.refs[req[c].ref]]]_vars
  BY <1>1
<1>3. QED
  BY <1>2, Invariant, PTL DEF Spec, SwapIsPrecise

\* A pull request is recorded as merged only after an accepted compare-and-swap
\* of its target, wherever the merge, or another request about it, has failed.
THEOREM MergesHaveMoved == Spec => []MergedHasMoved
<1>1. IInv => MergedHasMoved
  BY DEF IInv
<1>2. QED
  BY <1>1, Invariant, PTL

\* Every state of any overlapping requests is of the declared types, the counter
\* of pull requests within its bound included.
THEOREM CloudBrokerTypes == Spec => []TypeOK
<1>1. IInv => TypeOK
  BY DEF IInv, TypesInv
<1>2. QED
  BY <1>1, Invariant, PTL

-----------------------------------------------------------------------------
(***************************************************************************)
(* Requests that neither overlap nor fail, on the AWS broker: while one of *)
(* them is on its way, what it holds says how the ref map and the ref      *)
(* objects, which differ only between two of its writes, will agree again. *)
(***************************************************************************)
Active(c) == pc[c] \notin {"idle", "load", "done"}

Underway(c) ==
  /\ req[c].kind = "merge" => req[c].ref = Target \/ pc[c] \in {"load", "pr"}
  /\ pc[c] \in {"pr", "cas"} => copy[c].refs = objects /\ doc.refs = objects
  /\ pc[c] = "put" => copy[c].refs = objects /\ doc.refs = objects /\ fresh[c] = doc
  /\ pc[c] = "object" =>
       /\ doc.refs = [objects EXCEPT ![req[c].ref] = req[c].new]
       /\ req[c].kind = "merge" => copy[c].refs = objects
  /\ pc[c] = "again" =>
       /\ doc.refs = objects /\ objects = [objects EXCEPT ![Target] = req[c].new]
       /\ objects = [copy[c].refs EXCEPT ![Target] = req[c].new]
  /\ pc[c] \in {"drop", "save"} => copy[c].refs = objects
  /\ pc[c] = "record" => doc.refs = objects

SerialInv ==
  serial /\ cloud = "aws" =>
    /\ \A c, d \in Call : Active(c) /\ Active(d) => c = d
    /\ (\A c \in Call : ~Active(c)) => doc.refs = objects
    /\ \A c \in Call : Active(c) => Underway(c)

\* What a request in progress has to do for the others.
LEMMA SerialFrom ==
  ASSUME TypeOK, SerialInv, serial, cloud = "aws", NEW c \in Call,
         \A d \in Call \ {c} : ~Active(d) /\ pc'[d] = pc[d],
         Active(c)' => Underway(c)',
         ~Active(c)' => (doc.refs = objects)'
  PROVE  SerialInv'
<1>1. \A d \in Call \ {c} : ~Active(d)'
  BY DEF Active
<1>2. QED
  BY <1>1 DEF SerialInv

LEMMA SerialStep == TypesInv /\ SerialInv /\ [Next]_vars => SerialInv'
<1> SUFFICES ASSUME TypesInv, SerialInv, [Next]_vars, serial', cloud' = "aws"
             PROVE  SerialInv'
  BY DEF SerialInv
<1> USE DEF TypesInv, TypeOK, Goto, memory, disk
<1>1. ASSUME NEW c \in Call, NEW q \in Requests, Begin(c, q) PROVE SerialInv'
  <2>1. ~Active(c) /\ ~Active(c)' /\ \A d \in Call \ {c} : pc'[d] = pc[d]
    BY <1>1 DEF Begin, Active
  <2>2. \A d \in Call \ {c} : Underway(d)' <=> Underway(d)
    BY <1>1 DEF Begin, Underway
  <2>3. \A d \in Call : Active(d)' <=> Active(d)
    BY <2>1 DEF Active
  <2>4. UNCHANGED <<serial, cloud, doc, objects>>
    BY <1>1 DEF Begin
  <2>5. QED
    BY <2>1, <2>2, <2>3, <2>4 DEF SerialInv
<1>2. ASSUME NEW c \in Call, Load(c) PROVE SerialInv'
  <2>1. /\ serial /\ cloud = "aws" /\ UNCHANGED <<doc, objects>>
        /\ \A d \in Call \ {c} : ~Active(d) /\ pc'[d] = pc[d]
        /\ ~Active(c)
    BY <1>2 DEF Load, Alone, Active, ReadCopy, EditElsewhere, Protect, CreatePr
  <2>2. doc.refs = objects
    BY <2>1 DEF SerialInv
  <2>3. copy'[c].refs = doc.refs
    BY <1>2 DEF Load, ReadCopy, EditElsewhere, Protect, CreatePr, Doc
  <2>4. pc'[c] \in {"pr", "cas", "save"} /\ (req'[c].kind = "merge" => pc'[c] = "pr")
    <3>1. CASE ReadCopy(c)
      BY <3>1 DEF ReadCopy
    <3>2. CASE EditElsewhere(c) \/ Protect(c)
      BY <3>2 DEF EditElsewhere, Protect
    <3>3. CASE CreatePr(c)
      BY <3>3 DEF CreatePr, Request
    <3>4. QED
      BY <1>2, <3>1, <3>2, <3>3 DEF Load
  <2>5. Underway(c)'
    BY <2>1, <2>2, <2>3, <2>4 DEF Underway
  <2>6. QED
    BY <2>1, <2>2, <2>5, SerialFrom
<1>3. ASSUME NEW c \in Call, Active(c), serial, cloud = "aws",
             \A d \in Call \ {c} : pc'[d] = pc[d],
             Active(c)' => Underway(c)', ~Active(c)' => (doc.refs = objects)'
      PROVE  SerialInv'
  <2>1. \A d \in Call \ {c} : ~Active(d)
    BY <1>3 DEF SerialInv
  <2>2. QED
    BY <1>3, <2>1, SerialFrom
<1>4. ASSUME NEW c \in Call, LoadPr(c) PROVE SerialInv'
  <2>1. /\ Active(c) /\ UNCHANGED <<serial, cloud, doc, objects>>
        /\ pc[c] = "pr" /\ \A d \in Call \ {c} : pc'[d] = pc[d]
    BY <1>4 DEF LoadPr, Active, Answer, EditRecord, StartMerge
  <2>2. doc.refs = objects /\ copy[c].refs = objects
    BY <2>1 DEF SerialInv, Underway
  <2>3. \/ pc'[c] = "done"
        \/ pc'[c] = "save" /\ copy' = copy /\ req[c].kind # "merge" /\ req' = req
        \/ pc'[c] = "cas" /\ copy' = copy /\ req'[c].ref = Target
    <3>1. CASE \E status : EditRecord(c, status) /\ req[c].kind # "merge"
      BY <3>1 DEF EditRecord
    <3>2. CASE StartMerge(c)
      BY <3>2 DEF StartMerge, Request
    <3>3. CASE Answer(c, "failed")
      BY <3>3 DEF Answer
    <3>4. QED
      BY <1>4, <3>1, <3>2, <3>3 DEF LoadPr
  <2>4. QED
    BY <1>3, <2>1, <2>2, <2>3 DEF Active, Underway
<1>5. ASSUME NEW c \in Call, ReadDoc(c) PROVE SerialInv'
  <2>1. /\ Active(c) /\ UNCHANGED <<serial, cloud, doc, objects>>
        /\ pc[c] = "cas" /\ \A d \in Call \ {c} : pc'[d] = pc[d]
    BY <1>5 DEF ReadDoc, Active, Answer, Refuse
  <2>2. Underway(c)
    BY <2>1 DEF SerialInv
  <2>3. \/ pc'[c] = "done"
        \/ pc'[c] = "put" /\ copy' = copy /\ req' = req /\ fresh'[c] = doc
    BY <1>5 DEF ReadDoc, Answer, Refuse
  <2>4. QED
    BY <1>3, <2>1, <2>2, <2>3 DEF Active, Underway
<1>6. ASSUME NEW c \in Call, Put(c) PROVE SerialInv'
  <2>1. /\ Active(c) /\ UNCHANGED <<serial, cloud, objects>>
        /\ pc[c] = "put" /\ \A d \in Call \ {c} : pc'[d] = pc[d]
    BY <1>6 DEF Put, Active, Answer, Commit
  <2>2. Underway(c)
    BY <2>1 DEF SerialInv
  <2>3. CASE Unchanged(c)
    <3>1. /\ doc' = Edited(c, fresh[c]) /\ pc'[c] = "object"
          /\ UNCHANGED <<req, copy>>
      BY <1>6, <2>3 DEF Put, Commit, WriteDoc
    <3>2. doc'.refs = [objects EXCEPT ![req[c].ref] = req[c].new]
      BY <2>1, <2>2, <3>1 DEF Underway, Edited, Doc
    <3>3. Underway(c)'
      BY <2>1, <2>2, <3>1, <3>2 DEF Underway
    <3>4. QED
      BY <1>3, <2>1, <3>1, <3>3 DEF Active
  <2>4. CASE ~Unchanged(c)
    <3>1. pc'[c] = "done" /\ doc' = doc
      BY <1>6, <2>4 DEF Put, Answer
    <3>2. doc.refs = objects
      BY <2>1, <2>2 DEF Underway
    <3>3. QED
      BY <1>3, <2>1, <3>1, <3>2 DEF Active
  <2>5. QED
    BY <2>3, <2>4
<1>7. ASSUME NEW c \in Call, WriteObject(c) PROVE SerialInv'
  <2>1. /\ Active(c) /\ UNCHANGED <<serial, cloud, doc>>
        /\ pc[c] = "object" /\ \A d \in Call \ {c} : pc'[d] = pc[d]
    BY <1>7 DEF WriteObject, Active, Answer
  <2>2. Underway(c)
    BY <2>1 DEF SerialInv
  <2>3. objects' = doc.refs /\ req[c].ref \in Ref
    BY <1>7, <2>1, <2>2 DEF WriteObject, Underway, Request
  <2>4. CASE req[c].kind = "merge"
    <3>1. pc'[c] = "again" /\ UNCHANGED <<req, copy>>
      BY <1>7, <2>4 DEF WriteObject
    <3>2. /\ objects' = [objects EXCEPT ![Target] = req[c].new]
          /\ copy[c].refs = objects
      BY <2>1, <2>2, <2>3, <2>4 DEF Underway
    <3>3. objects' = [objects' EXCEPT ![Target] = req[c].new]
      BY <3>2
    <3>4. Underway(c)'
      BY <2>1, <2>2, <2>3, <2>4, <3>1, <3>2, <3>3 DEF Underway
    <3>5. QED
      BY <1>3, <2>1, <3>1, <3>4 DEF Active
  <2>5. CASE req[c].kind # "merge"
    <3>1. pc'[c] = "done"
      BY <1>7, <2>5 DEF WriteObject, Answer
    <3>2. QED
      BY <1>3, <2>1, <2>3, <3>1 DEF Active
  <2>6. QED
    BY <2>4, <2>5
<1>8. ASSUME NEW c \in Call, WriteAgain(c) PROVE SerialInv'
  <2>1. /\ Active(c) /\ UNCHANGED <<serial, cloud, doc, req>>
        /\ pc[c] = "again" /\ \A d \in Call \ {c} : pc'[d] = pc[d]
    BY <1>8 DEF WriteAgain, Active
  <2>2. Underway(c)
    BY <2>1 DEF SerialInv
  <2>3. objects' = objects /\ copy'[c].refs = objects
    BY <1>8, <2>1, <2>2 DEF WriteAgain, Underway, Doc
  <2>4. pc'[c] \in {"drop", "save"}
    BY <1>8 DEF WriteAgain
  <2>5. QED
    BY <1>3, <2>1, <2>2, <2>3, <2>4 DEF Active, Underway
<1>9. ASSUME NEW c \in Call, DropSource(c) PROVE SerialInv'
  <2>1. /\ Active(c) /\ UNCHANGED <<serial, cloud, doc, req>>
        /\ pc[c] = "drop" /\ pc'[c] = "save" /\ \A d \in Call \ {c} : pc'[d] = pc[d]
    BY <1>9 DEF DropSource, Active
  <2>2. Underway(c)
    BY <2>1 DEF SerialInv
  <2>3. copy'[c].refs = objects'
    BY <1>9, <2>1, <2>2 DEF DropSource, Forget, Underway, Doc
  <2>4. QED
    BY <1>3, <2>1, <2>2, <2>3 DEF Active, Underway
<1>10. ASSUME NEW c \in Call, Save(c) PROVE SerialInv'
  <2>1. /\ Active(c) /\ UNCHANGED <<serial, cloud, objects>> /\ doc' = copy[c]
        /\ pc[c] = "save" /\ \A d \in Call \ {c} : pc'[d] = pc[d]
    BY <1>10 DEF Save, Answer, Active, WriteDoc
  <2>2. Underway(c)
    BY <2>1 DEF SerialInv
  <2>3. doc'.refs = objects'
    BY <2>1, <2>2 DEF Underway
  <2>4. pc'[c] = "done" \/ (pc'[c] = "record" /\ req' = req)
    BY <1>10 DEF Save, Answer
  <2>5. QED
    BY <1>3, <2>1, <2>2, <2>3, <2>4 DEF Active, Underway
<1>11. ASSUME NEW c \in Call, SaveRecord(c) PROVE SerialInv'
  <2>1. /\ Active(c) /\ UNCHANGED <<serial, cloud, objects, doc>>
        /\ pc[c] = "record" /\ pc'[c] = "done" /\ \A d \in Call \ {c} : pc'[d] = pc[d]
    BY <1>11 DEF SaveRecord, Answer, Active
  <2>2. QED
    BY <1>3, <2>1 DEF SerialInv, Underway, Active
<1>12. ASSUME NEW c \in Call, Transact(c) \/ Fail(c) PROVE SerialInv'
  BY <1>12 DEF Transact, Fail
<1>13. CASE UNCHANGED vars
  BY <1>13 DEF vars, SerialInv, Active, Underway
<1>14. QED
  BY <1>1, <1>2, <1>4, <1>5, <1>6, <1>7, <1>8, <1>9, <1>10, <1>11, <1>12, <1>13
     DEF Next, Serve

\* As long as no requests of the AWS broker overlap or fail, its ref map and the
\* Git ref objects agree between requests.
THEOREM SerialRequestsAgree == Spec => []SerialAgrees
<1>1. Init => SerialInv
  BY DEF Init, SerialInv, Active
<1>2. IInv => TypesInv
  BY DEF IInv
<1>3. SerialInv => SerialAgrees
  BY DEF SerialInv, SerialAgrees, Active
<1>4. QED
  BY <1>1, <1>2, <1>3, Invariant, SerialStep, PTL DEF Spec


(***************************************************************************)
(* A signed call (SignedRequests)                                          *)
(***************************************************************************)

callVars == <<cloud, standing, clock, stamp, current, outcome, sent, nonces, accepted, repeated>>

SignedTypes ==
  /\ cloud \in {"gcp", "aws"}
  /\ standing \in [S!Request -> {"unknown", "known", "entitled"}]
  /\ clock \in 1..MaxTime
  /\ stamp \in 1..S!Unstamped
  /\ current \in S!Request
  /\ sent \subseteq S!Request
  /\ outcome \in {"open", "ok", "refused", "error"}
  /\ nonces \in [S!Request -> Nat]
  /\ accepted \in Seq(S!Request \X Nat)
  /\ repeated \in BOOLEAN

\* Nothing is on its way before the call is signed, and the clock of the client is
\* not too far ahead from then on.
SignedFirst ==
  /\ stamp = S!Unstamped => sent = {} /\ current = 1 /\ outcome = "open"
  /\ stamp # S!Unstamped => stamp <= clock + Skew

\* Requests are sent in the order of the keys.
InOrder == \A i \in sent : i <= current

\* The key is not entitled to the call, or its signature has become too old.
OutOfPlay(i) == standing[i] # "entitled" \/ clock - stamp > Window

\* The client turns to another key only when the one before can no longer be used.
TurnedAway == \A i \in S!Request : i < current => OutOfPlay(i)

\* The nonce of a request that was accepted is kept as long as its timestamp counts,
\* and no key that was tried before could have been used.
NoncesKept ==
  \A n \in DOMAIN accepted :
    LET i == accepted[n][1]
    IN i # S!Unsigned =>
         /\ i \in sent
         /\ standing[i] = "entitled"
         /\ nonces[i] = stamp + Window
         /\ \A j \in S!Request : j < i => standing[j] # "entitled"

\* As long as nothing arrives twice, the request that the client waits for has not
\* arrived, and a call is refused when no key is left.
Tried ==
  ~repeated =>
    /\ outcome = "open" => \A i \in S!Request : i >= current => nonces[i] = 0
    /\ outcome = "refused" => \A i \in S!Request : OutOfPlay(i)

\* The bounds of the model.
Bounded ==
  /\ \A i \in S!Request : nonces[i] <= MaxTime + Skew + Window
  /\ Len(accepted) <= MaxAccepted

SignedInv ==
  /\ SignedTypes /\ SignedFirst /\ InOrder /\ TurnedAway /\ NoncesKept /\ S!MadeOnce
  /\ Tried /\ Bounded

-----------------------------------------------------------------------------
\* The numbers of the model.
LEMMA Numbers ==
  ASSUME SignedTypes
  PROVE  /\ S!Request \subseteq Nat /\ sent \subseteq Nat /\ current \in Nat
         /\ clock \in Nat /\ stamp \in Nat /\ Skew \in Nat /\ Window \in Nat
         /\ Skew <= Window
  BY SignedAssumption DEF SignedTypes, S!Request, S!Unsigned, S!Unstamped

LEMMA SignedInit == ASSUME S!Init PROVE SignedInv
<1> USE SignedAssumption DEF S!Init, S!Request, S!Unsigned, S!Unstamped
<1>1. SignedTypes
  <2>1. nonces \in [S!Request -> Nat] /\ accepted \in Seq(S!Request \X Nat)
    OBVIOUS
  <2>2. clock \in 1..MaxTime /\ stamp \in 1..S!Unstamped /\ current \in S!Request
    OBVIOUS
  <2>3. /\ standing \in [S!Request -> {"unknown", "known", "entitled"}]
        /\ cloud \in {"gcp", "aws"} /\ sent \subseteq S!Request
        /\ outcome \in {"open", "ok", "refused", "error"} /\ repeated \in BOOLEAN
    OBVIOUS
  <2>4. QED
    BY <2>1, <2>2, <2>3 DEF SignedTypes
<1>2. SignedFirst /\ InOrder /\ TurnedAway
  BY DEF SignedFirst, InOrder, TurnedAway
<1>3. DOMAIN accepted = {}
  OBVIOUS
<1>4. NoncesKept /\ S!MadeOnce
  BY <1>3 DEF NoncesKept, S!MadeOnce
<1>5. Tried /\ Bounded
  BY DEF Tried, Bounded
<1>6. QED
  BY <1>1, <1>2, <1>4, <1>5 DEF SignedInv

\* A request that is refused for want of another key cannot be used any more.
LEMMA RefusedIsOutOfPlay ==
  ASSUME SignedInv, NEW i \in sent, i # S!Unsigned, S!Retries(S!Reply(i))
  PROVE  OutOfPlay(i)
<1> USE SignedAssumption DEF SignedInv, SignedTypes, S!Request, S!Unsigned, S!Unstamped
<1>1. stamp - clock <= Window
  BY DEF SignedFirst
<1>2. ~ S!Admitted(i) /\ ~ (S!Checked(i) /\ S!Spent(i))
  BY DEF S!Retries, S!Reply
<1>3. QED
  BY <1>1, <1>2 DEF S!Admitted, S!Checked, OutOfPlay

\* A request that is accepted is the first, or its nonce has expired this second.
LEMMA AcceptedOnce ==
  ASSUME SignedInv, NEW i \in sent, i # S!Unsigned, S!Reply(i) = "ok",
         NEW m \in DOMAIN accepted, accepted[m][1] # S!Unsigned
  PROVE  accepted[m][1] = i /\ cloud = "gcp" /\ clock = stamp + Window
<1> USE SignedAssumption DEF SignedInv, SignedTypes, S!Request, S!Unsigned, S!Unstamped
<1> DEFINE j == accepted[m][1]
<1>0. i \in S!Request /\ j \in S!Request /\ i \in Nat /\ j \in Nat
  OBVIOUS
<1>1. standing[i] = "entitled" /\ S!Checked(i) /\ ~ S!Spent(i)
  BY DEF S!Reply, S!Admitted
<1>2. j \in sent /\ standing[j] = "entitled" /\ nonces[j] = stamp + Window
  BY DEF NoncesKept
<1> HIDE DEF j
<1>3. ~ i < j
  BY <1>0, <1>1 DEF NoncesKept, j
<1>4. ~ j < i
  <2>1. clock - stamp <= Window
    BY <1>1 DEF S!Checked
  <2>2. j < i => j < current
    BY <1>0 DEF InOrder
  <2>3. QED
    BY <1>0, <1>2, <2>1, <2>2 DEF TurnedAway, OutOfPlay
<1>5. j = i
  BY <1>0, <1>3, <1>4
<1>6. clock - stamp <= Window /\ nonces[i] # 0
  BY <1>1, <1>2, <1>5 DEF S!Checked
<1>7. QED
  BY <1>1, <1>2, <1>5, <1>6 DEF S!Spent, j

-----------------------------------------------------------------------------
LEMMA SignedStepTypes == ASSUME SignedInv, [S!Next]_callVars PROVE SignedTypes'
<1> USE SignedAssumption DEF SignedInv, SignedTypes, S!Request, S!Unsigned, S!Unstamped
<1>1. CASE S!Tick
  BY <1>1 DEF S!Tick
<1>2. CASE S!Sign
  <2>1. PICK ahead \in 0..Skew : stamp' = clock + ahead
    BY <1>2 DEF S!Sign
  <2>2. stamp' \in 1..MaxTime + Skew
    BY <2>1
  <2>3. QED
    BY <1>2, <2>2 DEF S!Sign
<1>3. CASE S!GiveUp
  BY <1>3 DEF S!GiveUp
<1>4. ASSUME NEW i \in S!Request, S!Deliver(i) PROVE SignedTypes'
  <2>1. i < S!Unsigned => i + 1 \in S!Request
    OBVIOUS
  <2>2. current' \in S!Request /\ sent' \subseteq S!Request
    BY <1>4, <2>1 DEF S!Deliver, S!Receive
  <2>3. outcome' \in {"open", "ok", "refused", "error"}
    BY <1>4 DEF S!Deliver, S!Receive
  <2>4. nonces' \in [S!Request -> Nat]
    BY <1>4 DEF S!Deliver, S!Expiry
  <2>5. accepted' \in Seq(S!Request \X Nat)
    <3>1. <<i, clock>> \in S!Request \X Nat
      OBVIOUS
    <3>2. Append(accepted, <<i, clock>>) \in Seq(S!Request \X Nat)
      BY <3>1
    <3>3. QED
      BY <1>4, <3>2 DEF S!Deliver
  <2>6. repeated' \in BOOLEAN
    BY <1>4 DEF S!Deliver
  <2>7. QED
    BY <1>4, <2>2, <2>3, <2>4, <2>5, <2>6 DEF S!Deliver
<1>5. CASE UNCHANGED callVars
  BY <1>5 DEF callVars
<1>6. QED
  BY <1>1, <1>2, <1>3, <1>4, <1>5 DEF S!Next

\* Time passes, the call is given up, or nothing happens.
LEMMA QuietStep ==
  ASSUME SignedInv, NEW later \in Nat, clock' = later, later >= clock,
         UNCHANGED <<cloud, standing, stamp, current, sent, nonces, accepted>>,
         stamp = S!Unstamped => UNCHANGED outcome
  PROVE  (SignedFirst /\ InOrder /\ TurnedAway /\ NoncesKept /\ S!MadeOnce)'
<1>0. /\ S!Request \subseteq Nat /\ clock \in Nat /\ stamp \in Nat /\ Skew \in Nat
      /\ Window \in Nat
  BY Numbers DEF SignedInv
<1>1. SignedFirst'
  <2>1. SignedFirst
    BY DEF SignedInv
  <2>2. QED
    BY <1>0, <2>1 DEF SignedFirst, S!Unstamped
<1>2. InOrder'
  BY DEF SignedInv, InOrder
<1>3. TurnedAway'
  <2>1. ASSUME NEW i \in S!Request, OutOfPlay(i) PROVE OutOfPlay(i)'
    BY <1>0, <2>1 DEF OutOfPlay
  <2>2. TurnedAway
    BY DEF SignedInv
  <2>3. QED
    BY <2>1, <2>2 DEF TurnedAway
<1>4. (NoncesKept /\ S!MadeOnce)'
  BY DEF SignedInv, NoncesKept, S!MadeOnce
<1>5. QED
  BY <1>1, <1>2, <1>3, <1>4

LEMMA SignKeeps ==
  ASSUME SignedInv, S!Sign
  PROVE  (SignedFirst /\ InOrder /\ TurnedAway /\ NoncesKept /\ S!MadeOnce)'
<1> USE SignedAssumption DEF SignedInv, SignedTypes, S!Request, S!Unsigned, S!Unstamped
<1>1. sent = {} /\ current' = current
  BY DEF S!Sign, SignedFirst
<1>2. current = 1 /\ stamp' # S!Unstamped
  BY DEF S!Sign, SignedFirst
<1>3. SignedFirst'
  BY <1>2 DEF S!Sign, SignedFirst
<1>4. (InOrder /\ TurnedAway)'
  BY <1>1, <1>2 DEF S!Sign, InOrder, TurnedAway
<1>5. \A n \in DOMAIN accepted : accepted[n][1] = S!Unsigned
  BY <1>1 DEF NoncesKept
<1>6. (NoncesKept /\ S!MadeOnce)'
  BY <1>5 DEF S!Sign, NoncesKept, S!MadeOnce
<1>7. QED
  BY <1>3, <1>4, <1>6

LEMMA DeliverKeeps ==
  ASSUME SignedInv, NEW i \in S!Request, S!Deliver(i)
  PROVE  (SignedFirst /\ InOrder /\ TurnedAway /\ NoncesKept /\ S!MadeOnce)'
<1> USE SignedAssumption DEF SignedInv, SignedTypes, S!Request, S!Unsigned, S!Unstamped
<1>1. UNCHANGED <<cloud, standing, clock, stamp>> /\ i \in sent
  BY DEF S!Deliver
<1>2. \/ UNCHANGED <<current, sent>>
      \/ /\ i = current /\ i # S!Unsigned /\ S!Retries(S!Reply(i))
         /\ current' = i + 1 /\ sent' = sent \cup {i + 1}
  <2>1. UNCHANGED <<current, sent>> \/ (i = current /\ S!Receive(i, S!Reply(i)))
    BY DEF S!Deliver
  <2>2. CASE i = current /\ S!Receive(i, S!Reply(i))
    <3>1. \/ UNCHANGED <<current, sent>>
          \/ /\ S!Retries(S!Reply(i)) /\ i < S!Unsigned
             /\ current' = i + 1 /\ sent' = sent \cup {i + 1}
      BY <2>2 DEF S!Receive
    <3>2. QED
      BY <2>2, <3>1
  <2>3. QED
    BY <2>1, <2>2
<1>3. SignedFirst'
  BY <1>1, <1>2 DEF SignedFirst
<1>4. InOrder'
  <2>1. CASE UNCHANGED <<current, sent>>
    BY <2>1 DEF InOrder
  <2>2. CASE i = current /\ current' = i + 1 /\ sent' = sent \cup {i + 1}
    <3> SUFFICES ASSUME NEW j \in sent \cup {i + 1} PROVE j <= i + 1
      BY <2>2 DEF InOrder
    <3>1. CASE j \in sent
      BY <2>2, <3>1 DEF InOrder
    <3>2. QED
      BY <3>1
  <2>3. QED
    BY <1>2, <2>1, <2>2
<1>5. TurnedAway'
  <2>1. CASE UNCHANGED <<current, sent>>
    BY <1>1, <2>1 DEF TurnedAway, OutOfPlay
  <2>2. CASE i = current /\ current' = i + 1 /\ OutOfPlay(i)
    <3> SUFFICES ASSUME NEW j \in S!Request, j < i + 1 PROVE OutOfPlay(j)
      BY <1>1, <2>2 DEF TurnedAway, OutOfPlay
    <3>1. j < current \/ j = i
      BY <2>2
    <3>2. QED
      BY <2>2, <3>1 DEF TurnedAway
  <2>3. QED
    BY <1>1, <1>2, <2>1, <2>2, RefusedIsOutOfPlay
<1>6. sent \subseteq sent'
  BY <1>2
<1>7. CASE S!Reply(i) # "ok"
  <2>1. accepted' = accepted
    BY <1>7 DEF S!Deliver
  <2>2. nonces' = nonces \/ nonces' = [nonces EXCEPT ![i] = stamp + Window]
    BY DEF S!Deliver, S!Expiry
  <2>3. NoncesKept'
    BY <1>1, <1>6, <2>1, <2>2 DEF NoncesKept
  <2>4. S!MadeOnce'
    BY <1>1, <2>1 DEF S!MadeOnce
  <2>5. QED
    BY <1>3, <1>4, <1>5, <2>3, <2>4
<1>8. CASE S!Reply(i) = "ok"
  <2> DEFINE last == Len(accepted) + 1
  <2>1. /\ DOMAIN accepted' = DOMAIN accepted \cup {last} /\ last \in Nat
        /\ accepted'[last] = <<i, clock>>
        /\ \A n \in DOMAIN accepted : accepted'[n] = accepted[n] /\ n < last /\ n \in Nat
    <3>1. accepted' = Append(accepted, <<i, clock>>)
      BY <1>8 DEF S!Deliver
    <3>2. accepted \in Seq(S!Request \X Nat) /\ DOMAIN accepted = 1..Len(accepted)
      OBVIOUS
    <3>3. \A n \in DOMAIN accepted : n < last /\ n \in Nat
      BY <3>2
    <3>4. Len(accepted') = last /\ DOMAIN accepted' = 1..last
      BY <3>1, <3>2
    <3>5. accepted'[last] = <<i, clock>>
      BY <3>1, <3>2
    <3>6. \A n \in DOMAIN accepted : accepted'[n] = accepted[n]
      BY <3>1, <3>2
    <3>7. QED
      BY <3>1, <3>2, <3>3, <3>4, <3>5, <3>6
  <2>2. i # S!Unsigned => standing[i] = "entitled" /\ S!Checked(i) /\ ~ S!Spent(i)
    BY <1>8 DEF S!Reply, S!Admitted
  <2>3. i # S!Unsigned => nonces' = [nonces EXCEPT ![i] = stamp + Window]
    BY <2>2 DEF S!Deliver, S!Expiry
  <2>4. i = S!Unsigned => nonces' = nonces
    BY DEF S!Deliver, S!Checked
  <2>5. ASSUME i # S!Unsigned, NEW j \in S!Request, j < i PROVE standing[j] # "entitled"
    <3>1. j < current
      BY <1>1, <2>5 DEF InOrder
    <3>2. clock - stamp <= Window
      BY <2>2, <2>5 DEF S!Checked
    <3>3. QED
      BY <2>5, <3>1, <3>2 DEF TurnedAway, OutOfPlay
  <2> HIDE DEF last
  <2>6. NoncesKept'
    <3> SUFFICES ASSUME NEW n \in DOMAIN accepted', accepted'[n][1] # S!Unsigned
                 PROVE  LET j == accepted'[n][1]
                        IN /\ j \in sent' /\ standing[j] = "entitled"
                           /\ nonces'[j] = stamp + Window
                           /\ \A q \in S!Request : q < j => standing[q] # "entitled"
      BY <1>1 DEF NoncesKept
    <3>1. CASE n = last
      BY <1>1, <1>6, <2>1, <2>2, <2>3, <2>5, <3>1
    <3>2. CASE n \in DOMAIN accepted
      <4>1. accepted'[n] = accepted[n] /\ accepted[n][1] \in S!Request
        BY <2>1, <3>2
      <4>2. QED
        BY <1>6, <2>3, <2>4, <3>2, <4>1 DEF NoncesKept
    <3>3. QED
      BY <2>1, <3>1, <3>2
  <2>7. S!MadeOnce'
    <3> SUFFICES ASSUME NEW m \in DOMAIN accepted', NEW n \in DOMAIN accepted', m < n,
                        accepted'[m][1] # S!Unsigned, accepted'[n][1] # S!Unsigned
                 PROVE  cloud = "gcp" /\ accepted'[n] = <<accepted'[m][1], stamp + Window>>
      BY <1>1 DEF S!MadeOnce
    <3>1. m \in DOMAIN accepted /\ accepted'[m] = accepted[m]
      <4>1. n \in Nat /\ n <= last /\ last \in Nat
        BY <2>1
      <4>2. m # last
        BY <4>1
      <4>3. QED
        BY <2>1, <4>2
    <3>2. CASE n = last
      <4>0. accepted'[n] = <<i, clock>>
        BY <2>1, <3>2
      <4>1. i # S!Unsigned /\ accepted[m][1] # S!Unsigned
        BY <3>1, <4>0
      <4>2. accepted[m][1] = i /\ cloud = "gcp" /\ clock = stamp + Window
        BY <1>1, <1>8, <3>1, <4>1, AcceptedOnce
      <4>3. QED
        BY <2>1, <3>1, <3>2, <4>2
    <3>3. CASE n \in DOMAIN accepted
      BY <2>1, <3>1, <3>3 DEF S!MadeOnce
    <3>4. QED
      BY <2>1, <3>2, <3>3
  <2>8. QED
    BY <1>3, <1>4, <1>5, <2>6, <2>7
<1>9. QED
  BY <1>7, <1>8

\* The request without a signature is the last.
LEMMA UnsignedIsLast == \A j \in S!Request : j < S!Unsigned \/ j = S!Unsigned
BY SignedAssumption DEF S!Request, S!Unsigned
LEMMA NothingAfterUnsigned == ~(S!Unsigned < S!Unsigned)
BY SignedAssumption DEF S!Unsigned

\* A request that arrives for the first time is not taken for a replay; so the client
\* comes to the end of its keys only when none can be used.
LEMMA TriedKept == ASSUME SignedInv, [S!Next]_callVars PROVE (Tried /\ Bounded)'
<1> USE SignedAssumption DEF SignedInv, SignedTypes, S!Request, S!Unsigned, S!Unstamped
<1>1. CASE S!Tick
  BY <1>1 DEF S!Tick, Tried, Bounded, OutOfPlay
<1>2. CASE S!Sign
  <2>1. current' = current /\ outcome' = outcome /\ current = 1
    BY <1>2 DEF S!Sign, SignedFirst
  <2>2. outcome # "refused" \/ repeated
    BY <1>2 DEF S!Sign, SignedFirst
  <2>3. QED
    BY <1>2, <2>1, <2>2 DEF S!Sign, Tried, Bounded
<1>3. CASE S!GiveUp
  BY <1>3 DEF S!GiveUp, Tried, Bounded
<1>4. ASSUME NEW i \in S!Request, S!Deliver(i) PROVE (Tried /\ Bounded)'
  <2>1. stamp # S!Unstamped /\ i \in sent /\ UNCHANGED <<standing, clock, stamp>>
    BY <1>4 DEF S!Deliver, SignedFirst
  <2>2. nonces' = nonces \/ nonces' = [nonces EXCEPT ![i] = stamp + Window]
    BY <1>4 DEF S!Deliver, S!Expiry
  <2>3. stamp + Window <= MaxTime + Skew + Window /\ stamp + Window \in Nat
    BY <2>1
  <2>4. \A j \in S!Request : nonces'[j] <= MaxTime + Skew + Window
    BY <2>2, <2>3 DEF Bounded
  <2>5. Len(accepted') <= MaxAccepted
    <3>1. accepted' = accepted \/ accepted' = Append(accepted, <<i, clock>>)
      BY <1>4 DEF S!Deliver
    <3>2. Len(accepted) < MaxAccepted /\ Len(accepted) \in Nat
      BY <1>4 DEF S!Deliver
    <3>3. Len(Append(accepted, <<i, clock>>)) = Len(accepted) + 1
      OBVIOUS
    <3>4. QED
      BY <3>1, <3>2, <3>3
  <2>6. Bounded'
    BY <2>4, <2>5 DEF Bounded
  <2>7. CASE repeated'
    BY <2>6, <2>7 DEF Tried
  <2>8. CASE ~repeated'
    <3>1. i = current /\ outcome = "open" /\ S!Receive(i, S!Reply(i)) /\ ~repeated
      BY <1>4, <2>8 DEF S!Deliver
    <3>2. \A j \in S!Request : j >= current => nonces[j] = 0
      BY <3>1 DEF Tried
    <3>3. ~S!Spent(i)
      BY <3>1, <3>2 DEF S!Spent
    <3>4. S!Reply(i) \in {"ok", "another key"}
      BY <3>3 DEF S!Reply
    <3>5. CASE S!Reply(i) = "ok"
      BY <2>6, <3>1, <3>5 DEF S!Receive, Tried
    <3>6. CASE S!Reply(i) = "another key" /\ i < S!Unsigned
      <4>1. current' = i + 1 /\ outcome' = "open"
        BY <3>1, <3>6 DEF S!Receive, S!Retries
      <4>2. \A j \in S!Request : j >= i + 1 => nonces'[j] = 0
        BY <2>2, <3>1, <3>2
      <4>3. QED
        BY <2>6, <4>1, <4>2 DEF Tried
    <3>7. CASE S!Reply(i) = "another key" /\ i = S!Unsigned
      <4>0. ~(i < S!Unsigned)
        <5> HIDE DEF S!Unsigned, SignedInv, SignedTypes
        <5> QED
          BY ONLY <3>7, NothingAfterUnsigned, Zenon
      <4>1. outcome' = "refused"
        BY <3>1, <3>7, <4>0 DEF S!Receive, S!Retries
      <4>2. standing[i] # "entitled"
        BY <3>7 DEF S!Reply, S!Admitted
      <4>3. \A j \in S!Request : OutOfPlay(j)
        <5>1. \A j \in S!Request : j < i \/ j = i
          BY <3>7, UnsignedIsLast
        <5>2. OutOfPlay(i) /\ TurnedAway
          BY <4>2 DEF OutOfPlay
        <5>3. QED
          BY <3>1, <5>1, <5>2 DEF TurnedAway
      <4>4. \A j \in S!Request : OutOfPlay(j)'
        BY <2>1, <4>3 DEF OutOfPlay
      <4>5. QED
        BY <2>6, <4>1, <4>4 DEF Tried
    <3>8. i < S!Unsigned \/ i = S!Unsigned
      OBVIOUS
    <3>9. QED
      BY <3>4, <3>5, <3>6, <3>7, <3>8
  <2>9. QED
    BY <2>7, <2>8
<1>5. CASE UNCHANGED callVars
  BY <1>5 DEF callVars, Tried, Bounded, OutOfPlay
<1>6. QED
  BY <1>1, <1>2, <1>3, <1>4, <1>5 DEF S!Next

LEMMA SignedStep == ASSUME SignedInv, [S!Next]_callVars PROVE SignedInv'
<1>1. SignedTypes'
  BY SignedStepTypes
<1>2. (SignedFirst /\ InOrder /\ TurnedAway /\ NoncesKept /\ S!MadeOnce)'
  <2>1. CASE S!Tick \/ S!GiveUp \/ UNCHANGED callVars
    <3>1. PICK later \in Nat : clock' = later /\ later >= clock
      BY <2>1, SignedAssumption DEF S!Tick, S!GiveUp, callVars, SignedInv, SignedTypes
    <3>2. /\ UNCHANGED <<cloud, standing, stamp, current, sent, nonces, accepted>>
          /\ stamp = S!Unstamped => UNCHANGED outcome
      BY <2>1 DEF S!Tick, S!GiveUp, callVars
    <3>3. QED
      BY <3>1, <3>2, QuietStep
  <2>2. CASE S!Sign
    BY <2>2, SignKeeps
  <2>3. ASSUME NEW i \in S!Request, S!Deliver(i)
        PROVE  (SignedFirst /\ InOrder /\ TurnedAway /\ NoncesKept /\ S!MadeOnce)'
    BY <2>3, DeliverKeeps
  <2>4. QED
    BY <2>1, <2>2, <2>3 DEF S!Next
<1>3. (Tried /\ Bounded)'
  BY TriedKept
<1>4. QED
  BY <1>1, <1>2, <1>3 DEF SignedInv

\* Requests on pull requests do not change which broker it is.
LEMMA SameCloud == ASSUME NEW c \in Call, Serve(c) \/ \E q \in Requests : Begin(c, q) PROVE cloud' = cloud
  BY DEF Serve, Begin, Load, LoadPr, Transact, ReadDoc, Put, WriteObject, WriteAgain, DropSource,
         Save, SaveRecord, Fail

\* A signed call is made once at most, with any number of keys and any window, as
\* long as the client's clock is not further ahead than the window. (The broker of
\* Google takes a request again in the last second its timestamp is accepted.)
THEOREM SignedCallsAreMadeOnce == ServiceSpec => []CallsHold
<1>1. ServiceInit => SignedInv
  BY SignedInit DEF ServiceInit
<1>2. SignedInv /\ [ServiceNext]_ServiceVars => SignedInv'
  <2> SUFFICES ASSUME SignedInv, [ServiceNext]_ServiceVars PROVE SignedInv'
    OBVIOUS
  <2>1. [S!Next]_callVars
    BY SameCloud DEF ServiceNext, ServiceVars, signedVars, callVars, vars
  <2>2. QED
    BY <2>1, SignedStep
<1>3. SignedInv => CallsHold
  <2> SUFFICES ASSUME SignedInv PROVE CallsHold
    OBVIOUS
  <2>1. S!TypeOK
    BY Numbers, SignedAssumption DEF SignedInv, SignedTypes, Bounded, S!TypeOK
  <2>2. S!RightKeyIsFound
    BY Numbers DEF SignedInv, Tried, OutOfPlay, S!RightKeyIsFound
  <2>3. QED
    BY <2>1, <2>2 DEF SignedInv, CallsHold
<1>4. QED
  BY <1>1, <1>2, <1>3, PTL DEF ServiceSpec

-----------------------------------------------------------------------------
(***************************************************************************)
(* CI runs (CiRuns)                                                        *)
(***************************************************************************)

\* The runs of the set have ids of their own.
OwnIds(some) == \A r, s \in some : r.id = s.id => r = s

\* The runs with a higher id.
Newer(some, id) == {s \in some : s.id > id}

\* A document keeps the run, or one with its id, or as many newer ones as it may.
Covers(some, a) == (\E r \in some : r.id = a.id) \/ Cardinality(Newer(some, a.id)) = Cap

LEMMA SameSize == \A X : R!Cardinality(X) = Cardinality(X)
BY DEF R!Cardinality, Cardinality

LEMMA Sessions == Cardinality(Session) \in Nat
BY CiAssumption, FS_CardinalityType

\* Runs with ids of their own are no more than there are ids.
LEMMA FewRuns ==
  ASSUME NEW some \in SUBSET R!Run, OwnIds(some)
  PROVE  IsFiniteSet(some) /\ \A T \in SUBSET some : IsFiniteSet(T) /\ Cardinality(T) \in Nat
<1> DEFINE n == Cardinality(Session)
           ids == [r \in some |-> r.id]
<1>1. n \in Nat
  BY Sessions
<1>2. \A r \in R!Run : r.id \in 1..n + 1
  BY SameSize DEF R!Run
<1>3. ids \in [some -> 1..n + 1] /\ \A r, s \in some : ids[r] = ids[s] => r = s
  BY <1>2 DEF OwnIds
<1> HIDE DEF ids, n
<1>4. ids \in Injection(some, 1..n + 1)
  BY <1>3, Fun_IsInj
<1>5. IsFiniteSet(1..n + 1)
  BY <1>1, FS_Interval
<1>6. IsFiniteSet(some)
  BY <1>4, <1>5, FS_Injection
<1>7. QED
  BY <1>6, FS_Subset, FS_CardinalityType

\* The more newer ones a run has, the lower its id.
LEMMA NewerOrder ==
  ASSUME NEW some \in SUBSET R!Run, OwnIds(some), NEW r \in some, NEW s \in some
  PROVE  /\ r.id < s.id => Cardinality(Newer(some, s.id)) < Cardinality(Newer(some, r.id))
         /\ Cardinality(Newer(some, r.id)) = Cardinality(Newer(some, s.id)) => r = s
         /\ Cardinality(Newer(some, r.id)) < Cardinality(some)
<1>1. \A q \in R!Run : q.id \in Nat
  BY Sessions, SameSize DEF R!Run
<1>2. ASSUME NEW p \in some, NEW q \in some, p.id < q.id
      PROVE  Cardinality(Newer(some, q.id)) < Cardinality(Newer(some, p.id))
  <2>1. Newer(some, q.id) \in SUBSET Newer(some, p.id) /\ Newer(some, p.id) \in SUBSET some
    BY <1>1, <1>2 DEF Newer
  <2>2. q \in Newer(some, p.id) /\ q \notin Newer(some, q.id)
    BY <1>1, <1>2 DEF Newer
  <2>3. /\ IsFiniteSet(Newer(some, p.id)) /\ Cardinality(Newer(some, p.id)) \in Nat
        /\ Cardinality(Newer(some, q.id)) \in Nat
    BY <2>1, FewRuns
  <2>4. QED
    BY <2>1, <2>2, <2>3, FS_Subset
<1>3. r.id < s.id \/ s.id < r.id \/ r = s
  BY <1>1 DEF OwnIds
<1>4. Newer(some, r.id) \in SUBSET some /\ Newer(some, s.id) \in SUBSET some
  BY DEF Newer
<1>5. Cardinality(Newer(some, r.id)) \in Nat /\ Cardinality(Newer(some, s.id)) \in Nat
  BY <1>4, FewRuns
<1>6. Cardinality(Newer(some, r.id)) < Cardinality(some)
  <2>1. r \notin Newer(some, r.id)
    BY <1>1 DEF Newer
  <2>2. IsFiniteSet(some) /\ Cardinality(some) \in Nat
    BY FewRuns, FS_CardinalityType
  <2>3. QED
    BY <1>4, <1>5, <2>1, <2>2, FS_Subset
<1>7. QED
  BY <1>2, <1>3, <1>5, <1>6

\* No more than Cap runs are kept, ...
LEMMA LatestAreFew ==
  ASSUME NEW some \in SUBSET R!Run, OwnIds(some)
  PROVE  R!Latest(some) \in SUBSET some /\ Cardinality(R!Latest(some)) <= Cap
<1> DEFINE kept == R!Latest(some)
           rank == [r \in kept |-> Cardinality(Newer(some, r.id)) + 1]
<1>1. kept = {r \in some : Cardinality(Newer(some, r.id)) < Cap}
  BY SameSize DEF R!Latest, Newer
<1>2. \A r \in some : Cardinality(Newer(some, r.id)) \in Nat
  BY FewRuns DEF Newer
<1>3. rank \in [kept -> 1..Cap]
  BY <1>1, <1>2, CiAssumption
<1>4. \A r, s \in kept : rank[r] = rank[s] => r = s
  BY <1>1, <1>2, NewerOrder
<1> HIDE DEF rank
<1>5. rank \in Injection(kept, 1..Cap)
  BY <1>3, <1>4, Fun_IsInj
<1>6. IsFiniteSet(1..Cap) /\ Cardinality(1..Cap) = Cap
  BY CiAssumption, FS_Interval
<1>7. QED
  BY <1>1, <1>5, <1>6, FS_Injection

\* ... and as many if there are as many, the newest.
LEMMA LatestAreNewest ==
  ASSUME NEW some \in SUBSET R!Run, OwnIds(some), NEW id \in Nat,
         Cardinality(Newer(some, id)) >= Cap
  PROVE  Cardinality(Newer(R!Latest(some), id)) = Cap
<1> DEFINE kept == R!Latest(some)
           n == Cardinality(some)
           rank == [r \in some |-> Cardinality(Newer(some, r.id)) + 1]
           first == [r \in kept |-> rank[r]]
<1>1. kept = {r \in some : Cardinality(Newer(some, r.id)) < Cap}
  BY SameSize DEF R!Latest, Newer
<1>2. /\ IsFiniteSet(some) /\ n \in Nat
      /\ \A x : Newer(some, x) \in SUBSET some /\ Cardinality(Newer(some, x)) \in Nat
  BY FewRuns, FS_CardinalityType DEF Newer
<1>3. rank \in [some -> 1..n]
  BY <1>2, NewerOrder
<1>4. \A r, s \in some : rank[r] = rank[s] => r = s
  BY <1>2, NewerOrder
<1>5. IsFiniteSet(1..n) /\ Cardinality(1..n) = n
  BY <1>2, FS_Interval
<1>6. \A t \in 1..n : \E r \in some : rank[r] = t
  <2> HIDE DEF rank, n
  <2>1. rank \in Injection(some, 1..n)
    BY <1>3, <1>4, Fun_IsInj
  <2>2. rank \in Surjection(some, 1..n)
    BY <1>5, <2>1, FS_Injection DEF n
  <2>3. QED
    BY <2>2, Fun_SurjectionProperties
<1>7. n >= Cap /\ Cap \in Nat
  <2>1. Cardinality(Newer(some, id)) <= n
    BY <1>2, FS_Subset
  <2>2. QED
    BY <1>2, <2>1, CiAssumption
<1>8. first \in [kept -> 1..Cap]
  BY <1>1, <1>2, <1>7
<1>9. \A r, s \in kept : first[r] = first[s] => r = s
  BY <1>1, <1>4
<1>10. \A t \in 1..Cap : \E r \in kept : first[r] = t
  <2> SUFFICES ASSUME NEW t \in 1..Cap PROVE \E r \in kept : first[r] = t
    OBVIOUS
  <2>1. PICK r \in some : rank[r] = t
    BY <1>2, <1>6, <1>7
  <2>2. r \in kept
    BY <1>1, <1>2, <1>7, <2>1
  <2>3. QED
    BY <2>1, <2>2
<1>11. Cardinality(kept) = Cap
  <2>1. IsFiniteSet(1..Cap) /\ Cardinality(1..Cap) = Cap
    BY <1>7, FS_Interval
  <2>2. IsFiniteSet(kept)
    BY <1>1, FewRuns
  <2> HIDE DEF first, kept
  <2>3. first \in Bijection(kept, 1..Cap)
    BY <1>8, <1>9, <1>10, Fun_IsBij
  <2>4. ExistsBijection(kept, 1..Cap)
    BY <2>3, Fun_ExistsBij
  <2>5. QED
    BY <2>1, <2>2, <2>4, FS_Bijection
<1>12. Newer(kept, id) = kept
  <2> SUFFICES ASSUME NEW r \in kept PROVE r.id > id
    BY DEF Newer
  <2>1. r \in some /\ Cardinality(Newer(some, r.id)) < Cap
    BY <1>1
  <2>2. \A q \in some : q.id \in Nat
    BY Sessions, SameSize DEF R!Run
  <2>3. SUFFICES ASSUME r.id <= id PROVE FALSE
    BY <2>1, <2>2
  <2>4. Newer(some, id) \in SUBSET Newer(some, r.id)
    BY <2>1, <2>2, <2>3 DEF Newer
  <2>5. Cardinality(Newer(some, id)) <= Cardinality(Newer(some, r.id))
    BY <1>2, <2>4, FS_Subset
  <2>6. QED
    BY <1>2, <1>7, <2>1, <2>5
<1>13. QED
  BY <1>11, <1>12

\* What a merge makes of the document's runs and those of a request, before it leaves
\* out the oldest: one run of every id.
Unbeaten(c) ==
  {r \in runs \cup ciCopy[c].runs :
     ~ \E s \in (runs \cup ciCopy[c].runs) \ {r} :
         s.id = r.id /\ (s.at > r.at \/ (s.at = r.at /\ r \notin ciCopy[c].runs))}

LEMMA MergeKeepsIds ==
  ASSUME NEW c \in Session, runs \in SUBSET R!Run, ciCopy[c].runs \in SUBSET R!Run,
         OwnIds(runs), OwnIds(ciCopy[c].runs)
  PROVE  /\ Unbeaten(c) \in SUBSET (runs \cup ciCopy[c].runs)
         /\ OwnIds(Unbeaten(c))
         /\ \A r \in runs \cup ciCopy[c].runs : \E u \in Unbeaten(c) : u.id = r.id
         /\ R!Merged(c) = R!Latest(Unbeaten(c))
<1> DEFINE mine == ciCopy[c].runs
<1>1. \A r \in runs \cup mine : r.id \in Nat /\ r.at \in Nat
  BY CiAssumption, Sessions, SameSize DEF R!Run
<1>2. OwnIds(Unbeaten(c))
  <2> SUFFICES ASSUME NEW r \in Unbeaten(c), NEW s \in Unbeaten(c), r.id = s.id, r # s
               PROVE  FALSE
    BY DEF OwnIds
  <2>1. r.at \in Nat /\ s.at \in Nat
    BY <1>1 DEF Unbeaten
  <2>2. ~(s.at > r.at) /\ ~(r.at > s.at)
    BY DEF Unbeaten
  <2>3. s.at = r.at
    BY <2>1, <2>2
  <2>4. r \in mine /\ s \in mine
    BY <2>3 DEF Unbeaten
  <2>5. QED
    BY <2>4 DEF OwnIds
<1>3. ASSUME NEW r \in mine PROVE \E u \in Unbeaten(c) : u.id = r.id
  <2>1. CASE \E s \in runs : s.id = r.id /\ s.at > r.at
    <3>1. PICK s \in runs : s.id = r.id /\ s.at > r.at
      BY <2>1
    <3>2. \A t \in runs \cup mine : t.id = s.id => t = s \/ t = r
      BY <3>1 DEF OwnIds
    <3>3. s \in Unbeaten(c)
      BY <1>1, <3>1, <3>2 DEF Unbeaten
    <3>4. QED
      BY <3>1, <3>3
  <2>2. CASE ~ \E s \in runs : s.id = r.id /\ s.at > r.at
    <3>1. \A t \in mine : t.id = r.id => t = r
      BY DEF OwnIds
    <3>2. r \in Unbeaten(c)
      BY <2>2, <3>1 DEF Unbeaten
    <3>3. QED
      BY <3>2
  <2>3. QED
    BY <2>1, <2>2
<1>4. ASSUME NEW r \in runs PROVE \E u \in Unbeaten(c) : u.id = r.id
  <2>1. CASE \E s \in mine : s.id = r.id
    BY <1>3, <2>1
  <2>2. CASE ~ \E s \in mine : s.id = r.id
    <3>1. \A t \in runs \cup mine : t.id = r.id => t = r
      BY <2>2 DEF OwnIds
    <3>2. r \in Unbeaten(c)
      BY <3>1 DEF Unbeaten
    <3>3. QED
      BY <3>2
  <2>3. QED
    BY <2>1, <2>2
<1>5. R!Merged(c) = R!Latest(Unbeaten(c))
  BY DEF R!Merged, Unbeaten
<1>6. QED
  BY <1>2, <1>3, <1>4, <1>5 DEF Unbeaten

\* What the document covers, a request's copy covers when it has been merged with it.
LEMMA MergeCovers ==
  ASSUME NEW c \in Session, runs \in SUBSET R!Run, ciCopy[c].runs \in SUBSET R!Run,
         OwnIds(runs), OwnIds(ciCopy[c].runs), NEW a \in R!Run, Covers(runs, a)
  PROVE  Covers(R!Merged(c), a)
<1> DEFINE all == Unbeaten(c)
           kept == R!Latest(all)
<1>1. /\ all \in SUBSET R!Run /\ OwnIds(all) /\ R!Merged(c) = kept
      /\ \A r \in runs : \E u \in all : u.id = r.id
  BY MergeKeepsIds
<1>2. a.id \in Nat /\ \A r \in R!Run : r.id \in Nat
  BY Sessions, SameSize DEF R!Run
<1>3. SUFFICES Covers(kept, a)
  BY <1>1
<1> HIDE DEF all
<1>4. CASE Cardinality(Newer(all, a.id)) >= Cap
  BY <1>1, <1>2, <1>4, LatestAreNewest DEF Covers
<1>5. CASE ~(Cardinality(Newer(all, a.id)) >= Cap)
  <2>1. Newer(all, a.id) \in SUBSET all
    BY DEF Newer
  <2>2. IsFiniteSet(Newer(all, a.id)) /\ Cardinality(Newer(all, a.id)) \in Nat
    BY <1>1, <2>1, FewRuns
  <2>3. CASE \E r \in runs : r.id = a.id
    <3>1. PICK u \in all : u.id = a.id
      BY <1>1, <2>3
    <3>2. {s \in all : s.id > u.id} = Newer(all, a.id)
      BY <3>1 DEF Newer
    <3>3. R!Cardinality({s \in all : s.id > u.id}) < Cap
      <4>1. Cardinality(Newer(all, a.id)) < Cap
        BY <1>5, <2>2, CiAssumption
      <4>2. R!Cardinality(Newer(all, a.id)) = Cardinality(Newer(all, a.id))
        BY SameSize
      <4>3. QED
        BY <3>2, <4>1, <4>2
    <3>4. u \in kept
      BY <3>3 DEF R!Latest
    <3>5. QED
      BY <3>1, <3>4 DEF Covers
  <2>4. CASE Cardinality(Newer(runs, a.id)) = Cap
    <3> DEFINE same == [r \in Newer(runs, a.id) |-> CHOOSE u \in all : u.id = r.id]
    <3>1. \A r \in Newer(runs, a.id) : r \in runs /\ r.id > a.id
      BY DEF Newer
    <3>2. \A r \in Newer(runs, a.id) : same[r] \in all /\ same[r].id = r.id
      BY <1>1, <3>1
    <3>3. same \in [Newer(runs, a.id) -> Newer(all, a.id)]
      BY <3>1, <3>2 DEF Newer
    <3>4. \A r, s \in Newer(runs, a.id) : same[r] = same[s] => r = s
      BY <3>1, <3>2 DEF OwnIds
    <3> HIDE DEF same
    <3>5. same \in Injection(Newer(runs, a.id), Newer(all, a.id))
      BY <3>3, <3>4, Fun_IsInj
    <3>6. Cardinality(Newer(runs, a.id)) <= Cardinality(Newer(all, a.id))
      BY <2>2, <3>5, FS_Injection
    <3>7. QED
      BY <1>5, <2>2, <2>4, <3>6, CiAssumption
  <2>5. QED
    BY <2>3, <2>4 DEF Covers
<1>6. QED
  BY <1>4, <1>5

-----------------------------------------------------------------------------
(***************************************************************************)
(* The invariant of the CI runs                                            *)
(***************************************************************************)

\* Those who have started a build.
Builders(builds) == {c \in Session : builds[c] # None}

\* Runs of builds that were started, with ids that were given out, one for each build
\* at most.
Good(k, builds) ==
  /\ k \in [runs : SUBSET R!Run, next : Nat \ {0}]
  /\ k.next <= Cardinality(Builders(builds)) + 1
  /\ OwnIds(k.runs)
  /\ \A r \in k.runs : builds[r.of] # None /\ r.id < k.next

Document == [runs |-> runs, next |-> nextId]

CiTypes ==
  /\ build \in [Session -> R!Status \cup {None}]
  /\ ciPc \in [Session -> {"idle", "start", "view", "ask", "save", "set"}]
  /\ ciCopy \in [Session -> [runs : SUBSET R!Run, next : Nat \ {0}]]
  /\ now \in 0..MaxStamps
  /\ answered \subseteq R!Run
  /\ torn \subseteq Session

CiInv ==
  /\ CiTypes
  /\ Good(Document, build)
  /\ \A c \in Session : Good(ciCopy[c], build)
  /\ \A c \in Session : ciPc[c] = "start" => build[c] = None
  /\ Cardinality(runs) <= Cap
  /\ \A c \in Session : ciPc[c] = "set" => Cardinality(ciCopy[c].runs) <= Cap
  /\ \A a \in answered : Covers(runs, a) /\ build[a.of] # None
  /\ \A c \in Session : ciPc[c] = "set" /\ c \notin torn =>
       \A a \in answered : Covers(ciCopy[c].runs, a)

LEMMA BuildersAreSessions ==
  ASSUME NEW builds
  PROVE  /\ Cardinality(Builders(builds)) \in 0..Cardinality(Session)
         /\ IsFiniteSet(Builders(builds))
<1>1. Builders(builds) \in SUBSET Session
  BY DEF Builders
<1>2. QED
  BY <1>1, CiAssumption, FS_Subset, FS_CardinalityType

LEMMA EmptyIsGood == ASSUME NEW builds PROVE Good(R!Empty, builds)
  BY BuildersAreSessions DEF Good, OwnIds, R!Empty

\* What is good stays good when further builds start.
LEMMA StaysGood ==
  ASSUME NEW k, NEW old, NEW new, Good(k, old),
         \A c \in Session : old[c] # None => new[c] # None
  PROVE  Good(k, new)
<1>1. Builders(old) \in SUBSET Builders(new)
  BY DEF Builders
<1>2. Cardinality(Builders(old)) <= Cardinality(Builders(new))
  BY <1>1, BuildersAreSessions, FS_Subset
<1>3. \A r \in R!Run : r.of \in Session
  BY DEF R!Run
<1>4. /\ Cardinality(Builders(old)) \in Nat /\ Cardinality(Builders(new)) \in Nat
  BY BuildersAreSessions
<1>5. QED
  BY <1>2, <1>3, <1>4 DEF Good

\* A request goes from one step to the next, with what it has in memory.
LEMMA OneGoesOn ==
  ASSUME CiInv, NEW c \in Session, NEW p, NEW k,
         UNCHANGED <<runs, nextId, answered>>,
         now' \in 0..MaxStamps,
         build' \in [Session -> R!Status \cup {None}],
         \A d \in Session : build[d] # None => build'[d] # None,
         \A d \in Session \ {c} : build'[d] = build[d],
         ciPc' = [ciPc EXCEPT ![c] = p], p \in {"idle", "start", "view", "ask", "save", "set"},
         ciCopy' = [ciCopy EXCEPT ![c] = k],
         Good(k, build'),
         torn' = torn \/ (torn' = torn \ {c} /\ p = "idle"),
         p = "start" => build'[c] = None,
         p = "set" => Cardinality(k.runs) <= Cap /\ \A a \in answered : c \in torn \/ Covers(k.runs, a)
  PROVE  CiInv'
<1> USE DEF CiInv
<1>1. k \in [runs : SUBSET R!Run, next : Nat \ {0}]
  BY DEF Good
<1>2. CiTypes'
  BY <1>1 DEF CiTypes
<1>3. Good(Document, build)'
  <2>1. Good(Document, build')
    BY StaysGood
  <2>2. Document' = Document
    BY DEF Document
  <2>3. Good(Document', build')
    BY <2>1, <2>2
  <2>4. QED
    BY <2>3
<1>4. \A d \in Session : ciCopy'[d] = (IF d = c THEN k ELSE ciCopy[d]) /\ ciPc'[d] = (IF d = c THEN p ELSE ciPc[d])
  BY DEF CiTypes
<1>5. \A d \in Session : Good(ciCopy'[d], build')
  BY <1>4, StaysGood
<1>6. (\A d \in Session : ciPc[d] = "start" => build[d] = None)'
  BY <1>4
<1>7. (\A d \in Session : ciPc[d] = "set" => Cardinality(ciCopy[d].runs) <= Cap)'
  BY <1>4
<1>8. (\A d \in Session : ciPc[d] = "set" /\ d \notin torn => \A a \in answered : Covers(ciCopy[d].runs, a))'
  <2> SUFFICES ASSUME NEW d \in Session, ciPc'[d] = "set", d \notin torn', NEW a \in answered
               PROVE  Covers(ciCopy'[d].runs, a)
    BY DEF Covers, Newer
  <2>1. CASE d = c
    BY <1>4, <2>1
  <2>2. CASE d # c
    BY <1>4, <2>2
  <2>3. QED
    BY <2>1, <2>2
<1>9. (\A a \in answered : Covers(runs, a) /\ build[a.of] # None)'
  <2>1. \A a \in answered : a.of \in Session
    BY DEF CiTypes, R!Run
  <2>2. \A a \in answered : build'[a.of] # None
    BY <2>1
  <2>3. QED
    BY <2>2 DEF Covers, Newer
<1>10. QED
  BY <1>2, <1>3, <1>5, <1>6, <1>7, <1>8, <1>9

\* When a run starts, no other has its id.
LEMMA StartKeeps == ASSUME CiInv, NEW c \in Session, R!Start(c) PROVE CiInv'
<1> DEFINE n == ciCopy[c].next
           r == [id |-> n, of |-> c, status |-> "queued", at |-> now + 1]
           k == [runs |-> R!Started(c, r), next |-> n + 1]
<1> USE DEF CiInv, CiTypes
<1>1. /\ ciPc[c] = "start" /\ now < MaxStamps /\ now' = now + 1
      /\ build' = [build EXCEPT ![c] = "queued"]
      /\ ciCopy' = [ciCopy EXCEPT ![c] = k] /\ ciPc' = [ciPc EXCEPT ![c] = "save"]
      /\ UNCHANGED <<runs, nextId, answered, torn>>
  BY DEF R!Start
<1>2. build[c] = None /\ now' \in 0..MaxStamps
  BY <1>1, CiAssumption
<1>3. /\ build' \in [Session -> R!Status \cup {None}] /\ build'[c] = "queued"
      /\ \A d \in Session \ {c} : build'[d] = build[d]
  BY <1>1 DEF R!Status
<1>4. "queued" # None
  BY CiAssumption
<1>5. Builders(build') = Builders(build) \cup {c} /\ c \notin Builders(build)
  BY <1>2, <1>3, <1>4 DEF Builders
<1>6. Cardinality(Builders(build')) = Cardinality(Builders(build)) + 1
  BY <1>5, BuildersAreSessions, FS_AddElement
<1>7. n \in Nat \ {0} /\ n <= Cardinality(Builders(build)) + 1 /\ n <= Cardinality(Session) + 1
      /\ Cardinality(Builders(build)) \in Nat
  BY BuildersAreSessions, Sessions DEF Good
<1>8. r \in R!Run
  <2>1. n \in 1..R!Cardinality(Session) + 1
    BY <1>7, Sessions, SameSize
  <2>2. now + 1 \in 0..MaxStamps /\ "queued" \in R!Status
    BY <1>1, <1>2 DEF R!Status
  <2> HIDE DEF n, CiInv, CiTypes
  <2>3. QED
    BY <2>1, <2>2 DEF R!Run
<1>9. R!Started(c, r) \in SUBSET (ciCopy[c].runs \cup {r})
  BY DEF R!Started
<1>10. ciCopy[c].runs \in SUBSET R!Run /\ \A q \in ciCopy[c].runs : q.id \in Nat /\ q.id < n
  BY Sessions, SameSize DEF Good, R!Run
<1>11. OwnIds(R!Started(c, r))
  <2> SUFFICES ASSUME NEW q \in ciCopy[c].runs \cup {r}, NEW s \in ciCopy[c].runs \cup {r}, q.id = s.id
               PROVE  q = s
    BY <1>9 DEF OwnIds
  <2>1. \A x \in ciCopy[c].runs : x.id # r.id
    BY <1>7, <1>10
  <2>2. OwnIds(ciCopy[c].runs)
    BY DEF Good
  <2>3. QED
    BY <2>1, <2>2 DEF OwnIds
<1>12. \A q \in ciCopy[c].runs \cup {r} : build'[q.of] # None /\ q.id < n + 1
  <2>1. \A q \in ciCopy[c].runs : q.of \in Session /\ build[q.of] # None
    BY <1>10 DEF Good, R!Run
  <2>2. QED
    BY <1>3, <1>4, <1>7, <1>10, <2>1
<1>13. Good(k, build')
  BY <1>6, <1>7, <1>8, <1>9, <1>10, <1>11, <1>12 DEF Good
<1> HIDE DEF r, k
<1>14. \A d \in Session : build[d] # None => build'[d] # None
  BY <1>2, <1>3
<1>15. QED
  BY <1>1, <1>2, <1>3, <1>13, <1>14, OneGoesOn

LEMMA LoadKeeps ==
  ASSUME CiInv, NEW c \in Session, NEW purpose \in {"start", "view", "save"}, R!Load(c, purpose)
  PROVE  CiInv'
<1>1. /\ ciCopy' = [ciCopy EXCEPT ![c] = Document] /\ ciPc' = [ciPc EXCEPT ![c] = purpose]
      /\ UNCHANGED <<runs, nextId, build, now, answered, torn>>
      /\ purpose = "start" => build[c] = None
  BY DEF R!Load, Document
<1>2. Good(Document, build') /\ now' \in 0..MaxStamps /\ build' \in [Session -> R!Status \cup {None}]
  BY <1>1 DEF CiInv, CiTypes
<1>3. QED
  BY <1>1, <1>2, OneGoesOn

LEMMA BuildKeeps == ASSUME CiInv, NEW c \in Session, R!Build(c) PROVE CiInv'
<1>1. PICK s \in R!Status : build' = [build EXCEPT ![c] = s]
  BY DEF R!Build, R!Status, R!Terminal
<1>2. UNCHANGED <<runs, nextId, ciPc, ciCopy, now, answered, torn>> /\ build[c] # None
  BY CiAssumption DEF R!Build
<1>3. s # None /\ now' \in 0..MaxStamps
  BY <1>2, CiAssumption DEF R!Status, CiInv, CiTypes
<1>4. /\ build' \in [Session -> R!Status \cup {None}] /\ build'[c] # None
      /\ \A d \in Session \ {c} : build'[d] = build[d]
  BY <1>1, <1>3 DEF CiInv, CiTypes
<1>5. /\ ciPc' = [ciPc EXCEPT ![c] = ciPc[c]] /\ ciCopy' = [ciCopy EXCEPT ![c] = ciCopy[c]]
      /\ ciPc[c] \in {"idle", "start", "view", "ask", "save", "set"}
  BY <1>2 DEF CiInv, CiTypes
<1>6. \A d \in Session : build[d] # None => build'[d] # None
  BY <1>4
<1>7. Good(ciCopy[c], build')
  BY <1>6, StaysGood DEF CiInv
<1>8. ciPc[c] # "start"
  BY <1>2 DEF CiInv
<1>9. ciPc[c] = "set" => Cardinality(ciCopy[c].runs) <= Cap
      /\ \A a \in answered : c \in torn \/ Covers(ciCopy[c].runs, a)
  BY DEF CiInv
<1>10. QED
  BY <1>2, <1>3, <1>4, <1>5, <1>6, <1>7, <1>8, <1>9, OneGoesOn

\* Asking for the status of runs changes none of their ids.
LEMMA RefreshKeeps == ASSUME CiInv, NEW c \in Session, R!Refresh(c) PROVE CiInv'
<1> DEFINE mine == ciCopy[c].runs
           new == R!Refreshed(c)
           Fresh(r) == IF r.status \in R!Terminal \/ r.status = build[r.of] THEN r
                       ELSE [r EXCEPT !.status = build[r.of], !.at = now + 1]
<1>1. UNCHANGED <<runs, nextId, build, answered, torn>> /\ now < MaxStamps
  BY DEF R!Refresh
<1>2. build' \in [Session -> R!Status \cup {None}] /\ now \in 0..MaxStamps /\ now + 1 \in 0..MaxStamps
  BY <1>1, CiAssumption DEF CiInv, CiTypes
<1>3. CASE new = mine
  <2>1. /\ ciPc' = [ciPc EXCEPT ![c] = "idle"] /\ ciCopy' = [ciCopy EXCEPT ![c] = R!Empty] /\ now' = now
    BY <1>3 DEF R!Refresh
  <2>2. QED
    BY <1>1, <1>2, <2>1, EmptyIsGood, OneGoesOn
<1>4. CASE new # mine
  <2>1. /\ ciPc' = [ciPc EXCEPT ![c] = "save"]
        /\ ciCopy' = [ciCopy EXCEPT ![c].runs = new] /\ now' = now + 1
    BY <1>4 DEF R!Refresh
  <2>2. Good(ciCopy[c], build) /\ ciCopy \in [Session -> [runs : SUBSET R!Run, next : Nat \ {0}]]
    BY DEF CiInv, CiTypes
  <2>3. ciCopy' = [ciCopy EXCEPT ![c] = [runs |-> new, next |-> ciCopy[c].next]]
    <3> HIDE DEF new
    <3>1. [ciCopy[c] EXCEPT !.runs = new] = [runs |-> new, next |-> ciCopy[c].next]
      BY <2>2
    <3>2. ciCopy' = [ciCopy EXCEPT ![c] = [ciCopy[c] EXCEPT !.runs = new]]
      BY <2>1
    <3>3. QED
      BY <3>1, <3>2
  <2>4. new = {Fresh(r) : r \in mine}
    BY DEF R!Refreshed
  <2>5. \A r \in mine : Fresh(r) \in R!Run /\ Fresh(r).id = r.id /\ Fresh(r).of = r.of
    <3> SUFFICES ASSUME NEW r \in mine PROVE Fresh(r) \in R!Run /\ Fresh(r).id = r.id /\ Fresh(r).of = r.of
      BY Zenon
    <3>1. r \in R!Run /\ build[r.of] # None
      BY <2>2 DEF Good
    <3>2. r.of \in Session
      BY <3>1 DEF R!Run
    <3>3. build[r.of] \in R!Status
      BY <1>1, <1>2, <3>1, <3>2
    <3>4. QED
      BY <1>2, <3>1, <3>3 DEF R!Run
  <2> HIDE DEF Fresh
  <2>6. new \in SUBSET R!Run
    BY <2>4, <2>5
  <2>7. OwnIds(new)
    BY <2>2, <2>4, <2>5 DEF OwnIds, Good
  <2>8. \A r \in new : build[r.of] # None /\ r.id < ciCopy[c].next
    BY <2>2, <2>4, <2>5 DEF Good
  <2> HIDE DEF new
  <2>9. Good([runs |-> new, next |-> ciCopy[c].next], build')
    BY <1>1, <2>2, <2>6, <2>7, <2>8 DEF Good
  <2>10. QED
    BY <1>1, <1>2, <2>1, <2>3, <2>9, OneGoesOn
<1>5. QED
  BY <1>3, <1>4

\* The document is read again and what is there is kept.
LEMMA ReadKeeps == ASSUME CiInv, NEW c \in Session, R!Read(c) PROVE CiInv'
<1> DEFINE k == [runs |-> R!Merged(c), next |-> R!NextId(c)]
<1>1. /\ ciCopy' = [ciCopy EXCEPT ![c] = k] /\ ciPc' = [ciPc EXCEPT ![c] = "set"]
      /\ UNCHANGED <<runs, nextId, build, now, answered, torn>>
  BY DEF R!Read
<1>2. Good(Document, build) /\ Good(ciCopy[c], build)
  BY DEF CiInv
<1>3. /\ runs \in SUBSET R!Run /\ ciCopy[c].runs \in SUBSET R!Run
      /\ OwnIds(runs) /\ OwnIds(ciCopy[c].runs)
      /\ nextId \in Nat \ {0} /\ ciCopy[c].next \in Nat \ {0}
  BY <1>2 DEF Good, Document
<1>4. /\ Unbeaten(c) \in SUBSET (runs \cup ciCopy[c].runs)
      /\ OwnIds(Unbeaten(c)) /\ R!Merged(c) = R!Latest(Unbeaten(c))
  BY <1>3, MergeKeepsIds
<1>5. Unbeaten(c) \in SUBSET R!Run
  BY <1>3, <1>4
<1>6. R!Merged(c) \in SUBSET Unbeaten(c) /\ Cardinality(R!Merged(c)) <= Cap
  BY <1>4, <1>5, LatestAreFew
<1>7. /\ k.next \in Nat \ {0} /\ nextId <= k.next /\ ciCopy[c].next <= k.next
      /\ k.next = nextId \/ k.next = ciCopy[c].next
  BY <1>3 DEF R!NextId
<1>8. \A r \in runs \cup ciCopy[c].runs : build[r.of] # None /\ r.id < k.next
  <2>1. \A r \in runs \cup ciCopy[c].runs : r.id \in Nat
    BY <1>3, Sessions, SameSize DEF R!Run
  <2>2. \A r \in runs : build[r.of] # None /\ r.id < nextId
    BY <1>2 DEF Good, Document
  <2>3. \A r \in ciCopy[c].runs : build[r.of] # None /\ r.id < ciCopy[c].next
    BY <1>2 DEF Good
  <2> HIDE DEF k
  <2>4. QED
    BY <1>3, <1>7, <2>1, <2>2, <2>3
<1>9. k.next <= Cardinality(Builders(build)) + 1
  BY <1>2, <1>7 DEF Good, Document
<1>10. Good(k, build')
  <2>1. k.runs = R!Merged(c) /\ k \in [runs : SUBSET R!Run, next : Nat \ {0}]
    BY <1>3, <1>5, <1>6, <1>7
  <2> HIDE DEF k
  <2>2. OwnIds(k.runs) /\ \A r \in k.runs : build[r.of] # None /\ r.id < k.next
    BY <1>4, <1>6, <1>8, <2>1 DEF OwnIds
  <2>3. QED
    BY <1>1, <1>9, <2>1, <2>2 DEF Good
<1>11. \A a \in answered : Covers(k.runs, a)
  BY <1>3, MergeCovers DEF CiInv, CiTypes
<1>12. /\ build' \in [Session -> R!Status \cup {None}] /\ now' \in 0..MaxStamps
       /\ Cardinality(k.runs) <= Cap
  BY <1>1, <1>6 DEF CiInv, CiTypes
<1> HIDE DEF k
<1>13. QED
  BY <1>1, <1>10, <1>11, <1>12, OneGoesOn

\* What is written is what was read and merged; a write that comes between takes the
\* history back.
LEMMA WriteKeeps == ASSUME CiInv, NEW c \in Session, R!Write(c) PROVE CiInv'
<1> USE DEF CiInv
<1>1. /\ ciPc[c] = "set"
      /\ runs' = ciCopy[c].runs /\ nextId' = ciCopy[c].next
      /\ torn' = (torn \cup {d \in Session \ {c} : ciPc[d] = "set"}) \ {c}
      /\ answered' = IF c \in torn THEN {} ELSE answered \cup {r \in ciCopy[c].runs : r.of = c}
      /\ ciPc' = [ciPc EXCEPT ![c] = "idle"] /\ ciCopy' = [ciCopy EXCEPT ![c] = R!Empty]
      /\ UNCHANGED <<build, now>>
  BY DEF R!Write
<1>2. Good(ciCopy[c], build) /\ Good(R!Empty, build)
  BY EmptyIsGood
<1>3. R!Empty \in [runs : SUBSET R!Run, next : Nat \ {0}] /\ ciCopy[c] \in [runs : SUBSET R!Run, next : Nat \ {0}]
  BY <1>2 DEF Good
<1>4. CiTypes'
  BY <1>1, <1>3 DEF CiTypes
<1>5. \A d \in Session : /\ ciCopy'[d] = (IF d = c THEN R!Empty ELSE ciCopy[d])
                          /\ ciPc'[d] = (IF d = c THEN "idle" ELSE ciPc[d])
  BY <1>1 DEF CiTypes
<1>6. Good(Document, build)'
  <2>1. Document' = ciCopy[c]
    BY <1>1, <1>3 DEF Document
  <2>2. Good(Document', build')
    BY <1>1, <1>2, <2>1
  <2>3. QED
    BY <2>2
<1>7. \A d \in Session : Good(ciCopy'[d], build')
  BY <1>1, <1>2, <1>5
<1>8. \A d \in Session : ciPc'[d] # "start" \/ build'[d] = None
  BY <1>1, <1>5
<1>9. Cardinality(runs') <= Cap /\ \A d \in Session : ciPc'[d] = "set" => Cardinality(ciCopy'[d].runs) <= Cap
  BY <1>1, <1>5
<1>10. \A a \in answered' : Covers(ciCopy[c].runs, a)
  BY <1>1 DEF Covers
<1>11. (\A a \in answered : Covers(runs, a) /\ build[a.of] # None)'
  <2>1. \A r \in ciCopy[c].runs : build[r.of] # None
    BY <1>2 DEF Good
  <2>2. \A a \in answered' : build'[a.of] # None
    BY <1>1, <2>1
  <2>3. QED
    BY <1>1, <1>10, <2>2 DEF Covers, Newer
<1>12. \A d \in Session : ciPc'[d] = "set" => d \in torn'
  BY <1>1, <1>5
<1>13. QED
  BY <1>4, <1>6, <1>7, <1>8, <1>9, <1>11, <1>12

LEMMA FailKeeps == ASSUME CiInv, NEW c \in Session, R!Fail(c) PROVE CiInv'
<1>1. /\ ciPc' = [ciPc EXCEPT ![c] = "idle"] /\ ciCopy' = [ciCopy EXCEPT ![c] = R!Empty]
      /\ build' = IF ciPc[c] = "start" THEN [build EXCEPT ![c] = "queued"] ELSE build
      /\ torn' = torn \ {c}
      /\ UNCHANGED <<runs, nextId, now, answered>>
  BY DEF R!Fail
<1>2. "queued" # None /\ "queued" \in R!Status
  BY CiAssumption DEF R!Status
<1>3. /\ build' \in [Session -> R!Status \cup {None}]
      /\ \A d \in Session : build[d] # None => build'[d] # None
      /\ \A d \in Session \ {c} : build'[d] = build[d]
  BY <1>1, <1>2 DEF CiInv, CiTypes
<1>4. now' \in 0..MaxStamps
  BY <1>1 DEF CiInv, CiTypes
<1>5. QED
  BY <1>1, <1>3, <1>4, EmptyIsGood, OneGoesOn

LEMMA CiInit == R!Init => CiInv
<1> SUFFICES ASSUME R!Init PROVE CiInv
  OBVIOUS
<1>1. runs = {} /\ nextId = 1 /\ answered = {} /\ torn = {} /\ now = 0
  BY DEF R!Init
<1>2. /\ build = [c \in Session |-> None] /\ ciPc = [c \in Session |-> "idle"]
      /\ ciCopy = [c \in Session |-> R!Empty]
  BY DEF R!Init
<1>3. R!Empty \in [runs : SUBSET R!Run, next : Nat \ {0}]
  BY DEF R!Empty
<1>4. CiTypes
  BY <1>1, <1>2, <1>3, CiAssumption DEF CiTypes
<1>5. Good(Document, build) /\ \A c \in Session : Good(ciCopy[c], build)
  <2>1. Document = R!Empty
    BY <1>1 DEF Document, R!Empty
  <2>2. QED
    BY <1>2, <2>1, EmptyIsGood
<1>6. Cardinality(runs) <= Cap
  BY <1>1, FS_EmptySet, CiAssumption
<1>7. QED
  BY <1>1, <1>2, <1>4, <1>5, <1>6 DEF CiInv

LEMMA CiStep == ASSUME CiInv, [R!Next]_ciVars PROVE CiInv'
<1>1. CASE UNCHANGED ciVars
  <2>1. CiTypes' /\ Document' = Document
    BY <1>1 DEF CiInv, CiTypes, ciVars, Document
  <2>2. Good(Document, build)'
    <3>1. Good(Document', build')
      BY <1>1, <2>1 DEF ciVars, CiInv
    <3>2. QED
      BY <3>1
  <2>3. (\A a \in answered : Covers(runs, a) /\ build[a.of] # None)'
    BY <1>1 DEF ciVars, CiInv, Covers, Newer
  <2>4. QED
    BY <1>1, <2>1, <2>2, <2>3 DEF ciVars, CiInv, Covers, Newer
<1>2. CASE R!Next
  BY <1>2, LoadKeeps, StartKeeps, BuildKeeps, RefreshKeeps, ReadKeeps, WriteKeeps, FailKeeps DEF R!Next
<1>3. QED
  BY <1>1, <1>2

-----------------------------------------------------------------------------
(***************************************************************************)
(* Runs that are started while no other is                                 *)
(***************************************************************************)

\* The runs there are anywhere, each as its id and the request that started it.
Tags ==
  {<<r.id, r.of>> : r \in runs \cup answered \cup UNION {ciCopy[c].runs : c \in Session}}

\* Who starts by itself has the next id to give; nothing has been given that id.
StartsAlone ==
  \A c \in starting \ shared : starting = {c} /\ (ciPc[c] = "start" => nextId <= ciCopy[c].next)

\* A run that is being started is known to its request only.
Unseen ==
  \A c \in starting :
    /\ \A r \in runs \cup answered : r.of # c
    /\ \A d \in Session \ {c} : \A r \in ciCopy[d].runs : r.of # c

\* Until a save is torn, ids are given in order.
IdsInOrder ==
  /\ \A d \in Session : ciPc[d] = "set" /\ d \notin torn => nextId <= ciCopy[d].next
  /\ shared # Session =>
       /\ \A d \in Session \ starting : ciCopy[d].next <= nextId
       /\ \A x \in Tags : x[2] \notin starting => x[1] < nextId

\* Nobody takes the id of a run that was started alone.
Distinct ==
  /\ \A x, y \in Tags : x[1] = y[1] /\ x[2] \notin shared => x[2] = y[2]
  /\ \A c \in starting : ciPc[c] = "start" =>
       \A x \in Tags : x[2] \notin shared => x[1] < ciCopy[c].next

OwnInv ==
  /\ starting \subseteq Session /\ shared \subseteq Session
  /\ \A c \in Session : ciPc[c] = "start" => c \in starting
  /\ StartsAlone /\ Unseen /\ IdsInOrder /\ Distinct

\* A request goes on, with runs that were there and the next id that it had or a later
\* one of the document.
LEMMA OwnGoesOn ==
  ASSUME CiInv, OwnInv, NEW c \in Session, NEW p, NEW k,
         UNCHANGED <<runs, nextId, answered, shared>>,
         ciPc' = [ciPc EXCEPT ![c] = p], ciCopy' = [ciCopy EXCEPT ![c] = k], p # "start",
         \A r \in k.runs : \E s \in runs \cup ciCopy[c].runs : s.id = r.id /\ s.of = r.of,
         k.next <= nextId \/ k.next = ciCopy[c].next,
         p = "set" => nextId <= k.next,
         \/ starting' = starting /\ torn' = torn
         \/ starting' = starting \ {c} /\ torn' = torn \ {c} /\ p # "set" /\ k = R!Empty
  PROVE  OwnInv'
<1>1. \A d \in Session : /\ ciPc'[d] = (IF d = c THEN p ELSE ciPc[d])
                         /\ ciCopy'[d] = (IF d = c THEN k ELSE ciCopy[d])
  BY DEF CiInv, CiTypes
<1>2. Tags' \subseteq Tags
  <2> SUFFICES ASSUME NEW r \in runs \cup answered \cup UNION {ciCopy'[d].runs : d \in Session}
               PROVE  <<r.id, r.of>> \in Tags
    BY DEF Tags
  <2>1. CASE r \in runs \cup answered
    BY <2>1 DEF Tags
  <2>2. CASE r \in UNION {ciCopy'[d].runs : d \in Session}
    <3>1. PICK d \in Session : r \in ciCopy'[d].runs
      BY <2>2
    <3>2. PICK s \in runs \cup ciCopy[d].runs : s.id = r.id /\ s.of = r.of
      BY <1>1, <3>1
    <3>3. QED
      BY <3>2 DEF Tags
  <2>3. QED
    BY <2>1, <2>2
<1>3. starting' \subseteq starting /\ shared' = shared /\ (\A d \in starting \ starting' : d = c)
  OBVIOUS
<1>4. \A d \in Session : ciPc'[d] = "start" => d # c /\ d \in starting' /\ ciCopy'[d] = ciCopy[d]
  BY <1>1 DEF OwnInv
<1>5. StartsAlone'
  <2> SUFFICES ASSUME NEW d \in starting' \ shared'
               PROVE  starting' = {d} /\ (ciPc'[d] = "start" => nextId <= ciCopy'[d].next)
    BY DEF StartsAlone
  <2>1. d \in Session /\ starting = {d} /\ (ciPc[d] = "start" => nextId <= ciCopy[d].next)
    BY <1>3 DEF OwnInv, StartsAlone
  <2>2. starting' = {d}
    BY <1>3, <2>1
  <2>3. QED
    BY <1>1, <1>4, <2>1, <2>2
<1>6. Unseen'
  <2> SUFFICES ASSUME NEW d \in starting'
               PROVE  /\ \A r \in runs \cup answered : r.of # d
                      /\ \A e \in Session \ {d} : \A r \in ciCopy'[e].runs : r.of # d
    BY DEF Unseen
  <2>1. /\ \A r \in runs \cup answered : r.of # d
        /\ \A e \in Session \ {d} : \A r \in ciCopy[e].runs : r.of # d
    BY <1>3 DEF OwnInv, Unseen
  <2>2. QED
    BY <1>1, <2>1
<1>7. nextId \in Nat \ {0}
  BY DEF CiInv, Good, Document
<1>8. IdsInOrder'
  <2>1. ASSUME NEW d \in Session, ciPc'[d] = "set", d \notin torn' PROVE nextId <= ciCopy'[d].next
    <3>1. d # c => d \notin torn
      BY <2>1
    <3>2. QED
      BY <1>1, <2>1, <3>1 DEF OwnInv, IdsInOrder
  <2>2. ASSUME shared # Session, NEW d \in Session \ starting' PROVE ciCopy'[d].next <= nextId
    <3>1. CASE d # c
      BY <1>1, <1>3, <2>2, <3>1 DEF OwnInv, IdsInOrder
    <3>2. CASE d = c /\ k = R!Empty
      BY <1>1, <1>7, <3>2 DEF R!Empty
    <3>3. CASE d = c /\ c \notin starting
      BY <1>1, <2>2, <3>3 DEF OwnInv, IdsInOrder
    <3>4. QED
      BY <2>2, <3>1, <3>2, <3>3
  <2>3. ASSUME shared # Session, NEW x \in Tags', x[2] \notin starting' PROVE x[1] < nextId
    <3>1. x \in Tags
      BY <1>2
    <3>2. CASE x[2] \notin starting
      BY <2>3, <3>1, <3>2 DEF OwnInv, IdsInOrder
    <3>3. CASE x[2] \in starting
      <4>1. x[2] = c /\ c \in starting /\ k = R!Empty
        BY <1>3, <2>3, <3>3
      <4>2. PICK r \in runs \cup answered \cup UNION {ciCopy'[d].runs : d \in Session} : x = <<r.id, r.of>>
        BY DEF Tags
      <4>3. r.of = c
        BY <4>1, <4>2
      <4>4. \A d \in Session \ {c} : \A q \in ciCopy'[d].runs : q.of # c
        BY <1>1, <4>1 DEF OwnInv, Unseen
      <4>5. \A q \in ciCopy'[c].runs : FALSE
        BY <1>1, <4>1 DEF R!Empty
      <4>6. \A q \in runs \cup answered : q.of # c
        BY <4>1 DEF OwnInv, Unseen
      <4>7. QED
        BY <4>2, <4>3, <4>4, <4>5, <4>6
    <3>4. QED
      BY <3>2, <3>3
  <2>4. QED
    BY <2>1, <2>2, <2>3 DEF IdsInOrder
<1>9. Distinct'
  <2>1. \A x, y \in Tags' : x[1] = y[1] /\ x[2] \notin shared' => x[2] = y[2]
    BY <1>2 DEF OwnInv, Distinct
  <2>2. ASSUME NEW d \in starting', ciPc'[d] = "start", NEW x \in Tags', x[2] \notin shared'
        PROVE  x[1] < ciCopy'[d].next
    <3>1. d \in Session
      BY <1>3 DEF OwnInv
    <3>2. ciPc[d] = "start" /\ ciCopy'[d] = ciCopy[d] /\ d \in starting
      BY <1>1, <1>3, <1>4, <2>2, <3>1
    <3>3. QED
      BY <1>2, <2>2, <3>2 DEF OwnInv, Distinct
  <2>3. QED
    BY <2>1, <2>2 DEF Distinct
<1>10. starting' \subseteq Session /\ shared' \subseteq Session
  BY <1>3 DEF OwnInv
<1>11. QED
  BY <1>4, <1>5, <1>6, <1>8, <1>9, <1>10 DEF OwnInv

\* Requests that start no run: they have what is there.
LEMMA OwnReads ==
  ASSUME CiInv, OwnInv, NEW c \in Session,
         \/ R!Load(c, "view") \/ R!Load(c, "save") \/ R!Refresh(c) \/ R!Read(c) \/ R!Fail(c)
  PROVE  OwnInv'
<1>1. /\ \A d \in Session : Good(ciCopy[d], build)
      /\ nextId \in Nat \ {0} /\ \A d \in Session : ciCopy[d].next \in Nat \ {0}
  BY DEF CiInv, Good, Document
<1>2. R!Empty.runs = {} /\ R!Empty.next = 1
  BY DEF R!Empty
<1>3. ASSUME NEW p \in {"view", "save"}, R!Load(c, p) PROVE OwnInv'
  <2>1. /\ ciCopy' = [ciCopy EXCEPT ![c] = Document] /\ ciPc' = [ciPc EXCEPT ![c] = p]
        /\ UNCHANGED <<runs, nextId, answered, shared, starting, torn>>
    BY <1>3 DEF R!Load, Document
  <2> DEFINE k == Document
  <2>2. k.runs = runs /\ k.next = nextId
    BY DEF Document
  <2>3. ciCopy' = [ciCopy EXCEPT ![c] = k]
    BY <2>1
  <2> HIDE DEF k
  <2>4. \A r \in k.runs : \E s \in runs \cup ciCopy[c].runs : s.id = r.id /\ s.of = r.of
    BY <2>2
  <2>5. k.next <= nextId
    BY <1>1, <2>2
  <2>6. p # "start" /\ p # "set"
    OBVIOUS
  <2>7. QED
    BY <2>1, <2>3, <2>4, <2>5, <2>6, OwnGoesOn
<1>4. CASE R!Read(c)
  <2> DEFINE k == [runs |-> R!Merged(c), next |-> R!NextId(c)]
  <2>1. /\ ciCopy' = [ciCopy EXCEPT ![c] = k] /\ ciPc' = [ciPc EXCEPT ![c] = "set"]
        /\ UNCHANGED <<runs, nextId, answered, shared, starting, torn>>
    BY <1>4 DEF R!Read
  <2>2. k.runs \subseteq runs \cup ciCopy[c].runs
    BY DEF R!Merged, R!Latest
  <2>3. nextId <= k.next /\ (k.next <= nextId \/ k.next = ciCopy[c].next)
    BY <1>1 DEF R!NextId
  <2> HIDE DEF k
  <2>4. \A r \in k.runs : \E s \in runs \cup ciCopy[c].runs : s.id = r.id /\ s.of = r.of
    BY <2>2
  <2>5. QED
    BY <2>1, <2>3, <2>4, OwnGoesOn
<1>5. CASE R!Fail(c)
  <2>1. /\ ciCopy' = [ciCopy EXCEPT ![c] = R!Empty] /\ ciPc' = [ciPc EXCEPT ![c] = "idle"]
        /\ UNCHANGED <<runs, nextId, answered, shared>>
        /\ starting' = starting \ {c} /\ torn' = torn \ {c}
    BY <1>5 DEF R!Fail
  <2>2. R!Empty.next <= nextId
    BY <1>1, <1>2
  <2>3. QED
    BY <1>2, <2>1, <2>2, OwnGoesOn
<1>6. CASE R!Refresh(c)
  <2>1. UNCHANGED <<runs, nextId, answered, shared, starting, torn>>
    BY <1>6 DEF R!Refresh
  <2>2. CASE R!Refreshed(c) = ciCopy[c].runs
    <3>1. ciPc' = [ciPc EXCEPT ![c] = "idle"] /\ ciCopy' = [ciCopy EXCEPT ![c] = R!Empty]
      BY <1>6, <2>2 DEF R!Refresh
    <3>2. R!Empty.next <= nextId
      BY <1>1, <1>2
    <3>3. QED
      BY <1>2, <2>1, <3>1, <3>2, OwnGoesOn
  <2>3. CASE R!Refreshed(c) # ciCopy[c].runs
    <3> DEFINE k == [ciCopy[c] EXCEPT !.runs = R!Refreshed(c)]
    <3>1. ciPc' = [ciPc EXCEPT ![c] = "save"] /\ ciCopy' = [ciCopy EXCEPT ![c] = k]
      BY <1>6, <2>3 DEF R!Refresh
    <3>2. ciCopy[c] \in [runs : SUBSET R!Run, next : Nat \ {0}]
      BY <1>1 DEF Good
    <3>3. k.next = ciCopy[c].next /\ k.runs = R!Refreshed(c)
      <4> DEFINE new == R!Refreshed(c)
      <4> HIDE DEF new
      <4>1. [ciCopy[c] EXCEPT !.runs = new].next = ciCopy[c].next /\ [ciCopy[c] EXCEPT !.runs = new].runs = new
        BY <3>2
      <4>2. QED
        BY <4>1 DEF new
    <3> HIDE DEF k
    <3>4. \A r \in k.runs : \E s \in ciCopy[c].runs : s.id = r.id /\ s.of = r.of
      <4> SUFFICES ASSUME NEW r \in k.runs PROVE \E s \in ciCopy[c].runs : s.id = r.id /\ s.of = r.of
        OBVIOUS
      <4>0. r \in R!Refreshed(c)
        BY <3>3
      <4>1. PICK s \in ciCopy[c].runs :
              r = IF s.status \in R!Terminal \/ s.status = build[s.of] THEN s
                  ELSE [s EXCEPT !.status = build[s.of], !.at = now + 1]
        BY <4>0, Zenon DEF R!Refreshed
      <4>2. s \in R!Run
        BY <3>2
      <4>3. \A x, y : [s EXCEPT !.status = x, !.at = y].id = s.id /\ [s EXCEPT !.status = x, !.at = y].of = s.of
        BY <4>2 DEF R!Run
      <4>4. QED
        BY <4>1, <4>3
    <3>5. \A r \in k.runs : \E s \in runs \cup ciCopy[c].runs : s.id = r.id /\ s.of = r.of
      BY <3>4
    <3>6. QED
      BY <2>1, <3>1, <3>3, <3>5, OwnGoesOn
  <2>4. QED
    BY <2>2, <2>3
<1>7. QED
  BY <1>3, <1>4, <1>5, <1>6

\* A start loads the document: what has been given an id has a lower one.
LEMMA OwnLoads ==
  ASSUME CiInv, OwnInv, NEW c \in Session, R!Load(c, "start")
  PROVE  OwnInv'
<1>1. /\ ciCopy' = [ciCopy EXCEPT ![c] = Document] /\ ciPc' = [ciPc EXCEPT ![c] = "start"]
      /\ UNCHANGED <<runs, nextId, answered, torn>>
      /\ build[c] = None /\ starting' = starting \cup {c}
      /\ shared' = IF starting # {} THEN shared \cup starting' ELSE shared
  BY DEF R!Load, Document
<1>2. Document.runs = runs /\ Document.next = nextId /\ nextId \in Nat \ {0}
  BY DEF CiInv, Good, Document
<1>3. \A d \in Session : /\ ciPc'[d] = (IF d = c THEN "start" ELSE ciPc[d])
                         /\ ciCopy'[d] = (IF d = c THEN Document ELSE ciCopy[d])
  BY <1>1 DEF CiInv, CiTypes
<1>4. Tags' \subseteq Tags
  <2> SUFFICES ASSUME NEW r \in runs \cup answered \cup UNION {ciCopy'[d].runs : d \in Session}
               PROVE  r \in runs \cup answered \cup UNION {ciCopy[d].runs : d \in Session}
    BY <1>1, Zenon DEF Tags
  <2>1. \A d \in Session : ciCopy'[d].runs \subseteq runs \cup ciCopy[d].runs
    BY <1>2, <1>3
  <2>2. QED
    BY <2>1
<1>5. starting' \subseteq Session /\ shared' \subseteq Session /\ shared \subseteq shared'
  BY <1>1 DEF OwnInv
<1>6. \A d \in Session : ciPc'[d] = "start" => d \in starting'
  BY <1>1, <1>3 DEF OwnInv
<1>7. StartsAlone'
  <2> SUFFICES ASSUME NEW d \in starting' \ shared'
               PROVE  starting' = {d} /\ (ciPc'[d] = "start" => nextId <= ciCopy'[d].next)
    BY <1>1 DEF StartsAlone
  <2>1. starting = {}
    BY <1>1
  <2>2. d = c /\ starting' = {c}
    BY <1>1, <2>1
  <2>3. nextId <= ciCopy'[c].next
    BY <1>2, <1>3
  <2>4. QED
    BY <2>2, <2>3
<1>8. Unseen'
  <2> SUFFICES ASSUME NEW d \in starting'
               PROVE  /\ \A r \in runs \cup answered : r.of # d
                      /\ \A e \in Session \ {d} : \A r \in ciCopy'[e].runs : r.of # d
    BY <1>1 DEF Unseen
  <2>1. /\ \A r \in runs \cup answered : r.of # d
        /\ \A e \in Session \ {d} : \A r \in ciCopy[e].runs : r.of # d
    <3>1. CASE d \in starting
      BY <3>1 DEF OwnInv, Unseen
    <3>2. CASE d = c
      <4>1. \A r \in runs : build[r.of] # None
        BY DEF CiInv, Good, Document
      <4>2. \A e \in Session : \A r \in ciCopy[e].runs : build[r.of] # None
        BY DEF CiInv, Good
      <4>3. \A r \in answered : build[r.of] # None
        BY DEF CiInv
      <4>4. QED
        BY <1>1, <3>2, <4>1, <4>2, <4>3
    <3>3. QED
      BY <1>1, <3>1, <3>2
  <2>2. QED
    BY <1>2, <1>3, <2>1
<1>9. IdsInOrder'
  <2>1. ASSUME NEW d \in Session, ciPc'[d] = "set", d \notin torn PROVE nextId <= ciCopy'[d].next
    BY <1>3, <2>1 DEF OwnInv, IdsInOrder
  <2>2. ASSUME shared' # Session, NEW d \in Session \ starting' PROVE ciCopy'[d].next <= nextId
    <3>1. shared # Session /\ d # c /\ d \notin starting
      BY <1>1, <1>5, <2>2
    <3>2. QED
      BY <1>3, <3>1 DEF OwnInv, IdsInOrder
  <2>3. ASSUME shared' # Session, NEW x \in Tags', x[2] \notin starting' PROVE x[1] < nextId
    <3>1. shared # Session /\ x[2] \notin starting /\ x \in Tags
      BY <1>1, <1>4, <1>5, <2>3
    <3>2. QED
      BY <3>1 DEF OwnInv, IdsInOrder
  <2>4. QED
    BY <1>1, <2>1, <2>2, <2>3 DEF IdsInOrder
<1>10. Distinct'
  <2>1. \A x, y \in Tags' : x[1] = y[1] /\ x[2] \notin shared' => x[2] = y[2]
    BY <1>4, <1>5 DEF OwnInv, Distinct
  <2>2. ASSUME NEW d \in starting', ciPc'[d] = "start", NEW x \in Tags', x[2] \notin shared'
        PROVE  x[1] < ciCopy'[d].next
    <3>1. x \in Tags /\ x[2] \notin shared
      BY <1>4, <1>5, <2>2
    <3>2. CASE d = c
      <4>1. x[2] \notin starting
        BY <1>1, <2>2
      <4>2. x[2] \in Session
        <5>1. \A r \in R!Run : r.of \in Session
          BY DEF R!Run
        <5>2. /\ runs \subseteq R!Run /\ answered \subseteq R!Run
              /\ \A e \in Session : ciCopy[e].runs \subseteq R!Run
          BY DEF CiInv, CiTypes, Good, Document
        <5>3. QED
          BY <3>1, <5>1, <5>2 DEF Tags
      <4>3. x[1] < nextId
        BY <3>1, <4>1, <4>2 DEF OwnInv, IdsInOrder
      <4>4. QED
        BY <1>2, <1>3, <3>2, <4>3 DEF OwnInv
    <3>3. CASE d # c
      <4>1. d \in starting /\ d \in Session
        BY <1>1, <3>3 DEF OwnInv
      <4>2. QED
        BY <1>3, <2>2, <3>1, <3>3, <4>1 DEF OwnInv, Distinct
    <3>4. QED
      BY <3>2, <3>3
  <2>3. QED
    BY <2>1, <2>2 DEF Distinct
<1>11. QED
  BY <1>5, <1>6, <1>7, <1>8, <1>9, <1>10 DEF OwnInv

\* A start that is alone takes an id that nothing has; one that is not takes no id of a
\* run that was started alone.
LEMMA OwnStarts ==
  ASSUME CiInv, OwnInv, NEW c \in Session, R!Start(c)
  PROVE  OwnInv'
<1> DEFINE n == ciCopy[c].next
           r == [id |-> n, of |-> c, status |-> "queued", at |-> now + 1]
           k == [runs |-> R!Started(c, r), next |-> n + 1]
<1>1. /\ ciPc[c] = "start"
      /\ ciCopy' = [ciCopy EXCEPT ![c] = k] /\ ciPc' = [ciPc EXCEPT ![c] = "save"]
      /\ UNCHANGED <<runs, nextId, answered, starting, shared, torn>>
  BY DEF R!Start
<1>2. c \in starting /\ build[c] = None
  BY <1>1 DEF OwnInv, CiInv
<1>3. \A d \in Session : /\ ciPc'[d] = (IF d = c THEN "save" ELSE ciPc[d])
                         /\ ciCopy'[d] = (IF d = c THEN k ELSE ciCopy[d])
  BY <1>1 DEF CiInv, CiTypes
<1>4. /\ \A q \in k.runs : q \in ciCopy[c].runs \/ (q.id = n /\ q.of = c)
      /\ k.next = n + 1 /\ n \in Nat \ {0} /\ nextId \in Nat \ {0}
  <2>1. R!Started(c, r) \subseteq ciCopy[c].runs \cup {r}
    BY DEF R!Started
  <2>2. n \in Nat \ {0} /\ nextId \in Nat \ {0}
    BY DEF CiInv, Good, Document
  <2>3. QED
    BY <2>1, <2>2
<1> HIDE DEF k
<1>5. Tags' \subseteq Tags \cup {<<n, c>>}
  <2> SUFFICES ASSUME NEW q \in runs \cup answered \cup UNION {ciCopy'[d].runs : d \in Session}
               PROVE  <<q.id, q.of>> \in Tags \cup {<<n, c>>}
    BY <1>1 DEF Tags
  <2>1. CASE q \in runs \cup answered
    BY <2>1 DEF Tags
  <2>2. CASE q \in UNION {ciCopy'[d].runs : d \in Session}
    <3>1. PICK d \in Session : q \in ciCopy'[d].runs
      BY <2>2
    <3>2. q \in ciCopy[d].runs \/ (q.id = n /\ q.of = c)
      BY <1>3, <1>4, <3>1
    <3>3. QED
      BY <3>2 DEF Tags
  <2>3. QED
    BY <2>1, <2>2
<1>6. \A x \in Tags : x[2] \in Session /\ build[x[2]] # None /\ x[1] \in Nat
  <2>1. \A q \in R!Run : q.of \in Session /\ q.id \in Nat
    BY Sessions, SameSize DEF R!Run
  <2>2. \A q \in runs : q \in R!Run /\ build[q.of] # None
    BY DEF CiInv, Good, Document
  <2>3. \A d \in Session : \A q \in ciCopy[d].runs : q \in R!Run /\ build[q.of] # None
    BY DEF CiInv, Good
  <2>4. \A q \in answered : q \in R!Run /\ build[q.of] # None
    BY DEF CiInv, CiTypes
  <2>5. QED
    BY <2>1, <2>2, <2>3, <2>4 DEF Tags
<1>7. \A x \in Tags : x[2] # c
  BY <1>2, <1>6
<1>8. StartsAlone'
  <2> SUFFICES ASSUME NEW d \in starting \ shared
               PROVE  starting = {d} /\ (ciPc'[d] = "start" => nextId <= ciCopy'[d].next)
    BY <1>1 DEF StartsAlone
  <2>1. starting = {d} /\ d = c
    BY <1>2 DEF OwnInv, StartsAlone
  <2>2. QED
    BY <1>3, <2>1
<1>9. Unseen'
  <2> SUFFICES ASSUME NEW d \in starting
               PROVE  /\ \A q \in runs \cup answered : q.of # d
                      /\ \A e \in Session \ {d} : \A q \in ciCopy'[e].runs : q.of # d
    BY <1>1 DEF Unseen
  <2>1. /\ \A q \in runs \cup answered : q.of # d
        /\ \A e \in Session \ {d} : \A q \in ciCopy[e].runs : q.of # d
    BY DEF OwnInv, Unseen
  <2>2. QED
    BY <1>3, <1>4, <2>1
<1>10. IdsInOrder'
  <2>1. ASSUME NEW d \in Session, ciPc'[d] = "set", d \notin torn PROVE nextId <= ciCopy'[d].next
    BY <1>3, <2>1 DEF OwnInv, IdsInOrder
  <2>2. ASSUME shared # Session, NEW d \in Session \ starting PROVE ciCopy'[d].next <= nextId
    BY <1>2, <1>3, <2>2 DEF OwnInv, IdsInOrder
  <2>3. ASSUME shared # Session, NEW x \in Tags', x[2] \notin starting PROVE x[1] < nextId
    <3>1. x \in Tags
      BY <1>2, <1>5, <2>3
    <3>2. QED
      BY <2>3, <3>1 DEF OwnInv, IdsInOrder
  <2>4. QED
    BY <1>1, <2>1, <2>2, <2>3 DEF IdsInOrder
<1>11. Distinct'
  <2>1. ASSUME NEW x \in Tags, x[1] = n PROVE c \in shared /\ x[2] \in shared
    <3>1. x[2] \in shared
      <4>1. x[2] \notin shared => x[1] < n
        BY <1>1, <1>2 DEF OwnInv, Distinct
      <4>2. QED
        BY <1>4, <2>1, <4>1
    <3>2. CASE c \notin shared
      <4>1. starting = {c} /\ nextId <= n
        BY <1>1, <1>2, <3>2 DEF OwnInv, StartsAlone
      <4>2. x[2] \notin starting /\ shared # Session
        BY <1>7, <3>2, <4>1
      <4>3. x[1] < nextId
        BY <4>2 DEF OwnInv, IdsInOrder
      <4>4. QED
        BY <1>4, <2>1, <4>1, <4>3
    <3>3. QED
      BY <3>1, <3>2
  <2>2. ASSUME NEW x \in Tags', NEW y \in Tags', x[1] = y[1], x[2] \notin shared PROVE x[2] = y[2]
    <3>1. CASE x \in Tags /\ y \in Tags
      BY <2>2, <3>1 DEF OwnInv, Distinct
    <3>2. CASE x = <<n, c>> /\ y \in Tags
      BY <2>1, <2>2, <3>2
    <3>3. CASE x \in Tags /\ y = <<n, c>>
      BY <2>1, <2>2, <3>3
    <3>4. CASE x = <<n, c>> /\ y = <<n, c>>
      BY <3>4
    <3>5. QED
      BY <1>5, <3>1, <3>2, <3>3, <3>4
  <2>3. ASSUME NEW d \in starting, ciPc'[d] = "start", NEW x \in Tags', x[2] \notin shared
        PROVE  x[1] < ciCopy'[d].next
    <3>1. d \in Session /\ d # c /\ ciPc[d] = "start" /\ ciCopy'[d] = ciCopy[d]
      BY <1>3, <2>3 DEF OwnInv
    <3>2. CASE x \in Tags
      BY <2>3, <3>1, <3>2 DEF OwnInv, Distinct
    <3>3. CASE x = <<n, c>>
      <4>1. starting = {c}
        BY <1>2, <2>3, <3>3 DEF OwnInv, StartsAlone
      <4>2. QED
        BY <3>1, <4>1
    <3>4. QED
      BY <1>5, <3>2, <3>3
  <2>4. QED
    BY <1>1, <2>2, <2>3 DEF Distinct
<1>12. starting' \subseteq Session /\ shared' \subseteq Session /\ \A d \in Session : ciPc'[d] = "start" => d \in starting'
  BY <1>1, <1>3 DEF OwnInv
<1>13. QED
  BY <1>8, <1>9, <1>10, <1>11, <1>12 DEF OwnInv

\* A save that is not torn takes nothing back: the next id to give is no lower.
LEMMA OwnWrites ==
  ASSUME CiInv, OwnInv, NEW c \in Session, R!Write(c)
  PROVE  OwnInv'
<1>1. /\ ciPc[c] = "set"
      /\ runs' = ciCopy[c].runs /\ nextId' = ciCopy[c].next
      /\ torn' = (torn \cup {d \in Session \ {c} : ciPc[d] = "set"}) \ {c}
      /\ answered' = IF c \in torn THEN {} ELSE answered \cup {q \in ciCopy[c].runs : q.of = c}
      /\ starting' = starting \ {c} /\ shared' = IF c \in torn THEN Session ELSE shared
      /\ ciPc' = [ciPc EXCEPT ![c] = "idle"] /\ ciCopy' = [ciCopy EXCEPT ![c] = R!Empty]
  BY DEF R!Write
<1>2. \A d \in Session : /\ ciCopy'[d] = (IF d = c THEN R!Empty ELSE ciCopy[d])
                         /\ ciPc'[d] = (IF d = c THEN "idle" ELSE ciPc[d])
  BY <1>1 DEF CiInv, CiTypes
<1>3. /\ nextId \in Nat \ {0} /\ \A d \in Session : ciCopy[d].next \in Nat \ {0}
      /\ R!Empty.runs = {} /\ R!Empty.next = 1
  BY DEF CiInv, Good, Document, R!Empty
<1>4. c \notin torn => nextId <= nextId'
  BY <1>1 DEF OwnInv, IdsInOrder
<1>5. answered' \subseteq answered \cup ciCopy[c].runs /\ \A q \in answered' : q \in answered \/ q.of = c
  BY <1>1
<1>6. Tags' \subseteq Tags
  <2> SUFFICES ASSUME NEW q \in runs' \cup answered' \cup UNION {ciCopy'[d].runs : d \in Session}
               PROVE  q \in answered \cup UNION {ciCopy[d].runs : d \in Session}
    BY Zenon DEF Tags
  <2>1. \A d \in Session : ciCopy'[d].runs \subseteq ciCopy[d].runs
    BY <1>2, <1>3
  <2>2. QED
    BY <1>1, <1>5, <2>1
<1>7. shared \subseteq shared' /\ shared' \subseteq Session /\ (shared' # Session => c \notin torn)
  BY <1>1 DEF OwnInv
<1>8. \A x \in Tags : x[1] \in Nat /\ x[2] \in Session
  <2>1. \A q \in R!Run : q.of \in Session /\ q.id \in Nat
    BY Sessions, SameSize DEF R!Run
  <2>2. /\ runs \subseteq R!Run /\ answered \subseteq R!Run
        /\ \A d \in Session : ciCopy[d].runs \subseteq R!Run
    BY DEF CiInv, CiTypes, Good, Document
  <2>3. QED
    BY <2>1, <2>2 DEF Tags
<1>9. StartsAlone'
  <2> SUFFICES ASSUME NEW d \in starting' \ shared'
               PROVE  starting' = {d} /\ (ciPc'[d] = "start" => nextId' <= ciCopy'[d].next)
    BY DEF StartsAlone
  <2>1. /\ d \in Session /\ d # c /\ starting = {d}
        /\ (ciPc[d] = "start" => nextId <= ciCopy[d].next)
    BY <1>1, <1>7 DEF OwnInv, StartsAlone
  <2>2. starting' = {d} /\ ciPc'[d] = ciPc[d] /\ ciCopy'[d] = ciCopy[d]
    BY <1>1, <1>2, <2>1
  <2>3. nextId' <= nextId
    <3>1. c \notin starting /\ shared # Session
      BY <1>7, <2>1
    <3>2. QED
      BY <1>1, <3>1 DEF OwnInv, IdsInOrder
  <2>4. QED
    BY <1>1, <1>3, <2>1, <2>2, <2>3
<1>10. Unseen'
  <2> SUFFICES ASSUME NEW d \in starting'
               PROVE  /\ \A q \in runs' \cup answered' : q.of # d
                      /\ \A e \in Session \ {d} : \A q \in ciCopy'[e].runs : q.of # d
    BY DEF Unseen
  <2>1. d \in starting /\ d # c
    BY <1>1
  <2>2. /\ \A q \in runs \cup answered : q.of # d
        /\ \A e \in Session \ {d} : \A q \in ciCopy[e].runs : q.of # d
    BY <2>1 DEF OwnInv, Unseen
  <2>3. \A q \in ciCopy[c].runs : q.of # d
    BY <2>1, <2>2
  <2>4. \A e \in Session : ciCopy'[e].runs \subseteq ciCopy[e].runs
    BY <1>2, <1>3
  <2>5. QED
    BY <1>1, <1>5, <2>1, <2>2, <2>3, <2>4
<1>11. IdsInOrder'
  <2>1. ASSUME NEW d \in Session, ciPc'[d] = "set", d \notin torn' PROVE nextId' <= ciCopy'[d].next
    BY <1>1, <1>2, <2>1
  <2>2. ASSUME shared' # Session, NEW d \in Session \ starting' PROVE ciCopy'[d].next <= nextId'
    <3>1. CASE d = c
      BY <1>1, <1>2, <1>3, <3>1
    <3>2. CASE d # c
      <4>1. d \notin starting /\ shared # Session
        BY <1>1, <1>7, <2>2, <3>2 DEF OwnInv
      <4>2. ciCopy[d].next <= nextId
        BY <4>1 DEF OwnInv, IdsInOrder
      <4>3. QED
        BY <1>1, <1>2, <1>3, <1>4, <1>7, <2>2, <3>2, <4>2
    <3>3. QED
      BY <3>1, <3>2
  <2>3. ASSUME shared' # Session, NEW x \in Tags', x[2] \notin starting' PROVE x[1] < nextId'
    <3>1. x \in Tags /\ shared # Session /\ c \notin torn /\ x[1] \in Nat
      BY <1>1, <1>6, <1>7, <1>8, <2>3 DEF OwnInv
    <3>2. CASE x[2] \notin starting
      <4>1. x[1] < nextId
        BY <3>1, <3>2 DEF OwnInv, IdsInOrder
      <4>2. QED
        BY <1>1, <1>3, <1>4, <3>1, <4>1
    <3>3. CASE x[2] \in starting
      <4>1. x[2] = c /\ c \in starting
        BY <1>1, <2>3, <3>3
      <4>2. PICK q \in runs' \cup answered' \cup UNION {ciCopy'[d].runs : d \in Session} : x = <<q.id, q.of>>
        BY DEF Tags
      <4>3. q.of = c /\ x[1] = q.id
        BY <4>1, <4>2
      <4>4. q \in ciCopy[c].runs
        <5>1. \A p \in answered : p.of # c
          BY <4>1 DEF OwnInv, Unseen
        <5>2. \A d \in Session : \A p \in ciCopy'[d].runs : p.of # c
          BY <1>2, <1>3, <4>1 DEF OwnInv, Unseen
        <5>3. QED
          BY <1>1, <1>5, <4>2, <4>3, <5>1, <5>2
      <4>5. q.id < ciCopy[c].next
        BY <4>4 DEF CiInv, Good
      <4>6. QED
        BY <1>1, <4>3, <4>5
    <3>4. QED
      BY <3>2, <3>3
  <2>4. QED
    BY <2>1, <2>2, <2>3 DEF IdsInOrder
<1>12. Distinct'
  <2>1. \A x, y \in Tags' : x[1] = y[1] /\ x[2] \notin shared' => x[2] = y[2]
    BY <1>6, <1>7 DEF OwnInv, Distinct
  <2>2. ASSUME NEW d \in starting', ciPc'[d] = "start", NEW x \in Tags', x[2] \notin shared'
        PROVE  x[1] < ciCopy'[d].next
    <3>1. d \in starting /\ d \in Session /\ d # c /\ ciPc[d] = "start" /\ ciCopy'[d] = ciCopy[d]
      BY <1>1, <1>2, <2>2 DEF OwnInv
    <3>2. x \in Tags /\ x[2] \notin shared
      BY <1>6, <1>7, <2>2
    <3>3. QED
      BY <3>1, <3>2 DEF OwnInv, Distinct
  <2>3. QED
    BY <2>1, <2>2 DEF Distinct
<1>13. starting' \subseteq Session /\ \A d \in Session : ciPc'[d] = "start" => d \in starting'
  BY <1>1, <1>2 DEF OwnInv
<1>14. QED
  BY <1>7, <1>9, <1>10, <1>11, <1>12, <1>13 DEF OwnInv

LEMMA OwnInit == R!Init => OwnInv
<1> SUFFICES ASSUME R!Init PROVE OwnInv
  OBVIOUS
<1>1. runs = {} /\ nextId = 1 /\ answered = {} /\ torn = {} /\ starting = {} /\ shared = {}
  BY DEF R!Init
<1>2. /\ ciPc = [c \in Session |-> "idle"] /\ ciCopy = [c \in Session |-> R!Empty]
      /\ R!Empty.runs = {} /\ R!Empty.next = 1
  BY DEF R!Init, R!Empty
<1>3. Tags = {}
  BY <1>1, <1>2 DEF Tags
<1>4. \A c \in Session : ciPc[c] = "idle" /\ ciCopy[c].next <= nextId
  BY <1>1, <1>2
<1>5. QED
  BY <1>1, <1>3, <1>4 DEF OwnInv, StartsAlone, Unseen, IdsInOrder, Distinct

LEMMA OwnStep == ASSUME CiInv, OwnInv, [R!Next]_ciVars PROVE OwnInv'
<1>1. CASE UNCHANGED <<runs, nextId, ciPc, ciCopy, answered, starting, shared, torn>>
  <2>1. Tags' = Tags
    BY <1>1 DEF Tags
  <2>2. QED
    BY <1>1, <2>1 DEF OwnInv, StartsAlone, Unseen, IdsInOrder, Distinct
<1>2. ASSUME NEW c \in Session, R!Build(c) PROVE OwnInv'
  BY <1>1, <1>2 DEF R!Build
<1>3. CASE R!Next
  BY <1>2, <1>3, OwnLoads, OwnReads, OwnStarts, OwnWrites DEF R!Next
<1>4. QED
  BY <1>1, <1>3 DEF ciVars

\* Whatever requests save the document meanwhile, a run whose start was answered is
\* there until Cap newer ones are, for any number of requests: itself if no other start
\* overlapped with its own, or one with its id (saveRepo, mergeCIState, nextCIID); and
\* the runs of the document have ids of their own, below the next one.
THEOREM CiRunsAreKept == ServiceSpec => []RunsHold
<1>1. ServiceInit => CiInv /\ OwnInv
  BY CiInit, OwnInit DEF ServiceInit
<1>2. CiInv /\ OwnInv /\ [ServiceNext]_ServiceVars => CiInv' /\ OwnInv'
  <2> SUFFICES ASSUME CiInv, OwnInv, [ServiceNext]_ServiceVars PROVE CiInv' /\ OwnInv'
    OBVIOUS
  <2>1. [R!Next]_ciVars
    BY DEF ServiceNext, ServiceVars
  <2>2. QED
    BY <2>1, CiStep, OwnStep
<1>3. CiInv /\ OwnInv => RunsHold
  <2> SUFFICES ASSUME CiInv, OwnInv PROVE RunsHold
    OBVIOUS
  <2>1. /\ runs \in SUBSET R!Run /\ OwnIds(runs) /\ \A r \in runs : r.id < nextId
        /\ nextId \in Nat \ {0} /\ nextId <= Cardinality(Builders(build)) + 1
    BY DEF CiInv, Good, Document
  <2>2. R!TypeOK
    <3>1. nextId \in 1..R!Cardinality(Session) + 1
      BY <2>1, BuildersAreSessions, Sessions, SameSize
    <3>2. \A c \in Session : ciCopy[c].runs \subseteq R!Run
      BY DEF CiInv, CiTypes
    <3>3. R!Cardinality(runs) <= Cap
      BY SameSize DEF CiInv
    <3>4. QED
      BY <2>1, <3>1, <3>2, <3>3 DEF CiInv, CiTypes, OwnInv, R!TypeOK
  <2>3. R!RunsAreKept
    <3> SUFFICES ASSUME NEW a \in answered
                 PROVE  \/ \E r \in runs : r.id = a.id /\ (r.of = a.of \/ a.of \in shared)
                        \/ R!Cardinality({r \in runs : r.id > a.id}) = Cap
      BY DEF R!RunsAreKept
    <3>1. Covers(runs, a)
      BY DEF CiInv
    <3>2. R!Cardinality({r \in runs : r.id > a.id}) = Cardinality({r \in runs : r.id > a.id})
      BY SameSize
    <3>3. ASSUME NEW r \in runs, r.id = a.id PROVE r.of = a.of \/ a.of \in shared
      <4>1. <<r.id, r.of>> \in Tags /\ <<a.id, a.of>> \in Tags
        BY DEF Tags
      <4>2. <<a.id, a.of>>[1] = <<r.id, r.of>>[1] /\ <<a.id, a.of>>[2] \notin shared
              => <<a.id, a.of>>[2] = <<r.id, r.of>>[2]
        BY <4>1 DEF OwnInv, Distinct
      <4>3. QED
        BY <3>3, <4>2
    <3>4. QED
      BY <3>1, <3>2, <3>3 DEF Covers, Newer
  <2>4. R!IdsAreNew
    BY <2>1 DEF R!IdsAreNew, OwnIds
  <2>5. QED
    BY <2>2, <2>3, <2>4 DEF RunsHold
<1>4. QED
  BY <1>1, <1>2, <1>3, PTL DEF ServiceSpec

-----------------------------------------------------------------------------
(***************************************************************************)
(* Users, teams and memberships                                            *)
(***************************************************************************)
\* Keys belong to one user.
KeysOf(u) == {k \in Key : KeyOf[k] = u}
Account ==
  [id : 0..MaxRequests, role : Appointed \cup {"owner"}, keys : SUBSET Key,
   suspended : BOOLEAN, pending : BOOLEAN]
OwnUsers == {us \in A!Users : \A u \in User : us.of[u] # None => us.of[u].keys \subseteq KeysOf(u)}
Purging == {x \in [user : User, keys : SUBSET Key] : x.keys \subseteq KeysOf(x.user)}
Some == [Name -> A!Repository \cup {None}]

\* A write by itself, and the writes there are: those that leave the repositories and
\* their index entries in agreement, and the others.
The(kind, what) == [k \in {kind} |-> what]

Neutral ==
  {The("owners", x) : x \in SUBSET KeysOf(Root)}
  \cup {The("users", x) : x \in OwnUsers}
  \cup {The("team", x) : x \in [name : Team, members : A!Members \cup {None}]}
  \cup {The("syncAll", None)}
  \cup {The("syncTeam", t) : t \in Team}
  \cup {The("purge", x) : x \in Purging}
Saving ==
  {The("repos", x) : x \in Some}
  \cup {The("sync", x) : x \in Some}
  \cup {The("unlist", x) : x \in [name : Name, doc : A!Repository]}
  \cup {The("delete", n) : n \in Name}
Writing == Neutral \cup Saving

DocTypes ==
  /\ owners \subseteq KeysOf(Root)
  /\ users \in OwnUsers
  /\ teams \in [Team -> A!Members \cup {None}]
  /\ repos \in Some
  /\ index \in [Key \X Name -> {"unlisted", "suspended", "listed"}]

AccountTypes ==
  /\ DocTypes
  /\ todo \in [Session -> Seq(Writing)] /\ \A c \in Session : Len(todo[c]) <= 4
  /\ doing \in [Session -> [kind : {"nothing", "save", "reindex", "delete user"}, user : User]]
  /\ alone \in {"always", "since reindex", "no"}
  /\ begun \in 0..MaxRequests

-----------------------------------------------------------------------------
\* Sequences of writes.
LEMMA Joined ==
  ASSUME NEW Items, NEW s \in Seq(Items), NEW t \in Seq(Items), NEW u \in Seq(Items), Len(u) = Len(s) + Len(t),
         \A i \in 1 .. Len(u) : u[i] = IF i <= Len(s) THEN s[i] ELSE t[i - Len(s)]
  PROVE  s \o t = u
<1>1. /\ s \o t \in Seq(Items) /\ Len(s \o t) = Len(u)
      /\ \A i \in 1 .. Len(s \o t) : (s \o t)[i] = u[i]
  <2>1. /\ s \o t \in Seq(Items) /\ Len(s \o t) = Len(s) + Len(t)
        /\ \A i \in 1 .. Len(s) + Len(t) : (s \o t)[i] = IF i <= Len(s) THEN s[i] ELSE t[i - Len(s)]
    BY ConcatProperties, Zenon
  <2>. QED
    BY <2>1
<1>. QED
  BY <1>1, SeqEqual, Zenon

LEMMA Join11 ==
  ASSUME NEW x, NEW y
  PROVE  <<x>> \o <<y>> = <<x, y>>
<1> DEFINE Items == {x, y} a == <<x>> b == <<y>> c == <<x, y>>
<1>1. a \in Seq(Items) /\ b \in Seq(Items) /\ c \in Seq(Items) /\ Len(c) = Len(a) + Len(b)
  OBVIOUS
<1>2. \A i \in 1 .. Len(c) : c[i] = IF i <= Len(a) THEN a[i] ELSE b[i - Len(a)]
  OBVIOUS
<1> HIDE DEF a, b, c, Items
<1>3. a \o b = c
  BY <1>1, <1>2, Joined, Zenon
<1>. QED
  BY <1>3 DEF a, b, c

LEMMA Join21 ==
  ASSUME NEW x, NEW y, NEW z
  PROVE  <<x, y>> \o <<z>> = <<x, y, z>>
<1> DEFINE Items == {x, y, z} a == <<x, y>> b == <<z>> c == <<x, y, z>>
<1>1. a \in Seq(Items) /\ b \in Seq(Items) /\ c \in Seq(Items) /\ Len(c) = Len(a) + Len(b)
  OBVIOUS
<1>2. \A i \in 1 .. Len(c) : c[i] = IF i <= Len(a) THEN a[i] ELSE b[i - Len(a)]
  OBVIOUS
<1> HIDE DEF a, b, c, Items
<1>3. a \o b = c
  BY <1>1, <1>2, Joined, Zenon
<1>. QED
  BY <1>3 DEF a, b, c

LEMMA Join22 ==
  ASSUME NEW x, NEW y, NEW z, NEW v
  PROVE  <<x, y>> \o <<z, v>> = <<x, y, z, v>>
<1> DEFINE Items == {x, y, z, v} a == <<x, y>> b == <<z, v>> c == <<x, y, z, v>>
<1>1. a \in Seq(Items) /\ b \in Seq(Items) /\ c \in Seq(Items) /\ Len(c) = Len(a) + Len(b)
  OBVIOUS
<1>2. \A i \in 1 .. Len(c) : c[i] = IF i <= Len(a) THEN a[i] ELSE b[i - Len(a)]
  OBVIOUS
<1> HIDE DEF a, b, c, Items
<1>3. a \o b = c
  BY <1>1, <1>2, Joined, Zenon
<1>. QED
  BY <1>3 DEF a, b, c

LEMMA Join31 ==
  ASSUME NEW x, NEW y, NEW z, NEW v
  PROVE  <<x, y, z>> \o <<v>> = <<x, y, z, v>>
<1> DEFINE Items == {x, y, z, v} a == <<x, y, z>> b == <<v>> c == <<x, y, z, v>>
<1>1. a \in Seq(Items) /\ b \in Seq(Items) /\ c \in Seq(Items) /\ Len(c) = Len(a) + Len(b)
  OBVIOUS
<1>2. \A i \in 1 .. Len(c) : c[i] = IF i <= Len(a) THEN a[i] ELSE b[i - Len(a)]
  OBVIOUS
<1> HIDE DEF a, b, c, Items
<1>3. a \o b = c
  BY <1>1, <1>2, Joined, Zenon
<1>. QED
  BY <1>3 DEF a, b, c

LEMMA Writes2 ==
  ASSUME NEW a, NEW b, NEW x, NEW y
  PROVE  A!W(a, x) \o A!W(b, y) = <<The(a, x), The(b, y)>>
  BY Join11, Zenon DEF A!W, The

LEMMA WritesSave ==
  ASSUME NEW x
  PROVE  A!SaveAll(x) = <<The("repos", x), The("sync", x)>>
  BY Writes2, Zenon DEF A!SaveAll

LEMMA WritesSaveThen ==
  ASSUME NEW b, NEW x, NEW y
  PROVE  A!SaveAll(x) \o A!W(b, y) = <<The("repos", x), The("sync", x), The(b, y)>>
<1>1. A!W(b, y) = <<The(b, y)>>
  BY Zenon DEF A!W, The
<1>2. A!SaveAll(x) = <<The("repos", x), The("sync", x)>>
  BY WritesSave
<1>. QED
  BY <1>1, <1>2, Join21, Zenon

LEMMA WritesSaves ==
  ASSUME NEW x, NEW y
  PROVE  A!SaveAll(x) \o A!SaveAll(y) = <<The("repos", x), The("sync", x), The("repos", y), The("sync", y)>>
<1> DEFINE p == The("repos", x) q == The("sync", x) r == The("repos", y) s == The("sync", y)
<1>1. A!SaveAll(x) = <<p, q>> /\ A!SaveAll(y) = <<r, s>>
  BY WritesSave
<1> HIDE DEF p, q, r, s
<1>2. <<p, q>> \o <<r, s>> = <<p, q, r, s>>
  BY Join22, Zenon
<1>3. A!SaveAll(x) \o A!SaveAll(y) = <<p, q, r, s>>
  BY <1>1, <1>2
<1>. QED
  BY <1>3 DEF p, q, r, s

LEMMA Writes4 ==
  ASSUME NEW a, NEW b, NEW d, NEW e, NEW x, NEW y, NEW z, NEW v
  PROVE  A!W(a, x) \o A!W(b, y) \o A!W(d, z) \o A!W(e, v) = <<The(a, x), The(b, y), The(d, z), The(e, v)>>
<1> DEFINE p == The(a, x) q == The(b, y) r == The(d, z) s == The(e, v)
<1>1. A!W(a, x) \o A!W(b, y) = <<p, q>>
  BY Writes2
<1>0. A!W(d, z) = <<r>> /\ A!W(e, v) = <<s>>
  BY Zenon DEF A!W, The
<1> HIDE DEF p, q, r, s
<1>2. <<p, q>> \o <<r>> = <<p, q, r>> /\ <<p, q, r>> \o <<s>> = <<p, q, r, s>>
  BY Join21, Join31, Zenon
<1>3. A!W(a, x) \o A!W(b, y) \o A!W(d, z) \o A!W(e, v) = <<p, q, r, s>>
  BY <1>0, <1>1, <1>2
<1>. QED
  BY <1>3 DEF p, q, r, s

LEMMA Heads1 == ASSUME NEW x PROVE Head(<<x>>) = x /\ Tail(<<x>>) = << >>
  OBVIOUS
LEMMA Heads2 == ASSUME NEW x, NEW y PROVE Head(<<x, y>>) = x /\ Tail(<<x, y>>) = <<y>>
  OBVIOUS
LEMMA Heads3 == ASSUME NEW x, NEW y, NEW z PROVE Head(<<x, y, z>>) = x /\ Tail(<<x, y, z>>) = <<y, z>>
  OBVIOUS
LEMMA Heads4 ==
  ASSUME NEW x, NEW y, NEW z, NEW v PROVE Head(<<x, y, z, v>>) = x /\ Tail(<<x, y, z, v>>) = <<y, z, v>>
  OBVIOUS

-----------------------------------------------------------------------------
\* What each write does.
LEMMA Writes ==
  ASSUME NEW x
  PROVE  /\ A!Apply(The("owners", x)) => owners' = x /\ UNCHANGED <<users, teams, repos, index>>
         /\ A!Apply(The("users", x)) => users' = x /\ UNCHANGED <<owners, teams, repos, index>>
         /\ A!Apply(The("team", x)) =>
              teams' = [teams EXCEPT ![x.name] = x.members] /\ UNCHANGED <<owners, users, repos, index>>
         /\ A!Apply(The("repos", x)) =>
              /\ repos' = [n \in Name |-> IF x[n] = None THEN repos[n] ELSE x[n]]
              /\ UNCHANGED <<owners, users, teams, index>>
         /\ A!Apply(The("delete", x)) => repos' = [repos EXCEPT ![x] = None] /\ UNCHANGED <<owners, users, teams, index>>
         /\ A!Apply(The("sync", x)) => index' = A!Synced(x) /\ UNCHANGED <<owners, users, teams, repos>>
         /\ A!Apply(The("syncAll", x)) => index' = A!Synced(repos) /\ UNCHANGED <<owners, users, teams, repos>>
         /\ A!Apply(The("syncTeam", x)) => index' = A!Synced(A!Granting(x)) /\ UNCHANGED <<owners, users, teams, repos>>
         /\ A!Apply(The("unlist", x)) => index' = A!Unlisted(x.name, x.doc) /\ UNCHANGED <<owners, users, teams, repos>>
         /\ A!Apply(The("purge", x)) => A!Purge(x.user, x.keys)
<1>1. A!Apply(The("owners", x)) => owners' = x /\ UNCHANGED <<users, teams, repos, index>>
  BY SMT DEF A!Apply, The
<1>2. A!Apply(The("users", x)) => users' = x /\ UNCHANGED <<owners, teams, repos, index>>
  BY SMT DEF A!Apply, The
<1>3. A!Apply(The("team", x)) =>
              teams' = [teams EXCEPT ![x.name] = x.members] /\ UNCHANGED <<owners, users, repos, index>>
  BY SMT DEF A!Apply, The
<1>4. A!Apply(The("repos", x)) =>
              /\ repos' = [n \in Name |-> IF x[n] = None THEN repos[n] ELSE x[n]]
              /\ UNCHANGED <<owners, users, teams, index>>
  BY SMT DEF A!Apply, The
<1>5. A!Apply(The("delete", x)) => repos' = [repos EXCEPT ![x] = None] /\ UNCHANGED <<owners, users, teams, index>>
  BY SMT DEF A!Apply, The
<1>6. A!Apply(The("sync", x)) => index' = A!Synced(x) /\ UNCHANGED <<owners, users, teams, repos>>
  BY SMT DEF A!Apply, The
<1>7. A!Apply(The("syncAll", x)) => index' = A!Synced(repos) /\ UNCHANGED <<owners, users, teams, repos>>
  BY SMT DEF A!Apply, The
<1>8. A!Apply(The("syncTeam", x)) => index' = A!Synced(A!Granting(x)) /\ UNCHANGED <<owners, users, teams, repos>>
  BY SMT DEF A!Apply, The
<1>9. A!Apply(The("unlist", x)) => index' = A!Unlisted(x.name, x.doc) /\ UNCHANGED <<owners, users, teams, repos>>
  BY SMT DEF A!Apply, The
<1>10. A!Apply(The("purge", x)) => A!Purge(x.user, x.keys)
  BY SMT DEF A!Apply, The
<1>. QED
  BY <1>1, <1>2, <1>3, <1>4, <1>5, <1>6, <1>7, <1>8, <1>9, <1>10

-----------------------------------------------------------------------------
\* Types.
LEMMA Records ==
  /\ \A us \in OwnUsers :
       /\ us \in [of : [User -> {None} \cup Account], invites : [User -> Appointed \cup {None}]]
       /\ \A u \in User : us.of[u] # None => us.of[u] \in Account /\ us.of[u].keys \subseteq KeysOf(u)
  /\ \A us \in [of : [User -> {None} \cup Account], invites : [User -> Appointed \cup {None}]] :
       (\A u \in User : us.of[u] # None => us.of[u].keys \subseteq KeysOf(u)) => us \in OwnUsers
  /\ \A x \in Some, n \in Name : x[n] # None => x[n] \in A!Repository
<1>1. \A us \in OwnUsers : us \in [of : [User -> {None} \cup Account], invites : [User -> Appointed \cup {None}]]
  BY Zenon DEF OwnUsers, A!Users, Account
<1>2. \A us \in OwnUsers : \A u \in User : us.of[u] # None => us.of[u] \in Account
  BY <1>1
<1>. QED
  BY <1>1, <1>2 DEF OwnUsers, A!Users, Account, Some

LEMMA AccountDefaults ==
  /\ A!NewRepository \in A!Repository /\ A!NewTeam \in A!Members /\ A!NoUsers \in OwnUsers
  /\ A!NewRepository # None /\ A!NewTeam # None
<1>1. A!NewRepository \in A!Repository
  BY DEF A!NewRepository, A!Repository
<1>2. A!NewTeam \in A!Members
  BY DEF A!NewTeam, A!Members
<1>3. A!NoUsers \in OwnUsers
  BY Records DEF A!NoUsers
<1>. QED
  BY <1>1, <1>2, <1>3, AccountsAssumption

LEMMA LoadedTypes == ASSUME DocTypes PROVE A!Loaded \in OwnUsers
<1> DEFINE owner == [id |-> 0, role |-> "owner", keys |-> owners, suspended |-> FALSE, pending |-> FALSE]
<1>1. users \in OwnUsers /\ owners \subseteq KeysOf(Root) /\ owners \subseteq Key
  BY DEF DocTypes, KeysOf
<1>2. owner \in Account /\ owner.keys \subseteq KeysOf(Root)
  BY <1>1, AccountsAssumption DEF Account
<1>3. ASSUME users.of[Root] # None
      PROVE  /\ [users.of[Root] EXCEPT !.keys = @ \cup owners] \in Account
             /\ [users.of[Root] EXCEPT !.keys = @ \cup owners].keys \subseteq KeysOf(Root)
  <2>1. users.of[Root] \in Account /\ users.of[Root].keys \subseteq KeysOf(Root)
    BY <1>1, <1>3, AccountsAssumption, Records
  <2>. QED
    BY <2>1, <1>1 DEF Account
<1>4. ASSUME NEW r \in Account, r.keys \subseteq KeysOf(Root) PROVE [users EXCEPT !.of[Root] = r] \in OwnUsers
  BY <1>1, <1>4, Records, AccountsAssumption
<1> HIDE DEF owner
<1>. QED
  BY <1>1, <1>2, <1>3, <1>4 DEF A!Loaded, owner

LEMMA EnsuredTypes ==
  ASSUME DocTypes, NEW n \in Name
  PROVE  /\ A!Ensured(n) \in A!Repository /\ A!Ensured(n) # None
         /\ repos[n] # None => repos[n] \in A!Repository
         /\ \A t \in Team : A!Ensured(n).teams[t] # None => repos[n] # None /\ repos[n].teams[t] # None
         /\ \A k \in Key : A!Ensured(n).keys[k] # None => repos[n] # None /\ repos[n].keys[k] = A!Ensured(n).keys[k]
<1>1. repos[n] # None => repos[n] \in A!Repository
  BY Records DEF DocTypes
<1>2. CASE repos[n] = None
  <2>1. A!Ensured(n) = A!NewRepository
    BY <1>2 DEF A!Ensured
  <2>2. (\A t \in Team : A!NewRepository.teams[t] = None) /\ (\A k \in Key : A!NewRepository.keys[k] = None)
    BY DEF A!NewRepository
  <2>3. A!Ensured(n) \in A!Repository /\ A!Ensured(n) # None
    BY <2>1, AccountDefaults
  <2>4. (\A t \in Team : A!Ensured(n).teams[t] = None) /\ (\A k \in Key : A!Ensured(n).keys[k] = None)
    BY <2>1, <2>2, Zenon
  <2>. QED
    BY <1>1, <2>3, <2>4, Zenon
<1>3. CASE repos[n] # None
  <2> DEFINE d == repos[n]
             some == [k \in Key |-> IF d.keys[k] # None /\ d.keys[k].role = "owner" /\ k \in owners /\ ~d.keys[k].transferred
                                    THEN None ELSE d.keys[k]]
  <2>1. A!Ensured(n) = [d EXCEPT !.keys = some]
    BY <1>3 DEF A!Ensured
  <2>2. d \in A!Repository
    BY <1>1, <1>3
  <2> HIDE DEF d
  <2>3. some \in [Key -> {None} \cup [role : Granted \cup {"admin", "owner"}, suspended : BOOLEAN, transferred : BOOLEAN]]
    BY <2>2 DEF A!Repository
  <2>4. \A k \in Key : some[k] # None => d.keys[k] = some[k]
    OBVIOUS
  <2> HIDE DEF some
  <2>5. [d EXCEPT !.keys = some] \in A!Repository /\ [d EXCEPT !.keys = some].teams = d.teams /\ [d EXCEPT !.keys = some].keys = some
    BY <2>2, <2>3 DEF A!Repository
  <2>6. A!Ensured(n) # None
    BY <2>1, <2>5, AccountsAssumption
  <2>7. \A k \in Key : A!Ensured(n).keys[k] # None => repos[n].keys[k] = A!Ensured(n).keys[k]
    BY <2>1, <2>4, <2>5 DEF d
  <2>. QED
    BY <1>1, <1>3, <2>1, <2>5, <2>6, <2>7 DEF d
<1>. QED
  BY <1>2, <1>3

LEMMA PersonTypes ==
  ASSUME DocTypes, begun \in 0..MaxRequests, begun < MaxRequests,
         NEW u \in User, NEW role \in Appointed, NEW pending \in BOOLEAN
  PROVE  A!Person(u, role, pending) \in Account /\ A!Person(u, role, pending).keys \subseteq KeysOf(u)
<1> DEFINE new == [id |-> begun + 1, role |-> role, keys |-> {}, suspended |-> FALSE, pending |-> pending]
<1>1. new \in Account /\ new.keys \subseteq KeysOf(u)
  BY AccountsAssumption DEF Account
<1>2. A!Loaded.of[u] # None => A!Loaded.of[u] \in Account /\ A!Loaded.of[u].keys \subseteq KeysOf(u)
  BY LoadedTypes, Records
<1> HIDE DEF new
<1>. QED
  BY <1>1, <1>2 DEF A!Person, A!Known, new

LEMMA AccountInit == ASSUME A!Init PROVE AccountTypes
<1> USE DEF A!Init
<1>1. owners \subseteq KeysOf(Root)
  BY DEF KeysOf
<1>2. teams \in [Team -> A!Members \cup {None}]
  BY AccountDefaults
<1>3. repos \in Some
  BY AccountDefaults DEF Some
<1>4. todo \in [Session -> Seq(Writing)] /\ \A c \in Session : Len(todo[c]) <= 4
  OBVIOUS
<1>5. doing \in [Session -> [kind : {"nothing", "save", "reindex", "delete user"}, user : User]]
  BY AccountsAssumption DEF A!Nothing
<1>6. index \in [Key \X Name -> {"unlisted", "suspended", "listed"}] /\ users \in OwnUsers
  BY AccountDefaults
<1>7. alone \in {"always", "since reindex", "no"} /\ begun \in 0..MaxRequests
  BY AccountsAssumption
<1>. QED
  BY <1>1, <1>2, <1>3, <1>4, <1>5, <1>6, <1>7, Zenon DEF AccountTypes, DocTypes

\* Index entries.
LEMMA IndexTypes ==
  ASSUME DocTypes
  PROVE  /\ \A x \in Some : A!Synced(x) \in [Key \X Name -> {"unlisted", "suspended", "listed"}]
         /\ \A n, d : A!Unlisted(n, d) \in [Key \X Name -> {"unlisted", "suspended", "listed"}]
<1>1. \A p \in Key \X Name : index[p] \in {"unlisted", "suspended", "listed"}
  BY DEF DocTypes
<1>2. \A k, d, n : \A p \in Key \X Name : A!Listing(k, d, index[p]) \in {"unlisted", "suspended", "listed"}
  BY <1>1 DEF A!Listing
<1>3. ASSUME NEW x \in Some PROVE A!Synced(x) \in [Key \X Name -> {"unlisted", "suspended", "listed"}]
  BY <1>1, <1>2 DEF A!Synced
<1>4. ASSUME NEW n, NEW d PROVE A!Unlisted(n, d) \in [Key \X Name -> {"unlisted", "suspended", "listed"}]
  BY <1>1 DEF A!Unlisted
<1>. QED
  BY <1>3, <1>4

LEMMA ForgottenKeys ==
  ASSUME NEW u \in User, NEW d \in A!Repository
  PROVE  /\ A!Forgotten(u, d) \in A!Repository /\ A!Forgotten(u, d) # None
         /\ A!Forgotten(u, d).teams = d.teams
         /\ A!Forgotten(u, d).grants = d.grants
         /\ \A k \in Key : A!Forgotten(u, d).keys[k] = IF KeyOf[k] = u THEN None ELSE d.keys[k]
<1> DEFINE some == [k \in Key |-> IF KeyOf[k] = u THEN None ELSE d.keys[k]]
           e == [d EXCEPT !.keys = some]
<1>1. some \in [Key -> {None} \cup [role : Granted \cup {"admin", "owner"}, suspended : BOOLEAN, transferred : BOOLEAN]]
  BY DEF A!Repository
<1>2. \A k \in Key : some[k] = IF KeyOf[k] = u THEN None ELSE d.keys[k]
  OBVIOUS
<1>3. A!Forgotten(u, d) = [d EXCEPT !.keys = some, !.invites[u] = None]
  BY DEF A!Forgotten
<1> HIDE DEF some
<1> DEFINE K == [Key -> {None} \cup [role : Granted \cup {"admin", "owner"}, suspended : BOOLEAN, transferred : BOOLEAN]]
           T == [Team -> Granted \cup {None}]
           G == [User -> Granted \cup {None}]
<1>5. d \in [keys : K, teams : T, grants : G, invites : G, transfer : Key \cup {None}]
  BY Zenon DEF A!Repository
<1>6. [d.invites EXCEPT ![u] = None] \in G
  BY <1>5
<1> HIDE DEF K, T, G
<1>7. /\ [d EXCEPT !.keys = some, !.invites[u] = None] \in [keys : K, teams : T, grants : G, invites : G, transfer : Key \cup {None}]
      /\ A!Forgotten(u, d).keys = some /\ A!Forgotten(u, d).teams = d.teams /\ A!Forgotten(u, d).grants = d.grants
  BY <1>1, <1>3, <1>5, <1>6 DEF K
<1>4. A!Forgotten(u, d) \in A!Repository /\ A!Forgotten(u, d).keys = some
      /\ A!Forgotten(u, d).teams = d.teams /\ A!Forgotten(u, d).grants = d.grants
  BY <1>3, <1>7, Zenon DEF A!Repository, K, T, G
<1>. QED
  BY <1>2, <1>4, AccountsAssumption

\* A purge.
LEMMA Purged ==
  ASSUME DocTypes, NEW u \in User, NEW gone \in SUBSET KeysOf(u), A!Purge(u, gone)
  PROVE  /\ DocTypes' /\ UNCHANGED <<owners, users>>
         /\ \A t \in Team : teams'[t] = None <=> teams[t] = None
         /\ \A n \in Name : /\ repos'[n] = None <=> repos[n] = None
                            /\ repos[n] # None => repos'[n] = A!Forgotten(u, repos[n]) /\ repos[n] \in A!Repository
         /\ \A k \in Key, n \in Name : index'[<<k, n>>] # index[<<k, n>>] => KeyOf[k] = u
<1> USE DEF A!Purge
<1>1. ASSUME NEW t \in Team
      PROVE  teams'[t] \in A!Members \cup {None} /\ (teams'[t] = None <=> teams[t] = None)
  <2>1. teams[t] # None => teams[t] \in A!Members
    BY DEF DocTypes
  <2>2. ASSUME NEW m \in A!Members PROVE [m EXCEPT ![u] = None] \in A!Members /\ [m EXCEPT ![u] = None] # None
    BY AccountsAssumption DEF A!Members
  <2>. QED
    BY <2>1, <2>2
<1>2. teams' \in [Team -> A!Members \cup {None}]
  BY <1>1
<1>3. ASSUME NEW n \in Name
      PROVE  /\ repos'[n] = None <=> repos[n] = None
             /\ repos[n] # None => repos'[n] = A!Forgotten(u, repos[n]) /\ repos[n] \in A!Repository
             /\ repos'[n] \in A!Repository \cup {None}
  <2>1. repos[n] # None => repos[n] \in A!Repository
    BY Records DEF DocTypes
  <2>2. repos'[n] = IF repos[n] = None THEN None ELSE A!Forgotten(u, repos[n])
    OBVIOUS
  <2>3. repos[n] # None => A!Forgotten(u, repos[n]) \in A!Repository /\ A!Forgotten(u, repos[n]) # None
    BY <2>1, ForgottenKeys
  <2>. QED
    BY <2>1, <2>2, <2>3
<1>4. repos' \in Some
  <2>1. \A n \in Name : repos'[n] \in A!Repository \cup {None}
    BY <1>3
  <2>. QED
    BY <2>1 DEF Some
<1>5. index' \in [Key \X Name -> {"unlisted", "suspended", "listed"}]
  BY DEF DocTypes
<1>6. ASSUME NEW k \in Key, NEW n \in Name, index'[<<k, n>>] # index[<<k, n>>] PROVE KeyOf[k] = u
  <2>1. \A x \in gone : KeyOf[x] = u
    BY DEF KeysOf
  <2>. QED
    BY <1>6, <2>1
<1>7. DocTypes'
  BY <1>2, <1>4, <1>5, Zenon DEF DocTypes
<1>. QED
  BY <1>1, <1>3, <1>6, <1>7

LEMMA WriteTypes ==
  ASSUME DocTypes, NEW w \in Writing, A!Apply(w)
  PROVE  DocTypes'
<1>1. CASE \E x \in SUBSET KeysOf(Root) : w = The("owners", x)
  BY <1>1, Writes DEF DocTypes
<1>2. CASE \E x \in OwnUsers : w = The("users", x)
  BY <1>2, Writes DEF DocTypes
<1>3. CASE \E x \in [name : Team, members : A!Members \cup {None}] : w = The("team", x)
  BY <1>3, Writes DEF DocTypes
<1>4. CASE \E x \in Some : w = The("repos", x)
  BY <1>4, Writes DEF DocTypes, Some
<1>5. CASE \E n \in Name : w = The("delete", n)
  BY <1>5, Writes DEF DocTypes, Some
<1>6. CASE \E x \in Some : w = The("sync", x)
  BY <1>6, Writes, IndexTypes, Zenon DEF DocTypes
<1>7. CASE w = The("syncAll", None)
  <2>1. repos \in Some
    BY DEF DocTypes
  <2>. QED
    BY <1>7, <2>1, Writes, IndexTypes, Zenon DEF DocTypes
<1>8. CASE \E t \in Team : w = The("syncTeam", t)
  <2>1. PICK t \in Team : w = The("syncTeam", t)
    BY <1>8
  <2>2. A!Granting(t) \in Some
    BY Records DEF A!Granting, DocTypes, Some
  <2>. QED
    BY <2>1, <2>2, Writes, IndexTypes, Zenon DEF DocTypes
<1>9. CASE \E x \in [name : Name, doc : A!Repository] : w = The("unlist", x)
  <2>1. PICK x \in [name : Name, doc : A!Repository] : w = The("unlist", x)
    BY <1>9
  <2>2. index' = A!Unlisted(x.name, x.doc) /\ UNCHANGED <<owners, users, teams, repos>>
    BY <2>1, Writes
  <2>. QED
    BY <2>2, IndexTypes, Zenon DEF DocTypes
<1>10. CASE \E x \in Purging : w = The("purge", x)
  <2>1. PICK x \in Purging : w = The("purge", x)
    BY <1>10
  <2>2. A!Purge(x.user, x.keys) /\ x.user \in User /\ x.keys \in SUBSET KeysOf(x.user)
    BY <2>1, Writes DEF Purging
  <2>. QED
    BY <2>2, Purged
<1>. QED
  BY <1>1, <1>2, <1>3, <1>4, <1>5, <1>6, <1>7, <1>8, <1>9, <1>10 DEF Writing, Neutral, Saving

-----------------------------------------------------------------------------
(***************************************************************************)
(* The membership index                                                    *)
(***************************************************************************)

\* Who has a key in the repository finds it.
ListedAt(n) ==
  \A k \in Key : repos[n] # None /\ A!Direct(k, repos[n]) # {} => index[<<k, n>>] = "listed"
Listed == \A n \in Name : ListedAt(n)
ListedBut(some) == \A n \in Name \ some : ListedAt(n)

\* Some repositories have been written, and their entries not yet.
Written(x) == \A n \in Name : IF x[n] = None THEN ListedAt(n) ELSE repos[n] = x[n]

\* What remains to be written by the only handler, and the state it starts from.
SaveShape(s) ==
  \E x \in Some, y \in Some, w \in Neutral :
    \/ Listed /\ s \in {<<The("repos", x), The("sync", x)>>, <<The("repos", x), The("sync", x), w>>,
                        <<The("repos", x), The("sync", x), The("repos", y), The("sync", y)>>}
    \/ Written(x) /\ s \in {<<The("sync", x)>>, <<The("sync", x), w>>,
                            <<The("sync", x), The("repos", y), The("sync", y)>>}

DropShape(s) ==
  \E n \in Name, d \in A!Repository :
    \/ Listed /\ s = <<The("unlist", [name |-> n, doc |-> d]), The("delete", n)>>
    \/ ListedBut({n}) /\ s = <<The("delete", n)>>

MoveShape(s) ==
  \E n, m \in Name, d \in A!Repository :
    LET to == A!Only(m, d)
        out == [name |-> n, doc |-> d]
    IN /\ n # m
       /\ \/ Listed /\ s = <<The("repos", to), The("unlist", out), The("delete", n), The("sync", to)>>
          \/ Written(to) /\ s = <<The("unlist", out), The("delete", n), The("sync", to)>>
          \/ ListedBut({n, m}) /\ repos[m] = d /\ s = <<The("delete", n), The("sync", to)>>

ListShape(s) == (Listed /\ s \in Seq(Neutral)) \/ SaveShape(s) \/ DropShape(s) \/ MoveShape(s)

LEMMA DirectListing ==
  ASSUME NEW k, NEW d, NEW old, A!Direct(k, d) # {}
  PROVE  d.keys[k] # None /\ A!Listing(k, d, old) = "listed"
  BY DEF A!Direct, A!Listing

LEMMA SyncLists ==
  ASSUME DocTypes, NEW x, index' = A!Synced(x), UNCHANGED repos, NEW n \in Name,
         x[n] = repos[n] \/ (x[n] = None /\ ListedAt(n))
  PROVE  ListedAt(n)'
<1> SUFFICES ASSUME NEW k \in Key, repos[n] # None, A!Direct(k, repos[n]) # {}
             PROVE  index'[<<k, n>>] = "listed"
  BY DEF ListedAt, A!Direct
<1>1. index'[<<k, n>>] = IF x[n] = None THEN index[<<k, n>>] ELSE A!Listing(k, x[n], index[<<k, n>>])
  BY DEF A!Synced
<1>2. CASE x[n] = repos[n]
  BY <1>1, <1>2, DirectListing
<1>3. CASE x[n] = None /\ ListedAt(n)
  BY <1>1, <1>3 DEF ListedAt
<1>. QED
  BY <1>2, <1>3

LEMMA NeutralLists ==
  ASSUME DocTypes, NEW w \in Neutral, A!Apply(w), NEW n \in Name, ListedAt(n)
  PROVE  ListedAt(n)'
<1>1. CASE UNCHANGED <<repos, index>>
  BY <1>1 DEF ListedAt, A!Direct
<1>2. CASE w = The("syncAll", None)
  <2>1. index' = A!Synced(repos) /\ UNCHANGED repos
    BY <1>2, Writes
  <2>. QED
    BY <2>1, SyncLists
<1>3. CASE \E t \in Team : w = The("syncTeam", t)
  <2>1. PICK t \in Team : w = The("syncTeam", t)
    BY <1>3
  <2>2. index' = A!Synced(A!Granting(t)) /\ UNCHANGED repos
    BY <2>1, Writes
  <2>3. A!Granting(t)[n] = repos[n] \/ A!Granting(t)[n] = None
    BY DEF A!Granting
  <2>. QED
    BY <2>2, <2>3, SyncLists
<1>4. CASE \E x \in Purging : w = The("purge", x)
  <2>1. PICK x \in Purging : w = The("purge", x)
    BY <1>4
  <2>2. A!Purge(x.user, x.keys) /\ x.user \in User /\ x.keys \in SUBSET KeysOf(x.user)
    BY <2>1, Writes DEF Purging
  <2> SUFFICES ASSUME NEW k \in Key, repos'[n] # None, A!Direct(k, repos'[n]) # {}
               PROVE  index'[<<k, n>>] = "listed"
    BY DEF ListedAt, A!Direct
  <2>3. repos[n] # None /\ repos[n] \in A!Repository /\ repos'[n] = A!Forgotten(x.user, repos[n])
    BY <2>2, Purged
  <2>4. KeyOf[k] # x.user /\ repos[n].keys[k] = repos'[n].keys[k]
    BY <2>2, <2>3, ForgottenKeys, DirectListing
  <2>5. A!Direct(k, repos[n]) # {}
    BY <2>4 DEF A!Direct
  <2>6. index'[<<k, n>>] = index[<<k, n>>]
    BY <2>2, <2>4, Purged
  <2>. QED
    BY <2>3, <2>5, <2>6 DEF ListedAt
<1>5. CASE \E x : w \in {The("owners", x), The("users", x), The("team", x)}
  <2>1. PICK x : w \in {The("owners", x), The("users", x), The("team", x)}
    BY <1>5
  <2>2. UNCHANGED <<repos, index>>
    BY <2>1, Writes
  <2>. QED
    BY <1>1, <2>2
<1>. QED
  BY <1>2, <1>3, <1>4, <1>5 DEF Neutral

LEMMA ReposLists ==
  ASSUME DocTypes, NEW x \in Some, A!Apply(The("repos", x)), Listed
  PROVE  Written(x)'
<1>1. \A n \in Name : repos'[n] = IF x[n] = None THEN repos[n] ELSE x[n]
  BY Writes
<1>2. UNCHANGED index
  BY Writes
<1>3. ASSUME NEW n \in Name, x[n] = None PROVE ListedAt(n)'
  BY <1>1, <1>2, <1>3 DEF Listed, ListedAt, A!Direct
<1>. QED
  BY <1>1, <1>3 DEF Written

LEMMA DropLists ==
  ASSUME DocTypes, NEW n \in Name
  PROVE  /\ \A d \in A!Repository, m \in Name \ {n} :
              A!Apply(The("unlist", [name |-> n, doc |-> d])) /\ ListedAt(m) => ListedAt(m)' /\ UNCHANGED repos
         /\ \A m \in Name : A!Apply(The("delete", n)) /\ (m # n => ListedAt(m)) => ListedAt(m)'
         /\ \A m \in Name \ {n} : A!Apply(The("delete", n)) => UNCHANGED repos[m]
<1>1. ASSUME NEW d \in A!Repository, NEW m \in Name \ {n}, A!Apply(The("unlist", [name |-> n, doc |-> d])), ListedAt(m)
      PROVE  ListedAt(m)' /\ UNCHANGED repos
  <2>1. index' = A!Unlisted(n, d) /\ UNCHANGED repos
    BY <1>1, Writes
  <2>2. \A k \in Key : index'[<<k, m>>] = index[<<k, m>>]
    BY <2>1 DEF A!Unlisted
  <2>. QED
    BY <1>1, <2>1, <2>2 DEF ListedAt, A!Direct
<1>2. ASSUME NEW m \in Name, A!Apply(The("delete", n)), m # n => ListedAt(m)
      PROVE  ListedAt(m)'
  <2>1. repos' = [repos EXCEPT ![n] = None] /\ UNCHANGED index
    BY <1>2, Writes
  <2>2. repos'[m] = IF m = n THEN None ELSE repos[m]
    BY <2>1 DEF DocTypes, Some
  <2>. QED
    BY <1>2, <2>1, <2>2 DEF ListedAt, A!Direct
<1>3. ASSUME NEW m \in Name \ {n}, A!Apply(The("delete", n))
      PROVE  repos'[m] = repos[m]
  <2>1. repos' = [repos EXCEPT ![n] = None]
    BY <1>3, Writes
  <2>. QED
    BY <2>1 DEF DocTypes, Some
<1>. QED
  BY <1>1, <1>2, <1>3

LEMMA OnlyTypes ==
  ASSUME NEW m \in Name, NEW d \in A!Repository
  PROVE  A!Only(m, d) \in Some /\ \A n \in Name : A!Only(m, d)[n] = IF n = m THEN d ELSE None
  BY DEF A!Only, Some

LEMMA SyncSettles ==
  ASSUME DocTypes, NEW x \in Some, A!Apply(The("sync", x)), Written(x)
  PROVE  Listed'
<1>1. index' = A!Synced(x) /\ UNCHANGED repos
  BY Writes
<1>2. ASSUME NEW n \in Name PROVE ListedAt(n)'
  <2>1. x[n] = repos[n] \/ (x[n] = None /\ ListedAt(n))
    BY DEF Written
  <2>. QED
    BY <1>1, <2>1, SyncLists
<1>. QED
  BY <1>2 DEF Listed

LEMMA SaveStep ==
  ASSUME DocTypes, NEW s, SaveShape(s), A!Apply(Head(s))
  PROVE  (ListShape(Tail(s)))'
<1>1. PICK x \in Some, y \in Some, w \in Neutral :
        \/ Listed /\ s \in {<<The("repos", x), The("sync", x)>>, <<The("repos", x), The("sync", x), w>>,
                            <<The("repos", x), The("sync", x), The("repos", y), The("sync", y)>>}
        \/ Written(x) /\ s \in {<<The("sync", x)>>, <<The("sync", x), w>>,
                                <<The("sync", x), The("repos", y), The("sync", y)>>}
  BY DEF SaveShape
<1>2. CASE Listed /\ s \in {<<The("repos", x), The("sync", x)>>, <<The("repos", x), The("sync", x), w>>,
                            <<The("repos", x), The("sync", x), The("repos", y), The("sync", y)>>}
  <2>1. Head(s) = The("repos", x) /\ Tail(s) \in {<<The("sync", x)>>, <<The("sync", x), w>>, <<The("sync", x), The("repos", y), The("sync", y)>>}
    <3>1. CASE s = <<The("repos", x), The("sync", x)>>
      BY <3>1, Heads2
    <3>2. CASE s = <<The("repos", x), The("sync", x), w>>
      BY <3>2, Heads3
    <3>3. CASE s = <<The("repos", x), The("sync", x), The("repos", y), The("sync", y)>>
      BY <3>3, Heads4
    <3>. QED
      BY <1>2, <3>1, <3>2, <3>3
  <2>3. Written(x)'
    BY <1>2, <2>1, ReposLists
  <2>. QED
    BY <2>1, <2>3 DEF ListShape, SaveShape
<1>3. CASE Written(x) /\ s \in {<<The("sync", x)>>, <<The("sync", x), w>>,
                                <<The("sync", x), The("repos", y), The("sync", y)>>}
  <2>1. Head(s) = The("sync", x) /\ Tail(s) \in {<< >>, <<w>>, <<The("repos", y), The("sync", y)>>}
    <3>1. CASE s = <<The("sync", x)>>
      BY <3>1, Heads1
    <3>2. CASE s = <<The("sync", x), w>>
      BY <3>2, Heads2
    <3>3. CASE s = <<The("sync", x), The("repos", y), The("sync", y)>>
      BY <3>3, Heads3
    <3>. QED
      BY <1>3, <3>1, <3>2, <3>3
  <2>3. Listed'
    BY <1>3, <2>1, SyncSettles
  <2>4. << >> \in Seq(Neutral) /\ <<w>> \in Seq(Neutral)
    OBVIOUS
  <2>5. CASE Tail(s) \in {<< >>, <<w>>}
    BY <2>3, <2>4, <2>5, Zenon DEF ListShape
  <2>6. CASE Tail(s) = <<The("repos", y), The("sync", y)>>
    BY <2>3, <2>6 DEF ListShape, SaveShape
  <2>. QED
    BY <2>1, <2>5, <2>6
<1>. QED
  BY <1>1, <1>2, <1>3

LEMMA DropStep ==
  ASSUME DocTypes, NEW s, DropShape(s), A!Apply(Head(s))
  PROVE  (ListShape(Tail(s)))'
<1>1. PICK n \in Name, d \in A!Repository :
        \/ Listed /\ s = <<The("unlist", [name |-> n, doc |-> d]), The("delete", n)>>
        \/ ListedBut({n}) /\ s = <<The("delete", n)>>
  BY DEF DropShape
<1>2. CASE Listed /\ s = <<The("unlist", [name |-> n, doc |-> d]), The("delete", n)>>
  <2>1. Head(s) = The("unlist", [name |-> n, doc |-> d]) /\ Tail(s) = <<The("delete", n)>>
    BY <1>2, Heads2
  <2>2. ListedBut({n})'
    BY <1>2, <2>1, DropLists DEF Listed, ListedBut
  <2>. QED
    BY <2>1, <2>2 DEF ListShape, DropShape
<1>3. CASE ListedBut({n}) /\ s = <<The("delete", n)>>
  <2>1. Head(s) = The("delete", n) /\ Tail(s) = << >>
    BY <1>3, Heads1
  <2>2. Listed'
    BY <1>3, <2>1, DropLists DEF Listed, ListedBut
  <2>3. << >> \in Seq(Neutral)
    OBVIOUS
  <2>. QED
    BY <2>1, <2>2, <2>3, Zenon DEF ListShape
<1>. QED
  BY <1>1, <1>2, <1>3

LEMMA MoveStep ==
  ASSUME DocTypes, NEW s, MoveShape(s), A!Apply(Head(s))
  PROVE  (ListShape(Tail(s)))'
<1>1. PICK n \in Name, m \in Name, d \in A!Repository :
        LET to == A!Only(m, d)
            out == [name |-> n, doc |-> d]
        IN /\ n # m
           /\ \/ Listed /\ s = <<The("repos", to), The("unlist", out), The("delete", n), The("sync", to)>>
              \/ Written(to) /\ s = <<The("unlist", out), The("delete", n), The("sync", to)>>
              \/ ListedBut({n, m}) /\ repos[m] = d /\ s = <<The("delete", n), The("sync", to)>>
  BY DEF MoveShape
<1> DEFINE to == A!Only(m, d)
           out == [name |-> n, doc |-> d]
<1>2. /\ to \in Some /\ d # None /\ \A o \in Name : to[o] = IF o = m THEN d ELSE None
  BY OnlyTypes, AccountsAssumption
<1> HIDE DEF to
<1>3. CASE Listed /\ s = <<The("repos", to), The("unlist", out), The("delete", n), The("sync", to)>>
  <2>1. Head(s) = The("repos", to) /\ Tail(s) = <<The("unlist", out), The("delete", n), The("sync", to)>>
    BY <1>3, Heads4
  <2>2. Written(to)'
    BY <1>2, <1>3, <2>1, ReposLists
  <2>. QED
    BY <1>1, <2>1, <2>2 DEF ListShape, MoveShape, to
<1>4. CASE Written(to) /\ s = <<The("unlist", out), The("delete", n), The("sync", to)>>
  <2>1. Head(s) = The("unlist", out) /\ Tail(s) = <<The("delete", n), The("sync", to)>>
    BY <1>4, Heads3
  <2>2. repos[m] = d /\ ListedBut({n, m})
    BY <1>2, <1>4 DEF Written, ListedBut
  <2>3. UNCHANGED repos
    BY <2>1, Writes
  <2>4. ListedBut({n, m})' /\ repos'[m] = d
    BY <2>1, <2>2, <2>3, DropLists DEF ListedBut
  <2>. QED
    BY <1>1, <2>1, <2>4 DEF ListShape, MoveShape, to
<1>5. CASE ListedBut({n, m}) /\ repos[m] = d /\ s = <<The("delete", n), The("sync", to)>>
  <2>1. Head(s) = The("delete", n) /\ Tail(s) = <<The("sync", to)>>
    BY <1>5, Heads2
  <2>2. repos'[m] = d
    BY <1>1, <1>5, <2>1, DropLists
  <2>3. \A o \in Name \ {m} : ListedAt(o)'
    BY <1>5, <2>1, DropLists DEF ListedBut
  <2>4. Written(to)'
    BY <1>2, <2>2, <2>3 DEF Written
  <2>5. \E w : w \in Neutral
    BY DEF Neutral
  <2>. QED
    BY <1>2, <2>1, <2>4, <2>5 DEF ListShape, SaveShape
<1>. QED
  BY <1>1, <1>3, <1>4, <1>5 DEF to

LEMMA ListStep ==
  ASSUME DocTypes, NEW s, s # << >>, ListShape(s), A!Apply(Head(s))
  PROVE  (ListShape(Tail(s)))'
<1>1. CASE Listed /\ s \in Seq(Neutral)
  <2>1. Head(s) \in Neutral /\ Tail(s) \in Seq(Neutral)
    BY <1>1
  <2>2. Listed'
    BY <1>1, <2>1, NeutralLists DEF Listed
  <2>. QED
    BY <2>1, <2>2, Zenon DEF ListShape
<1>. QED
  BY <1>1, SaveStep, DropStep, MoveStep DEF ListShape

-----------------------------------------------------------------------------
(***************************************************************************)
(* Teams that are granted something                                        *)
(***************************************************************************)

Existing(d) == \A t \in Team : d.teams[t] # None => teams[t] # None
GrantsExist == \A n \in Name : repos[n] # None => Existing(repos[n])
AllExisting(x) == \A n \in Name : x[n] # None => Existing(x[n])
Ungrants(t) == \A n \in Name : repos[n] # None => repos[n].teams[t] = None

\* Writes that leave every team that exists, and grant nothing to another.
Mild(w) ==
  /\ \A x \in [name : Team, members : A!Members \cup {None}] : w = The("team", x) => x.members # None
  /\ \A x \in Some : w = The("repos", x) => AllExisting(x)

Gone(t) == The("team", [name |-> t, members |-> None])

\* The deletion of a team: what is left of it.
GoneShape(s) ==
  \E t \in Team, x \in Some :
    \/ /\ s = <<The("repos", x), The("sync", x), Gone(t)>>
       /\ AllExisting(x)
       /\ \A n \in Name : IF x[n] = None THEN repos[n] # None => repos[n].teams[t] = None ELSE x[n].teams[t] = None
    \/ Ungrants(t) /\ s \in {<<The("sync", x), Gone(t)>>, <<Gone(t)>>}

GrantShape(s) == GrantsExist /\ ((\A i \in DOMAIN s : Mild(s[i])) \/ GoneShape(s))

LEMMA Kinds ==
  ASSUME NEW w \in Writing
  PROVE  \/ \E x : w \in {The("owners", x), The("users", x), The("syncAll", x), The("syncTeam", x), The("sync", x), The("unlist", x)}
         \/ \E x \in [name : Team, members : A!Members \cup {None}] : w = The("team", x)
         \/ \E x \in Some : w = The("repos", x)
         \/ \E n \in Name : w = The("delete", n)
         \/ \E x \in Purging : w = The("purge", x)
  BY DEF Writing, Neutral, Saving

LEMMA MildStep ==
  ASSUME DocTypes, NEW w \in Writing, Mild(w), A!Apply(w), GrantsExist
  PROVE  /\ GrantsExist'
         /\ \A t \in Team : teams[t] # None => teams'[t] # None
         /\ \A t \in Team : Ungrants(t) /\ (\A x \in Some : w # The("repos", x)) => Ungrants(t)'
<1>1. CASE \E x : w \in {The("owners", x), The("users", x), The("syncAll", x), The("syncTeam", x), The("sync", x), The("unlist", x)}
  <2>1. UNCHANGED <<teams, repos>>
    BY <1>1, Writes
  <2>. QED
    BY <2>1 DEF GrantsExist, Existing, Ungrants
<1>2. CASE \E x \in [name : Team, members : A!Members \cup {None}] : w = The("team", x)
  <2>1. PICK x \in [name : Team, members : A!Members \cup {None}] : w = The("team", x)
    BY <1>2
  <2>2. teams' = [teams EXCEPT ![x.name] = x.members] /\ UNCHANGED repos
    BY <2>1, Writes
  <2>3. \A t \in Team : teams[t] # None => teams'[t] # None
    BY <2>1, <2>2 DEF Mild, DocTypes
  <2>. QED
    BY <2>2, <2>3 DEF GrantsExist, Existing, Ungrants
<1>3. CASE \E x \in Some : w = The("repos", x)
  <2>1. PICK x \in Some : w = The("repos", x)
    BY <1>3
  <2>2. repos' = [n \in Name |-> IF x[n] = None THEN repos[n] ELSE x[n]] /\ UNCHANGED teams
    BY <2>1, Writes
  <2>3. AllExisting(x)
    BY <2>1 DEF Mild
  <2>. QED
    BY <1>3, <2>2, <2>3 DEF GrantsExist, Existing, AllExisting
<1>4. CASE \E n \in Name : w = The("delete", n)
  <2>1. PICK n \in Name : repos' = [repos EXCEPT ![n] = None] /\ UNCHANGED teams
    BY <1>4, Writes
  <2>2. \A m \in Name : repos'[m] # None => repos'[m] = repos[m]
    BY <2>1 DEF DocTypes, Some
  <2>. QED
    BY <2>1, <2>2 DEF GrantsExist, Existing, Ungrants
<1>5. CASE \E x \in Purging : w = The("purge", x)
  <2>1. PICK x \in Purging : w = The("purge", x)
    BY <1>5
  <2>2. A!Purge(x.user, x.keys) /\ x.user \in User /\ x.keys \in SUBSET KeysOf(x.user)
    BY <2>1, Writes DEF Purging
  <2>3. \A t \in Team : teams[t] # None => teams'[t] # None
    BY <2>2, Purged
  <2>4. \A m \in Name : repos'[m] # None => repos[m] # None /\ repos'[m].teams = repos[m].teams
    BY <2>2, Purged, ForgottenKeys
  <2>. QED
    BY <2>3, <2>4 DEF GrantsExist, Existing, Ungrants
<1>. QED
  BY <1>1, <1>2, <1>3, <1>4, <1>5, Kinds

LEMMA MildKinds ==
  /\ \A kind \in {"owners", "users", "delete", "sync", "syncAll", "syncTeam", "unlist", "purge"} : \A x : Mild(The(kind, x))
  /\ \A x : (x.members # None => Mild(The("team", x))) /\ (AllExisting(x) => Mild(The("repos", x)))
<1>1. \A a, b, x, y : The(a, x) = The(b, y) => a = b /\ x = y
  <2> SUFFICES ASSUME NEW a, NEW b, NEW x, NEW y, The(a, x) = The(b, y) PROVE a = b /\ x = y
    OBVIOUS
  <2>1. DOMAIN The(a, x) = {a} /\ DOMAIN The(b, y) = {b} /\ The(a, x)[a] = x /\ The(b, y)[b] = y
    BY DEF The
  <2>. QED
    BY <2>1
<1>. QED
  BY <1>1 DEF Mild

LEMMA GrantStep ==
  ASSUME DocTypes, NEW s \in Seq(Writing), s # << >>, GrantShape(s), A!Apply(Head(s))
  PROVE  (GrantShape(Tail(s)))'
<1>1. CASE \A i \in DOMAIN s : Mild(s[i])
  <2>1. Head(s) \in Writing /\ Mild(Head(s))
    BY <1>1
  <2>2. GrantsExist' /\ \A t \in Team : teams[t] # None => teams'[t] # None
    BY <2>1, MildStep DEF GrantShape
  <2>3. ASSUME NEW w, Mild(w) PROVE Mild(w)'
    BY <2>2, <2>3 DEF Mild, AllExisting, Existing
  <2>4. \A i \in DOMAIN Tail(s) : i + 1 \in DOMAIN s /\ Tail(s)[i] = s[i + 1]
    OBVIOUS
  <2>5. \A i \in DOMAIN Tail(s) : Mild(Tail(s)[i])'
    BY <1>1, <2>3, <2>4
  <2>. QED
    BY <2>2, <2>5 DEF GrantShape
<1>2. CASE GoneShape(s)
  <2>1. PICK t \in Team, x \in Some :
          \/ /\ s = <<The("repos", x), The("sync", x), Gone(t)>>
             /\ AllExisting(x)
             /\ \A n \in Name : IF x[n] = None THEN repos[n] # None => repos[n].teams[t] = None ELSE x[n].teams[t] = None
          \/ Ungrants(t) /\ s \in {<<The("sync", x), Gone(t)>>, <<Gone(t)>>}
    BY <1>2 DEF GoneShape
  <2>2. CASE /\ s = <<The("repos", x), The("sync", x), Gone(t)>>
             /\ AllExisting(x)
             /\ \A n \in Name : IF x[n] = None THEN repos[n] # None => repos[n].teams[t] = None ELSE x[n].teams[t] = None
    <3>1. Head(s) = The("repos", x) /\ Tail(s) = <<The("sync", x), Gone(t)>>
      BY <2>2, Heads3
    <3>2. repos' = [n \in Name |-> IF x[n] = None THEN repos[n] ELSE x[n]] /\ UNCHANGED teams
      BY <3>1, Writes
    <3>3. Ungrants(t)'
      BY <2>2, <3>2 DEF Ungrants
    <3>4. GrantsExist'
      BY <2>2, <3>2 DEF GrantShape, GrantsExist, AllExisting, Existing
    <3>. QED
      BY <3>1, <3>3, <3>4 DEF GrantShape, GoneShape
  <2>3. CASE Ungrants(t) /\ s = <<The("sync", x), Gone(t)>>
    <3>1. Head(s) = The("sync", x) /\ Tail(s) = <<Gone(t)>>
      BY <2>3, Heads2
    <3>2. UNCHANGED <<teams, repos>>
      BY <3>1, Writes
    <3>3. Ungrants(t)' /\ GrantsExist'
      BY <2>3, <3>2 DEF Ungrants, GrantShape, GrantsExist, Existing
    <3>. QED
      BY <3>1, <3>3 DEF GrantShape, GoneShape
  <2>4. CASE Ungrants(t) /\ s = <<Gone(t)>>
    <3>1. Head(s) = Gone(t) /\ Tail(s) = << >>
      BY <2>4, Heads1
    <3>2. teams' = [teams EXCEPT ![t] = None] /\ UNCHANGED repos
      BY <3>1, Writes DEF Gone
    <3>3. GrantsExist'
      BY <2>4, <3>2 DEF Ungrants, GrantShape, GrantsExist, Existing, DocTypes
    <3>. QED
      BY <3>1, <3>3 DEF GrantShape
  <2>. QED
    BY <2>1, <2>2, <2>3, <2>4
<1>. QED
  BY <1>1, <1>2 DEF GrantShape

-----------------------------------------------------------------------------
(***************************************************************************)
(* EveryRequest: what they decide to write                                     *)
(***************************************************************************)

\* The deletion of a user: what is left of it.
DeleteShape(u, s) ==
  \E us \in OwnUsers, gone \in SUBSET KeysOf(u) :
    LET purge == The("purge", [user |-> u, keys |-> gone])
    IN (us.of[u] = None /\ s = <<The("users", us), purge>>) \/ (users.of[u] = None /\ s = <<purge>>)

Sound(kind, u, s) ==
  /\ s \in Seq(Writing) /\ s # << >> /\ Len(s) <= 4
  /\ kind \in {"save", "reindex", "delete user"} /\ u \in User
  /\ kind = "reindex" => s = <<The("syncAll", None)>>
  /\ kind = "delete user" => DeleteShape(u, s)
  /\ Listed => ListShape(s)
  /\ GrantsExist => GrantShape(s)

LEMMA NeutralWrites ==
  /\ \A x \in SUBSET KeysOf(Root) : The("owners", x) \in Neutral
  /\ \A x \in OwnUsers : The("users", x) \in Neutral
  /\ \A t \in Team, m \in A!Members \cup {None} : The("team", [name |-> t, members |-> m]) \in Neutral
  /\ The("syncAll", None) \in Neutral
  /\ \A t \in Team : The("syncTeam", t) \in Neutral
  /\ \A u \in User : \A x \in SUBSET KeysOf(u) : The("purge", [user |-> u, keys |-> x]) \in Neutral
<1>1. ASSUME NEW u \in User, NEW x \in SUBSET KeysOf(u) PROVE [user |-> u, keys |-> x] \in Purging
  BY DEF Purging, KeysOf
<1>2. ASSUME NEW t \in Team, NEW m \in A!Members \cup {None}
      PROVE  [name |-> t, members |-> m] \in [name : Team, members : A!Members \cup {None}]
  OBVIOUS
<1>. QED
  BY <1>1, <1>2 DEF Neutral

LEMMA SavingWrites ==
  /\ \A x \in Some : The("repos", x) \in Saving /\ The("sync", x) \in Saving
  /\ \A n \in Name, d \in A!Repository : The("unlist", [name |-> n, doc |-> d]) \in Saving
  /\ \A n \in Name : The("delete", n) \in Saving
<1>1. ASSUME NEW n \in Name, NEW d \in A!Repository PROVE [name |-> n, doc |-> d] \in [name : Name, doc : A!Repository]
  OBVIOUS
<1>. QED
  BY <1>1 DEF Saving

LEMMA OneSound ==
  ASSUME NEW w \in Neutral, Mild(w)
  PROVE  Sound("save", Root, <<w>>)
<1> DEFINE s == <<w>>
<1>1. s \in Seq(Neutral) /\ s \in Seq(Writing) /\ s # << >> /\ Len(s) <= 4 /\ \A i \in DOMAIN s : s[i] = w
  BY DEF Writing
<1> HIDE DEF s
<1>2. \A i \in DOMAIN s : Mild(s[i])
  BY <1>1
<1>3. (Listed => ListShape(s)) /\ (GrantsExist => GrantShape(s))
  BY <1>1, <1>2, Zenon DEF ListShape, GrantShape
<1>. QED
  BY <1>1, <1>3, AccountsAssumption DEF Sound, s

LEMMA TwoSound ==
  ASSUME NEW v \in Neutral, NEW w \in Neutral, Mild(v), Mild(w)
  PROVE  Sound("save", Root, <<v, w>>)
<1> DEFINE s == <<v, w>>
<1>1. s \in Seq(Neutral) /\ s \in Seq(Writing) /\ s # << >> /\ Len(s) <= 4 /\ \A i \in DOMAIN s : s[i] = v \/ s[i] = w
  BY DEF Writing
<1> HIDE DEF s
<1>2. \A i \in DOMAIN s : Mild(s[i])
  BY <1>1
<1>3. (Listed => ListShape(s)) /\ (GrantsExist => GrantShape(s))
  BY <1>1, <1>2, Zenon DEF ListShape, GrantShape
<1>. QED
  BY <1>1, <1>3, AccountsAssumption DEF Sound, s

LEMMA SavesSound ==
  ASSUME NEW x \in Some, NEW y \in Some, GrantsExist => AllExisting(x) /\ AllExisting(y)
  PROVE  Sound("save", Root, A!SaveAll(x)) /\ Sound("save", Root, A!SaveAll(x) \o A!SaveAll(y))
<1> DEFINE a == The("repos", x) b == The("sync", x) e == The("repos", y) f == The("sync", y)
<1>1. A!SaveAll(x) = <<a, b>> /\ A!SaveAll(x) \o A!SaveAll(y) = <<a, b, e, f>>
  BY WritesSave, WritesSaves
<1>2. a \in Writing /\ b \in Writing /\ e \in Writing /\ f \in Writing
  BY SavingWrites DEF Writing
<1>3. GrantsExist => Mild(a) /\ Mild(b) /\ Mild(e) /\ Mild(f)
  BY MildKinds
<1>4. \E w : w \in Neutral
  BY DEF Neutral
<1>5. Listed => ListShape(<<a, b>>) /\ ListShape(<<a, b, e, f>>)
  BY <1>4 DEF ListShape, SaveShape
<1> HIDE DEF a, b, e, f
<1>6. <<a, b>> \in Seq(Writing) /\ <<a, b, e, f>> \in Seq(Writing)
  BY <1>2
<1>7. GrantsExist => (\A i \in DOMAIN <<a, b>> : Mild(<<a, b>>[i])) /\ (\A i \in DOMAIN <<a, b, e, f>> : Mild(<<a, b, e, f>>[i]))
  BY <1>3
<1>8. GrantsExist => GrantShape(<<a, b>>) /\ GrantShape(<<a, b, e, f>>)
  BY <1>7, Zenon DEF GrantShape
<1>9. <<a, b>> # << >> /\ Len(<<a, b>>) <= 4 /\ <<a, b, e, f>> # << >> /\ Len(<<a, b, e, f>>) <= 4
  OBVIOUS
<1>10. Sound("save", Root, <<a, b>>) /\ Sound("save", Root, <<a, b, e, f>>)
  BY <1>5, <1>6, <1>8, <1>9, AccountsAssumption DEF Sound
<1>. QED
  BY <1>1, <1>10 DEF a, b, e, f

\* A save of one repository that is granted to no more teams than it was, or to one
\* that exists.
FewGrants(n, d) == \A t \in Team : d.teams[t] # None => teams[t] # None \/ (repos[n] # None /\ repos[n].teams[t] # None)

LEMMA OnlyExisting ==
  ASSUME NEW n \in Name, NEW d \in A!Repository, FewGrants(n, d)
  PROVE  GrantsExist => AllExisting(A!Only(n, d))
<1>1. GrantsExist => Existing(d)
  BY DEF FewGrants, GrantsExist, Existing
<1>. QED
  BY <1>1, OnlyTypes DEF AllExisting, Existing

LEMMA SaveSound ==
  ASSUME NEW n \in Name, NEW d \in A!Repository, FewGrants(n, d)
  PROVE  Sound("save", Root, A!Save(n, d))
  BY OnlyExisting, OnlyTypes, SavesSound, Zenon DEF A!Save

LEMMA UsersWith ==
  ASSUME NEW us \in OwnUsers, NEW u \in User, NEW r \in Account \cup {None}, NEW role \in Appointed \cup {None},
         r # None => r.keys \subseteq KeysOf(u)
  PROVE  /\ [us EXCEPT !.of[u] = r] \in OwnUsers
         /\ [us EXCEPT !.of[u] = r, !.invites[u] = role] \in OwnUsers
         /\ [us EXCEPT !.of[u] = r, !.invites[u] = role].of[u] = r
<1> DEFINE People == [User -> {None} \cup Account]
           I == [User -> Appointed \cup {None}]
           of == [us.of EXCEPT ![u] = r]
           invites == [us.invites EXCEPT ![u] = role]
<1>1. us \in [of : People, invites : I]
  BY Records
<1>2. of \in People /\ invites \in I /\ of[u] = r
  BY <1>1
<1>3. \A v \in User : of[v] # None => of[v].keys \subseteq KeysOf(v)
  BY <1>1, Records
<1> HIDE DEF People, I, of, invites
<1>4. /\ [us EXCEPT !.of = of] \in [of : People, invites : I] /\ [us EXCEPT !.of = of].of = of
      /\ [us EXCEPT !.of = of, !.invites = invites] \in [of : People, invites : I]
      /\ [us EXCEPT !.of = of, !.invites = invites].of = of
  BY <1>1, <1>2
<1>5. [us EXCEPT !.of = of] \in OwnUsers /\ [us EXCEPT !.of = of, !.invites = invites] \in OwnUsers
  BY <1>3, <1>4, Records DEF People, I
<1>6. /\ [us EXCEPT !.of[u] = r] = [us EXCEPT !.of = of]
      /\ [us EXCEPT !.of[u] = r, !.invites[u] = role] = [us EXCEPT !.of = of, !.invites = invites]
  BY <1>1 DEF of, invites
<1>. QED
  BY <1>2, <1>4, <1>5, <1>6

LEMMA UsersWithout ==
  ASSUME NEW us \in OwnUsers, NEW u \in User
  PROVE  /\ [us EXCEPT !.of[u] = None, !.invites[u] = None] \in OwnUsers
         /\ [us EXCEPT !.of[u] = None, !.invites[u] = None].of[u] = None
<1>1. us \in [of : [User -> {None} \cup Account], invites : [User -> Appointed \cup {None}]]
  BY Records
<1>2. [us EXCEPT !.of[u] = None, !.invites[u] = None].of[u] = None
  BY <1>1
<1> DEFINE r == None
<1>3. r \in Account \cup {None} /\ r \in Appointed \cup {None} /\ (r # None => r.keys \subseteq KeysOf(u))
  OBVIOUS
<1> HIDE DEF r
<1>4. [us EXCEPT !.of[u] = r, !.invites[u] = r] \in OwnUsers
  BY <1>3, UsersWith
<1>. QED
  BY <1>2, <1>4 DEF r

Deciding(c) == \E kind, u, s : Sound(kind, u, s) /\ A!Handle(c, kind, u, s)

LEMMA Does == ASSUME NEW c, NEW s, Sound("save", Root, s), A!Do(c, s) PROVE Deciding(c)
  BY DEF Deciding, A!Do

LEMMA UsersSound ==
  ASSUME NEW us \in OwnUsers
  PROVE  Sound("save", Root, A!W("users", us)) /\ Sound("save", Root, A!W("users", us) \o A!W("syncAll", None))
<1>1. The("users", us) \in Neutral /\ The("syncAll", None) \in Neutral /\ Mild(The("users", us)) /\ Mild(The("syncAll", None))
  BY NeutralWrites, MildKinds
<1>2. /\ A!W("users", us) = <<The("users", us)>>
      /\ A!W("users", us) \o A!W("syncAll", None) = <<The("users", us), The("syncAll", None)>>
  <2>1. A!W("users", us) = <<The("users", us)>>
    BY Zenon DEF A!W, The
  <2>. QED
    BY <2>1, Writes2
<1>3. Sound("save", Root, <<The("users", us)>>) /\ Sound("save", Root, <<The("users", us), The("syncAll", None)>>)
  BY <1>1, OneSound, TwoSound
<1>. QED
  BY <1>2, <1>3

LEMMA UserRequests ==
  ASSUME AccountTypes, NEW c \in Session, A!Ready(c)
  PROVE  /\ \A k \in Key : A!UpsertOwner(c, k) => Deciding(c)
         /\ \A u \in User, role \in Appointed, keys \in SUBSET Key, suspended \in BOOLEAN :
              A!UpsertUser(c, u, role, keys, suspended) => Deciding(c)
         /\ \A u \in User, role \in Appointed : A!InviteUser(c, u, role) => Deciding(c)
         /\ \A k \in Key : A!AcceptUser(c, k) => Deciding(c)
         /\ \A u \in User : A!CancelUser(c, u) => Deciding(c)
         /\ \A k \in Key, n \in Name : A!UpdateProfile(c, n, k) => Deciding(c)
<1>1. DocTypes /\ A!Loaded \in OwnUsers /\ begun \in 0..MaxRequests /\ begun < MaxRequests
  BY LoadedTypes DEF AccountTypes, A!Ready
<1>2. \A u \in User : A!Loaded.of[u] # None => A!Loaded.of[u] \in Account /\ A!Loaded.of[u].keys \subseteq KeysOf(u)
  BY <1>1, Records
<1>3. \A u \in User, role \in Appointed, pending \in BOOLEAN :
        A!Person(u, role, pending) \in Account /\ A!Person(u, role, pending).keys \subseteq KeysOf(u)
  BY <1>1, PersonTypes
<1>4. \A u \in User : A!Loaded.invites[u] \in Appointed \cup {None}
  BY <1>1, Records
<1>5. ASSUME NEW k \in Key, A!UpsertOwner(c, k) PROVE Deciding(c)
  <2>1. owners \cup {k} \in SUBSET KeysOf(Root)
    BY <1>1, <1>5 DEF A!UpsertOwner, DocTypes, KeysOf
  <2>2. The("owners", owners \cup {k}) \in Neutral /\ Mild(The("owners", owners \cup {k}))
    BY <2>1, NeutralWrites, MildKinds
  <2>3. A!W("owners", owners \cup {k}) = <<The("owners", owners \cup {k})>>
    BY Zenon DEF A!W, The
  <2>4. Sound("save", Root, A!W("owners", owners \cup {k}))
    BY <2>2, <2>3, OneSound
  <2>. QED
    BY <1>5, <2>4, Does DEF A!UpsertOwner
<1>6. ASSUME NEW u \in User, NEW role \in Appointed, NEW keys \in SUBSET Key, NEW suspended \in BOOLEAN,
             A!UpsertUser(c, u, role, keys, suspended)
      PROVE  Deciding(c)
  <2> DEFINE p == A!Person(u, role, FALSE)
             r == [p EXCEPT !.role = role, !.suspended = suspended, !.keys = @ \cup keys]
             us == [A!Loaded EXCEPT !.of[u] = r]
  <2>1. p \in Account /\ p.keys \subseteq KeysOf(u) /\ keys \subseteq KeysOf(u)
    BY <1>3, <1>6 DEF A!UpsertUser, KeysOf
  <2>2. A!Do(c, A!W("users", us))
    BY <1>6 DEF A!UpsertUser
  <2> HIDE DEF p
  <2>3. r \in Account /\ r.keys \subseteq KeysOf(u)
    BY <2>1 DEF Account
  <2> HIDE DEF r
  <2>4. us \in OwnUsers
    BY <1>1, <2>3, UsersWith
  <2> HIDE DEF us
  <2>. QED
    BY <2>2, <2>4, UsersSound, Does
<1>7. ASSUME NEW u \in User, NEW role \in Appointed, A!InviteUser(c, u, role) PROVE Deciding(c)
  <2> DEFINE p == A!Person(u, role, TRUE)
             r == [p EXCEPT !.role = role, !.pending = @ \/ p.keys = {}]
             us == [A!Loaded EXCEPT !.of[u] = r, !.invites[u] = role]
  <2>1. p \in Account /\ p.keys \subseteq KeysOf(u)
    BY <1>3
  <2>2. A!Do(c, A!W("users", us))
    BY <1>7 DEF A!InviteUser
  <2> HIDE DEF p
  <2>3. r \in Account /\ r.keys \subseteq KeysOf(u)
    <3>1. p.pending \in BOOLEAN /\ (p.pending \/ p.keys = {}) \in BOOLEAN
      BY <2>1 DEF Account
    <3>. QED
      BY <2>1, <3>1 DEF Account
  <2> HIDE DEF r
  <2>4. us \in OwnUsers
    BY <1>1, <2>3, UsersWith
  <2> HIDE DEF us
  <2>. QED
    BY <2>2, <2>4, UsersSound, Does
<1>8. ASSUME NEW k \in Key, A!AcceptUser(c, k) PROVE Deciding(c)
  <2> DEFINE u == KeyOf[k]
             p == A!Person(u, "user", FALSE)
             role == A!Loaded.invites[u]
             r == [p EXCEPT !.role = role, !.pending = FALSE, !.keys = @ \cup {k}]
             us == [A!Loaded EXCEPT !.of[u] = r, !.invites[u] = None]
  <2>1. u \in User /\ p \in Account /\ p.keys \subseteq KeysOf(u) /\ k \in KeysOf(u) /\ role \in Appointed
    BY <1>3, <1>4, <1>8, AccountsAssumption DEF A!AcceptUser, KeysOf
  <2>2. A!Do(c, A!W("users", us) \o A!W("syncAll", None))
    BY <1>8 DEF A!AcceptUser
  <2> HIDE DEF p, role, u
  <2>3. r \in Account /\ r.keys \subseteq KeysOf(u)
    BY <2>1 DEF Account
  <2> HIDE DEF r
  <2>4. us \in OwnUsers
    BY <1>1, <2>1, <2>3, UsersWith
  <2> HIDE DEF us
  <2>. QED
    BY <2>2, <2>4, UsersSound, Does
<1>9. ASSUME NEW u \in User, A!CancelUser(c, u) PROVE Deciding(c)
  <2> DEFINE stays == A!Known(u) /\ (A!Loaded.of[u].keys # {} \/ ~A!Loaded.of[u].pending)
             r == IF stays THEN A!Loaded.of[u] ELSE None
             us == [A!Loaded EXCEPT !.of[u] = r, !.invites[u] = None]
  <2>1. r \in Account \cup {None} /\ (r # None => r.keys \subseteq KeysOf(u))
    BY <1>2 DEF A!Known
  <2>2. us = [A!Loaded EXCEPT !.of[u] = IF stays THEN @ ELSE None, !.invites[u] = None]
    BY Zenon
  <2>3. A!Do(c, A!W("users", us) \o A!W("syncAll", None))
    BY <1>9, <2>2 DEF A!CancelUser
  <2> HIDE DEF stays, r
  <2>4. us \in OwnUsers
    BY <1>1, <2>1, UsersWith
  <2> HIDE DEF us
  <2>. QED
    BY <2>3, <2>4, UsersSound, Does
<1>10. ASSUME NEW k \in Key, NEW n \in Name, A!UpdateProfile(c, n, k) PROVE Deciding(c)
  <2> DEFINE u == KeyOf[k]
             p == A!Person(u, "user", FALSE)
             r == [p EXCEPT !.keys = @ \cup {k}]
             us == [A!Loaded EXCEPT !.of[u] = r]
  <2>1. u \in User /\ p \in Account /\ p.keys \subseteq KeysOf(u) /\ k \in KeysOf(u)
    BY <1>3, AccountsAssumption DEF KeysOf
  <2>2. A!Do(c, A!W("users", us))
    BY <1>10 DEF A!UpdateProfile
  <2> HIDE DEF p, u
  <2>3. r \in Account /\ r.keys \subseteq KeysOf(u)
    BY <2>1 DEF Account
  <2> HIDE DEF r
  <2>4. us \in OwnUsers
    BY <1>1, <2>1, <2>3, UsersWith
  <2> HIDE DEF us
  <2>. QED
    BY <2>2, <2>4, UsersSound, Does
<1>. QED
  BY <1>5, <1>6, <1>7, <1>8, <1>9, <1>10, Zenon

LEMMA DeleteUserSound ==
  ASSUME AccountTypes, NEW c \in Session, NEW u \in User, A!DeleteUser(c, u)
  PROVE  Deciding(c)
<1> DEFINE us == [A!Loaded EXCEPT !.of[u] = None, !.invites[u] = None]
           gone == A!Loaded.of[u].keys
           a == The("users", us)
           b == The("purge", [user |-> u, keys |-> gone])
           s == <<a, b>>
<1>1. DocTypes /\ A!Loaded \in OwnUsers
  BY LoadedTypes DEF AccountTypes
<1>2. us \in OwnUsers /\ us.of[u] = None
  BY <1>1, UsersWithout
<1>3. gone \in SUBSET KeysOf(u)
  BY <1>1, Records DEF A!DeleteUser, A!Known
<1>4. A!Handle(c, "delete user", u, A!W("users", us) \o A!W("purge", [user |-> u, keys |-> gone]))
  BY DEF A!DeleteUser
<1> HIDE DEF us, gone
<1>5. A!W("users", us) \o A!W("purge", [user |-> u, keys |-> gone]) = s
  BY Writes2
<1>6. a \in Neutral /\ b \in Neutral /\ Mild(a) /\ Mild(b)
  BY <1>2, <1>3, NeutralWrites, MildKinds
<1>7. DeleteShape(u, s)
  BY <1>2, <1>3 DEF DeleteShape
<1>8. Sound("save", Root, s)
  BY <1>6, TwoSound
<1> HIDE DEF a, b, s
<1>9. Sound("delete user", u, s)
  BY <1>7, <1>8 DEF Sound
<1>. QED
  BY <1>4, <1>5, <1>9 DEF Deciding

LEMMA ReindexSound == ASSUME NEW c, A!Reindex(c) PROVE Deciding(c)
<1>1. A!W("syncAll", None) = <<The("syncAll", None)>>
  BY Zenon DEF A!W, The
<1>2. Sound("save", Root, <<The("syncAll", None)>>)
  BY NeutralWrites, MildKinds, OneSound
<1>3. Sound("reindex", Root, A!W("syncAll", None))
  BY <1>1, <1>2 DEF Sound
<1>. QED
  BY <1>3 DEF A!Reindex, Deciding

LEMMA TeamRequests ==
  ASSUME AccountTypes, NEW c \in Session, NEW t \in Team
  PROVE  /\ A!CreateTeam(c, t) => Deciding(c)
         /\ A!DeleteTeam(c, t) => Deciding(c)
         /\ \A u \in User, role \in Granted \cup {None} : A!SetMember(c, t, u, role) => Deciding(c)
<1>1. DocTypes /\ A!Loaded \in OwnUsers
  BY LoadedTypes DEF AccountTypes
<1>2. ASSUME A!CreateTeam(c, t) PROVE Deciding(c)
  <2> DEFINE w == The("team", [name |-> t, members |-> A!NewTeam])
  <2>1. w \in Neutral /\ Mild(w)
    BY AccountDefaults, NeutralWrites, MildKinds
  <2>2. A!SaveTeam(t, A!NewTeam) = <<w>>
    BY Zenon DEF A!SaveTeam, A!W, The
  <2> HIDE DEF w
  <2>3. Sound("save", Root, A!SaveTeam(t, A!NewTeam))
    BY <2>1, <2>2, OneSound
  <2>. QED
    BY <1>2, <2>3, Does DEF A!CreateTeam
<1>3. ASSUME NEW u \in User, NEW role \in Granted \cup {None}, A!SetMember(c, t, u, role) PROVE Deciding(c)
  <2> DEFINE m == IF role = None THEN None ELSE [id |-> A!Loaded.of[u].id, role |-> role]
             members == [teams[t] EXCEPT ![u] = m]
             v == The("team", [name |-> t, members |-> members])
             w == The("syncTeam", t)
  <2>1. m \in {None} \cup [id : 0..MaxRequests, role : Granted]
    <3>1. role # None => A!Loaded.of[u] \in Account
      BY <1>1, <1>3, Records DEF A!SetMember, A!Known
    <3>. QED
      BY <3>1 DEF Account
  <2>2. teams[t] \in A!Members
    BY <1>1, <1>3 DEF A!SetMember, DocTypes
  <2> HIDE DEF m
  <2>3. members \in A!Members /\ members # None
    <3>1. members \in A!Members
      BY <2>1, <2>2 DEF A!Members
    <3>. QED
      BY <3>1, AccountsAssumption
  <2>4. A!Do(c, A!SaveTeam(t, members) \o A!W("syncTeam", t))
    BY <1>3 DEF A!SetMember, m
  <2> HIDE DEF members
  <2>5. v \in Neutral /\ w \in Neutral /\ Mild(v) /\ Mild(w)
    BY <2>3, NeutralWrites, MildKinds
  <2>6. A!SaveTeam(t, members) \o A!W("syncTeam", t) = <<v, w>>
    BY Writes2, Zenon DEF A!SaveTeam
  <2> HIDE DEF v, w
  <2>7. Sound("save", Root, <<v, w>>)
    BY <2>5, TwoSound
  <2>. QED
    BY <2>4, <2>6, <2>7, Does
<1>4. ASSUME A!DeleteTeam(c, t) PROVE Deciding(c)
  <2> DEFINE x == [n \in Name |-> IF A!Granting(t)[n] = None THEN None ELSE A!Ungranted(t, repos[n])]
             s == <<The("repos", x), The("sync", x), Gone(t)>>
  <2>1. ASSUME NEW n \in Name
        PROVE  /\ x[n] = None => (repos[n] # None => repos[n].teams[t] = None)
               /\ x[n] # None => /\ x[n] \in A!Repository /\ x[n].teams[t] = None
                                 /\ FewGrants(n, x[n])
               /\ x[n] \in A!Repository \cup {None}
    <3>1. A!Granting(t)[n] = IF repos[n] # None /\ repos[n].teams[t] # None THEN repos[n] ELSE None
      BY DEF A!Granting
    <3>2. repos[n] # None => repos[n] \in A!Repository
      BY <1>1, Records DEF DocTypes
    <3>3. ASSUME NEW d \in A!Repository
          PROVE  /\ A!Ungranted(t, d) \in A!Repository /\ A!Ungranted(t, d) # None
                 /\ A!Ungranted(t, d).teams = [d.teams EXCEPT ![t] = None]
                 /\ d.teams \in [Team -> Granted \cup {None}]
      <4>1. A!Ungranted(t, d) \in A!Repository /\ A!Ungranted(t, d).teams = [d.teams EXCEPT ![t] = None]
            /\ d.teams \in [Team -> Granted \cup {None}]
        BY DEF A!Ungranted, A!Repository
      <4>. QED
        BY <4>1, AccountsAssumption
    <3>4. x[n] = IF A!Granting(t)[n] = None THEN None ELSE A!Ungranted(t, repos[n])
      OBVIOUS
    <3> HIDE DEF x
    <3>5. CASE repos[n] # None /\ repos[n].teams[t] # None
      <4>1. x[n] = A!Ungranted(t, repos[n]) /\ repos[n] \in A!Repository
        BY <3>1, <3>2, <3>4, <3>5
      <4>2. x[n] \in A!Repository /\ x[n] # None /\ x[n].teams = [repos[n].teams EXCEPT ![t] = None]
            /\ repos[n].teams \in [Team -> Granted \cup {None}]
        BY <3>3, <4>1
      <4>. QED
        BY <3>5, <4>2 DEF FewGrants
    <3>6. CASE ~(repos[n] # None /\ repos[n].teams[t] # None)
      BY <3>1, <3>4, <3>6
    <3>. QED
      BY <3>5, <3>6
  <2>2. x \in Some
    <3>1. \A n \in Name : x[n] \in A!Repository \cup {None}
      BY <2>1
    <3>. QED
      BY <3>1 DEF Some
  <2>3. A!Do(c, A!SaveAll(x) \o A!SaveTeam(t, None))
    BY <1>4 DEF A!DeleteTeam
  <2> HIDE DEF x
  <2>4. A!SaveAll(x) \o A!SaveTeam(t, None) = s
    BY WritesSaveThen, Zenon DEF A!SaveTeam, Gone
  <2>5. Gone(t) \in Neutral /\ The("repos", x) \in Writing /\ The("sync", x) \in Writing /\ Gone(t) \in Writing
    BY <2>2, NeutralWrites, SavingWrites DEF Gone, Writing
  <2>6. Listed => ListShape(s)
    BY <2>2, <2>5 DEF ListShape, SaveShape
  <2>7. GrantsExist => AllExisting(x)
    BY <2>1 DEF GrantsExist, AllExisting, Existing, FewGrants
  <2>8. GrantsExist => GrantShape(s)
    BY <2>1, <2>2, <2>7 DEF GrantShape, GoneShape
  <2>9. s \in Seq(Writing) /\ s # << >> /\ Len(s) <= 4
    BY <2>5
  <2> HIDE DEF s
  <2>10. Sound("save", Root, s)
    BY <2>6, <2>8, <2>9, AccountsAssumption DEF Sound
  <2>. QED
    BY <2>3, <2>4, <2>10, Does
<1>. QED
  BY <1>2, <1>3, <1>4

LEMMA RepositoryWith ==
  ASSUME NEW d \in A!Repository
  PROVE  /\ \A t \in Team, role \in Granted \cup {None} :
              /\ [d EXCEPT !.teams[t] = role] \in A!Repository
              /\ \A x \in Team : [d EXCEPT !.teams[t] = role].teams[x] = IF x = t THEN role ELSE d.teams[x]
         /\ \A u \in User, role \in Granted \cup {None} :
              /\ [d EXCEPT !.grants[u] = role] \in A!Repository /\ [d EXCEPT !.grants[u] = role].teams = d.teams
              /\ [d EXCEPT !.invites[u] = role] \in A!Repository /\ [d EXCEPT !.invites[u] = role].teams = d.teams
         /\ \A k \in Key \cup {None} : [d EXCEPT !.transfer = k] \in A!Repository /\ [d EXCEPT !.transfer = k].teams = d.teams
<1> DEFINE K == [Key -> {None} \cup [role : Granted \cup {"admin", "owner"}, suspended : BOOLEAN, transferred : BOOLEAN]]
           T == [Team -> Granted \cup {None}]
           G == [User -> Granted \cup {None}]
           Keyed == [keys : K, teams : T, grants : G, invites : G, transfer : Key \cup {None}]
<1>1. Keyed = A!Repository
  BY Zenon DEF A!Repository
<1>2. \A t \in Team, role \in Granted \cup {None}, f \in T :
        [f EXCEPT ![t] = role] \in T /\ \A x \in Team : [f EXCEPT ![t] = role][x] = IF x = t THEN role ELSE f[x]
  OBVIOUS
<1>3. \A u \in User, role \in Granted \cup {None}, f \in G : [f EXCEPT ![u] = role] \in G
  OBVIOUS
<1> HIDE DEF K, T, G
<1>4. d \in Keyed
  BY <1>1
<1>. QED
  BY <1>1, <1>2, <1>3, <1>4

LEMMA WithKeys ==
  ASSUME NEW d \in A!Repository, NEW k \in Key,
         NEW key \in {None} \cup [role : Granted \cup {"admin", "owner"}, suspended : BOOLEAN, transferred : BOOLEAN]
  PROVE  /\ [d EXCEPT !.keys[k] = key] \in A!Repository
         /\ [d EXCEPT !.keys[k] = key].teams = d.teams
<1> DEFINE K == [Key -> {None} \cup [role : Granted \cup {"admin", "owner"}, suspended : BOOLEAN, transferred : BOOLEAN]]
           T == [Team -> Granted \cup {None}]
           G == [User -> Granted \cup {None}]
           Keyed == [keys : K, teams : T, grants : G, invites : G, transfer : Key \cup {None}]
<1>1. Keyed = A!Repository
  BY Zenon DEF A!Repository
<1>2. \A f \in K : [f EXCEPT ![k] = key] \in K
  OBVIOUS
<1> HIDE DEF K, T, G
<1>3. d \in Keyed
  BY <1>1
<1>. QED
  BY <1>1, <1>2, <1>3

LEMMA KeyRecords ==
  ASSUME NEW d \in A!Repository, NEW k \in Key
  PROVE  /\ d.keys[k] \in {None} \cup [role : Granted \cup {"admin", "owner"}, suspended : BOOLEAN, transferred : BOOLEAN]
         /\ d.invites \in [User -> Granted \cup {None}] /\ d.transfer \in Key \cup {None}
         /\ \A role \in Granted \cup {"admin", "owner"}, b \in BOOLEAN :
              A!NewKey(role, b) \in [role : Granted \cup {"admin", "owner"}, suspended : BOOLEAN, transferred : BOOLEAN]
         /\ \A role \in Granted : A!WithKey(d, k, role) \in A!Repository /\ A!WithKey(d, k, role).teams = d.teams
<1>1. d.keys[k] \in {None} \cup [role : Granted \cup {"admin", "owner"}, suspended : BOOLEAN, transferred : BOOLEAN]
      /\ d.invites \in [User -> Granted \cup {None}] /\ d.transfer \in Key \cup {None}
  BY DEF A!Repository
<1>2. ASSUME NEW role \in Granted \cup {"admin", "owner"}, NEW b \in BOOLEAN
      PROVE  A!NewKey(role, b) \in [role : Granted \cup {"admin", "owner"}, suspended : BOOLEAN, transferred : BOOLEAN]
  BY DEF A!NewKey
<1>3. ASSUME NEW role \in Granted PROVE A!WithKey(d, k, role) \in A!Repository /\ A!WithKey(d, k, role).teams = d.teams
  <2>1. A!NewKey(role, FALSE) \in [role : Granted \cup {"admin", "owner"}, suspended : BOOLEAN, transferred : BOOLEAN]
    BY <1>2
  <2>. QED
    BY <2>1, WithKeys DEF A!WithKey
<1>. QED
  BY <1>1, <1>2, <1>3

\* A copy that a handler has made of a repository, and saves.
LEMMA CopySound ==
  ASSUME DocTypes, NEW n \in Name, NEW d \in A!Repository, NEW c,
         d.teams = A!Ensured(n).teams \/ (repos[n] # None /\ d.teams = repos[n].teams),
         A!Do(c, A!Save(n, d))
  PROVE  Deciding(c)
<1>1. FewGrants(n, d)
  BY EnsuredTypes DEF FewGrants
<1>. QED
  BY <1>1, SaveSound, Does

LEMMA RepositoryRequests ==
  ASSUME AccountTypes, NEW c \in Session, NEW n \in Name
  PROVE  /\ A!UpdateRepository(c, n) => Deciding(c)
         /\ \A t \in Team, role \in Granted \cup {None} : A!SetTeam(c, n, t, role) => Deciding(c)
         /\ \A t \in Team, k \in Key, role \in Granted : A!UpsertRepository(c, n, t, k, role) => Deciding(c)
         /\ \A u \in User, role \in Granted \cup {None} : A!SetGrant(c, n, u, role) \/ A!SetInvite(c, n, u, role) => Deciding(c)
         /\ \A to \in Key \cup {None} : A!SetTransfer(c, n, to) => Deciding(c)
<1>1. DocTypes
  BY DEF AccountTypes
<1>2. A!Ensured(n) \in A!Repository /\ (repos[n] # None => repos[n] \in A!Repository)
  BY <1>1, EnsuredTypes
<1>3. A!UpdateRepository(c, n) => Deciding(c)
  BY <1>1, <1>2, CopySound DEF A!UpdateRepository
<1>4. ASSUME NEW t \in Team, NEW role \in Granted \cup {None}, A!SetTeam(c, n, t, role) PROVE Deciding(c)
  <2> DEFINE d == [repos[n] EXCEPT !.teams[t] = role]
  <2>1. d \in A!Repository /\ \A x \in Team : d.teams[x] = IF x = t THEN role ELSE repos[n].teams[x]
    BY <1>2, <1>4, RepositoryWith DEF A!SetTeam
  <2>2. A!Do(c, A!Save(n, d)) /\ repos[n] # None /\ (role # None => teams[t] # None)
    BY <1>4 DEF A!SetTeam
  <2> HIDE DEF d
  <2>3. FewGrants(n, d)
    BY <2>1, <2>2 DEF FewGrants
  <2>. QED
    BY <2>1, <2>2, <2>3, SaveSound, Does
<1>5. ASSUME NEW t \in Team, NEW k \in Key, NEW role \in Granted, A!UpsertRepository(c, n, t, k, role) PROVE Deciding(c)
  <2> DEFINE d == IF repos[n].teams[t] = None THEN [repos[n] EXCEPT !.teams[t] = role] ELSE repos[n]
             e == A!WithKey(d, k, role)
  <2>1. repos[n] # None /\ teams[t] # None /\ A!Do(c, A!Save(n, e))
    BY <1>5 DEF A!UpsertRepository
  <2>2. d \in A!Repository /\ FewGrants(n, d)
    BY <1>2, <2>1, RepositoryWith DEF FewGrants
  <2> HIDE DEF d
  <2>3. e \in A!Repository /\ e.teams = d.teams
    BY <2>2, KeyRecords
  <2> HIDE DEF e
  <2>4. FewGrants(n, e)
    BY <2>2, <2>3 DEF FewGrants
  <2>. QED
    BY <2>1, <2>3, <2>4, SaveSound, Does
<1>6. ASSUME NEW u \in User, NEW role \in Granted \cup {None}, A!SetGrant(c, n, u, role) PROVE Deciding(c)
  <2>1. repos[n] \in A!Repository /\ A!Do(c, A!Save(n, [repos[n] EXCEPT !.grants[u] = role]))
    BY <1>2, <1>6 DEF A!SetGrant
  <2>. QED
    BY <1>1, <1>6, <2>1, RepositoryWith, CopySound DEF A!SetGrant
<1>7. ASSUME NEW u \in User, NEW role \in Granted \cup {None}, A!SetInvite(c, n, u, role) PROVE Deciding(c)
  <2>1. repos[n] \in A!Repository /\ A!Do(c, A!Save(n, [repos[n] EXCEPT !.invites[u] = role]))
    BY <1>2, <1>7 DEF A!SetInvite
  <2>. QED
    BY <1>1, <1>7, <2>1, RepositoryWith, CopySound DEF A!SetInvite
<1>8. ASSUME NEW to \in Key \cup {None}, A!SetTransfer(c, n, to) PROVE Deciding(c)
  <2>1. repos[n] \in A!Repository /\ A!Do(c, A!Save(n, [repos[n] EXCEPT !.transfer = to]))
    BY <1>2, <1>8 DEF A!SetTransfer
  <2>. QED
    BY <1>1, <1>8, <2>1, RepositoryWith, CopySound DEF A!SetTransfer
<1>. QED
  BY <1>3, <1>4, <1>5, <1>6, <1>7, <1>8

LEMMA KeyRequests ==
  ASSUME AccountTypes, NEW c \in Session, NEW n \in Name, NEW k \in Key
  PROVE  /\ \A role \in Granted : A!AddKey(c, n, k, role) => Deciding(c)
         /\ \A to \in {"removed", "suspended", "unsuspended"} : A!SetKey(c, n, k, to) => Deciding(c)
         /\ A!AcceptInvite(c, n, k) => Deciding(c)
         /\ A!AcceptTransfer(c, n, k) => Deciding(c)
<1> DEFINE d == A!Ensured(n)
           KeyRecord == [role : Granted \cup {"admin", "owner"}, suspended : BOOLEAN, transferred : BOOLEAN]
<1>1. DocTypes
  BY DEF AccountTypes
<1>2. d \in A!Repository
  BY <1>1, EnsuredTypes
<1>3. \A x \in Key : d.keys[x] \in {None} \cup KeyRecord
  BY <1>2, KeyRecords
<1>4. ASSUME NEW role \in Granted, A!AddKey(c, n, k, role) PROVE Deciding(c)
  BY <1>1, <1>2, <1>4, KeyRecords, CopySound DEF A!AddKey
<1>5. ASSUME NEW to \in {"removed", "suspended", "unsuspended"}, A!SetKey(c, n, k, to) PROVE Deciding(c)
  <2> DEFINE key == IF to = "removed" THEN None ELSE [d.keys[k] EXCEPT !.suspended = (to = "suspended")]
  <2>1. key \in {None} \cup KeyRecord
    <3>1. d.keys[k] \in KeyRecord /\ (to = "suspended") \in BOOLEAN
      BY <1>3, <1>5 DEF A!SetKey
    <3> DEFINE b == to = "suspended"
    <3> HIDE DEF b
    <3>2. \A r \in KeyRecord, x \in BOOLEAN : [r EXCEPT !.suspended = x] \in KeyRecord
      OBVIOUS
    <3>. QED
      BY <3>1, <3>2, Zenon
  <2>2. A!Do(c, A!Save(n, [d EXCEPT !.keys[k] = key]))
    BY <1>5 DEF A!SetKey
  <2> HIDE DEF key, d
  <2>3. [d EXCEPT !.keys[k] = key] \in A!Repository /\ [d EXCEPT !.keys[k] = key].teams = d.teams
    BY <1>2, <2>1, WithKeys
  <2>. QED
    BY <1>1, <2>2, <2>3, CopySound DEF d
<1>6. ASSUME A!AcceptInvite(c, n, k) PROVE Deciding(c)
  <2> DEFINE u == KeyOf[k]
             role == d.invites[u]
             key == IF d.keys[k] = None THEN A!NewKey(role, FALSE) ELSE [d.keys[k] EXCEPT !.role = role, !.suspended = FALSE]
             e == [d EXCEPT !.invites[u] = None]
  <2>1. u \in User /\ role \in Granted
    BY <1>2, <1>6, KeyRecords, AccountsAssumption DEF A!AcceptInvite
  <2>2. key \in {None} \cup KeyRecord
    <3>1. \A r \in KeyRecord, x \in Granted : [r EXCEPT !.role = x, !.suspended = FALSE] \in KeyRecord
      OBVIOUS
    <3>2. A!NewKey(role, FALSE) \in KeyRecord
      BY <1>2, <2>1, KeyRecords
    <3> HIDE DEF d, u, role, KeyRecord
    <3>. QED
      BY <1>3, <2>1, <3>1, <3>2
  <2>3. e \in A!Repository /\ e.teams = d.teams
    BY <1>2, <2>1, RepositoryWith
  <2>4. A!Do(c, A!Save(n, [d EXCEPT !.invites[u] = None, !.keys[k] = key]))
    BY <1>6 DEF A!AcceptInvite
  <2>5. [d EXCEPT !.invites[u] = None, !.keys[k] = key] = [e EXCEPT !.keys[k] = key]
    BY <1>2, Zenon
  <2> HIDE DEF key, e, d, u
  <2>6. [e EXCEPT !.keys[k] = key] \in A!Repository /\ [e EXCEPT !.keys[k] = key].teams = d.teams
    BY <2>2, <2>3, WithKeys
  <2>. QED
    BY <1>1, <2>4, <2>5, <2>6, CopySound DEF d
<1>7. ASSUME A!AcceptTransfer(c, n, k) PROVE Deciding(c)
  <2> DEFINE demoted == [x \in Key |-> IF x = d.transfer /\ d.keys[x] # None /\ d.keys[x].role = "owner"
                                       THEN [d.keys[x] EXCEPT !.role = "admin"] ELSE d.keys[x]]
             new == IF demoted[k] = None THEN A!NewKey("owner", TRUE)
                    ELSE [demoted[k] EXCEPT !.role = "owner", !.suspended = FALSE]
             keys == [demoted EXCEPT ![k] = new]
             e == [d EXCEPT !.transfer = None, !.keys = keys]
  <2>1. demoted \in [Key -> {None} \cup KeyRecord]
    BY <1>3
  <2>2. A!Do(c, A!Save(n, e))
    BY <1>7 DEF A!AcceptTransfer
  <2>3. new \in KeyRecord
    <3>1. \A r \in KeyRecord : [r EXCEPT !.role = "owner", !.suspended = FALSE] \in KeyRecord
      OBVIOUS
    <3>2. A!NewKey("owner", TRUE) \in KeyRecord
      BY DEF A!NewKey
    <3>3. demoted[k] \in {None} \cup KeyRecord
      BY <2>1
    <3> HIDE DEF demoted, KeyRecord
    <3>. QED
      BY <3>1, <3>2, <3>3
  <2> HIDE DEF new, demoted
  <2>4. keys \in [Key -> {None} \cup KeyRecord]
    BY <2>1, <2>3
  <2> HIDE DEF keys
  <2>5. e \in A!Repository /\ e.teams = d.teams
    <3> DEFINE K == [Key -> {None} \cup KeyRecord]
               T == [Team -> Granted \cup {None}]
               G == [User -> Granted \cup {None}]
               Keyed == [keys : K, teams : T, grants : G, invites : G, transfer : Key \cup {None}]
    <3>1. Keyed = A!Repository
      BY Zenon DEF A!Repository
    <3>2. keys \in K
      BY <2>4
    <3> HIDE DEF K, T, G, d
    <3>. QED
      BY <1>2, <3>1, <3>2
  <2> HIDE DEF e
  <2>. QED
    BY <1>1, <2>2, <2>5, CopySound
<1>. QED
  BY <1>4, <1>5, <1>6, <1>7

LEMMA NameRequests ==
  ASSUME AccountTypes, NEW c \in Session, NEW n \in Name
  PROVE  /\ \A t \in Team, k \in Key, role \in Granted : A!CreateRepository(c, n, t, k, role) => Deciding(c)
         /\ \A m \in Name : A!Rename(c, n, m) => Deciding(c)
         /\ A!DeleteRepository(c, n) => Deciding(c)
<1>1. DocTypes
  BY DEF AccountTypes
<1>2. A!Ensured(n) \in A!Repository
  BY <1>1, EnsuredTypes
<1>3. ASSUME NEW t \in Team, NEW k \in Key, NEW role \in Granted, A!CreateRepository(c, n, t, k, role) PROVE Deciding(c)
  <2> DEFINE d == [A!NewRepository EXCEPT !.teams[t] = role]
             e == A!WithKey(d, k, role)
  <2>1. teams[t] # None /\ A!Do(c, A!Save(n, d) \o A!Save(n, e))
    BY <1>3 DEF A!CreateRepository
  <2>2. d \in A!Repository /\ FewGrants(n, d)
    <3>1. \A x \in Team : A!NewRepository.teams[x] = None
      BY DEF A!NewRepository
    <3>. QED
      BY <2>1, <3>1, AccountDefaults, RepositoryWith DEF FewGrants
  <2> HIDE DEF d
  <2>3. e \in A!Repository /\ e.teams = d.teams
    BY <2>2, KeyRecords
  <2> HIDE DEF e
  <2>4. FewGrants(n, e)
    BY <2>2, <2>3 DEF FewGrants
  <2>5. /\ A!Only(n, d) \in Some /\ (GrantsExist => AllExisting(A!Only(n, d)))
        /\ A!Only(n, e) \in Some /\ (GrantsExist => AllExisting(A!Only(n, e)))
    BY <2>2, <2>3, <2>4, OnlyTypes, OnlyExisting
  <2>6. Sound("save", Root, A!SaveAll(A!Only(n, d)) \o A!SaveAll(A!Only(n, e)))
    BY <2>5, SavesSound
  <2>. QED
    BY <2>1, <2>6, Does DEF A!Save
<1>4. ASSUME NEW m \in Name, A!Rename(c, n, m) PROVE Deciding(c)
  <2> DEFINE to == A!Only(m, A!Ensured(n))
             out == [name |-> n, doc |-> A!Ensured(n)]
             p == The("repos", to)
             q == The("unlist", out)
             r == The("delete", n)
             v == The("sync", to)
             s == <<p, q, r, v>>
  <2>1. m # n /\ A!Do(c, A!W("repos", to) \o A!W("unlist", out) \o A!W("delete", n) \o A!W("sync", to))
    BY <1>4 DEF A!Rename
  <2>2. A!W("repos", to) \o A!W("unlist", out) \o A!W("delete", n) \o A!W("sync", to) = s
    BY Writes4
  <2>3. to \in Some
    BY <1>2, OnlyTypes
  <2>4. p \in Writing /\ q \in Writing /\ r \in Writing /\ v \in Writing
    BY <1>2, <2>3, SavingWrites DEF Writing
  <2>5. FewGrants(n, A!Ensured(n))
    BY <1>1, EnsuredTypes DEF FewGrants
  <2>6. GrantsExist => AllExisting(to)
    <3>1. GrantsExist => Existing(A!Ensured(n))
      BY <2>5 DEF FewGrants, GrantsExist, Existing
    <3>. QED
      BY <1>2, <3>1, OnlyTypes DEF AllExisting, Existing
  <2>7. GrantsExist => Mild(p) /\ Mild(q) /\ Mild(r) /\ Mild(v)
    BY <2>6, MildKinds
  <2>8. Listed => ListShape(s)
    BY <1>2, <2>1 DEF ListShape, MoveShape
  <2> HIDE DEF p, q, r, v
  <2>9. s \in Seq(Writing) /\ s # << >> /\ Len(s) <= 4
    BY <2>4
  <2>10. GrantsExist => \A i \in DOMAIN s : Mild(s[i])
    BY <2>7
  <2> HIDE DEF s
  <2>11. GrantsExist => GrantShape(s)
    BY <2>10, Zenon DEF GrantShape
  <2>12. Sound("save", Root, s)
    BY <2>8, <2>9, <2>11, AccountsAssumption DEF Sound
  <2>. QED
    BY <2>1, <2>2, <2>12, Does
<1>5. ASSUME A!DeleteRepository(c, n) PROVE Deciding(c)
  <2> DEFINE out == [name |-> n, doc |-> A!Ensured(n)]
             q == The("unlist", out)
             r == The("delete", n)
             s == <<q, r>>
  <2>1. A!Do(c, A!W("unlist", out) \o A!W("delete", n))
    BY <1>5 DEF A!DeleteRepository
  <2>2. A!W("unlist", out) \o A!W("delete", n) = s
    BY Writes2
  <2>3. q \in Writing /\ r \in Writing
    BY <1>2, SavingWrites DEF Writing
  <2>4. Mild(q) /\ Mild(r)
    BY MildKinds
  <2>5. Listed => ListShape(s)
    BY <1>2 DEF ListShape, DropShape
  <2> HIDE DEF q, r
  <2>6. s \in Seq(Writing) /\ s # << >> /\ Len(s) <= 4 /\ \A i \in DOMAIN s : Mild(s[i])
    BY <2>3, <2>4
  <2> HIDE DEF s
  <2>7. GrantsExist => GrantShape(s)
    BY <2>6, Zenon DEF GrantShape
  <2>8. Sound("save", Root, s)
    BY <2>5, <2>6, <2>7, AccountsAssumption DEF Sound
  <2>. QED
    BY <2>1, <2>2, <2>8, Does
<1>. QED
  BY <1>3, <1>4, <1>5

LEMMA EveryRequest ==
  ASSUME AccountTypes, NEW c \in Session, A!Ready(c), A!Request(c)
  PROVE  Deciding(c)
<1>1. CASE A!Reindex(c)
  BY <1>1, ReindexSound
<1>2. CASE \E k \in Key : A!UpsertOwner(c, k) \/ A!AcceptUser(c, k)
  BY <1>2, UserRequests
<1>3. CASE \E u \in User :
             \/ A!DeleteUser(c, u) \/ A!CancelUser(c, u)
             \/ \E role \in Appointed :
                  \/ A!InviteUser(c, u, role)
                  \/ \E keys \in SUBSET Key, suspended \in BOOLEAN : A!UpsertUser(c, u, role, keys, suspended)
  BY <1>3, UserRequests, DeleteUserSound
<1>4. CASE \E t \in Team :
             \/ A!CreateTeam(c, t) \/ A!DeleteTeam(c, t)
             \/ \E u \in User, role \in Granted \cup {None} : A!SetMember(c, t, u, role)
  BY <1>4, TeamRequests
<1>5. CASE \E n \in Name :
             \/ A!UpdateRepository(c, n) \/ A!DeleteRepository(c, n)
             \/ \E m \in Name : A!Rename(c, n, m)
             \/ \E t \in Team, role \in Granted \cup {None} : A!SetTeam(c, n, t, role)
             \/ \E t \in Team, k \in Key, role \in Granted :
                  A!CreateRepository(c, n, t, k, role) \/ A!UpsertRepository(c, n, t, k, role)
             \/ \E u \in User, role \in Granted \cup {None} : A!SetGrant(c, n, u, role) \/ A!SetInvite(c, n, u, role)
             \/ \E to \in Key \cup {None} : A!SetTransfer(c, n, to)
             \/ \E k \in Key :
                  \/ A!UpdateProfile(c, n, k) \/ A!AcceptInvite(c, n, k) \/ A!AcceptTransfer(c, n, k)
                  \/ \E role \in Granted : A!AddKey(c, n, k, role)
                  \/ \E to \in {"removed", "suspended", "unsuspended"} : A!SetKey(c, n, k, to)
  <2>1. PICK n \in Name :
             \/ A!UpdateRepository(c, n) \/ A!DeleteRepository(c, n)
             \/ \E m \in Name : A!Rename(c, n, m)
             \/ \E t \in Team, role \in Granted \cup {None} : A!SetTeam(c, n, t, role)
             \/ \E t \in Team, k \in Key, role \in Granted :
                  A!CreateRepository(c, n, t, k, role) \/ A!UpsertRepository(c, n, t, k, role)
             \/ \E u \in User, role \in Granted \cup {None} : A!SetGrant(c, n, u, role) \/ A!SetInvite(c, n, u, role)
             \/ \E to \in Key \cup {None} : A!SetTransfer(c, n, to)
             \/ \E k \in Key :
                  \/ A!UpdateProfile(c, n, k) \/ A!AcceptInvite(c, n, k) \/ A!AcceptTransfer(c, n, k)
                  \/ \E role \in Granted : A!AddKey(c, n, k, role)
                  \/ \E to \in {"removed", "suspended", "unsuspended"} : A!SetKey(c, n, k, to)
    BY <1>5
  <2>. QED
    BY <2>1, UserRequests, NameRequests, RepositoryRequests, KeyRequests
<1>. QED
  BY <1>1, <1>2, <1>3, <1>4, <1>5 DEF A!Request

-----------------------------------------------------------------------------
(***************************************************************************)
(* The invariant of the accounts                                           *)
(***************************************************************************)

\* Who has nothing left to write is about nothing, and a reindex is one write.
Tidy ==
  \A c \in Session :
    /\ todo[c] = << >> => doing[c] = A!Nothing
    /\ doing[c].kind = "reindex" => todo[c] = <<The("syncAll", None)>>

\* While nothing overlaps, what is written agrees with what is still to be written.
Ordered ==
  alone # "no" =>
    /\ \A c, e \in A!Busy : c = e
    /\ A!Busy = {} => Listed
    /\ \A c \in Session : todo[c] # << >> => ListShape(todo[c])
    /\ \A c \in Session : doing[c].kind = "delete user" => DeleteShape(doing[c].user, todo[c])

TeamsGranted ==
  alone = "always" => GrantsExist /\ \A c \in Session : todo[c] # << >> => GrantShape(todo[c])

AccountsInv == AccountTypes /\ Tidy /\ Ordered /\ TeamsGranted

LEMMA SameShapes ==
  ASSUME UNCHANGED A!docs
  PROVE  /\ Listed <=> Listed'
         /\ GrantsExist <=> GrantsExist'
         /\ \A s : ListShape(s) <=> (ListShape(s))'
         /\ \A s : GrantShape(s) <=> (GrantShape(s))'
         /\ \A u, s : DeleteShape(u, s) <=> (DeleteShape(u, s))'
<1> USE DEF A!docs
<1>1. \A n : ListedAt(n) <=> ListedAt(n)'
  BY DEF ListedAt, A!Direct
<1>2. /\ Listed <=> Listed'
      /\ \A some : ListedBut(some) <=> ListedBut(some)'
      /\ \A x : Written(x) <=> Written(x)'
  BY <1>1 DEF Listed, ListedBut, Written
<1>3. ASSUME NEW s PROVE ListShape(s) <=> (ListShape(s))'
  BY <1>2 DEF ListShape, SaveShape, DropShape, MoveShape
<1>4. \A d : Existing(d) <=> Existing(d)'
  BY DEF Existing
<1>5. /\ GrantsExist <=> GrantsExist'
      /\ \A x : AllExisting(x) <=> AllExisting(x)'
      /\ \A t : Ungrants(t) <=> Ungrants(t)'
  BY <1>4 DEF GrantsExist, AllExisting, Ungrants
<1>6. \A w : Mild(w) <=> Mild(w)'
  BY <1>5 DEF Mild
<1>7. ASSUME NEW s PROVE GrantShape(s) <=> (GrantShape(s))'
  BY <1>5, <1>6 DEF GrantShape, GoneShape
<1>8. ASSUME NEW u, NEW s PROVE DeleteShape(u, s) <=> (DeleteShape(u, s))'
  BY DEF DeleteShape
<1>. QED
  BY <1>2, <1>3, <1>5, <1>7, <1>8

LEMMA EmptyShape == ListShape(<< >>) => Listed
  BY DEF ListShape, SaveShape, DropShape, MoveShape

LEMMA AccountsStart == ASSUME A!Init PROVE AccountsInv
<1> USE DEF A!Init
<1>1. AccountTypes
  BY AccountInit
<1>2. Tidy
  BY AccountsAssumption DEF Tidy, A!Nothing
<1>3. ASSUME NEW n \in Name, repos[n] # None
      PROVE  repos[n] = A!NewRepository
  BY <1>3
<1>4. Listed
  BY <1>3 DEF Listed, ListedAt, A!Direct, A!NewRepository
<1>5. GrantsExist
  BY <1>3 DEF GrantsExist, Existing, A!NewRepository
<1>6. Ordered /\ TeamsGranted
  BY <1>4, <1>5 DEF Ordered, TeamsGranted, A!Busy, A!Nothing
<1>. QED
  BY <1>1, <1>2, <1>6 DEF AccountsInv

LEMMA HandleKeeps ==
  ASSUME AccountsInv, NEW c \in Session, todo[c] = << >>, begun < MaxRequests,
         NEW kind, NEW u, NEW s, Sound(kind, u, s), A!Handle(c, kind, u, s)
  PROVE  AccountsInv'
<1>1. /\ todo' = [todo EXCEPT ![c] = s] /\ doing' = [doing EXCEPT ![c] = [kind |-> kind, user |-> u]]
      /\ alone' = IF A!Busy = {} THEN alone ELSE "no"
      /\ begun' = begun + 1 /\ UNCHANGED A!docs
  BY DEF A!Handle
<1>2. /\ s \in Seq(Writing) /\ s # << >> /\ Len(s) <= 4
      /\ kind \in {"save", "reindex", "delete user"} /\ u \in User
  BY DEF Sound
<1>0. AccountTypes
  BY DEF AccountsInv
<1>3. AccountTypes'
  <2>1. DocTypes'
    BY <1>0, <1>1 DEF AccountTypes, DocTypes, A!docs
  <2>2. todo' \in [Session -> Seq(Writing)] /\ \A e \in Session : Len(todo'[e]) <= 4
    BY <1>0, <1>1, <1>2 DEF AccountTypes
  <2>3. doing' \in [Session -> [kind : {"nothing", "save", "reindex", "delete user"}, user : User]]
    BY <1>0, <1>1, <1>2 DEF AccountTypes
  <2>4. alone' \in {"always", "since reindex", "no"}
    BY <1>0, <1>1 DEF AccountTypes
  <2>5. begun' \in 0..MaxRequests
    <3>1. begun' = begun + 1
      BY <1>1
    <3>2. begun \in 0..MaxRequests /\ MaxRequests \in Nat
      BY <1>0, AccountsAssumption DEF AccountTypes
    <3>. QED
      BY <3>1, <3>2
  <2>. QED
    BY <2>1, <2>2, <2>3, <2>4, <2>5 DEF AccountTypes
<1>4. \A e \in Session : /\ todo'[e] = IF e = c THEN s ELSE todo[e]
                      /\ doing'[e] = IF e = c THEN [kind |-> kind, user |-> u] ELSE doing[e]
  BY <1>1 DEF AccountsInv, AccountTypes
<1>5. Tidy'
  <2> SUFFICES ASSUME NEW e \in Session
               PROVE  /\ todo'[e] = << >> => doing'[e] = A!Nothing
                      /\ doing'[e].kind = "reindex" => todo'[e] = <<The("syncAll", None)>>
    BY DEF Tidy, A!Nothing
  <2>1. CASE e = c
    <3>1. todo'[e] = s /\ doing'[e].kind = kind
      BY <1>4, <2>1
    <3>. QED
      BY <1>2, <3>1 DEF Sound
  <2>2. CASE e # c
    BY <1>4, <2>2 DEF AccountsInv, Tidy
  <2>. QED
    BY <2>1, <2>2
<1>6. ASSUME alone' # "no"
      PROVE  /\ A!Busy = {} /\ A!Busy' = {c} /\ Listed
             /\ \A e \in Session : e # c => todo'[e] = << >> /\ doing'[e] = A!Nothing
  <2>1. A!Busy = {} /\ alone # "no"
    BY <1>1, <1>6
  <2>2. \A e \in Session : todo[e] = << >> /\ doing[e] = A!Nothing
    BY <2>1 DEF A!Busy, AccountsInv, Tidy
  <2>3. A!Busy' = {c}
    BY <1>2, <1>4, <2>2 DEF A!Busy
  <2>. QED
    BY <1>4, <2>1, <2>2, <2>3 DEF AccountsInv, Ordered
<1>7. Ordered'
  <2> SUFFICES ASSUME alone' # "no"
               PROVE  /\ \A d, e \in A!Busy' : d = e
                      /\ A!Busy' = {} => Listed'
                      /\ \A e \in Session : todo'[e] # << >> => (ListShape(todo[e]))'
                      /\ \A e \in Session : doing'[e].kind = "delete user" => (DeleteShape(doing[e].user, todo[e]))'
    BY DEF Ordered
  <2>1. (ListShape(s))' /\ (kind = "delete user" => (DeleteShape(u, s))')
    BY <1>1, <1>6, SameShapes DEF Sound
  <2>2. ASSUME NEW e \in Session, todo'[e] # << >> PROVE (ListShape(todo[e]))'
    <3>1. todo'[e] = s
      BY <1>4, <1>6, <2>2
    <3>. QED
      BY <2>1, <3>1
  <2>3. ASSUME NEW e \in Session, doing'[e].kind = "delete user" PROVE (DeleteShape(doing[e].user, todo[e]))'
    <3>0. e # c => doing'[e] = A!Nothing
      BY <1>6
    <3>1. A!Nothing.kind # "delete user"
      BY DEF A!Nothing
    <3>2. e = c
      BY <2>3, <3>0, <3>1
    <3>3. todo'[e] = s /\ doing'[e] = [kind |-> kind, user |-> u]
      BY <1>4, <3>2
    <3>4. doing'[e].user = u /\ doing'[e].kind = kind
      BY <3>3
    <3>. QED
      BY <2>1, <2>3, <3>3, <3>4
  <2>. QED
    BY <1>6, <2>2, <2>3
<1>8. TeamsGranted'
  <2> SUFFICES ASSUME alone' = "always"
               PROVE  GrantsExist' /\ \A e \in Session : todo'[e] # << >> => (GrantShape(todo[e]))'
    BY DEF TeamsGranted
  <2>1. alone = "always" /\ GrantsExist
    BY <1>1 DEF AccountsInv, TeamsGranted
  <2>2. GrantsExist' /\ (GrantShape(s))'
    BY <1>1, <2>1, SameShapes DEF Sound
  <2>3. ASSUME NEW e \in Session, todo'[e] # << >> PROVE (GrantShape(todo[e]))'
    <3>1. todo'[e] = s
      BY <1>4, <1>6, <2>3
    <3>. QED
      BY <2>2, <3>1
  <2>. QED
    BY <2>2, <2>3
<1>. QED
  BY <1>3, <1>5, <1>7, <1>8 DEF AccountsInv

LEMMA AccountFailKeeps ==
  ASSUME AccountsInv, NEW c \in Session, A!Fail(c)
  PROVE  AccountsInv'
<1>1. /\ todo' = [todo EXCEPT ![c] = << >>] /\ doing' = [doing EXCEPT ![c] = A!Nothing]
      /\ alone' = "no" /\ UNCHANGED <<A!docs, begun>>
  BY DEF A!Fail
<1>2. AccountTypes'
  <2>1. << >> \in Seq(Writing) /\ Len(<< >>) <= 4
    OBVIOUS
  <2>2. A!Nothing \in [kind : {"nothing", "save", "reindex", "delete user"}, user : User]
    BY AccountsAssumption DEF A!Nothing
  <2>. QED
    BY <1>1, <2>1, <2>2 DEF AccountsInv, AccountTypes, DocTypes, A!docs
<1>3. Tidy'
  BY <1>1 DEF AccountsInv, AccountTypes, Tidy, A!Nothing
<1>. QED
  BY <1>1, <1>2, <1>3 DEF AccountsInv, Ordered, TeamsGranted

\* What is left of the deletion of a user.
LEMMA DeleteStep ==
  ASSUME NEW u, NEW s, DeleteShape(u, s), A!Apply(Head(s)), Tail(s) # << >>
  PROVE  (DeleteShape(u, Tail(s)))'
<1>1. PICK us \in OwnUsers, gone \in SUBSET KeysOf(u) :
        LET purge == The("purge", [user |-> u, keys |-> gone])
        IN (us.of[u] = None /\ s = <<The("users", us), purge>>) \/ (users.of[u] = None /\ s = <<purge>>)
  BY DEF DeleteShape
<1> DEFINE purge == The("purge", [user |-> u, keys |-> gone])
<1>2. Tail(<<purge>>) = << >>
  BY Heads1
<1> HIDE DEF purge
<1>3. us.of[u] = None /\ s = <<The("users", us), purge>>
  BY <1>1, <1>2 DEF purge
<1>4. Head(s) = The("users", us) /\ Tail(s) = <<purge>>
  BY <1>3, Heads2
<1>5. users' = us
  BY <1>4, Writes
<1>. QED
  BY <1>3, <1>4, <1>5 DEF DeleteShape, purge

LEMMA AccountWriteKeeps ==
  ASSUME AccountsInv, NEW c \in Session, A!Write(c)
  PROVE  AccountsInv'
<1>1. /\ todo[c] # << >> /\ A!Apply(Head(todo[c]))
      /\ todo' = [todo EXCEPT ![c] = Tail(todo[c])]
      /\ doing' = IF A!Last(c) THEN [doing EXCEPT ![c] = A!Nothing] ELSE doing
      /\ alone' = IF doing[c].kind = "reindex" /\ A!Busy = {c} /\ alone = "no" THEN "since reindex" ELSE alone
      /\ UNCHANGED begun
  BY DEF A!Write
<1>2. AccountTypes /\ Tidy /\ DocTypes
  BY DEF AccountsInv, AccountTypes
<1>3. PICK s \in Seq(Writing) : s = todo[c]
  BY <1>2 DEF AccountTypes
<1>4. /\ s # << >> /\ Head(s) \in Writing /\ Tail(s) \in Seq(Writing) /\ Len(Tail(s)) = Len(s) - 1
      /\ (Tail(s) = << >> <=> Len(s) = 1)
  <2>1. s # << >>
    BY <1>1, <1>3
  <2>2. Head(s) \in Writing /\ Tail(s) \in Seq(Writing) /\ Len(Tail(s)) = Len(s) - 1
    BY <2>1, HeadTailProperties
  <2>3. Tail(s) = << >> <=> Len(Tail(s)) = 0
    BY <2>2, EmptySeq
  <2>4. Len(s) \in Nat
    OBVIOUS
  <2>. QED
    BY <2>1, <2>2, <2>3, <2>4
<1>5. \A e \in Session : /\ todo'[e] = IF e = c THEN Tail(s) ELSE todo[e]
                      /\ doing'[e] = IF e = c /\ Len(s) = 1 THEN A!Nothing ELSE doing[e]
  BY <1>1, <1>2, <1>3 DEF AccountTypes, A!Last
<1>6. AccountTypes'
  <2>1. DocTypes'
    BY <1>1, <1>2, <1>3, <1>4, WriteTypes
  <2>2. todo' \in [Session -> Seq(Writing)] /\ \A e \in Session : Len(todo'[e]) <= 4
    <3>1. Len(Tail(s)) <= 4
      <4>1. Len(s) <= 4
        BY <1>2, <1>3 DEF AccountTypes
      <4>2. Len(s) \in Nat /\ Len(Tail(s)) = Len(s) - 1
        BY <1>4
      <4>. QED
        BY <4>1, <4>2
    <3>2. todo' = [todo EXCEPT ![c] = Tail(s)]
      BY <1>1, <1>3
    <3>. QED
      BY <1>2, <1>4, <3>1, <3>2 DEF AccountTypes
  <2>3. doing' \in [Session -> [kind : {"nothing", "save", "reindex", "delete user"}, user : User]]
    <3>1. A!Nothing \in [kind : {"nothing", "save", "reindex", "delete user"}, user : User]
      BY AccountsAssumption DEF A!Nothing
    <3>. QED
      BY <1>1, <1>2, <3>1 DEF AccountTypes
  <2>4. alone' \in {"always", "since reindex", "no"} /\ begun' \in 0..MaxRequests
    BY <1>1, <1>2 DEF AccountTypes
  <2>. QED
    BY <2>1, <2>2, <2>3, <2>4 DEF AccountTypes
<1>7. doing[c].kind = "reindex" => s = <<The("syncAll", None)>> /\ Tail(s) = << >> /\ Len(s) = 1
  <2>1. Tail(<<The("syncAll", None)>>) = << >> /\ Len(<<The("syncAll", None)>>) = 1
    BY Heads1
  <2>. QED
    BY <1>2, <1>3, <2>1 DEF Tidy
<1>8. Tidy'
  <2> SUFFICES ASSUME NEW e \in Session
               PROVE  /\ todo'[e] = << >> => doing'[e] = A!Nothing
                      /\ doing'[e].kind = "reindex" => todo'[e] = <<The("syncAll", None)>>
    BY DEF Tidy, A!Nothing
  <2>1. A!Nothing.kind # "reindex"
    BY DEF A!Nothing
  <2>2. CASE e = c
    BY <1>4, <1>5, <1>7, <2>1, <2>2
  <2>3. CASE e # c
    BY <1>2, <1>5, <2>3 DEF Tidy
  <2>. QED
    BY <2>2, <2>3
<1>9. CASE alone # "no"
  <2>1. /\ \A e \in Session : e # c => todo[e] = << >> /\ doing[e] = A!Nothing
        /\ ListShape(s)
        /\ doing[c].kind = "delete user" => DeleteShape(doing[c].user, s)
        /\ alone' = alone
    BY <1>1, <1>2, <1>3, <1>9 DEF AccountsInv, Ordered, A!Busy, Tidy
  <2>2. (ListShape(Tail(s)))'
    BY <1>1, <1>2, <1>3, <1>4, <2>1, ListStep
  <2>3. \A e \in Session : todo'[e] # << >> => e = c /\ todo'[e] = Tail(s)
    BY <1>5, <2>1
  <2>4. A!Busy' = {} => Listed'
    <3>1. ASSUME A!Busy' = {} PROVE Tail(s) = << >>
      BY <1>5, <3>1 DEF A!Busy
    <3>2. (ListShape(<< >>) => Listed)'
      BY EmptyShape, PTL
    <3>. QED
      BY <2>2, <3>1, <3>2
  <2>5. ASSUME NEW e \in Session, doing'[e].kind = "delete user" PROVE (DeleteShape(doing[e].user, todo[e]))'
    <3>1. A!Nothing.kind # "delete user"
      BY DEF A!Nothing
    <3>2. e = c /\ Len(s) # 1 /\ doing'[e] = doing[c] /\ todo'[e] = Tail(s)
      BY <1>5, <2>1, <2>5, <3>1
    <3>3. PICK u : u = doing[c].user
      OBVIOUS
    <3>4. DeleteShape(u, s) /\ A!Apply(Head(s)) /\ Tail(s) # << >>
      BY <1>1, <1>3, <1>4, <2>1, <2>5, <3>2, <3>3
    <3>5. (DeleteShape(u, Tail(s)))'
      BY <3>4, DeleteStep
    <3>. QED
      BY <3>2, <3>3, <3>5
  <2>6. Ordered'
    <3>1. \A d, e \in A!Busy' : d = e
      BY <2>3 DEF A!Busy
    <3>2. ASSUME NEW e \in Session, todo'[e] # << >> PROVE (ListShape(todo[e]))'
      BY <2>2, <2>3, <3>2
    <3>. QED
      BY <2>4, <2>5, <3>1, <3>2 DEF Ordered
  <2>7. TeamsGranted'
    <3> SUFFICES ASSUME alone' = "always"
                 PROVE  GrantsExist' /\ \A e \in Session : todo'[e] # << >> => (GrantShape(todo[e]))'
      BY DEF TeamsGranted
    <3>1. GrantShape(s)
      BY <1>1, <1>3, <2>1 DEF AccountsInv, TeamsGranted
    <3>2. (GrantShape(Tail(s)))'
      BY <1>1, <1>2, <1>3, <1>4, <3>1, GrantStep
    <3>3. GrantsExist'
      BY <3>2 DEF GrantShape
    <3>4. ASSUME NEW e \in Session, todo'[e] # << >> PROVE (GrantShape(todo[e]))'
      BY <2>3, <3>2, <3>4
    <3>. QED
      BY <3>3, <3>4
  <2>. QED
    BY <1>6, <1>8, <2>6, <2>7 DEF AccountsInv
<1>10. CASE alone = "no" /\ alone' # "no"
  <2>1. doing[c].kind = "reindex" /\ A!Busy = {c} /\ alone' = "since reindex"
    BY <1>1, <1>10
  <2>2. \A e \in Session : todo'[e] = << >> /\ doing'[e] = A!Nothing
    BY <1>2, <1>5, <1>7, <2>1 DEF A!Busy, Tidy
  <2>3. index' = A!Synced(repos) /\ UNCHANGED repos
    <3>1. Head(s) = The("syncAll", None)
      BY <1>7, <2>1, Heads1
    <3>. QED
      BY <1>1, <1>3, <3>1, Writes
  <2>4. Listed'
    <3>1. ASSUME NEW n \in Name PROVE ListedAt(n)'
      BY <1>2, <2>3, SyncLists
    <3>. QED
      BY <3>1 DEF Listed
  <2>5. Ordered' /\ TeamsGranted'
    <3>1. A!Nothing.kind # "delete user"
      BY DEF A!Nothing
    <3>2. A!Busy' = {}
      BY <2>2 DEF A!Busy
    <3>. QED
      BY <2>1, <2>2, <2>4, <3>1, <3>2 DEF Ordered, TeamsGranted
  <2>. QED
    BY <1>6, <1>8, <2>5 DEF AccountsInv
<1>11. CASE alone = "no" /\ alone' = "no"
  BY <1>6, <1>8, <1>11 DEF AccountsInv, Ordered, TeamsGranted
<1>. QED
  BY <1>9, <1>10, <1>11

LEMMA AccountsStep ==
  ASSUME AccountsInv, [A!Next]_accountVars
  PROVE  AccountsInv'
<1>1. ASSUME NEW c \in Session, A!Write(c) PROVE AccountsInv'
  BY <1>1, AccountWriteKeeps
<1>2. ASSUME NEW c \in Session, A!Fail(c) PROVE AccountsInv'
  BY <1>2, AccountFailKeeps
<1>3. ASSUME NEW c \in Session, A!Ready(c), A!Request(c) PROVE AccountsInv'
  <2>1. PICK kind, u, s : Sound(kind, u, s) /\ A!Handle(c, kind, u, s)
    BY <1>3, EveryRequest DEF AccountsInv, Deciding
  <2>. QED
    BY <1>3, <2>1, HandleKeeps DEF A!Ready
<1>4. CASE UNCHANGED accountVars
  <2>1. UNCHANGED <<A!docs, todo, doing, alone, begun>>
    BY <1>4 DEF accountVars, A!docs
  <2>2. AccountTypes' /\ Tidy'
    BY <2>1 DEF AccountsInv, AccountTypes, DocTypes, Tidy, A!docs
  <2>3. (\A c \in Session : ListShape(todo[c]) <=> (ListShape(todo[c]))')
        /\ (\A c \in Session : GrantShape(todo[c]) <=> (GrantShape(todo[c]))')
        /\ (\A c \in Session : DeleteShape(doing[c].user, todo[c]) <=> (DeleteShape(doing[c].user, todo[c]))')
        /\ (Listed <=> Listed') /\ (GrantsExist <=> GrantsExist')
    BY <2>1, SameShapes
  <2>4. A!Busy' = A!Busy
    BY <2>1 DEF A!Busy
  <2>. QED
    BY <2>1, <2>2, <2>3, <2>4 DEF AccountsInv, Ordered, TeamsGranted
<1>. QED
  BY <1>1, <1>2, <1>3, <1>4 DEF A!Next

LEMMA Lengths ==
  /\ Len(<< >>) = 0 /\ \A x, y : Len(<<x, y>>) = 2
  /\ 0 # 1 /\ 1 # 2
<1>1. Len(<< >>) = 0 /\ 0 # 1 /\ 1 # 2
  OBVIOUS
<1>2. ASSUME NEW x, NEW y PROVE Len(<<x, y>>) = 2
  OBVIOUS
<1>. QED
  BY <1>1, <1>2

\* Users of the documents: a deleted user signs nothing, with keys that no owner has.
LEMMA DeletedSign ==
  ASSUME NEW k \in Key, users.of[KeyOf[k]] = None, k \notin owners, DocTypes
  PROVE  ~ A!Signs(k)
<1> DEFINE owner == [id |-> 0, role |-> "owner", keys |-> owners, suspended |-> FALSE, pending |-> FALSE]
<1>1. users \in [of : [User -> {None} \cup Account], invites : [User -> Appointed \cup {None}]] /\ KeyOf[k] \in User
  BY Records, AccountsAssumption DEF DocTypes
<1>2. CASE owners = {} \/ KeyOf[k] # Root
  <2>1. A!Loaded.of[KeyOf[k]] = users.of[KeyOf[k]]
    BY <1>1, <1>2 DEF A!Loaded
  <2>. QED
    BY <2>1 DEF A!Signs, A!Known
<1>3. CASE owners # {} /\ KeyOf[k] = Root
  <2>1. A!Loaded = [users EXCEPT !.of[Root] = owner]
    BY <1>3 DEF A!Loaded
  <2>2. A!Loaded.of[Root] = owner
    BY <1>1, <1>3, <2>1
  <2>3. A!Loaded.of[Root].keys = owners
    BY <2>2
  <2>. QED
    BY <1>3, <2>3 DEF A!Signs
<1>. QED
  BY <1>2, <1>3

\* The step that takes the last of the writes of a request.
LEMMA LastWrite ==
  ASSUME AccountsInv, [A!Next]_accountVars, NEW c \in Session, todo[c] # << >>, todo'[c] = << >>, alone' # "no"
  PROVE  A!Write(c)
<1>1. todo \in [Session -> Seq(Writing)]
  BY DEF AccountsInv, AccountTypes
<1>2. ASSUME NEW e \in Session, e # c, A!Write(e) PROVE FALSE
  BY <1>1, <1>2 DEF A!Write
<1>3. ASSUME NEW e \in Session, A!Fail(e) PROVE FALSE
  BY <1>3 DEF A!Fail
<1>4. ASSUME NEW e \in Session, A!Ready(e), A!Request(e) PROVE FALSE
  <2>1. PICK kind, u, s : Sound(kind, u, s) /\ A!Handle(e, kind, u, s)
    BY <1>4, EveryRequest DEF AccountsInv, Deciding
  <2>2. todo[e] = << >> /\ todo' = [todo EXCEPT ![e] = s]
    BY <1>4, <2>1 DEF A!Ready, A!Handle
  <2>. QED
    BY <1>1, <2>2
<1>5. CASE UNCHANGED accountVars
  BY <1>5 DEF accountVars, A!docs
<1>. QED
  BY <1>2, <1>3, <1>4, <1>5 DEF A!Next

Restoring(c) ==
  (doing[c].kind = "reindex" /\ A!Busy = {c} /\ todo'[c] = <<>> /\ alone' # "no") =>
    \A n \in Name, k \in Key :
      (repos[n] # None /\ A!Roles(k, repos[n]) # {} /\ (A!Known(KeyOf[k]) => ~A!Loaded.of[KeyOf[k]].pending))
        => index'[<<k, n>>] = "listed"

Deleting(c) ==
  (doing[c].kind = "delete user" /\ A!Last(c) /\ todo'[c] = <<>> /\ alone' # "no") =>
    \A n \in Name, k \in Key : KeyOf[k] = doing[c].user /\ k \notin owners /\ repos[n] # None => A!Roles(k, repos[n])' = {}

LEMMA StepRestores ==
  ASSUME AccountsInv, [A!Next]_accountVars, NEW c \in Session
  PROVE  Restoring(c)
<1> SUFFICES ASSUME doing[c].kind = "reindex", todo'[c] = << >>, alone' # "no",
                    NEW n \in Name, NEW k \in Key, repos[n] # None, A!Roles(k, repos[n]) # {},
                    A!Known(KeyOf[k]) => ~A!Loaded.of[KeyOf[k]].pending
             PROVE  index'[<<k, n>>] = "listed"
  BY DEF Restoring
<1>1. todo[c] = <<The("syncAll", None)>>
  BY DEF AccountsInv, Tidy
<1>2. A!Write(c)
  <2>1. Len(<<The("syncAll", None)>>) = 1 /\ Len(<< >>) = 0
    OBVIOUS
  <2>2. todo[c] # << >>
    BY <1>1, <2>1
  <2>. QED
    BY <2>2, LastWrite
<1>3. A!Apply(The("syncAll", None))
  <2>1. Head(todo[c]) = The("syncAll", None)
    BY <1>1, Heads1
  <2>. QED
    BY <1>2, <2>1 DEF A!Write
<1>4. index' = A!Synced(repos)
  BY <1>3, Writes
<1>5. index'[<<k, n>>] = A!Listing(k, repos[n], index[<<k, n>>])
  BY <1>4 DEF A!Synced
<1>6. CASE A!Direct(k, repos[n]) # {}
  BY <1>5, <1>6, DirectListing
<1>7. CASE A!Direct(k, repos[n]) = {}
  <2>1. A!Signs(k) /\ A!ThroughUser(KeyOf[k], repos[n]) # {}
    BY <1>7 DEF A!Roles
  <2>2. A!Reached(k, repos[n])
    BY <2>1 DEF A!Reached, A!Signs
  <2>. QED
    BY <1>5, <2>2 DEF A!Listing
<1>. QED
  BY <1>6, <1>7

LEMMA StepDeletes ==
  ASSUME AccountsInv, [A!Next]_accountVars, NEW c \in Session
  PROVE  Deleting(c)
<1> SUFFICES ASSUME doing[c].kind = "delete user", A!Last(c), todo'[c] = << >>, alone' # "no",
                    NEW n \in Name, NEW k \in Key, KeyOf[k] = doing[c].user, k \notin owners, repos[n] # None
             PROVE  A!Roles(k, repos[n])' = {}
  BY DEF Deleting
<1>0. DocTypes /\ DocTypes'
  BY AccountsStep DEF AccountsInv, AccountTypes
<1>20. PICK s \in Seq(Writing) : s = todo[c]
  BY DEF AccountsInv, AccountTypes
<1>21. Len(s) = 1
  BY <1>20 DEF A!Last
<1>1. todo[c] # << >>
  <2>1. s # << >>
    BY <1>21, Lengths, Zenon
  <2>. QED
    BY <1>20, <2>1
<1>2. A!Write(c)
  BY <1>1, LastWrite
<1>3. alone # "no"
  BY <1>2 DEF A!Write
<1>4. PICK u : u = doing[c].user
  OBVIOUS
<1>5. DeleteShape(u, todo[c])
  BY <1>3, <1>4 DEF AccountsInv, Ordered
<1>6. PICK us \in OwnUsers, gone \in SUBSET KeysOf(u) :
        LET purge == The("purge", [user |-> u, keys |-> gone])
        IN \/ us.of[u] = None /\ todo[c] = <<The("users", us), purge>>
           \/ users.of[u] = None /\ todo[c] = <<purge>>
  BY <1>5 DEF DeleteShape
<1> DEFINE x == [user |-> u, keys |-> gone]
           purge == The("purge", x)
<1>7. todo[c] # <<The("users", us), purge>>
  <2> DEFINE y == The("users", us)
  <2> HIDE DEF y, purge
  <2>1. s # <<y, purge>>
    BY <1>21, Lengths, Zenon
  <2>. QED
    BY <1>20, <2>1 DEF y
<1>8. users.of[u] = None /\ todo[c] = <<purge>>
  BY <1>6, <1>7
<1>9. A!Apply(The("purge", x))
  <2>1. Head(todo[c]) = purge
    BY <1>8, Heads1
  <2>. QED
    BY <1>2, <2>1 DEF A!Write
<1>10. u \in User /\ x.user = u /\ x.keys = gone
  BY <1>4, AccountsAssumption
<1>11. A!Purge(u, gone)
  <2>1. A!Purge(x.user, x.keys)
    BY <1>9, Writes
  <2>. QED
    BY <1>10, <2>1
<1> HIDE DEF x, purge
<1>12. UNCHANGED <<owners, users>> /\ repos'[n] = A!Forgotten(u, repos[n]) /\ repos[n] \in A!Repository
  BY <1>0, <1>10, <1>11, Purged, Zenon
<1>13. repos'[n].keys[k] = None
  <2>1. \A d \in A!Repository : A!Forgotten(u, d).keys[k] = IF KeyOf[k] = u THEN None ELSE d.keys[k]
    BY <1>10, ForgottenKeys
  <2>. QED
    BY <1>4, <1>12, <2>1
<1>14. ~ A!Signs(k)'
  <2>1. ~ A!Signs(k)
    BY <1>0, <1>4, <1>8, DeletedSign
  <2>2. A!Loaded' = A!Loaded
    BY <1>12 DEF A!Loaded
  <2>. QED
    BY <2>1, <2>2 DEF A!Signs, A!Known
<1>. QED
  BY <1>13, <1>14 DEF A!Roles, A!Direct

\* What the runs check of accounts.
LEMMA MembershipsFollow ==
  ASSUME AccountsInv
  PROVE  A!TypeOK /\ A!MembersAreListed /\ A!GrantedTeamsExist
<1>1. AccountTypes /\ DocTypes
  BY DEF AccountsInv, AccountTypes
<1>2. A!TypeOK
  <2>1. owners \subseteq Key /\ users \in A!Users /\ repos \in [Name -> A!Repository \cup {None}]
    BY <1>1 DEF DocTypes, KeysOf, OwnUsers, Some
  <2>. QED
    BY <1>1, <2>1 DEF A!TypeOK, AccountTypes, DocTypes
<1>3. A!MembersAreListed
  BY DEF AccountsInv, Ordered, Listed, ListedAt, A!MembersAreListed
<1>4. A!GrantedTeamsExist
  BY DEF AccountsInv, TeamsGranted, GrantsExist, Existing, A!GrantedTeamsExist
<1>. QED
  BY <1>2, <1>3, <1>4

-----------------------------------------------------------------------------
LEMMA AccountsInductive ==
  /\ ServiceInit => AccountsInv
  /\ AccountsInv /\ [ServiceNext]_ServiceVars => AccountsInv'
<1>1. ServiceInit => AccountsInv
  BY AccountsStart DEF ServiceInit
<1>2. ASSUME AccountsInv, [ServiceNext]_ServiceVars PROVE AccountsInv'
  <2>1. [A!Next]_accountVars
    BY <1>2 DEF ServiceNext, ServiceVars
  <2>. QED
    BY <1>2, <2>1, AccountsStep
<1>. QED
  BY <1>1, <1>2

\* As long as requests neither overlap nor fail, and again after a reindex, every key
\* that a repository knows has it in its list, however many documents a request
\* writes; and repositories are granted to teams that exist.
THEOREM MembershipsAreListed == ServiceSpec => []MembershipsHold
<1>1. AccountsInv => MembershipsHold
  BY MembershipsFollow DEF MembershipsHold
<1>. QED
  BY <1>1, AccountsInductive, PTL DEF ServiceSpec

\* A reindex that nothing overlaps lists every repository for whoever may read it,
\* whatever came before; and a user who was deleted while nothing else ran has access
\* to nothing.
THEOREM AccountsAreRepaired == ServiceSpec => AccountsRepaired
<1>1. AccountsInv /\ [ServiceNext]_ServiceVars => [\A c \in Session : Restoring(c)]_(A!vars)
  <2> SUFFICES ASSUME AccountsInv, [ServiceNext]_ServiceVars, NEW c \in Session
               PROVE  Restoring(c) \/ UNCHANGED A!vars
    OBVIOUS
  <2>1. [A!Next]_accountVars
    BY DEF ServiceNext, ServiceVars
  <2>. QED
    BY <2>1, StepRestores
<1>2. AccountsInv /\ [ServiceNext]_ServiceVars => [\A c \in Session : Deleting(c)]_(A!vars)
  <2> SUFFICES ASSUME AccountsInv, [ServiceNext]_ServiceVars, NEW c \in Session
               PROVE  Deleting(c) \/ UNCHANGED A!vars
    OBVIOUS
  <2>1. [A!Next]_accountVars
    BY DEF ServiceNext, ServiceVars
  <2>. QED
    BY <2>1, StepDeletes
<1>3. ServiceSpec => [][\A c \in Session : Restoring(c)]_(A!vars) /\ [][\A c \in Session : Deleting(c)]_(A!vars)
  BY <1>1, <1>2, AccountsInductive, PTL DEF ServiceSpec
<1>. QED
  BY <1>3 DEF AccountsRepaired, A!ReindexRestores, A!DeletedUsersAreOut, Restoring, Deleting
=============================================================================
