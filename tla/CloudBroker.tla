----------------------------- MODULE CloudBroker -----------------------------
(***************************************************************************)
(* The deployed brokers (broker/gcp/index.js, broker/aws/template.yaml) on *)
(* one repository. Requests are served concurrently and share a document   *)
(* (the ref map, the branch protections, the counter of pull requests), a  *)
(* record for every pull request, and the Git ref objects of the bucket.   *)
(* Every request loads the document first. updateRefCAS then replaces one  *)
(* ref in it conditionally; every other change is a saveRepo, which writes *)
(* the whole document as the request has loaded and edited it.             *)
(*                                                                         *)
(* All pull requests go from Source to Target. The document exists, under  *)
(* its present id, the repository is not read-only, and every caller has   *)
(* the role that its request needs.                                        *)
(***************************************************************************)
EXTENDS Naturals

CONSTANTS
  Call,        \* requests
  Admin,       \* those signed by an owner or admin
  Cloud,       \* the brokers: "gcp", "aws" or both
  Ref,         \* refs of the repository
  Source,      \* the branch that pull requests merge
  Target,      \* the branch they merge it into
  Guarded,     \* the refs that admins may protect
  Oid,         \* object ids
  NoOid,       \* the zero object id: no such ref
  MaxPr        \* bound: pull requests 1..MaxPr

Value == Oid \cup {NoOid}
Pr == 1..MaxPr

ASSUME NoOidAssumption == NoOid \notin Oid
ASSUME AdminAssumption == Admin \subseteq Call
ASSUME CloudAssumption == Cloud \subseteq {"gcp", "aws"}
ASSUME BranchAssumption == Source \in Ref /\ Target \in Ref /\ Source # Target
ASSUME GuardedAssumption == Guarded \subseteq Ref
ASSUME MaxPrAssumption == MaxPr \in Nat

VARIABLES
  cloud,     \* which broker it is
  doc,       \* the repository document
  prs,       \* prs[i]: the record of pull request i
  objects,   \* objects[r]: the Git ref object of r in the bucket
  pc,        \* pc[c]: what c does next
  req,       \* req[c]: the request
  copy,      \* copy[c]: entry.data, the document as c has loaded and edited it
  fresh,     \* fresh[c]: the document as updateRefCAS has read it (AWS)
  touched,   \* the calls whose fresh document has been written since it was read
  pr,        \* pr[c]: the record of the pull request that c is about
  result,    \* result[c]: the answer
  moved,     \* the pull requests whose target has been updated (history)
  serial     \* no request has failed or overlapped another one (history)

vars == <<cloud, doc, prs, objects, pc, req, copy, fresh, touched, pr, result, moved, serial>>
disk == <<doc, prs, objects>>
memory == <<req, copy, fresh, pr, result>>

\* A branch is open, or requires a pull request, from admins too or not.
Protection == {"open", "pr", "override"}
Doc == [refs : [Ref -> Value], prot : [Ref -> Protection], next : 1..MaxPr + 1]
Record == [status : {"none", "open", "closed", "merged"}, head : Value]
Kind == {"update", "merge", "create", "close", "reopen", "note", "protect", "elsewhere"}
Request ==
  [kind : Kind, ref : Ref, old : Value, new : Value, prot : Protection, id : 0..MaxPr, drop : BOOLEAN]

NoPr == [status |-> "none", head |-> NoOid]
NoDoc == [refs |-> [r \in Ref |-> NoOid], prot |-> [r \in Ref |-> "open"], next |-> 1]
NoRequest ==
  [kind |-> "elsewhere", ref |-> Target, old |-> NoOid, new |-> NoOid, prot |-> "open",
   id |-> 0, drop |-> FALSE]

TypeOK ==
  /\ cloud \in {"gcp", "aws"}
  /\ doc \in Doc
  /\ prs \in [Pr -> Record]
  /\ objects \in [Ref -> Value]
  /\ pc \in [Call -> {"idle", "load", "pr", "cas", "put", "object", "again", "drop",
                      "save", "record", "done"}]
  /\ req \in [Call -> Request]
  /\ copy \in [Call -> Doc]
  /\ fresh \in [Call -> Doc]
  /\ touched \subseteq Call
  /\ pr \in [Call -> Record]
  /\ result \in [Call -> {"none", "ok", "stale", "forbidden", "failed"}]
  /\ moved \subseteq Pr
  /\ serial \in BOOLEAN

Init ==
  /\ cloud \in Cloud
  /\ doc \in {d \in Doc : \A r \in Ref \ Guarded : d.prot[r] = "open"}
  /\ prs \in {f \in [Pr -> Record] : \A i \in Pr :
       IF i < doc.next THEN f[i].status \in {"open", "closed"} ELSE f[i] = NoPr}
  /\ objects = doc.refs
  /\ pc = [c \in Call |-> "idle"]
  /\ req = [c \in Call |-> NoRequest]
  /\ copy = [c \in Call |-> NoDoc]
  /\ fresh = [c \in Call |-> NoDoc]
  /\ touched = {}
  /\ pr = [c \in Call |-> NoPr]
  /\ result = [c \in Call |-> "none"]
  /\ moved = {}
  /\ serial = TRUE

-----------------------------------------------------------------------------
Goto(c, l) == pc' = [pc EXCEPT ![c] = l]

\* The request is answered, and what it held in memory is gone.
Answer(c, a) ==
  /\ Goto(c, "done")
  /\ result' = [result EXCEPT ![c] = a]
  /\ req' = [req EXCEPT ![c] = NoRequest]
  /\ copy' = [copy EXCEPT ![c] = NoDoc]
  /\ fresh' = [fresh EXCEPT ![c] = NoDoc]
  /\ pr' = [pr EXCEPT ![c] = NoPr]

Begin(c, q) ==
  /\ pc[c] = "idle"
  /\ q.kind = "protect" => c \in Admin
  /\ req' = [req EXCEPT ![c] = q]
  /\ Goto(c, "load")
  /\ UNCHANGED <<cloud, disk, copy, fresh, touched, pr, result, moved, serial>>

Alone(c) == \A d \in Call \ {c} : pc[d] \in {"idle", "load", "done"}

\* Mutated: the counter is incremented first.
NextPrId_Preincrement(d) == d.next + 1

\* nextPRID
NextPrId(d) == d.next

\* ensureRepo, for a request that has more to read.
ReadCopy(c) ==
  /\ req[c].kind \in {"update", "merge", "close", "reopen", "note"}
  /\ copy' = [copy EXCEPT ![c] = doc]
  /\ Goto(c, IF req[c].kind = "update" THEN "cas" ELSE "pr")
  /\ UNCHANGED <<req, pr>>

\* Keys, invitations, audit entries: edits of other parts of the document.
EditElsewhere(c) ==
  /\ req[c].kind = "elsewhere"
  /\ copy' = [copy EXCEPT ![c] = doc]
  /\ Goto(c, "save")
  /\ UNCHANGED <<req, pr>>

Protect(c) ==
  /\ req[c].kind = "protect"
  /\ copy' = [copy EXCEPT ![c] = [doc EXCEPT !.prot[req[c].ref] = req[c].prot]]
  /\ Goto(c, "save")
  /\ UNCHANGED <<req, pr>>

CreatePr(c) ==
  /\ req[c].kind = "create"
  /\ doc.next <= MaxPr
  /\ copy' = [copy EXCEPT ![c] = [doc EXCEPT !.next = @ + 1]]
  /\ req' = [req EXCEPT ![c].id = NextPrId(doc)]
  /\ pr' = [pr EXCEPT ![c] = [status |-> "open", head |-> doc.refs[Source]]]
  /\ Goto(c, "save")

\* The document is loaded, and edited in memory.
Load(c) ==
  /\ pc[c] = "load"
  /\ serial' = (serial /\ Alone(c))
  /\ ReadCopy(c) \/ EditElsewhere(c) \/ Protect(c) \/ CreatePr(c)
  /\ UNCHANGED <<cloud, disk, fresh, touched, result, moved>>

-----------------------------------------------------------------------------
(***************************************************************************)
(* Pull requests: loadPR, and what the endpoints make of the record        *)
(***************************************************************************)

\* Closing and reopening do not look at the status.
EditRecord(c, status) ==
  /\ pr' = [pr EXCEPT ![c] = [prs[req[c].id] EXCEPT !.status = status]]
  /\ Goto(c, "save")
  /\ UNCHANGED <<copy, req, fresh, result>>

\* The commit that a merge moves the target to.
MergeHead(c) ==
  IF copy[c].refs[Source] # NoOid THEN copy[c].refs[Source] ELSE prs[req[c].id].head

\* Mutated: the merge is recorded first.
StartMerge_RecordedFirst(c) ==
  /\ pr' = [pr EXCEPT ![c] = [prs[req[c].id] EXCEPT !.status = "merged"]]
  /\ Goto(c, "save")
  /\ UNCHANGED <<copy, req, fresh, result>>

StartMerge(c) ==
  /\ pr' = [pr EXCEPT ![c] = prs[req[c].id]]
  /\ req' = [req EXCEPT ![c] =
       [@ EXCEPT !.ref = Target, !.old = copy[c].refs[Target], !.new = MergeHead(c)]]
  /\ Goto(c, "cas")
  /\ UNCHANGED <<copy, fresh, result>>

LoadPr(c) ==
  /\ pc[c] = "pr"
  /\ LET status == prs[req[c].id].status
     IN  \/ status = "none" /\ Answer(c, "failed")
         \/ status # "none" /\ req[c].kind = "note" /\ EditRecord(c, status)
         \/ status # "none" /\ req[c].kind = "close" /\ EditRecord(c, "closed")
         \/ status # "none" /\ req[c].kind = "reopen" /\ EditRecord(c, "open")
         \/ status = "open" /\ req[c].kind = "merge" /\ MergeHead(c) # NoOid /\ StartMerge(c)
         \/ /\ status # "none" /\ req[c].kind = "merge"
            /\ status # "open" \/ MergeHead(c) = NoOid
            /\ Answer(c, "failed")
  /\ UNCHANGED <<cloud, disk, touched, moved, serial>>

-----------------------------------------------------------------------------
(***************************************************************************)
(* updateRefCAS                                                            *)
(***************************************************************************)

\* Mutated: what the caller has loaded says which branches are protected.
Allowed_AsLoaded(c, d) ==
  \/ copy[c].prot[req[c].ref] = "open"
  \/ req[c].kind = "merge"
  \/ copy[c].prot[req[c].ref] = "override" /\ c \in Admin

\* assertRefAllowed
Allowed(c, d) ==
  \/ d.prot[req[c].ref] = "open"
  \/ req[c].kind = "merge"
  \/ d.prot[req[c].ref] = "override" /\ c \in Admin

\* A ref that the map does not have matches whatever the caller expects.
Matches(c, d) == d.refs[req[c].ref] \in {req[c].old, NoOid}

Edited(c, d) == [d EXCEPT !.refs[req[c].ref] = req[c].new]

\* set with merge: true writes the fields there are, and an empty map, but does
\* not remove the entry of a ref that the map no longer has.
Merged(c, d) ==
  IF req[c].new = NoOid /\ (\E r \in Ref \ {req[c].ref} : d.refs[r] # NoOid)
  THEN d ELSE Edited(c, d)

Refuse(c, d) ==
  \/ ~Allowed(c, d) /\ Answer(c, "forbidden")
  \/ Allowed(c, d) /\ ~Matches(c, d) /\ Answer(c, "stale")

\* The document is written; its audit trail makes every text of it a new one.
WriteDoc(d) ==
  /\ doc' = d
  /\ touched' = touched \cup {b \in Call : pc[b] = "put"}

Commit(c, d) ==
  /\ WriteDoc(d)
  /\ moved' = IF req[c].kind = "merge" THEN moved \cup {req[c].id} ELSE moved
  /\ Goto(c, "object")
  /\ UNCHANGED memory

\* GCP: a transaction.
Transact(c) ==
  /\ pc[c] = "cas" /\ cloud = "gcp"
  /\ \/ Allowed(c, doc) /\ Matches(c, doc) /\ Commit(c, Merged(c, doc))
     \/ Refuse(c, doc) /\ UNCHANGED <<doc, touched, moved>>
  /\ UNCHANGED <<cloud, prs, objects, serial>>

\* AWS: the document is read, and checked.
ReadDoc(c) ==
  /\ pc[c] = "cas" /\ cloud = "aws"
  /\ \/ /\ Allowed(c, doc) /\ Matches(c, doc)
        /\ fresh' = [fresh EXCEPT ![c] = doc]
        /\ touched' = touched \ {c}
        /\ Goto(c, "put")
        /\ UNCHANGED <<req, copy, pr, result>>
     \/ Refuse(c, doc) /\ UNCHANGED touched
  /\ UNCHANGED <<cloud, disk, moved, serial>>

\* Mutated: the put has no condition.
Unchanged_Skipped(c) == TRUE

\* The condition of the put: the document is the text that was read.
Unchanged(c) == c \notin touched

\* AWS: and replaced, unless it has changed meanwhile, in whatever part.
Put(c) ==
  /\ pc[c] = "put"
  /\ \/ Unchanged(c) /\ Commit(c, Edited(c, fresh[c]))
     \/ ~Unchanged(c) /\ Answer(c, "stale") /\ UNCHANGED <<doc, touched, moved>>
  /\ UNCHANGED <<cloud, prs, objects, serial>>

\* The Git ref object follows, outside the transaction.
WriteObject(c) ==
  /\ pc[c] = "object"
  /\ objects' = [objects EXCEPT ![req[c].ref] = req[c].new]
  /\ \/ req[c].kind = "update" /\ Answer(c, "ok")
     \/ req[c].kind = "merge" /\ Goto(c, "again") /\ UNCHANGED memory
  /\ UNCHANGED <<cloud, doc, touched, prs, moved, serial>>

-----------------------------------------------------------------------------
(***************************************************************************)
(* The rest of a merge                                                     *)
(***************************************************************************)
WriteAgain(c) ==
  /\ pc[c] = "again"
  /\ objects' = [objects EXCEPT ![Target] = req[c].new]
  /\ copy' = [copy EXCEPT ![c].refs[Target] = req[c].new]
  /\ pr' = [pr EXCEPT ![c].status = "merged"]
  /\ Goto(c, IF req[c].drop THEN "drop" ELSE "save")
  /\ UNCHANGED <<cloud, doc, touched, prs, req, fresh, result, moved, serial>>

\* Mutated: the merged branch stays in the ref map.
Forget_ObjectOnly(c) == UNCHANGED copy

Forget(c) == copy' = [copy EXCEPT ![c].refs[Source] = NoOid]

\* delete_branch: the source goes without a compare-and-swap.
DropSource(c) ==
  /\ pc[c] = "drop"
  /\ Forget(c)
  /\ objects' = [objects EXCEPT ![Source] = NoOid]
  /\ Goto(c, "save")
  /\ UNCHANGED <<cloud, doc, touched, prs, req, fresh, pr, result, moved, serial>>

-----------------------------------------------------------------------------
\* saveRepo: the whole document, whatever it is by now.
Save(c) ==
  /\ pc[c] = "save"
  /\ WriteDoc(copy[c])
  /\ \/ req[c].kind \in {"protect", "elsewhere"} /\ Answer(c, "ok")
     \/ /\ req[c].kind \notin {"protect", "elsewhere"}
        /\ Goto(c, "record")
        /\ UNCHANGED memory
  /\ UNCHANGED <<cloud, prs, objects, moved, serial>>

\* savePR: the whole record.
SaveRecord(c) ==
  /\ pc[c] = "record"
  /\ prs' = [prs EXCEPT ![req[c].id] = pr[c]]
  /\ Answer(c, "ok")
  /\ UNCHANGED <<cloud, doc, touched, objects, moved, serial>>

\* A call to the cloud fails, or the instance that serves the request ends.
Fail(c) ==
  /\ pc[c] \notin {"idle", "done"}
  /\ Answer(c, "failed")
  /\ serial' = FALSE
  /\ UNCHANGED <<cloud, disk, touched, moved>>

Serve(c) ==
  \/ Load(c) \/ LoadPr(c) \/ Transact(c) \/ ReadDoc(c) \/ Put(c) \/ WriteObject(c)
  \/ WriteAgain(c) \/ DropSource(c) \/ Save(c) \/ SaveRecord(c) \/ Fail(c)

IsUpdate(q) ==
  /\ q = [NoRequest EXCEPT !.kind = "update", !.ref = q.ref, !.old = q.old, !.new = q.new]
  /\ q.old # q.new

IsPrRequest(q) ==
  /\ q = [NoRequest EXCEPT !.kind = q.kind, !.id = q.id, !.drop = q.drop]
  /\ q.kind \in {"merge", "close", "reopen", "note"} /\ q.id \in Pr
  /\ q.drop => q.kind = "merge"

IsProtect(q) ==
  /\ q = [NoRequest EXCEPT !.kind = "protect", !.ref = q.ref, !.prot = q.prot]
  /\ q.ref \in Guarded

IsOther(q) ==
  /\ q = [NoRequest EXCEPT !.kind = q.kind]
  /\ q.kind \in {"create", "elsewhere"}

Requests == {q \in Request : IsUpdate(q) \/ IsPrRequest(q) \/ IsProtect(q) \/ IsOther(q)}

Next == \E c \in Call : Serve(c) \/ \E q \in Requests : Begin(c, q)

Spec == Init /\ [][Next]_vars

-----------------------------------------------------------------------------
(***************************************************************************)
(* Properties                                                              *)
(***************************************************************************)

\* c's compare-and-swap is accepted in this step.
Commits(c) == pc[c] \in {"cas", "put"} /\ pc'[c] = "object"

\* At the moment a push updates a branch, the branch is open, or an admin
\* pushes and overrides are allowed: a protection that is set while the request
\* is on its way counts.
ProtectionHolds ==
  [][\A c \in Call : Commits(c) /\ req[c].kind = "update" =>
       \/ doc.prot[req[c].ref] = "open"
       \/ doc.prot[req[c].ref] = "override" /\ c \in Admin]_vars

\* An accepted update replaces the value it expects, or none, and leaves alone
\* whatever other requests have written to the document.
SwapIsPrecise ==
  [][\A c \in Call : Commits(c) =>
       /\ doc.refs[req[c].ref] \in {req[c].old, NoOid}
       /\ doc' = [doc EXCEPT !.refs[req[c].ref] = doc'.refs[req[c].ref]]]_vars

\* A pull request that is recorded as merged has moved its target.
MergedHasMoved == \A i \in Pr : prs[i].status = "merged" => i \in moved

\* As long as no requests overlap or fail, the ref map of the AWS broker says
\* of every ref what the Git ref object says.
SerialAgrees ==
  serial /\ cloud = "aws" /\ (\A c \in Call : pc[c] \in {"idle", "load", "done"})
    => doc.refs = objects

\* The refs in the document change by compare-and-swap only.
RefsOnlyBySwap ==
  [][doc'.refs # doc.refs => \E c \in Call : Commits(c)]_vars
=============================================================================
