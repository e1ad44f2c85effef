------------------------- MODULE ConditionalRefStore -------------------------
(***************************************************************************)
(* CompareAndSwapRef of the S3 and GCS stores (store/s3/store.go,          *)
(* store/gcs/store.go), for one ref. The object is read together with its  *)
(* version tag, compared, and replaced by a request that the bucket        *)
(* refuses when the tag has changed. An S3 tag is an ETag, a digest of the *)
(* content; a GCS tag is a generation, never used twice. GCS fetches tag   *)
(* and content with two requests. A reply may be lost, and the client      *)
(* library may then send the same conditional request again.               *)
(***************************************************************************)
EXTENDS Naturals

CONSTANTS
  Proc,      \* callers
  Oid,       \* object ids
  NoOid,     \* the zero object id: no such ref
  Requests,  \* the <<old, new>> pairs that callers ask for
  MaxSends,  \* bound: how often a library may send one conditional request
  MaxGen     \* bound: number of generations, to keep the model finite

Value == Oid \cup {NoOid}

ASSUME NoOidAssumption == NoOid \notin Oid
ASSUME RequestsAssumption == Requests \subseteq Value \X Value
ASSUME SendsAssumption == MaxSends \in Nat \ {0}
ASSUME GenAssumption == MaxGen \in Nat \ {0}

VARIABLES
  tags,     \* "etag" (S3) or "generation" (GCS)
  attempts, \* how often the client library sends one conditional request
  ref,      \* the content of the object, or NoOid when there is none
  gen,      \* the generation of the object; the bucket never reuses one
  pc,       \* pc[p]: the request p is about to make
  seen,     \* seen[p]: the content and generation p has fetched
  sends,    \* sends[p]: how often p's conditional request was sent
  old, new, \* old[p], new[p]: the arguments of p's call
  status,   \* status[p]: how far p's call is, or how its last call ended
  applied   \* applied[p]: how often the bucket applied p's call (history)

deployment == <<tags, attempts>>
vars == <<deployment, ref, gen, pc, seen, sends, old, new, status, applied>>
bucket == <<ref, gen>>
args == <<old, new>>

NoSeen == [oid |-> NoOid, gen |-> 0]

TypeOK ==
  /\ tags \in {"etag", "generation"}
  /\ attempts \in 1..MaxSends
  /\ ref \in Value
  /\ gen \in 0..MaxGen
  /\ pc \in [Proc -> {"idle", "attrs", "fetch", "send", "reply", "done"}]
  /\ seen \in [Proc -> [oid : Value, gen : 0..MaxGen]]
  /\ sends \in [Proc -> 0..attempts]
  /\ old \in [Proc -> Value]
  /\ new \in [Proc -> Value]
  /\ status \in [Proc -> {"idle", "called", "applied", "ok", "conflict", "failed"}]
  /\ applied \in [Proc -> 0..attempts]

Goto(p, l) == pc' = [pc EXCEPT ![p] = l]
Mark(p, s) == status' = [status EXCEPT ![p] = s]
Stop(p, s) == Goto(p, "idle") /\ Mark(p, s)

Init ==
  /\ tags \in {"etag", "generation"}
  /\ attempts \in 1..MaxSends
  /\ ref \in Value
  /\ gen = 0
  /\ pc = [p \in Proc |-> "idle"]
  /\ seen = [p \in Proc |-> NoSeen]
  /\ sends = [p \in Proc |-> 0]
  /\ old = [p \in Proc |-> NoOid]
  /\ new = [p \in Proc |-> NoOid]
  /\ status = [p \in Proc |-> "idle"]
  /\ applied = [p \in Proc |-> 0]

Begin(p, o, n) ==
  /\ pc[p] = "idle"
  /\ old' = [old EXCEPT ![p] = o]
  /\ new' = [new EXCEPT ![p] = n]
  /\ seen' = [seen EXCEPT ![p] = NoSeen]
  /\ sends' = [sends EXCEPT ![p] = 0]
  /\ applied' = [applied EXCEPT ![p] = 0]
  /\ Goto(p, IF tags = "generation" THEN "attrs" ELSE "fetch")
  /\ Mark(p, "called")
  /\ UNCHANGED bucket

-----------------------------------------------------------------------------
(***************************************************************************)
(* Reading the ref with its tag, and comparing                             *)
(***************************************************************************)

\* Mutated: the content that was fetched is not compared with old.
Compare_Skipped(p, current) == Goto(p, "send") /\ UNCHANGED status

\* Deleting a ref that does not exist is done at once.
Compare(p, current) ==
  IF current # old[p] THEN Stop(p, "conflict")
  ELSE IF current = NoOid /\ new[p] = NoOid
       THEN Goto(p, "done") /\ Mark(p, "applied")
       ELSE Goto(p, "send") /\ UNCHANGED status

\* GCS: the attributes of the object give its generation, or that it is absent.
FetchAttrs(p) ==
  /\ pc[p] = "attrs"
  /\ seen' = [seen EXCEPT ![p] = [oid |-> NoOid, gen |-> gen]]
  /\ IF ref = NoOid
     THEN Compare(p, NoOid)
     ELSE Goto(p, "fetch") /\ UNCHANGED status
  /\ UNCHANGED <<bucket, sends, args, applied>>

\* GCS: reading a generation that has been replaced is an error, not a conflict.
\* S3: content and ETag come with one GetObject.
FetchContent(p) ==
  /\ pc[p] = "fetch"
  /\ IF tags = "generation" /\ (ref = NoOid \/ seen[p].gen # gen)
     THEN Stop(p, "failed") /\ UNCHANGED seen
     ELSE /\ seen' = [seen EXCEPT ![p] = [oid |-> ref, gen |-> gen]]
          /\ Compare(p, ref)
  /\ UNCHANGED <<bucket, sends, args, applied>>
-----------------------------------------------------------------------------
(***************************************************************************)
(* The conditional request                                                 *)
(***************************************************************************)

\* Mutated: a ref that did not exist is created with a plain PUT.
Condition_PlainCreate(p) ==
  \/ seen[p].oid = NoOid
  \/ ref # NoOid /\ ref = seen[p].oid

\* Mutated: a generation is compared by the content it had, like an ETag.
Condition_ByContent(p) == ref = seen[p].oid

\* If-None-Match: * for a ref that did not exist, else If-Match with its tag.
Condition(p) ==
  IF seen[p].oid = NoOid
  THEN ref = NoOid
  ELSE /\ ref # NoOid
       /\ IF tags = "generation" THEN gen = seen[p].gen ELSE ref = seen[p].oid

Replace(p) ==
  /\ ref' = new[p]
  /\ gen' = IF new[p] = NoOid THEN gen ELSE gen + 1
  /\ applied' = [applied EXCEPT ![p] = @ + 1]

\* Mutated: the library never gives up.
NoReply_Unbounded(p, sent) == Goto(p, "send") /\ UNCHANGED status

\* No reply: the library sends the same request again, or gives up.
NoReply(p, sent) ==
  IF sent < attempts
  THEN Goto(p, "send") /\ UNCHANGED status
  ELSE Stop(p, "failed")

Accepted(p) ==
  /\ Condition(p)
  /\ gen < MaxGen
  /\ Replace(p)
  /\ Goto(p, "reply")
  /\ Mark(p, "applied")

\* 412, and on S3 also 409 when requests race; without an object, 404, which
\* the stores do not take for a conflict.
Refused(p) ==
  /\ \/ ~Condition(p) /\ Stop(p, "conflict")
     \/ ~Condition(p) /\ ref = NoOid /\ Stop(p, "failed")
     \/ Condition(p) /\ tags = "etag" /\ Stop(p, "conflict")
  /\ UNCHANGED <<bucket, applied>>

\* The request, or the reply that refuses it, is lost.
Lost(p) ==
  /\ NoReply(p, sends[p] + 1)
  /\ UNCHANGED <<bucket, applied>>

Send(p) ==
  /\ pc[p] = "send"
  /\ sends' = [sends EXCEPT ![p] = @ + 1]
  /\ Accepted(p) \/ Refused(p) \/ Lost(p)
  /\ UNCHANGED <<seen, args>>

\* The bucket has applied the request; the reply arrives or is lost.
Reply(p) ==
  /\ pc[p] = "reply"
  /\ Stop(p, "ok") \/ NoReply(p, sends[p])
  /\ UNCHANGED <<bucket, seen, sends, args, applied>>

Done(p) ==
  /\ pc[p] = "done"
  /\ Stop(p, "ok")
  /\ UNCHANGED <<bucket, seen, sends, args, applied>>

\* A request of the read phase gets no reply.
Fail(p) ==
  /\ pc[p] \in {"attrs", "fetch"}
  /\ Stop(p, "failed")
  /\ UNCHANGED <<bucket, seen, sends, args, applied>>

Step(p) == FetchAttrs(p) \/ FetchContent(p) \/ Send(p) \/ Reply(p) \/ Done(p) \/ Fail(p)

Next ==
  /\ \E p \in Proc :
       \/ \E r \in Requests : Begin(p, r[1], r[2])
       \/ Step(p)
  /\ UNCHANGED deployment

Spec == Init /\ [][Next]_vars

-----------------------------------------------------------------------------
(***************************************************************************)
(* Properties                                                              *)
(***************************************************************************)

\* A call is one atomic compare-and-swap, and its answer is true of it, when
\* a request is sent once.  It holds for both kinds of tag: an ETag that has
\* come back stands for a content that has come back.
Abstract == INSTANCE AtomicRef WITH
  Proc <- Proc, Oid <- Oid, NoOid <- NoOid,
  ref <- ref, old <- old, new <- new, status <- status
ImplementsAtomicRef ==
  Abstract!Init /\ [][attempts = 1 => Abstract!Next]_(Abstract!vars)

\* The bucket replaces the ref only when it holds what the caller expected,
\* also when a request is sent again.
StaleWritersRejected ==
  [][\A p \in Proc : applied'[p] > applied[p] => ref = old[p]]_vars

\* A request to replace or delete a generation that is sent again is not
\* applied again, although the ref may have gone back to the expected value
\* meanwhile.  (The creation of a ref has no generation to name.)
AppliedAtMostOnce ==
  tags = "generation" => \A p \in Proc : old[p] # NoOid => applied[p] <= 1
=============================================================================
