-------------------------------- MODULE Sync --------------------------------
(***************************************************************************)
(* The native push, fetch and pull commands (internal/app/native_git.go):  *)
(* clones of one repository exchange objects with a bucket and move one    *)
(* branch of it, through the broker, which compares and swaps, or, with    *)
(* --skip-broker, by writing the ref. Commands of different clones         *)
(* interleave at every request; a clone runs one command at a time.        *)
(*                                                                         *)
(* Objects are commits. What a fast-forward does to the files is Pull of   *)
(* Worktree.tla.                                                           *)
(***************************************************************************)
EXTENDS Naturals

CONSTANTS
  Clone,   \* the clones
  Oid,     \* commits
  NoOid,   \* no commit: the ref does not exist
  Parents  \* Parents[o]: the parents of commit o

Value == Oid \cup {NoOid}

ASSUME NoOidAssumption == NoOid \notin Oid
ASSUME ParentsAssumption == Parents \in [Oid -> SUBSET Oid]

VARIABLES
  remote,   \* the branch in the bucket and in the broker's ref map
  objects,  \* the objects in the bucket
  have,     \* have[k]: the objects of clone k
  tip,      \* tip[k]: the branch of k that HEAD names
  track,    \* track[k]: k's refs/remotes/bucketgit (and origin) branch
  pc,       \* pc[k]: the request that k's command is about to make
  mode,     \* mode[k]: which command that is
  old       \* old[k]: what a push takes the remote branch to be

vars == <<remote, objects, have, tip, track, pc, mode, old>>
bucket == <<remote, objects>>
clones == <<have, tip, track>>

Pushes == {"push", "force", "direct", "delete"}

TypeOK ==
  /\ remote \in Value
  /\ objects \subseteq Oid
  /\ have \in [Clone -> SUBSET Oid]
  /\ tip \in [Clone -> Value]
  /\ track \in [Clone -> Value]
  /\ pc \in [Clone -> {"idle", "upload", "record", "copy", "refs", "advance"}]
  /\ mode \in [Clone -> Pushes \cup {"fetch", "pull"}]
  /\ old \in [Clone -> Value]

\* What a walk from o meets when it can load only the commits that are present.
Reach(o, present) ==
  {x \in Oid :
    \A C \in SUBSET Oid :
      o \in C /\ (\A c \in C \cap present : Parents[c] \subseteq C) => x \in C}

\* o and everything it descends from; nothing, when there is no o.
History == [o \in Oid |-> Reach(o, Oid)]
Ancestors(o) == IF o = NoOid THEN {} ELSE History[o]

Goto(k, l) == pc' = [pc EXCEPT ![k] = l]

\* The command ends, and its local variables with it.
End(k) ==
  /\ Goto(k, "idle")
  /\ mode' = [mode EXCEPT ![k] = "fetch"]
  /\ old' = [old EXCEPT ![k] = NoOid]

\* The bucket has some history; the clones are new.
Init ==
  /\ remote \in Value
  /\ objects = Ancestors(remote)
  /\ have = [k \in Clone |-> {}]
  /\ tip = [k \in Clone |-> NoOid]
  /\ track = [k \in Clone |-> NoOid]
  /\ pc = [k \in Clone |-> "idle"]
  /\ mode = [k \in Clone |-> "fetch"]
  /\ old = [k \in Clone |-> NoOid]

\* commit, and merge of the remote-tracking branch; no other command is running.
Commit(k, o) ==
  /\ pc[k] = "idle"
  /\ o \notin have[k]
  /\ Parents[o] \subseteq have[k]
  /\ IF tip[k] = NoOid
     THEN Parents[o] = {}
     ELSE tip[k] \in Parents[o] /\ Parents[o] \subseteq {tip[k], track[k]}
  /\ have' = [have EXCEPT ![k] = @ \cup {o}]
  /\ tip' = [tip EXCEPT ![k] = o]
  /\ UNCHANGED <<bucket, track, pc, mode, old>>

-----------------------------------------------------------------------------
(***************************************************************************)
(* Push                                                                    *)
(***************************************************************************)

\* pushOldHash: without a remote branch, the remote-tracking branch is believed.
OldHash(k) == IF remote # NoOid THEN remote ELSE track[k]

\* When there is nothing to push, the remote-tracking branch is brought up to date.
StartPush(k, m) ==
  /\ pc[k] = "idle"
  /\ tip[k] # NoOid
  /\ IF m # "delete" /\ OldHash(k) = tip[k]
     THEN track' = [track EXCEPT ![k] = tip[k]] /\ UNCHANGED <<pc, mode, old>>
     ELSE /\ Goto(k, "upload")
          /\ mode' = [mode EXCEPT ![k] = m]
          /\ old' = [old EXCEPT ![k] = IF m = "delete" THEN remote ELSE OldHash(k)]
          /\ UNCHANGED track
  /\ UNCHANGED <<bucket, have, tip>>

Upload(k, o) ==
  /\ pc[k] = "upload"
  /\ o \in have[k] \ objects
  /\ objects' = objects \cup {o}
  /\ UNCHANGED <<remote, clones, pc, mode, old>>

\* Mutated: the objects may still be on their way.
Uploaded_Started(k) == have[k] \cap objects # {}

Uploaded(k) == have[k] \subseteq objects

Target(k) == IF mode[k] = "delete" THEN NoOid ELSE tip[k]

\* Mutated: isAncestor is asked of the remote-tracking branch.
FastForward_Tracked(k) == track[k] \in Reach(tip[k], have[k]) \cup {NoOid}

\* ensurePushFastForward
FastForward(k) == old[k] \in Reach(tip[k], have[k]) \cup {NoOid}

\* The broker refuses a swap from another value than the one it has.
SetRemote(k) ==
  /\ pc[k] = "upload"
  /\ Uploaded(k)
  /\ mode[k] \in {"push", "direct"} => FastForward(k)
  /\ mode[k] # "direct" => remote = old[k]
  /\ remote' = Target(k)
  /\ Goto(k, "record")
  /\ UNCHANGED <<objects, clones, mode, old>>

RecordPush(k) ==
  /\ pc[k] = "record"
  /\ track' = [track EXCEPT ![k] = Target(k)]
  /\ End(k)
  /\ UNCHANGED <<bucket, have, tip>>

-----------------------------------------------------------------------------
(***************************************************************************)
(* Fetch and pull                                                          *)
(***************************************************************************)

\* A pull of a branch that is here already only updates its remote-tracking branch.
StartFetch(k, m) ==
  /\ pc[k] = "idle"
  /\ IF m = "pull" /\ remote # NoOid /\ tip[k] = remote
     THEN track' = [track EXCEPT ![k] = remote] /\ UNCHANGED <<pc, mode>>
     ELSE Goto(k, "copy") /\ mode' = [mode EXCEPT ![k] = m] /\ UNCHANGED track
  /\ UNCHANGED <<bucket, have, tip, old>>

\* The objects are listed once and copied one by one, until all are here or the
\* command ends.
CopyObjects(k) ==
  /\ pc[k] = "copy"
  /\ \E S \in SUBSET objects :
       /\ have' = [have EXCEPT ![k] = @ \cup S]
       /\ IF objects \subseteq have'[k]
          THEN Goto(k, "refs") /\ UNCHANGED <<mode, old>>
          ELSE End(k)
  /\ UNCHANGED <<bucket, tip, track>>

\* The refs are read after the objects.  A branch that is gone stays tracked.
FetchRefs(k) ==
  /\ pc[k] = "refs"
  /\ track' = [track EXCEPT ![k] = IF remote = NoOid THEN @ ELSE remote]
  /\ IF mode[k] = "pull" THEN Goto(k, "advance") /\ UNCHANGED <<mode, old>> ELSE End(k)
  /\ UNCHANGED <<bucket, have, tip>>

\* An unborn branch follows whatever was fetched.
Advances(k) ==
  /\ track[k] # NoOid
  /\ tip[k] = NoOid \/ (track[k] \in have[k] /\ tip[k] \in Reach(track[k], have[k]))

Advance(k) ==
  /\ pc[k] = "advance"
  /\ tip' = [tip EXCEPT ![k] = IF Advances(k) THEN track[k] ELSE @]
  /\ End(k)
  /\ UNCHANGED <<bucket, have, track>>

\* A request fails, is refused, or its reply is lost; or the process ends.
Fail(k) ==
  /\ pc[k] # "idle"
  /\ End(k)
  /\ UNCHANGED <<bucket, clones>>

Next ==
  \E k \in Clone :
    \/ \E o \in Oid : Commit(k, o) \/ Upload(k, o)
    \/ \E m \in Pushes : StartPush(k, m)
    \/ \E m \in {"fetch", "pull"} : StartFetch(k, m)
    \/ SetRemote(k)
    \/ RecordPush(k)
    \/ CopyObjects(k)
    \/ FetchRefs(k)
    \/ Advance(k)
    \/ Fail(k)

Spec == Init /\ [][Next]_vars

-----------------------------------------------------------------------------
(***************************************************************************)
(* Properties                                                              *)
(***************************************************************************)

\* The bucket holds the whole history of its branch, and of every branch that a
\* clone tracks, although a clone that fetches during a push may lack a part.
RemoteComplete ==
  /\ Ancestors(remote) \subseteq objects
  /\ \A k \in Clone : Ancestors(track[k]) \subseteq objects

\* A push through the broker that is not forced drops no commit from the branch,
\* whatever the other clones have pushed since it read the refs.
PushesFastForward ==
  [][\A k \in Clone :
       mode[k] = "push" /\ pc[k] = "upload" /\ pc'[k] = "record"
         => Ancestors(remote) \subseteq Ancestors(remote')]_vars

\* Fetching, pulling and pushing lose no commit of a clone's own branch.
TipKept == [][\A k \in Clone : Ancestors(tip[k]) \subseteq Ancestors(tip'[k])]_vars

\* Neither pushes nor pulls lose commits: of the bucket's branch and of a clone's own.
BranchKept == PushesFastForward /\ TipKept
=============================================================================
