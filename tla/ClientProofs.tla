---------------------------- MODULE ClientProofs ----------------------------
(***************************************************************************)
(* For any number of clones and any commit graph: the bucket holds the     *)
(* whole history of its branch and of every remote-tracking branch, pushes *)
(* that are not forced are fast-forwards, and no command of a clone takes  *)
(* its branch away from commits that it had. For any files, branches and   *)
(* commits of one clone: a merge keeps what both sides changed, and no     *)
(* command loses an edit or a commit that it was not told to drop.         *)
(***************************************************************************)
EXTENDS Client, WellFoundedInduction, TLAPS

-----------------------------------------------------------------------------
(***************************************************************************)
(* A clone may lack a part of the history of its own branch: it fetched    *)
(* while another clone uploaded. What it lacks is in the bucket, and stays *)
(* there.                                                                  *)
(***************************************************************************)
TipComplete == \A k \in Clone : Ancestors(tip[k]) \subseteq objects \cup have[k]

\* A push that has set the remote branch has uploaded the history of the clone's
\* own branch, which the remote-tracking branch follows next.
PushedComplete ==
  \A k \in Clone : pc[k] = "record" => Ancestors(Target(k)) \subseteq objects

\* A push is of a branch that has a commit.
PushHasTip == \A k \in Clone : pc[k] = "upload" => tip[k] # NoOid

IInv == TypeOK /\ RemoteComplete /\ TipComplete /\ PushedComplete /\ PushHasTip

-----------------------------------------------------------------------------
(***************************************************************************)
(* The commit graph                                                        *)
(***************************************************************************)

\* Its ancestors are what a walk from a commit meets that can load everything.
LEMMA AncestorsAreMet == ASSUME NEW o \in Oid PROVE Ancestors(o) = Reach(o, Oid)
  BY NoOidAssumption DEF Ancestors, History

\* A commit is its own ancestor, and its ancestors are commits.
LEMMA SelfAncestor ==
  ASSUME NEW o \in Oid PROVE o \in Ancestors(o) /\ Ancestors(o) \subseteq Oid
  BY AncestorsAreMet DEF Reach

\* Nothing descends from no commit.
LEMMA NoAncestors == Ancestors(NoOid) = {}
  BY DEF Ancestors

\* The ancestors of a value are commits.
LEMMA AncestorsType == ASSUME NEW v \in Value PROVE Ancestors(v) \subseteq Oid
  BY NoAncestors, SelfAncestor DEF Value

\* A walk that cannot load every commit meets nothing but ancestors, and they are
\* ancestors with all of theirs.
LEMMA ReachIsHistory ==
  ASSUME NEW o \in Oid, NEW present \in SUBSET Oid, NEW x \in Reach(o, present)
  PROVE  Ancestors(x) \subseteq Ancestors(o)
<1>1. x \in Oid
  BY DEF Reach
<1> SUFFICES ASSUME NEW y \in Ancestors(x) PROVE y \in Ancestors(o)
  OBVIOUS
<1>2. y \in Oid /\ o # NoOid
  BY <1>1, AncestorsType, NoOidAssumption DEF Value
<1>3. ASSUME NEW C \in SUBSET Oid, o \in C,
             \A c \in C \cap Oid : Parents[c] \subseteq C
      PROVE  y \in C
  <2>1. \A c \in C \cap present : Parents[c] \subseteq C
    BY <1>3
  <2>2. x \in C
    BY <1>3, <2>1 DEF Reach
  <2>3. y \in Reach(x, Oid)
    BY <1>1, AncestorsAreMet
  <2>4. QED
    BY <1>3, <2>2, <2>3 DEF Reach
<1>4. QED
  BY <1>2, <1>3, AncestorsAreMet DEF Reach

\* The ancestors of a parent are ancestors.
LEMMA ParentIsHistory ==
  ASSUME NEW o \in Oid, NEW p \in Parents[o] PROVE Ancestors(p) \subseteq Ancestors(o)
<1>1. p \in Oid
  BY ParentsAssumption
<1>2. p \in Reach(o, Oid)
  BY <1>1, ParentsAssumption DEF Reach
<1>3. QED
  BY <1>2, ReachIsHistory

\* The history of a commit is the commit, and the histories of its parents.
LEMMA HistoryOfCommit ==
  ASSUME NEW o \in Oid, NEW X,
         o \in X, \A p \in Parents[o] : Ancestors(p) \subseteq X
  PROVE  Ancestors(o) \subseteq X
<1> DEFINE C == {o} \cup {x \in Oid : \E p \in Parents[o] : x \in Ancestors(p)}
<1>1. Parents[o] \subseteq Oid
  BY ParentsAssumption
<1>2. o \in C /\ C \in SUBSET Oid
  OBVIOUS
<1>3. ASSUME NEW c \in C, NEW q \in Parents[c] PROVE q \in C
  <2>1. c \in Oid /\ q \in Oid
    BY <1>2, ParentsAssumption
  <2>2. CASE c = o
    BY <2>1, <2>2, <1>3, SelfAncestor
  <2>3. CASE c # o
    <3>1. PICK p \in Parents[o] : c \in Ancestors(p)
      BY <2>3
    <3>2. p \in Oid /\ p # NoOid
      BY <1>1, NoOidAssumption
    <3>3. c \in Reach(p, Oid)
      BY <3>1, <3>2, AncestorsAreMet
    <3>4. Ancestors(c) \subseteq Ancestors(p) /\ Ancestors(q) \subseteq Ancestors(c)
      BY <2>1, <3>2, <3>3, <1>3, ReachIsHistory, ParentIsHistory
    <3>5. q \in Ancestors(p)
      BY <2>1, <3>4, SelfAncestor
    <3>6. QED
      BY <2>1, <3>5
  <2>4. QED
    BY <2>2, <2>3
<1>4. C \subseteq X
  OBVIOUS
<1>5. \A c \in C \cap Oid : Parents[c] \subseteq C
  BY <1>3
<1> HIDE DEF C
<1>6. Reach(o, Oid) \subseteq C
  BY <1>2, <1>5 DEF Reach
<1>7. QED
  BY <1>4, <1>6, AncestorsAreMet

-----------------------------------------------------------------------------
(***************************************************************************)
(* The invariant                                                           *)
(***************************************************************************)

LEMMA InitInvariant == Init => IInv
<1> SUFFICES ASSUME Init PROVE IInv
  OBVIOUS
<1>1. objects \subseteq Oid
  BY AncestorsType DEF Init
<1>2. TypeOK
  BY <1>1 DEF Init, TypeOK, Value
<1>3. RemoteComplete
  BY NoAncestors DEF Init, RemoteComplete
<1>4. TipComplete
  BY NoAncestors DEF Init, TipComplete
<1>5. PushedComplete
  BY DEF Init, PushedComplete
<1>6. PushHasTip
  BY DEF Init, PushHasTip
<1>7. QED
  BY <1>2, <1>3, <1>4, <1>5, <1>6 DEF IInv

LEMMA StepKeepsTypes == TypeOK /\ [Next]_vars => TypeOK'
<1> SUFFICES ASSUME TypeOK, [Next]_vars PROVE TypeOK'
  OBVIOUS
<1> USE DEF TypeOK
<1>1. ASSUME NEW k \in Clone, NEW o \in Oid, Commit(k, o) PROVE TypeOK'
  BY <1>1 DEF Commit, bucket, Value
<1>2. ASSUME NEW k \in Clone, NEW o \in Oid, Upload(k, o) PROVE TypeOK'
  BY <1>2 DEF Upload, clones
<1>3. ASSUME NEW k \in Clone, NEW m \in Pushes, StartPush(k, m) PROVE TypeOK'
  <2>1. OldHash(k) \in Value
    BY DEF OldHash
  <2>2. QED
    BY <1>3, <2>1 DEF StartPush, Goto, bucket, Pushes
<1>4. ASSUME NEW k \in Clone, NEW m \in {"fetch", "pull"}, StartFetch(k, m) PROVE TypeOK'
  BY <1>4 DEF StartFetch, Goto, bucket
<1>5. ASSUME NEW k \in Clone, SetRemote(k) PROVE TypeOK'
  <2>1. Target(k) \in Value
    BY DEF Target, Value
  <2>2. QED
    BY <1>5, <2>1 DEF SetRemote, Goto, clones
<1>6. ASSUME NEW k \in Clone, RecordPush(k) PROVE TypeOK'
  <2>1. Target(k) \in Value
    BY DEF Target, Value
  <2>2. QED
    BY <1>6, <2>1 DEF RecordPush, End, Goto, bucket, Value
<1>7. ASSUME NEW k \in Clone, CopyObjects(k) PROVE TypeOK'
  <2>1. PICK S \in SUBSET objects : have' = [have EXCEPT ![k] = @ \cup S]
    BY <1>7 DEF CopyObjects
  <2>2. have' \in [Clone -> SUBSET Oid]
    BY <2>1
  <2>3. QED
    BY <1>7, <2>2 DEF CopyObjects, End, Goto, bucket, Value
<1>8. ASSUME NEW k \in Clone, FetchRefs(k) PROVE TypeOK'
  BY <1>8 DEF FetchRefs, End, Goto, bucket, Value
<1>9. ASSUME NEW k \in Clone, Advance(k) PROVE TypeOK'
  BY <1>9 DEF Advance, End, Goto, bucket, Value
<1>10. ASSUME NEW k \in Clone, Fail(k) PROVE TypeOK'
  BY <1>10 DEF Fail, End, Goto, bucket, clones, Value
<1>11. CASE UNCHANGED vars
  BY <1>11 DEF vars
<1>12. QED
  BY <1>1, <1>2, <1>3, <1>4, <1>5, <1>6, <1>7, <1>8, <1>9, <1>10, <1>11 DEF Next

\* A step moves one ref, to a value whose history is where it has to be.
LEMMA StepKeepsHistories ==
  IInv /\ [Next]_vars => (RemoteComplete /\ TipComplete /\ PushedComplete)'
<1> SUFFICES ASSUME IInv, [Next]_vars
             PROVE  (RemoteComplete /\ TipComplete /\ PushedComplete)'
  OBVIOUS
<1> USE DEF IInv, TypeOK, RemoteComplete, TipComplete, PushedComplete
<1>1. ASSUME NEW k \in Clone, NEW o \in Oid, Commit(k, o)
      PROVE  (RemoteComplete /\ TipComplete /\ PushedComplete)'
  <2> DEFINE Here == objects \cup have[k] \cup {o}
  <2>1. o \in Here /\ \A p \in Parents[o] : Ancestors(p) \subseteq Here
    BY <1>1 DEF Commit
  <2>2. Ancestors(o) \subseteq Here
    <3> HIDE DEF Here
    <3>1. QED
      BY <2>1, HistoryOfCommit
  <2>3. UNCHANGED <<remote, objects, track, pc, mode>>
    BY <1>1 DEF Commit, bucket
  <2>4. RemoteComplete'
    BY <2>3 DEF Ancestors
  <2>5. TipComplete'
    <3> SUFFICES ASSUME NEW j \in Clone
                 PROVE  Ancestors(tip'[j]) \subseteq objects' \cup have'[j]
      BY DEF Ancestors
    <3>1. CASE j = k
      BY <1>1, <2>2, <2>3, <3>1 DEF Commit
    <3>2. CASE j # k
      BY <1>1, <2>3, <3>2 DEF Commit
    <3>3. QED
      BY <3>1, <3>2
  <2>6. PushedComplete'
    <3> SUFFICES ASSUME NEW j \in Clone, pc'[j] = "record"
                 PROVE  Ancestors(Target(j)') \subseteq objects'
      BY DEF Ancestors
    <3>1. j # k
      BY <1>1, <2>3 DEF Commit
    <3>2. Target(j)' = Target(j)
      BY <1>1, <2>3, <3>1 DEF Commit, Target
    <3>3. QED
      BY <2>3, <3>2
  <2>7. QED
    BY <2>4, <2>5, <2>6
<1>2. ASSUME NEW k \in Clone, NEW o \in Oid, Upload(k, o)
      PROVE  (RemoteComplete /\ TipComplete /\ PushedComplete)'
  <2>1. UNCHANGED <<remote, track, tip, have, pc, mode>> /\ objects \subseteq objects'
    BY <1>2 DEF Upload, clones
  <2>2. QED
    BY <2>1 DEF Ancestors, Target
<1>3. ASSUME NEW k \in Clone, NEW m \in Pushes, StartPush(k, m)
      PROVE  (RemoteComplete /\ TipComplete /\ PushedComplete)'
  <2>1. UNCHANGED <<remote, objects, tip, have>>
    BY <1>3 DEF StartPush, bucket
  <2>2. RemoteComplete'
    <3> SUFFICES ASSUME NEW j \in Clone PROVE Ancestors(track'[j]) \subseteq objects
      BY <2>1 DEF Ancestors
    <3>1. CASE track' = track
      BY <3>1
    <3>2. CASE track' = [track EXCEPT ![k] = tip[k]] /\ OldHash(k) = tip[k]
      BY <3>2 DEF OldHash
    <3>3. QED
      BY <1>3, <3>1, <3>2 DEF StartPush
  <2>3. TipComplete'
    BY <2>1 DEF Ancestors
  <2>4. PushedComplete'
    <3> SUFFICES ASSUME NEW j \in Clone, pc'[j] = "record"
                 PROVE  Ancestors(Target(j)') \subseteq objects'
      BY DEF Ancestors
    <3>1. pc[j] = "record" /\ mode'[j] = mode[j]
      BY <1>3 DEF StartPush, Goto
    <3>2. QED
      BY <2>1, <3>1 DEF Target, Ancestors
  <2>5. QED
    BY <2>2, <2>3, <2>4
<1>4. ASSUME NEW k \in Clone, NEW m \in {"fetch", "pull"}, StartFetch(k, m)
      PROVE  (RemoteComplete /\ TipComplete /\ PushedComplete)'
  <2>1. UNCHANGED <<remote, objects, tip, have>>
    BY <1>4 DEF StartFetch, bucket
  <2>2. RemoteComplete'
    <3> SUFFICES ASSUME NEW j \in Clone PROVE Ancestors(track'[j]) \subseteq objects
      BY <2>1 DEF Ancestors
    <3>1. track'[j] \in {track[j], remote}
      BY <1>4 DEF StartFetch
    <3>2. QED
      BY <3>1
  <2>3. TipComplete'
    BY <2>1 DEF Ancestors
  <2>4. PushedComplete'
    <3> SUFFICES ASSUME NEW j \in Clone, pc'[j] = "record"
                 PROVE  Ancestors(Target(j)') \subseteq objects'
      BY DEF Ancestors
    <3>1. pc[j] = "record" /\ mode'[j] = mode[j]
      BY <1>4 DEF StartFetch, Goto
    <3>2. QED
      BY <2>1, <3>1 DEF Target, Ancestors
  <2>5. QED
    BY <2>2, <2>3, <2>4
<1>5. ASSUME NEW k \in Clone, SetRemote(k)
      PROVE  (RemoteComplete /\ TipComplete /\ PushedComplete)'
  <2>1. UNCHANGED <<objects, tip, track, have, mode>>
    BY <1>5 DEF SetRemote, clones
  <2>2. Ancestors(Target(k)) \subseteq objects
    BY <1>5, NoAncestors DEF SetRemote, Uploaded, Target
  <2>3. RemoteComplete'
    <3>1. Ancestors(remote') \subseteq objects
      BY <1>5, <2>2 DEF SetRemote
    <3>2. QED
      BY <2>1, <3>1 DEF Ancestors
  <2>4. TipComplete'
    BY <2>1 DEF Ancestors
  <2>5. PushedComplete'
    <3> SUFFICES ASSUME NEW j \in Clone, pc'[j] = "record"
                 PROVE  Ancestors(Target(j)') \subseteq objects'
      BY DEF Ancestors
    <3>1. Target(j)' = Target(j)
      BY <2>1 DEF Target
    <3>2. j = k \/ pc[j] = "record"
      BY <1>5 DEF SetRemote, Goto
    <3>3. QED
      BY <2>1, <2>2, <3>1, <3>2
  <2>6. QED
    BY <2>3, <2>4, <2>5
<1>6. ASSUME NEW k \in Clone, RecordPush(k)
      PROVE  (RemoteComplete /\ TipComplete /\ PushedComplete)'
  <2>1. UNCHANGED <<remote, objects, tip, have>>
    BY <1>6 DEF RecordPush, bucket
  <2>2. RemoteComplete'
    <3> SUFFICES ASSUME NEW j \in Clone PROVE Ancestors(track'[j]) \subseteq objects
      BY <2>1 DEF Ancestors
    <3>1. track'[j] \in {track[j], Target(k)}
      BY <1>6 DEF RecordPush, clones
    <3>2. QED
      BY <1>6, <3>1 DEF RecordPush
  <2>3. TipComplete'
    BY <2>1 DEF Ancestors
  <2>4. PushedComplete'
    <3> SUFFICES ASSUME NEW j \in Clone, pc'[j] = "record"
                 PROVE  Ancestors(Target(j)') \subseteq objects'
      BY DEF Ancestors
    <3>1. pc[j] = "record" /\ mode'[j] = mode[j]
      BY <1>6 DEF RecordPush, End, Goto
    <3>2. QED
      BY <2>1, <3>1 DEF Target, Ancestors
  <2>5. QED
    BY <2>2, <2>3, <2>4
<1>7. ASSUME NEW k \in Clone, CopyObjects(k)
      PROVE  (RemoteComplete /\ TipComplete /\ PushedComplete)'
  <2>1. UNCHANGED <<remote, objects, tip, track>>
    BY <1>7 DEF CopyObjects, bucket
  <2>2. \A j \in Clone : have[j] \subseteq have'[j]
    BY <1>7 DEF CopyObjects
  <2>3. RemoteComplete' /\ TipComplete'
    BY <2>1, <2>2 DEF Ancestors
  <2>4. PushedComplete'
    <3> SUFFICES ASSUME NEW j \in Clone, pc'[j] = "record"
                 PROVE  Ancestors(Target(j)') \subseteq objects'
      BY DEF Ancestors
    <3>1. pc[j] = "record" /\ mode'[j] = mode[j]
      BY <1>7 DEF CopyObjects, End, Goto
    <3>2. QED
      BY <2>1, <3>1 DEF Target, Ancestors
  <2>5. QED
    BY <2>3, <2>4
<1>8. ASSUME NEW k \in Clone, FetchRefs(k)
      PROVE  (RemoteComplete /\ TipComplete /\ PushedComplete)'
  <2>1. UNCHANGED <<remote, objects, tip, have>>
    BY <1>8 DEF FetchRefs, bucket
  <2>2. RemoteComplete'
    <3> SUFFICES ASSUME NEW j \in Clone PROVE Ancestors(track'[j]) \subseteq objects
      BY <2>1 DEF Ancestors
    <3>1. track'[j] \in {track[j], remote}
      BY <1>8 DEF FetchRefs, clones
    <3>2. QED
      BY <1>8, <3>1 DEF FetchRefs
  <2>3. TipComplete'
    BY <2>1 DEF Ancestors
  <2>4. PushedComplete'
    <3> SUFFICES ASSUME NEW j \in Clone, pc'[j] = "record"
                 PROVE  Ancestors(Target(j)') \subseteq objects'
      BY DEF Ancestors
    <3>1. pc[j] = "record" /\ mode'[j] = mode[j]
      BY <1>8 DEF FetchRefs, End, Goto
    <3>2. QED
      BY <2>1, <3>1 DEF Target, Ancestors
  <2>5. QED
    BY <2>2, <2>3, <2>4
<1>9. ASSUME NEW k \in Clone, Advance(k)
      PROVE  (RemoteComplete /\ TipComplete /\ PushedComplete)'
  <2>1. UNCHANGED <<remote, objects, track, have>>
    BY <1>9 DEF Advance, bucket
  <2>2. RemoteComplete'
    BY <2>1 DEF Ancestors
  <2>3. TipComplete'
    <3> SUFFICES ASSUME NEW j \in Clone
                 PROVE  Ancestors(tip'[j]) \subseteq objects \cup have[j]
      BY <2>1 DEF Ancestors
    <3>1. tip'[j] \in {tip[j], track[j]}
      BY <1>9 DEF Advance
    <3>2. QED
      BY <3>1
  <2>4. PushedComplete'
    <3> SUFFICES ASSUME NEW j \in Clone, pc'[j] = "record"
                 PROVE  Ancestors(Target(j)') \subseteq objects'
      BY DEF Ancestors
    <3>1. pc[j] = "record" /\ mode'[j] = mode[j] /\ tip'[j] = tip[j]
      BY <1>9 DEF Advance, End, Goto
    <3>2. QED
      BY <2>1, <3>1 DEF Target, Ancestors
  <2>5. QED
    BY <2>2, <2>3, <2>4
<1>10. ASSUME NEW k \in Clone, Fail(k)
      PROVE  (RemoteComplete /\ TipComplete /\ PushedComplete)'
  <2>1. UNCHANGED <<remote, objects, tip, have>>
    BY <1>10 DEF Fail, bucket, clones
  <2>2. RemoteComplete'
    <3> SUFFICES ASSUME NEW j \in Clone PROVE Ancestors(track'[j]) \subseteq objects
      BY <2>1 DEF Ancestors
    <3>1. track'[j] \in {track[j]}
      BY <1>10 DEF Fail, clones
    <3>2. QED
      BY <1>10, <3>1 DEF Fail
  <2>3. TipComplete'
    BY <2>1 DEF Ancestors
  <2>4. PushedComplete'
    <3> SUFFICES ASSUME NEW j \in Clone, pc'[j] = "record"
                 PROVE  Ancestors(Target(j)') \subseteq objects'
      BY DEF Ancestors
    <3>1. pc[j] = "record" /\ mode'[j] = mode[j]
      BY <1>10 DEF Fail, End, Goto
    <3>2. QED
      BY <2>1, <3>1 DEF Target, Ancestors
  <2>5. QED
    BY <2>2, <2>3, <2>4
<1>11. CASE UNCHANGED vars
  BY <1>11 DEF vars, Ancestors, Target
<1>12. QED
  BY <1>1, <1>2, <1>3, <1>4, <1>5, <1>6, <1>7, <1>8, <1>9, <1>10, <1>11 DEF Next

LEMMA StepKeepsTip == TypeOK /\ PushHasTip /\ [Next]_vars => PushHasTip'
<1> SUFFICES ASSUME TypeOK, PushHasTip, [Next]_vars, NEW j \in Clone, pc'[j] = "upload"
             PROVE  tip'[j] # NoOid
  BY DEF PushHasTip
<1> USE DEF TypeOK, PushHasTip
<1>1. ASSUME NEW k \in Clone, NEW o \in Oid, Commit(k, o) PROVE tip'[j] # NoOid
  BY <1>1, NoOidAssumption DEF Commit
<1>2. ASSUME NEW k \in Clone, NEW m \in Pushes, StartPush(k, m) PROVE tip'[j] # NoOid
  BY <1>2 DEF StartPush, Goto
<1>3. ASSUME NEW k \in Clone, NEW m \in {"fetch", "pull"}, StartFetch(k, m)
      PROVE  tip'[j] # NoOid
  BY <1>3 DEF StartFetch, Goto
<1>4. ASSUME NEW k \in Clone, Advance(k) PROVE tip'[j] # NoOid
  <2>1. j # k
    BY <1>4 DEF Advance, End, Goto
  <2>2. QED
    BY <1>4, <2>1 DEF Advance, End, Goto
<1>5. ASSUME NEW k \in Clone,
             \/ \E o \in Oid : Upload(k, o)
             \/ SetRemote(k)
             \/ RecordPush(k)
             \/ CopyObjects(k)
             \/ FetchRefs(k)
             \/ Fail(k)
      PROVE  tip'[j] # NoOid
  <2>1. tip' = tip
    BY <1>5 DEF Upload, SetRemote, RecordPush, CopyObjects, FetchRefs, Fail, clones
  <2>2. pc[j] = "upload"
    BY <1>5 DEF Upload, SetRemote, RecordPush, CopyObjects, FetchRefs, Fail, End, Goto
  <2>3. QED
    BY <2>1, <2>2
<1>6. CASE UNCHANGED vars
  BY <1>6 DEF vars
<1>7. QED
  BY <1>1, <1>2, <1>3, <1>4, <1>5, <1>6 DEF Next

LEMMA StepKeepsInvariant == IInv /\ [Next]_vars => IInv'
  BY StepKeepsTypes, StepKeepsHistories, StepKeepsTip DEF IInv

-----------------------------------------------------------------------------
(***************************************************************************)
(* The theorems                                                            *)
(***************************************************************************)

LEMMA Invariance == Spec => []IInv
  BY InitInvariant, StepKeepsInvariant, PTL DEF Spec

\* Every variable stays within its type (native_git.go, all commands).
THEOREM SyncTypes == Spec => []TypeOK
<1>1. IInv => TypeOK
  BY DEF IInv
<1>2. QED
  BY <1>1, Invariance, PTL

\* Whatever commands fail or end half way, and in whatever order their requests
\* reach the bucket, the bucket has the whole history of every ref that a clone
\* could fetch (uploadObjects before the broker's swap, fetch before the refs).
THEOREM BucketIsComplete == Spec => []RemoteComplete
<1>1. IInv => RemoteComplete
  BY DEF IInv
<1>2. QED
  BY <1>1, Invariance, PTL

\* A push that is not forced replaces a value that it descends from.
LEMMA PushIsFastForward ==
  ASSUME IInv, NEW k \in Clone, mode[k] = "push", SetRemote(k)
  PROVE  Ancestors(remote) \subseteq Ancestors(remote')
<1>1. /\ FastForward(k) /\ remote = old[k] /\ remote' = tip[k]
      /\ tip[k] \in Oid /\ have[k] \subseteq Oid
  BY DEF SetRemote, Target, IInv, TypeOK, PushHasTip, Value
<1>2. CASE remote = NoOid
  BY <1>2, NoAncestors
<1>3. CASE remote # NoOid
  <2>1. remote \in Reach(tip[k], have[k])
    BY <1>1, <1>3 DEF FastForward
  <2>2. QED
    BY <1>1, <2>1, ReachIsHistory
<1>4. QED
  BY <1>2, <1>3

\* Only the swap takes a push from its upload to its record.
LEMMA StepPushesForward ==
  ASSUME IInv, [Next]_vars, NEW k \in Clone,
         mode[k] = "push", pc[k] = "upload", pc'[k] = "record"
  PROVE  Ancestors(remote) \subseteq Ancestors(remote')
<1>1. CASE SetRemote(k)
  BY <1>1, PushIsFastForward
<1>2. ASSUME NEW j \in Clone, j # k \/ ~ SetRemote(k),
             \/ \E o \in Oid : Commit(j, o) \/ Upload(j, o)
             \/ \E m \in Pushes : StartPush(j, m)
             \/ \E m \in {"fetch", "pull"} : StartFetch(j, m)
             \/ SetRemote(j) \/ RecordPush(j) \/ CopyObjects(j)
             \/ FetchRefs(j) \/ Advance(j) \/ Fail(j)
      PROVE  FALSE
  <2> USE DEF IInv, TypeOK, Goto, End
  <2>1. ~ \E o \in Oid : Commit(j, o) \/ Upload(j, o)
    BY DEF Commit, Upload
  <2>2. ~ \E m \in Pushes : StartPush(j, m)
    BY DEF StartPush
  <2>3. ~ \E m \in {"fetch", "pull"} : StartFetch(j, m)
    BY DEF StartFetch
  <2>4. ~ SetRemote(j)
    BY <1>2 DEF SetRemote
  <2>5. ~ RecordPush(j) /\ ~ Advance(j) /\ ~ Fail(j)
    BY DEF RecordPush, Advance, Fail
  <2>6. ~ CopyObjects(j) /\ ~ FetchRefs(j)
    BY DEF CopyObjects, FetchRefs
  <2>7. QED
    BY <1>2, <2>1, <2>2, <2>3, <2>4, <2>5, <2>6
<1>3. ~ UNCHANGED vars
  BY DEF vars
<1>4. QED
  BY <1>1, <1>2, <1>3 DEF Next

LEMMA StepKeepsTips ==
  ASSUME IInv, [Next]_vars, NEW j \in Clone
  PROVE  Ancestors(tip[j]) \subseteq Ancestors(tip'[j])
<1> USE DEF IInv, TypeOK
<1>1. ASSUME NEW k \in Clone, NEW o \in Oid, Commit(k, o)
      PROVE  Ancestors(tip[j]) \subseteq Ancestors(tip'[j])
  <2>1. CASE j = k /\ tip[k] # NoOid
    BY <1>1, <2>1, ParentIsHistory DEF Commit
  <2>2. CASE j = k /\ tip[k] = NoOid
    BY <2>2, NoAncestors
  <2>3. CASE j # k
    BY <1>1, <2>3 DEF Commit
  <2>4. QED
    BY <2>1, <2>2, <2>3
<1>2. ASSUME NEW k \in Clone, Advance(k)
      PROVE  Ancestors(tip[j]) \subseteq Ancestors(tip'[j])
  <2>1. CASE j = k /\ Advances(k) /\ tip[k] # NoOid
    <3>1. track[k] \in Oid /\ have[k] \subseteq Oid /\ tip[k] \in Reach(track[k], have[k])
      BY <2>1 DEF Advances, Value
    <3>2. QED
      BY <1>2, <2>1, <3>1, ReachIsHistory DEF Advance
  <2>2. CASE j = k /\ tip[k] = NoOid
    BY <2>2, NoAncestors
  <2>3. CASE j # k \/ ~ Advances(k)
    BY <1>2, <2>3 DEF Advance
  <2>4. QED
    BY <2>1, <2>2, <2>3
<1>3. CASE tip' = tip
  BY <1>3
<1>4. QED
  BY <1>1, <1>2, <1>3
  DEF Next, Upload, StartPush, StartFetch, SetRemote, RecordPush, CopyObjects,
      FetchRefs, Fail, clones, vars

\* Nobody's commits fall out of the branch: a push that is not forced moves it to a
\* descendant of the value it replaces, and what a clone runs keeps the history of
\* its own branch (ensurePushFastForward, the broker's swap, and the pull).
THEOREM NoCommitIsLost == Spec => BranchKept
<1>1. IInv /\ [Next]_vars =>
        [\A k \in Clone :
           mode[k] = "push" /\ pc[k] = "upload" /\ pc'[k] = "record"
             => Ancestors(remote) \subseteq Ancestors(remote')]_vars
  BY StepPushesForward
<1>2. IInv /\ [Next]_vars =>
        [\A k \in Clone : Ancestors(tip[k]) \subseteq Ancestors(tip'[k])]_vars
  BY StepKeepsTips
<1>3. Spec => PushesFastForward
  BY <1>1, Invariance, PTL DEF Spec, PushesFastForward
<1>4. Spec => TipKept
  BY <1>2, Invariance, PTL DEF Spec, TipKept
<1>5. QED
  BY <1>3, <1>4 DEF BranchKept

-----------------------------------------------------------------------------
(***************************************************************************)
(* The types of the worktree                                               *)
(***************************************************************************)
CommitType == [tree : W!Tree, parents : Seq(Nat)]

\* The commits of the store: each has parents that are older.
StoreTyped ==
  /\ commits \in Seq(CommitType) /\ Len(commits) <= MaxCommits
  /\ \A c \in W!Commits : W!ParentsOf(c) \subseteq 1..(c - 1)

RefsTyped ==
  /\ refs \in [Branch -> 0..Len(commits)] /\ stash \in 0..Len(commits)
  /\ head \in Branch \cup W!Commits

FilesTyped == index \in W!Tree /\ work \in W!Tree

LEMMA WorktreeParts ==
  W!TypeOK <=> StoreTyped /\ RefsTyped /\ FilesTyped /\ commands \in 0..MaxCommands
BY DEF W!TypeOK, StoreTyped, RefsTyped, FilesTyped, CommitType

LEMMA CommitTypes ==
  ASSUME StoreTyped
  PROVE  /\ Len(commits) \in Nat /\ W!Commits = 1..Len(commits)
         /\ \A c \in W!Commits : /\ commits[c] \in CommitType /\ commits[c].tree \in W!Tree
                                 /\ commits[c].parents \in Seq(Nat) /\ Len(commits[c].parents) \in Nat
<1>1. Len(commits) \in Nat /\ W!Commits = 1..Len(commits)
  BY DEF StoreTyped, W!Commits
<1>2. ASSUME NEW c \in W!Commits  PROVE commits[c] \in CommitType
  BY <1>1, <1>2 DEF StoreTyped
<1>3. ASSUME NEW r \in CommitType  PROVE r.tree \in W!Tree /\ r.parents \in Seq(Nat)
  BY DEF CommitType
<1> QED  BY <1>1, <1>2, <1>3

LEMMA Parent ==
  ASSUME StoreTyped, NEW c \in W!Commits, NEW i \in 1..Len(commits[c].parents)
  PROVE  commits[c].parents[i] \in 1..(c - 1) /\ commits[c].parents[i] \in W!Commits
<1>1. commits[c].parents[i] \in W!ParentsOf(c)
  BY DEF W!ParentsOf
<1>2. commits[c].parents[i] \in 1..(c - 1)
  BY <1>1 DEF StoreTyped
<1> QED  BY <1>2, CommitTypes

LEMMA TreeTypes ==
  ASSUME StoreTyped
  PROVE  W!NoFiles \in W!Tree /\ \A c \in 0..Len(commits) : W!TreeOf(c) \in W!Tree
<1>1. W!NoFiles \in W!Tree
  BY DEF W!NoFiles, W!Tree
<1>2. ASSUME NEW c \in 0..Len(commits)  PROVE W!TreeOf(c) \in W!Tree
  <2>1. c = 0 \/ c \in W!Commits  BY CommitTypes
  <2> QED  BY <1>1, <2>1, CommitTypes DEF W!TreeOf
<1> QED  BY <1>1, <1>2

LEMMA HeadTypes ==
  ASSUME StoreTyped, RefsTyped
  PROVE  W!HeadCommit \in 0..Len(commits)
BY CommitTypes DEF RefsTyped, W!HeadCommit

\* A commit that is added is the newest; the others are what they were.
LEMMA Added ==
  ASSUME StoreTyped, NEW tree \in W!Tree, NEW ps \in Seq(Nat), \A i \in 1..Len(ps) : ps[i] \in W!Commits,
         W!Store(tree, ps)
  PROVE  /\ StoreTyped' /\ Len(commits') = Len(commits) + 1 /\ W!Newest \in W!Commits'
         /\ W!Newest = Len(commits) + 1
         /\ commits'[W!Newest] = [tree |-> tree, parents |-> ps]
         /\ \A c \in W!Commits : c \in W!Commits' /\ commits'[c] = commits[c]
<1> DEFINE new == [tree |-> tree, parents |-> ps]
<1>1. new \in CommitType
  BY DEF CommitType
<1>2. commits' = Append(commits, new) /\ Len(commits) < MaxCommits
  BY DEF W!Store
<1>3. commits \in Seq(CommitType) /\ Len(commits) \in Nat
  BY CommitTypes DEF StoreTyped
<1>4. new.parents = ps
  OBVIOUS
<1> HIDE DEF new
<1>5. /\ commits' \in Seq(CommitType) /\ Len(commits') = Len(commits) + 1
      /\ commits'[Len(commits) + 1] = new
      /\ \A c \in 1..Len(commits) : commits'[c] = commits[c]
  BY <1>1, <1>2, <1>3
<1>6. Len(commits') <= MaxCommits
  BY <1>2, <1>3, <1>5, BoundsAssumption
<1>7. W!Commits' = 1..Len(commits') /\ W!Commits = 1..Len(commits)
  BY DEF W!Commits
<1>8. ASSUME NEW c \in W!Commits'  PROVE W!ParentsOf(c)' \subseteq 1..(c - 1)
  <2>1. CASE c \in W!Commits
    <3>1. W!ParentsOf(c)' = W!ParentsOf(c)  BY <2>1, <1>5, <1>7 DEF W!ParentsOf
    <3> QED  BY <3>1, <2>1 DEF StoreTyped
  <2>2. CASE c = Len(commits) + 1
    <3>1. W!ParentsOf(c)' = {ps[i] : i \in 1..Len(ps)}  BY <2>2, <1>4, <1>5 DEF W!ParentsOf
    <3>2. \A i \in 1..Len(ps) : ps[i] \in 1..(c - 1)  BY <2>2, <1>3, <1>7
    <3> QED  BY <3>1, <3>2
  <2> QED  BY <2>1, <2>2, <1>3, <1>5, <1>7
<1>9. StoreTyped'
  BY <1>5, <1>6, <1>8 DEF StoreTyped, CommitType
<1>10. W!Newest \in W!Commits' /\ W!Newest = Len(commits) + 1
  BY <1>3, <1>5, <1>7 DEF W!Newest
<1>11. \A c \in W!Commits : c \in W!Commits' /\ commits'[c] = commits[c]
  BY <1>3, <1>5, <1>7
<1> QED  BY <1>5, <1>9, <1>10, <1>11 DEF new

LEMMA HeadParents ==
  ASSUME StoreTyped, RefsTyped
  PROVE  W!HeadAsParent \in Seq(Nat) /\ \A i \in 1..Len(W!HeadAsParent) : W!HeadAsParent[i] \in W!Commits
<1>1. CASE W!HeadCommit = 0
  <2>1. W!HeadAsParent = << >>  BY <1>1 DEF W!HeadAsParent
  <2> QED  BY <2>1
<1>2. CASE W!HeadCommit # 0
  <2>1. W!HeadCommit \in W!Commits /\ W!HeadCommit \in Nat  BY <1>2, HeadTypes, CommitTypes
  <2>2. W!HeadAsParent = <<W!HeadCommit>>  BY <1>2 DEF W!HeadAsParent
  <2> HIDE DEF W!HeadCommit
  <2> QED  BY <2>1, <2>2
<1> QED  BY <1>1, <1>2

\* HEAD moves to a commit of the store, that may just have been added.
LEMMA HeadMoves ==
  ASSUME StoreTyped, RefsTyped, StoreTyped', Len(commits) <= Len(commits'), NEW c \in W!Commits', W!SetHead(c)
  PROVE  /\ refs' \in [Branch -> 0..Len(commits')] /\ head' \in Branch \cup W!Commits'
         /\ W!HeadCommit' = c
<1>1. Len(commits) \in Nat /\ Len(commits') \in Nat /\ W!Commits' = 1..Len(commits') /\ W!Commits = 1..Len(commits)
  BY DEF StoreTyped, W!Commits
<1>2. c \in 1..Len(commits') /\ c \in 0..Len(commits')
  BY <1>1
<1>3. c \notin Branch
  BY <1>1, <1>2, BranchAssumption, BoundsAssumption DEF StoreTyped
<1>4. 0..Len(commits) \subseteq 0..Len(commits')
  BY <1>1
<1>5. refs \in [Branch -> 0..Len(commits)] /\ refs \in [Branch -> 0..Len(commits')]
  BY <1>4 DEF RefsTyped
<1>6. CASE head \in Branch
  <2>1. refs' = [refs EXCEPT ![head] = c] /\ head' = head  BY <1>6 DEF W!SetHead
  <2> QED  BY <1>2, <1>5, <1>6, <2>1 DEF W!HeadCommit
<1>7. CASE head \notin Branch
  <2>1. refs' = refs /\ head' = c  BY <1>7 DEF W!SetHead
  <2> QED  BY <1>2, <1>3, <1>5, <2>1 DEF W!HeadCommit
<1> QED  BY <1>6, <1>7

LEMMA CheckoutTypes ==
  ASSUME FilesTyped, NEW tree \in W!Tree, W!Checkout(tree)
  PROVE  FilesTyped'
<1>1. work' \in W!Tree
  <2> DEFINE gone == {p \in Path \ W!Dirty : index[p] # NoBlob /\ tree[p] = NoBlob}
             written == IF W!Conflicts(tree) = {} THEN W!Written(tree) ELSE {}
  <2>1. work' = [p \in Path |-> IF p \in gone THEN NoBlob ELSE IF p \in written THEN tree[p] ELSE work[p]]
    BY DEF W!Checkout
  <2> HIDE DEF gone, written
  <2> QED  BY <2>1 DEF FilesTyped, W!Tree
<1>2. index' \in W!Tree
  BY DEF W!Checkout, FilesTyped
<1> QED  BY <1>1, <1>2 DEF FilesTyped

Same == UNCHANGED <<commits, refs, stash, head>>

LEMMA SameTypes == StoreTyped /\ RefsTyped /\ Same => StoreTyped' /\ RefsTyped'
BY DEF StoreTyped, RefsTyped, Same, W!Commits, W!ParentsOf

\* Files and the index.
LEMMA FilesKeepTypes ==
  ASSUME StoreTyped, RefsTyped, FilesTyped, W!Files
  PROVE  StoreTyped' /\ RefsTyped' /\ FilesTyped'
<1> DEFINE T == [Path -> Blob \cup {NoBlob}]
<1>1. index \in T /\ work \in T
  BY DEF FilesTyped, W!Tree
<1>2. \A c \in W!Commits : W!TreeOf(c) \in T
  BY TreeTypes, CommitTypes DEF W!Tree
<1>3. \A t \in T, p \in Path, v \in Blob \cup {NoBlob} : [t EXCEPT ![p] = v] \in T
  OBVIOUS
<1>4. \A t \in T, p \in Path : t[p] \in Blob \cup {NoBlob}
  OBVIOUS
<1>5. ASSUME NEW p \in Path, NEW v \in Blob \cup {NoBlob}, W!Edit(p, v)  PROVE Same /\ index' \in T /\ work' \in T
  BY <1>1, <1>3, <1>5 DEF W!Edit, Same
<1>6. ASSUME NEW p \in Path, W!Add(p)  PROVE Same /\ index' \in T /\ work' \in T
  BY <1>1, <1>3, <1>4, <1>6 DEF W!Add, Same
<1>7. ASSUME NEW p \in Path, W!Remove(p) \/ W!RestoreFromIndex(p)  PROVE Same /\ index' \in T /\ work' \in T
  BY <1>1, <1>3, <1>4, <1>7 DEF W!Remove, W!RestoreFromIndex, Same
<1>8. ASSUME NEW p \in Path, NEW q \in Path, W!Move(p, q)  PROVE Same /\ index' \in T /\ work' \in T
  <2>1. work' = [work EXCEPT ![q] = work[p], ![p] = NoBlob]
    BY <1>8 DEF W!Move
  <2>2. index' = [index EXCEPT ![q] = index[p], ![p] = NoBlob] \/ index' = [index EXCEPT ![q] = work[p]]
    BY <1>8 DEF W!Move
  <2>3. work' \in T /\ index' \in T
    BY <1>1, <2>1, <2>2
  <2> QED  BY <1>8, <2>3 DEF W!Move, Same
<1>9. ASSUME NEW c \in W!Commits, NEW p \in Path, NEW s \in BOOLEAN, NEW w \in BOOLEAN, W!Restore(c, p, s, w)
      PROVE  Same /\ index' \in T /\ work' \in T
  BY <1>1, <1>2, <1>3, <1>4, <1>9 DEF W!Restore, Same
<1>10. ASSUME W!AddAll \/ W!Clean  PROVE Same /\ index' \in T /\ work' \in T
  BY <1>1, <1>10 DEF W!AddAll, W!Clean, Same
<1>11. Same /\ index' \in T /\ work' \in T
  BY <1>5, <1>6, <1>7, <1>8, <1>9, <1>10 DEF W!Files, W!CheckoutPath, W!ResetPath
<1> QED  BY <1>11, SameTypes DEF FilesTyped, W!Tree

\* Types of refs that do not move, while a commit may be added.
LEMMA RefsStay ==
  ASSUME StoreTyped, RefsTyped, StoreTyped', Len(commits) <= Len(commits')
  PROVE  /\ W!Commits \subseteq W!Commits' /\ 0..Len(commits) \subseteq 0..Len(commits')
         /\ stash' = stash => stash' \in 0..Len(commits')
         /\ refs' = refs => refs' \in [Branch -> 0..Len(commits')]
         /\ head' = head => head' \in Branch \cup W!Commits'
<1>1. Len(commits) \in Nat /\ Len(commits') \in Nat /\ W!Commits' = 1..Len(commits') /\ W!Commits = 1..Len(commits)
  BY DEF StoreTyped, W!Commits
<1>2. W!Commits \subseteq W!Commits' /\ 0..Len(commits) \subseteq 0..Len(commits')
  BY <1>1
<1>3. refs \in [Branch -> 0..Len(commits')]
  BY <1>2 DEF RefsTyped
<1> QED  BY <1>2, <1>3 DEF RefsTyped

WorktreeTyped == StoreTyped /\ RefsTyped /\ FilesTyped

LEMMA StoreStays == StoreTyped /\ UNCHANGED commits => StoreTyped' /\ W!Commits' = W!Commits /\ Len(commits') = Len(commits)
BY DEF StoreTyped, W!Commits, W!ParentsOf

\* A command that adds a commit, or does not, and then moves HEAD to it or leaves it.
LEMMA HeadKeepsTypes ==
  ASSUME StoreTyped, RefsTyped, StoreTyped', Len(commits) <= Len(commits'), NEW c \in W!Commits',
         W!SetHead(c), UNCHANGED stash
  PROVE  RefsTyped' /\ W!HeadCommit' = c
BY HeadMoves, RefsStay DEF RefsTyped

LEMMA CommitKeepsTypes ==
  ASSUME WorktreeTyped, NEW all \in BOOLEAN, W!Commit(all)
  PROVE  WorktreeTyped'
<1> DEFINE tree == IF all THEN [p \in Path |-> IF index[p] = NoBlob THEN NoBlob ELSE work[p]] ELSE index
<1>1. StoreTyped /\ RefsTyped /\ index \in W!Tree /\ work \in W!Tree
  BY DEF WorktreeTyped, FilesTyped
<1>2. tree \in W!Tree
  BY <1>1 DEF W!Tree
<1>3. /\ index' = tree /\ UNCHANGED <<stash, work>>
      /\ \/ UNCHANGED <<commits, refs, head>>
         \/ W!Store(tree, W!HeadAsParent) /\ W!SetHead(W!Newest)
  BY DEF W!Commit
<1> HIDE DEF tree
<1>4. FilesTyped'
  BY <1>1, <1>2, <1>3 DEF FilesTyped
<1>5. CASE UNCHANGED <<commits, refs, head>>
  BY <1>1, <1>3, <1>4, <1>5, SameTypes DEF Same, WorktreeTyped
<1>6. CASE W!Store(tree, W!HeadAsParent) /\ W!SetHead(W!Newest)
  <2>1. StoreTyped' /\ Len(commits') = Len(commits) + 1 /\ W!Newest \in W!Commits'
    BY <1>1, <1>2, <1>6, HeadParents, Added
  <2>2. Len(commits) <= Len(commits')
    BY <1>1, <2>1, CommitTypes
  <2>3. RefsTyped'
    BY <1>1, <1>3, <1>6, <2>1, <2>2, HeadKeepsTypes
  <2> QED  BY <1>4, <2>1, <2>3 DEF WorktreeTyped
<1> QED  BY <1>3, <1>5, <1>6

LEMMA MoveKeepsTypes ==
  ASSUME WorktreeTyped, UNCHANGED commits, NEW c \in W!Commits, NEW tree \in W!Tree, W!MoveTo(c, tree)
  PROVE  WorktreeTyped'
<1>1. StoreTyped /\ RefsTyped /\ FilesTyped /\ StoreTyped' /\ W!Commits' = W!Commits /\ Len(commits) <= Len(commits')
  BY StoreStays, CommitTypes DEF WorktreeTyped
<1>2. RefsTyped'
  BY <1>1, HeadKeepsTypes DEF W!MoveTo
<1>3. FilesTyped'
  BY <1>1, CheckoutTypes DEF W!MoveTo
<1> QED  BY <1>1, <1>2, <1>3 DEF WorktreeTyped

LEMMA MergedTypes ==
  ASSUME NEW base, NEW ours \in W!Tree, NEW theirs \in W!Tree
  PROVE  W!MergedTree(base, ours, theirs) \in W!Tree
BY DEF W!MergedTree, W!Tree

LEMMA ThreeWayKeepsTypes ==
  ASSUME WorktreeTyped, NEW c \in W!Commits, W!ThreeWay(c)
  PROVE  WorktreeTyped'
<1> DEFINE base == W!MergeBase(W!HeadCommit, c)
           tree == W!MergedTree(W!TreeOf(base), W!TreeOf(W!HeadCommit), W!TreeOf(c))
           ps == <<W!HeadCommit, c>>
<1>1. StoreTyped /\ RefsTyped /\ FilesTyped
  BY DEF WorktreeTyped
<1>2. W!HeadCommit # 0 /\ W!Store(tree, ps) /\ W!MoveTo(W!Newest, tree)
  BY DEF W!ThreeWay
<1>3. W!HeadCommit \in W!Commits /\ W!Commits = 1..Len(commits) /\ Len(commits) \in Nat
  BY <1>1, <1>2, HeadTypes, CommitTypes
<1>4. tree \in W!Tree
  BY <1>1, <1>3, TreeTypes, MergedTypes
<1>5. ps \in Seq(Nat) /\ \A i \in 1..Len(ps) : ps[i] \in W!Commits
  <2>1. \A h, d \in 1..Len(commits) :
          <<h, d>> \in Seq(Nat) /\ \A i \in 1..Len(<<h, d>>) : <<h, d>>[i] \in 1..Len(commits)
    OBVIOUS
  <2> QED  BY <1>3, <2>1
<1> HIDE DEF tree, ps
<1>6. StoreTyped' /\ Len(commits') = Len(commits) + 1 /\ W!Newest \in W!Commits'
  BY <1>1, <1>2, <1>4, <1>5, Added
<1>7. RefsTyped'
  BY <1>1, <1>2, <1>3, <1>6, HeadKeepsTypes DEF W!MoveTo
<1>8. FilesTyped'
  BY <1>1, <1>2, <1>4, CheckoutTypes DEF W!MoveTo
<1> QED  BY <1>6, <1>7, <1>8 DEF WorktreeTyped

\* The trees of a commit and of its first parent, in one order or the other.
LEMMA DeltaTypes ==
  ASSUME StoreTyped, NEW c \in W!Commits, NEW reverse \in BOOLEAN
  PROVE  /\ W!TreeOf(IF commits[c].parents = << >> THEN 0 ELSE commits[c].parents[1]) \in W!Tree
         /\ W!Delta(c, reverse)[1] \in W!Tree /\ W!Delta(c, reverse)[2] \in W!Tree
<1> DEFINE parent == W!TreeOf(IF commits[c].parents = << >> THEN 0 ELSE commits[c].parents[1])
<1>1. commits[c].parents # << >> => commits[c].parents[1] \in W!Commits
  <2>1. commits[c].parents \in Seq(Nat)  BY CommitTypes
  <2>2. commits[c].parents # << >> => 1 \in 1..Len(commits[c].parents)  BY <2>1
  <2> QED  BY <2>2, Parent
<1>2. parent \in W!Tree
  BY <1>1, TreeTypes, CommitTypes
<1>3. W!TreeOf(c) \in W!Tree
  BY TreeTypes, CommitTypes
<1>4. W!Delta(c, reverse) = IF reverse THEN <<W!TreeOf(c), parent>> ELSE <<parent, W!TreeOf(c)>>
  BY DEF W!Delta
<1> HIDE DEF parent
<1>5. W!Delta(c, reverse)[1] \in W!Tree /\ W!Delta(c, reverse)[2] \in W!Tree
  BY <1>2, <1>3, <1>4
<1> QED  BY <1>2, <1>5 DEF parent

LEMMA ApplyKeepsTypes ==
  ASSUME WorktreeTyped, NEW c \in W!Commits, NEW reverse \in BOOLEAN, W!ApplyDelta(c, reverse)
  PROVE  WorktreeTyped'
<1> DEFINE from == W!Delta(c, reverse)[1]
           to == W!Delta(c, reverse)[2]
           changed(tree) == [p \in Path |-> IF from[p] # to[p] THEN to[p] ELSE tree[p]]
<1>1. StoreTyped /\ RefsTyped /\ FilesTyped /\ index \in W!Tree /\ work \in W!Tree
  BY DEF WorktreeTyped, FilesTyped
<1>2. to \in W!Tree
  BY <1>1, DeltaTypes
<1>3. /\ W!Store(changed(index), W!HeadAsParent) /\ W!SetHead(W!Newest) /\ index' = changed(index)
      /\ work' = changed(work) /\ UNCHANGED stash
  BY DEF W!ApplyDelta
<1> HIDE DEF from, to
<1>4. changed(index) \in W!Tree /\ changed(work) \in W!Tree
  BY <1>1, <1>2 DEF W!Tree
<1> HIDE DEF changed
<1>5. StoreTyped' /\ Len(commits') = Len(commits) + 1 /\ W!Newest \in W!Commits'
  BY <1>1, <1>3, <1>4, HeadParents, Added
<1>6. Len(commits) <= Len(commits')
  BY <1>1, <1>5, CommitTypes
<1>7. RefsTyped'
  BY <1>1, <1>3, <1>5, <1>6, HeadKeepsTypes
<1>8. FilesTyped'
  BY <1>3, <1>4 DEF FilesTyped
<1> QED  BY <1>5, <1>7, <1>8 DEF WorktreeTyped

LEMMA HistoryKeepsTypes ==
  ASSUME WorktreeTyped, W!History
  PROVE  WorktreeTyped'
<1>1. ASSUME NEW c \in W!Commits, W!FastForward(c) \/ W!Pull(c)  PROVE WorktreeTyped'
  <2>1. W!TreeOf(c) \in W!Tree  BY TreeTypes, CommitTypes DEF WorktreeTyped
  <2>2. W!MoveTo(c, W!TreeOf(c)) /\ UNCHANGED commits  BY <1>1 DEF W!FastForward, W!Pull
  <2> QED  BY <2>1, <2>2, MoveKeepsTypes
<1> QED  BY <1>1, CommitKeepsTypes, ThreeWayKeepsTypes, ApplyKeepsTypes DEF W!History, W!Merge

LEMMA SwitchesKeepTypes ==
  ASSUME WorktreeTyped, W!Switches
  PROVE  WorktreeTyped'
<1>1. /\ StoreTyped /\ RefsTyped /\ FilesTyped /\ W!Commits = 1..Len(commits) /\ Len(commits) \in Nat
      /\ refs \in [Branch -> 0..Len(commits)]
  BY CommitTypes DEF WorktreeTyped, RefsTyped
<1>2. \A c \in 0..Len(commits) : W!TreeOf(c) \in W!Tree
  BY <1>1, TreeTypes
<1>3. ASSUME NEW b \in Branch, NEW c \in 0..Len(commits), W!SetBranch(b, c)  PROVE WorktreeTyped'
  <2>1. StoreTyped' /\ W!Commits' = W!Commits /\ Len(commits') = Len(commits)
    BY <1>1, <1>3, StoreStays DEF W!SetBranch
  <2>2. RefsTyped'
    BY <1>1, <1>3, <2>1 DEF W!SetBranch, RefsTyped
  <2> QED  BY <1>1, <1>3, <2>1, <2>2 DEF W!SetBranch, WorktreeTyped, FilesTyped
<1>4. ASSUME NEW tree \in W!Tree, NEW to \in Branch \cup W!Commits, W!Switch(tree, to),
             refs' \in [Branch -> 0..Len(commits)]
      PROVE  WorktreeTyped'
  <2>1. StoreTyped' /\ W!Commits' = W!Commits /\ Len(commits') = Len(commits)
    BY <1>1, <1>4, StoreStays DEF W!Switch
  <2>2. head' \in Branch \cup W!Commits /\ stash' = stash
    BY <1>1, <1>4 DEF W!Switch, RefsTyped
  <2>3. RefsTyped'
    BY <1>1, <1>4, <2>1, <2>2 DEF RefsTyped
  <2>4. FilesTyped'
    BY <1>1, <1>4, CheckoutTypes DEF W!Switch
  <2> QED  BY <2>1, <2>3, <2>4 DEF WorktreeTyped
<1>5. ASSUME NEW b \in Branch, W!CheckoutBranch(b)  PROVE WorktreeTyped'
  BY <1>1, <1>2, <1>4, <1>5 DEF W!CheckoutBranch
<1>6. ASSUME NEW b \in Branch, NEW c \in W!Commits, W!CheckoutNew(b, c)  PROVE WorktreeTyped'
  <2>1. c \in 0..Len(commits)  BY <1>1
  <2>2. refs' \in [Branch -> 0..Len(commits)]  BY <1>1, <1>6, <2>1 DEF W!CheckoutNew
  <2> QED  BY <1>2, <1>4, <1>6, <2>1, <2>2 DEF W!CheckoutNew
<1>7. ASSUME NEW c \in W!Commits, W!CheckoutDetached(c)  PROVE WorktreeTyped'
  <2>1. c \in 0..Len(commits)  BY <1>1
  <2> QED  BY <1>1, <1>2, <1>4, <1>7, <2>1 DEF W!CheckoutDetached
<1>8. ASSUME NEW c \in W!Commits, NEW mode2 \in {"soft", "mixed", "hard"}, W!Reset(mode2, c)  PROVE WorktreeTyped'
  <2>1. c \in 0..Len(commits) /\ W!TreeOf(c) \in W!Tree  BY <1>1, <1>2
  <2>2. StoreTyped' /\ W!Commits' = W!Commits /\ Len(commits') = Len(commits) /\ W!SetHead(c) /\ UNCHANGED stash
    BY <1>1, <1>8, StoreStays DEF W!Reset
  <2>3. RefsTyped'
    BY <1>1, <2>2, HeadKeepsTypes
  <2>4. FilesTyped'
    <3>1. \/ UNCHANGED <<index, work>>
          \/ index' = W!TreeOf(c) /\ UNCHANGED work
          \/ W!Checkout(W!TreeOf(c))
      BY <1>8 DEF W!Reset
    <3> QED  BY <1>1, <2>1, <3>1, CheckoutTypes DEF FilesTyped
  <2> QED  BY <2>2, <2>3, <2>4 DEF WorktreeTyped
<1>9. ASSUME NEW b \in Branch, W!DeleteBranch(b)  PROVE WorktreeTyped'
  BY <1>1, <1>3, <1>9 DEF W!DeleteBranch
<1> QED  BY <1>1, <1>3, <1>5, <1>6, <1>7, <1>8, <1>9 DEF W!Switches

LEMMA StashesKeepTypes ==
  ASSUME WorktreeTyped, W!Stashes
  PROVE  WorktreeTyped'
<1>1. StoreTyped /\ RefsTyped /\ FilesTyped /\ Len(commits) \in Nat /\ stash \in 0..Len(commits)
  BY CommitTypes DEF WorktreeTyped, RefsTyped
<1>2. ASSUME W!StashPush  PROVE WorktreeTyped'
  <2>1. StoreTyped' /\ Len(commits') = Len(commits) + 1 /\ W!Newest = Len(commits) + 1
    <3>1. W!Store(work, W!HeadAsParent) /\ work \in W!Tree  BY <1>1, <1>2 DEF W!StashPush, FilesTyped
    <3> QED  BY <1>1, <3>1, HeadParents, Added
  <2>2. Len(commits) <= Len(commits') /\ Len(commits) + 1 \in 0..Len(commits')
    BY <1>1, <2>1
  <2>3. RefsTyped'
    BY <1>1, <1>2, <2>1, <2>2, RefsStay DEF W!StashPush, RefsTyped
  <2>4. FilesTyped'
    <3>1. W!TreeOf(W!HeadCommit) \in W!Tree  BY <1>1, HeadTypes, TreeTypes
    <3>2. UNCHANGED <<index, work>> \/ W!Checkout(W!TreeOf(W!HeadCommit))
      BY <1>2 DEF W!StashPush
    <3> QED  BY <1>1, <3>1, <3>2, CheckoutTypes DEF FilesTyped
  <2> QED  BY <2>1, <2>3, <2>4 DEF WorktreeTyped
<1>3. ASSUME NEW pop \in BOOLEAN, W!StashApply(pop)  PROVE WorktreeTyped'
  <2>1. StoreTyped' /\ W!Commits' = W!Commits /\ Len(commits') = Len(commits)
    BY <1>1, <1>3, StoreStays DEF W!StashApply
  <2>2. RefsTyped'
    BY <1>1, <1>3, <2>1 DEF W!StashApply, RefsTyped
  <2>3. FilesTyped'
    <3>1. W!TreeOf(stash) \in W!Tree  BY <1>1, TreeTypes
    <3> QED  BY <1>1, <1>3, <3>1, CheckoutTypes DEF W!StashApply
  <2> QED  BY <2>1, <2>2, <2>3 DEF WorktreeTyped
<1>4. ASSUME W!StashDrop  PROVE WorktreeTyped'
  <2>1. StoreTyped' /\ W!Commits' = W!Commits /\ Len(commits') = Len(commits)
    BY <1>1, <1>4, StoreStays DEF W!StashDrop
  <2>2. RefsTyped'
    BY <1>1, <1>4, <2>1 DEF W!StashDrop, RefsTyped
  <2> QED  BY <1>1, <1>4, <2>1, <2>2 DEF W!StashDrop, WorktreeTyped, FilesTyped
<1> QED  BY <1>2, <1>3, <1>4 DEF W!Stashes

LEMMA WorktreeStepTyped ==
  ASSUME W!TypeOK, [W!Next]_(W!vars)
  PROVE  W!TypeOK'
<1>1. WorktreeTyped /\ commands \in 0..MaxCommands
  BY WorktreeParts DEF WorktreeTyped
<1>2. CASE UNCHANGED W!vars
  BY <1>2 DEF W!TypeOK, W!vars, W!repository, W!Commits, W!ParentsOf
<1>3. CASE W!Next
  <2>1. WorktreeTyped'
    BY <1>1, <1>3, FilesKeepTypes, HistoryKeepsTypes, SwitchesKeepTypes, StashesKeepTypes DEF W!Next, WorktreeTyped
  <2>2. commands' \in 0..MaxCommands
    BY <1>1, <1>3, BoundsAssumption DEF W!Next
  <2> QED  BY <2>1, <2>2 DEF WorktreeTyped, W!TypeOK, StoreTyped, RefsTyped, FilesTyped, CommitType
<1> QED  BY <1>2, <1>3

\* An empty commit, one after it, and two that part from that.
LEMMA WorktreeInitTyped == W!Init => W!TypeOK
<1> SUFFICES ASSUME W!Init  PROVE W!TypeOK
  OBVIOUS
<1>1. PICK ours \in W!Tree, theirs \in W!Tree :
        commits = << [tree |-> W!NoFiles, parents |-> << >>], [tree |-> Root, parents |-> <<1>>],
                     [tree |-> ours, parents |-> <<2>>], [tree |-> theirs, parents |-> <<2>>] >>
  BY DEF W!Init
<1>2. W!NoFiles \in W!Tree /\ << >> \in Seq(Nat) /\ <<1>> \in Seq(Nat) /\ <<2>> \in Seq(Nat)
  BY DEF W!NoFiles, W!Tree
<1>3. \A t \in W!Tree, ps \in Seq(Nat) : [tree |-> t, parents |-> ps] \in CommitType
  BY DEF CommitType
<1>4. \A r1, r2, r3, r4 \in CommitType : <<r1, r2, r3, r4>> \in Seq(CommitType)
  OBVIOUS
<1>5. commits \in Seq(CommitType) /\ Len(commits) = 4
  BY <1>1, <1>2, <1>3, <1>4, RootAssumption
<1>6. /\ commits[1].parents = << >> /\ commits[2].parents = <<1>>
      /\ commits[3].parents = <<2>> /\ commits[4].parents = <<2>>
  BY <1>1
<1>7. ASSUME NEW c \in W!Commits  PROVE W!ParentsOf(c) \subseteq 1..(c - 1)
  <2>1. c \in 1..4  BY <1>5 DEF W!Commits
  <2>2. \A x : {<<x>>[i] : i \in 1..Len(<<x>>)} = {x}
    OBVIOUS
  <2>3. c = 1 => W!ParentsOf(c) = {}  BY <1>6 DEF W!ParentsOf
  <2>4. c = 2 => W!ParentsOf(c) = {1}  BY <1>6, <2>2 DEF W!ParentsOf
  <2>5. c \in {3, 4} => W!ParentsOf(c) = {2}  BY <1>6, <2>2 DEF W!ParentsOf
  <2> QED  BY <2>1, <2>3, <2>4, <2>5
<1>8. StoreTyped
  BY <1>5, <1>7, BoundsAssumption DEF StoreTyped
<1>9. RefsTyped
  BY <1>5 DEF W!Init, RefsTyped
<1>10. index \in W!Tree /\ work \in W!Tree
  BY <1>5, <1>8, TreeTypes DEF W!Init
<1>11. commands \in 0..MaxCommands
  BY BoundsAssumption DEF W!Init
<1> QED  BY <1>8, <1>9, <1>10, <1>11, WorktreeParts DEF FilesTyped

LEMMA NoWorktreeTyped == NoWorktree => W!TypeOK
<1> SUFFICES ASSUME NoWorktree  PROVE W!TypeOK
  OBVIOUS
<1>1. W!NoFiles \in W!Tree  BY DEF W!NoFiles, W!Tree
<1>2. commits = << >> /\ Len(commits) = 0 /\ W!Commits = {}
  BY DEF NoWorktree, W!Commits
<1>3. << >> \in Seq(CommitType)  OBVIOUS
<1>4. StoreTyped
  BY <1>2, <1>3, BoundsAssumption DEF StoreTyped
<1>5. RefsTyped
  BY <1>2 DEF RefsTyped, NoWorktree
<1> QED  BY <1>1, <1>4, <1>5, BoundsAssumption, WorktreeParts DEF NoWorktree, FilesTyped

\* A step of the client is one of either part, or of none.
LEMMA ClientSteps == [ClientNext]_ClientVars => [Next]_vars /\ [W!Next]_(W!vars)
BY DEF ClientNext, ClientVars, vars, worktree, W!vars, W!repository

LEMMA ClientStarts == ClientInit => Init /\ W!TypeOK
BY WorktreeInitTyped, NoWorktreeTyped DEF ClientInit

\* The invariant of both parts.
LEMMA ClientInvariant == ClientSpec => [](IInv /\ W!TypeOK)
<1>1. ClientInit => IInv /\ W!TypeOK
  BY ClientStarts, InitInvariant
<1>2. IInv /\ W!TypeOK /\ [ClientNext]_ClientVars => IInv' /\ W!TypeOK'
  BY ClientSteps, StepKeepsInvariant, WorktreeStepTyped
<1> QED  BY <1>1, <1>2, PTL DEF ClientSpec

\* Every state of the client, of any numbers of clones, files, branches and commands, is of
\* the declared types: no command leaves a ref without its commit, or a commit with a parent that
\* is not older.
THEOREM ClientTypes == ClientSpec => []TypesOK
<1>1. IInv /\ W!TypeOK => TypesOK
  BY DEF IInv, TypesOK
<1> QED  BY <1>1, ClientInvariant, PTL

-----------------------------------------------------------------------------
(***************************************************************************)
(* Histories: what the recursive walks compute                             *)
(***************************************************************************)

\* A set of numbers has a least one: what is shown of a commit may be taken to be so of the
\* older ones, and of its parents.
LEMMA LeastNumber ==
  ASSUME NEW T \in SUBSET Nat, T # {}
  PROVE  \E m \in T : \A k \in T : m <= k
<1> DEFINE R == OpToRel(<, Nat)
<1>1. IsWellFoundedOn(R, Nat)
  BY NatLessThanWellFounded
<1>2. \A x, y \in Nat : x < y => <<x, y>> \in R
  BY DEF OpToRel
<1> HIDE DEF R
<1>3. PICK m \in T : \A k \in T : ~(<<k, m>> \in R)
  BY <1>1, WFMin
<1>4. ASSUME NEW k \in T  PROVE m <= k
  <2>1. k \in Nat /\ m \in Nat  OBVIOUS
  <2>2. ~(k < m)  BY <2>1, <1>2, <1>3
  <2> QED  BY <2>1, <2>2
<1> QED  BY <1>4

\* f is the walk of the commits up to n.
WalksTo(f, n) ==
  f = [c \in 0..n |-> IF c = 0 THEN {} ELSE {c} \cup UNION {f[q] : q \in W!ParentsOf(c)}]

LEMMA WalkExists == StoreTyped => \A n \in 0..Len(commits) : \E f : WalksTo(f, n)
<1> SUFFICES ASSUME StoreTyped  PROVE \A n \in 0..Len(commits) : \E f : WalksTo(f, n)
  OBVIOUS
<1> DEFINE T == {n \in 0..Len(commits) : ~\E f : WalksTo(f, n)}
<1> SUFFICES ASSUME T # {}  PROVE FALSE
  OBVIOUS
<1>1. Len(commits) \in Nat /\ \A c \in 1..Len(commits) : W!ParentsOf(c) \subseteq 1..(c - 1)
  BY CommitTypes DEF StoreTyped
<1>2. PICK m \in T : \A k \in T : m <= k
  <2>1. T \in SUBSET Nat  BY <1>1
  <2> HIDE DEF T
  <2> QED  BY <2>1, LeastNumber
<1>3. CASE m = 0
  <2> DEFINE f == [c \in 0..0 |-> {}]
  <2>1. f = [c \in 0..0 |-> IF c = 0 THEN {} ELSE {c} \cup UNION {f[q] : q \in W!ParentsOf(c)}]
    OBVIOUS
  <2>2. WalksTo(f, 0)  BY <2>1 DEF WalksTo
  <2> QED  BY <1>3, <2>2
<1>4. CASE m # 0
  <2>1. m - 1 \in 0..Len(commits) /\ m - 1 \notin T /\ m \in 1..Len(commits)
    BY <1>1, <1>2, <1>4
  <2>2. PICK g : WalksTo(g, m - 1)
    BY <2>1
  <2> DEFINE f == [c \in 0..m |-> IF c = m THEN {c} \cup UNION {g[q] : q \in W!ParentsOf(c)} ELSE g[c]]
  <2>3. ASSUME NEW c \in 0..m  PROVE f[c] = IF c = 0 THEN {} ELSE {c} \cup UNION {f[q] : q \in W!ParentsOf(c)}
    <3>1. \A q \in 0..(m - 1) : f[q] = g[q]
      BY <2>1
    <3>2. c # 0 => \A q \in W!ParentsOf(c) : q \in 0..(m - 1)
      BY <2>1, <1>1
    <3>3. c # 0 => {f[q] : q \in W!ParentsOf(c)} = {g[q] : q \in W!ParentsOf(c)}
      <4> HIDE DEF f
      <4>1. c # 0 => \A q \in W!ParentsOf(c) : f[q] = g[q]
        BY <3>1, <3>2
      <4> QED  BY <4>1
    <3>4. CASE c = m
      BY <3>3, <3>4, <1>4
    <3>5. CASE c # m
      <4>1. c \in 0..(m - 1)  BY <3>5, <2>1
      <4>2. g[c] = IF c = 0 THEN {} ELSE {c} \cup UNION {g[q] : q \in W!ParentsOf(c)}
        BY <4>1, <2>2 DEF WalksTo
      <4> QED  BY <4>1, <4>2, <3>1, <3>3
    <3> QED  BY <3>4, <3>5
  <2>4. WalksTo(f, m)
    BY <2>3 DEF WalksTo
  <2> QED  BY <2>4
<1> QED  BY <1>3, <1>4

\* Ancestors of a commit are the commit and the ancestors of its parents.
Walked ==
  /\ W!Ancestors(0) = {}
  /\ \A c \in W!Commits : W!Ancestors(c) = {c} \cup UNION {W!Ancestors(q) : q \in W!ParentsOf(c)}

LEMMA AncestorsWalked == StoreTyped => Walked
<1> SUFFICES ASSUME StoreTyped  PROVE Walked
  OBVIOUS
<1>1. Len(commits) \in Nat /\ W!Commits = 1..Len(commits)
  BY CommitTypes
<1>2. \E f : WalksTo(f, Len(commits))
  BY <1>1, WalkExists
<1>3. WalksTo(W!walk, Len(commits))
  BY <1>2 DEF W!walk, WalksTo
<1>4. ASSUME NEW c \in 0..Len(commits)
      PROVE  W!walk[c] = IF c = 0 THEN {} ELSE {c} \cup UNION {W!walk[q] : q \in W!ParentsOf(c)}
  BY <1>3 DEF WalksTo
<1>5. W!walk[0] = {}
  <2>1. 0 \in 0..Len(commits)  BY <1>1
  <2> QED  BY <2>1, <1>4, Zenon
<1>6. ASSUME NEW c \in W!Commits
      PROVE  W!walk[c] = {c} \cup UNION {W!walk[q] : q \in W!ParentsOf(c)}
  <2>1. c \in 0..Len(commits) /\ c # 0  BY <1>1
  <2> QED  BY <2>1, <1>4, Zenon
<1> QED  BY <1>5, <1>6 DEF W!Ancestors, Walked

\* Who is an ancestor.
LEMMA AncestorCases ==
  ASSUME StoreTyped, NEW c \in W!Commits, NEW x
  PROVE  x \in W!Ancestors(c) <=> (x = c \/ \E q \in W!ParentsOf(c) : x \in W!Ancestors(q))
<1>1. W!Ancestors(c) = {c} \cup UNION {W!Ancestors(q) : q \in W!ParentsOf(c)}
  BY AncestorsWalked DEF Walked
<1> QED  BY <1>1

\* A property of commits that each of them has when its parents do is one of all.
LEMMA OlderFirst ==
  ASSUME StoreTyped, NEW G \in SUBSET W!Commits,
         \A c \in W!Commits : W!ParentsOf(c) \subseteq G => c \in G
  PROVE  G = W!Commits
<1> DEFINE T == W!Commits \ G
<1> SUFFICES ASSUME T # {}  PROVE FALSE
  OBVIOUS
<1>1. W!Commits = 1..Len(commits) /\ \A c \in W!Commits : W!ParentsOf(c) \subseteq 1..(c - 1)
  BY CommitTypes DEF StoreTyped
<1>2. PICK m \in T : \A k \in T : m <= k
  <2>1. T \in SUBSET Nat  BY <1>1
  <2> HIDE DEF T
  <2> QED  BY <2>1, LeastNumber
<1>3. ASSUME NEW q \in W!ParentsOf(m)  PROVE q \in G
  <2>1. m \in W!Commits /\ m \in 1..Len(commits)  BY <1>1
  <2>2. q \in 1..(m - 1)  BY <1>1, <2>1
  <2>3. q \in W!Commits /\ ~(m <= q)  BY <1>1, <2>1, <2>2
  <2> QED  BY <1>2, <2>3
<1> QED  BY <1>3

LEMMA AncestorTypes ==
  ASSUME StoreTyped, NEW c \in W!Commits
  PROVE  c \in W!Ancestors(c) /\ W!Ancestors(c) \subseteq W!Commits
<1> DEFINE G == {d \in W!Commits : W!Ancestors(d) \subseteq W!Commits}
<1>1. ASSUME NEW d \in W!Commits, W!ParentsOf(d) \subseteq G  PROVE d \in G
  BY <1>1, AncestorCases
<1>2. G = W!Commits
  <2> HIDE DEF G
  <2>1. G \in SUBSET W!Commits  BY DEF G
  <2> QED  BY <1>1, <2>1, OlderFirst
<1> QED  BY <1>2, AncestorCases

\* The ancestors of an ancestor.
LEMMA AncestorsOfAncestors ==
  ASSUME StoreTyped, NEW c \in W!Commits, NEW x \in W!Ancestors(c)
  PROVE  W!Ancestors(x) \subseteq W!Ancestors(c)
<1> DEFINE G == {d \in W!Commits : \A y \in W!Ancestors(d) : W!Ancestors(y) \subseteq W!Ancestors(d)}
<1>1. ASSUME NEW d \in W!Commits, W!ParentsOf(d) \subseteq G  PROVE d \in G
  <2>1. ASSUME NEW y \in W!Ancestors(d)  PROVE W!Ancestors(y) \subseteq W!Ancestors(d)
    <3>1. CASE y = d  BY <3>1
    <3>2. ASSUME NEW q \in W!ParentsOf(d), y \in W!Ancestors(q)  PROVE W!Ancestors(y) \subseteq W!Ancestors(d)
      <4>1. W!Ancestors(y) \subseteq W!Ancestors(q)  BY <1>1, <3>2
      <4>2. W!Ancestors(q) \subseteq W!Ancestors(d)  BY AncestorCases
      <4> QED  BY <4>1, <4>2
    <3> QED  BY <2>1, <3>1, <3>2, AncestorCases
  <2> QED  BY <2>1
<1>2. G = W!Commits
  <2> HIDE DEF G
  <2>1. G \in SUBSET W!Commits  BY DEF G
  <2> QED  BY <1>1, <2>1, OlderFirst
<1> QED  BY <1>2

\* Commits that are there keep their ancestors when others are added.
Grows == \A c \in W!Commits : c \in W!Commits' /\ commits'[c] = commits[c]

LEMMA AncestorsStay ==
  ASSUME StoreTyped, StoreTyped', Grows
  PROVE  \A c \in 0..Len(commits) : W!Ancestors(c)' = W!Ancestors(c)
<1>1. /\ W!Ancestors(0)' = {}
      /\ \A c \in W!Commits' : W!Ancestors(c)' = {c} \cup UNION {W!Ancestors(q)' : q \in W!ParentsOf(c)'}
  <2>1. Walked'  BY AncestorsWalked, PTL
  <2> QED  BY <2>1 DEF Walked
<1>2. /\ W!Ancestors(0) = {}
      /\ \A c \in W!Commits : W!Ancestors(c) = {c} \cup UNION {W!Ancestors(q) : q \in W!ParentsOf(c)}
  BY AncestorsWalked DEF Walked
<1>3. \A c \in W!Commits : W!ParentsOf(c)' = W!ParentsOf(c)
  BY DEF Grows, W!ParentsOf
<1> DEFINE G == {d \in W!Commits : W!Ancestors(d)' = W!Ancestors(d)}
<1>4. ASSUME NEW d \in W!Commits, W!ParentsOf(d) \subseteq G  PROVE d \in G
  <2>1. W!Ancestors(d)' = {d} \cup UNION {W!Ancestors(q)' : q \in W!ParentsOf(d)}
    BY <1>1, <1>3 DEF Grows
  <2>2. {W!Ancestors(q)' : q \in W!ParentsOf(d)} = {W!Ancestors(q) : q \in W!ParentsOf(d)}
    BY <1>4
  <2>3. W!Ancestors(d)' = W!Ancestors(d)
    BY <1>2, <2>1, <2>2
  <2> QED  BY <2>3
<1>5. G = W!Commits
  <2> HIDE DEF G
  <2>1. G \in SUBSET W!Commits  BY DEF G
  <2> QED  BY <1>4, <2>1, OlderFirst
<1>6. \A c \in 0..Len(commits) : c = 0 \/ c \in W!Commits
  BY CommitTypes
<1> QED  BY <1>1, <1>2, <1>5, <1>6

\* HEAD is at a commit that has been added after the one it was at.
LEMMA HistoryAdded ==
  ASSUME StoreTyped, RefsTyped, StoreTyped', Grows, NEW n \in W!Commits', W!HeadCommit' = n,
         W!HeadCommit = 0 \/ \E i \in 1..Len(commits'[n].parents) : commits'[n].parents[i] = W!HeadCommit
  PROVE  W!Ancestors(W!HeadCommit) \subseteq W!Ancestors(W!HeadCommit)'
<1>1. PICK h \in 0..Len(commits) : h = W!HeadCommit
  BY HeadTypes
<1>2. W!Ancestors(W!HeadCommit) = W!Ancestors(h) /\ W!Ancestors(W!HeadCommit)' = W!Ancestors(n)'
  BY <1>1 DEF W!Ancestors
<1>3. CASE h = 0
  <2>1. W!Ancestors(0) = {}  BY AncestorsWalked DEF Walked
  <2> QED  BY <1>2, <1>3, <2>1
<1>4. CASE h # 0
  <2>1. h \in W!ParentsOf(n)'
    BY <1>1, <1>4 DEF W!ParentsOf
  <2>2. Walked'
    BY AncestorsWalked, PTL
  <2>3. W!Ancestors(n)' = {n} \cup UNION {W!Ancestors(q)' : q \in W!ParentsOf(n)'}
    BY <2>2 DEF Walked
  <2>4. W!Ancestors(h)' = W!Ancestors(h)
    BY AncestorsStay
  <2>5. W!Ancestors(h)' \subseteq W!Ancestors(n)'
    BY <2>1, <2>3
  <2> QED  BY <1>2, <2>4, <2>5
<1> QED  BY <1>3, <1>4

\* HEAD is at a commit that the one it was at is an ancestor of.
LEMMA HistoryForwarded ==
  ASSUME StoreTyped, RefsTyped, UNCHANGED commits, NEW c \in W!Commits, W!HeadCommit' = c,
         W!HeadCommit = 0 \/ W!FastForwards(c)
  PROVE  W!Ancestors(W!HeadCommit) \subseteq W!Ancestors(W!HeadCommit)'
<1>1. PICK h \in 0..Len(commits) : h = W!HeadCommit
  BY HeadTypes
<1>2. StoreTyped' /\ Grows
  BY StoreStays DEF Grows
<1>3. W!Ancestors(W!HeadCommit) = W!Ancestors(h) /\ W!Ancestors(W!HeadCommit)' = W!Ancestors(c)'
  BY <1>1 DEF W!Ancestors
<1>4. W!Ancestors(c)' = W!Ancestors(c)
  <2>1. c \in 0..Len(commits)  BY CommitTypes
  <2> QED  BY <1>2, <2>1, AncestorsStay
<1>5. W!Ancestors(h) \subseteq W!Ancestors(c)
  <2>1. CASE h = 0
    <3>1. W!Ancestors(0) = {}  BY AncestorsWalked DEF Walked
    <3> QED  BY <2>1, <3>1
  <2>2. CASE h \in W!Ancestors(c)
    BY <2>2, AncestorsOfAncestors
  <2> QED  BY <1>1, <2>1, <2>2 DEF W!FastForwards
<1> QED  BY <1>3, <1>4, <1>5

\* A commit that is added after HEAD, alone or with another, and becomes HEAD.
LEMMA HistoryStored ==
  ASSUME StoreTyped, RefsTyped, NEW tree \in W!Tree, NEW ps \in Seq(Nat),
         \A i \in 1..Len(ps) : ps[i] \in W!Commits, W!Store(tree, ps), W!SetHead(W!Newest),
         W!HeadCommit = 0 \/ \E i \in 1..Len(ps) : ps[i] = W!HeadCommit
  PROVE  W!Ancestors(W!HeadCommit) \subseteq W!Ancestors(W!HeadCommit)'
<1>1. /\ StoreTyped' /\ Len(commits') = Len(commits) + 1 /\ W!Newest \in W!Commits'
      /\ commits'[W!Newest] = [tree |-> tree, parents |-> ps] /\ Grows
  BY Added DEF Grows
<1>2. PICK n \in W!Commits' : n = W!Newest
  BY <1>1
<1>3. Len(commits) <= Len(commits')
  BY <1>1, CommitTypes
<1>4. W!HeadCommit' = n
  BY <1>1, <1>2, <1>3, HeadMoves
<1>5. commits'[n].parents = ps
  BY <1>1, <1>2
<1> QED  BY <1>1, <1>4, <1>5, HistoryAdded

LEMMA HistoryGrows ==
  ASSUME WorktreeTyped, W!History
  PROVE  W!Ancestors(W!HeadCommit) \subseteq W!Ancestors(W!HeadCommit)'
<1> DEFINE Kept == W!Ancestors(W!HeadCommit) \subseteq W!Ancestors(W!HeadCommit)'
<1>1. StoreTyped /\ RefsTyped /\ index \in W!Tree /\ work \in W!Tree /\ W!HeadCommit \in 0..Len(commits)
  BY HeadTypes DEF WorktreeTyped, FilesTyped
<1>2. W!HeadCommit = 0 \/ \E i \in 1..Len(W!HeadAsParent) : W!HeadAsParent[i] = W!HeadCommit
  <2>1. \A h : 1 \in 1..Len(<<h>>) /\ <<h>>[1] = h
    OBVIOUS
  <2> QED  BY <2>1 DEF W!HeadAsParent
<1>3. ASSUME NEW tree \in W!Tree, W!Store(tree, W!HeadAsParent), W!SetHead(W!Newest)  PROVE Kept
  BY <1>1, <1>2, <1>3, HeadParents, HistoryStored
<1>4. ASSUME NEW all \in BOOLEAN, W!Commit(all)  PROVE Kept
  <2> DEFINE tree == IF all THEN [p \in Path |-> IF index[p] = NoBlob THEN NoBlob ELSE work[p]] ELSE index
  <2>1. tree \in W!Tree
    BY <1>1 DEF W!Tree
  <2>2. UNCHANGED <<commits, refs, head>> \/ (W!Store(tree, W!HeadAsParent) /\ W!SetHead(W!Newest))
    BY <1>4 DEF W!Commit
  <2> HIDE DEF tree
  <2>3. CASE UNCHANGED <<commits, refs, head>>
    <3>1. PICK h \in 0..Len(commits) : h = W!HeadCommit  BY <1>1
    <3>2. W!HeadCommit' = h  BY <2>3, <3>1 DEF W!HeadCommit
    <3>3. StoreTyped' /\ Grows  BY <1>1, <2>3, StoreStays DEF Grows
    <3>4. W!Ancestors(h)' = W!Ancestors(h)  BY <1>1, <3>3, AncestorsStay
    <3> QED  BY <3>1, <3>2, <3>4 DEF W!Ancestors
  <2> QED  BY <1>3, <2>1, <2>2, <2>3
<1>5. ASSUME NEW c \in W!Commits, W!FastForward(c) \/ W!Pull(c)  PROVE Kept
  <2>1. UNCHANGED commits /\ W!SetHead(c) /\ (W!HeadCommit = 0 \/ W!FastForwards(c))
    BY <1>5 DEF W!FastForward, W!Pull, W!MoveTo
  <2>2. StoreTyped' /\ W!Commits' = W!Commits /\ Len(commits) <= Len(commits')
    BY <1>1, <2>1, StoreStays, CommitTypes
  <2>3. W!HeadCommit' = c
    BY <1>1, <2>1, <2>2, HeadMoves
  <2> QED  BY <1>1, <2>1, <2>3, HistoryForwarded
<1>6. ASSUME NEW c \in W!Commits, W!ThreeWay(c)  PROVE Kept
  <2> DEFINE base == W!MergeBase(W!HeadCommit, c)
             tree == W!MergedTree(W!TreeOf(base), W!TreeOf(W!HeadCommit), W!TreeOf(c))
  <2>1. W!HeadCommit # 0 /\ W!Store(tree, <<W!HeadCommit, c>>) /\ W!SetHead(W!Newest)
    BY <1>6 DEF W!ThreeWay, W!MoveTo
  <2>2. W!HeadCommit \in W!Commits /\ W!Commits = 1..Len(commits)
    BY <1>1, <2>1, CommitTypes
  <2>3. tree \in W!Tree
    BY <1>1, <2>2, TreeTypes, MergedTypes
  <2>4. \A h, d \in 1..Len(commits) :
          /\ <<h, d>> \in Seq(Nat) /\ \A i \in 1..Len(<<h, d>>) : <<h, d>>[i] \in 1..Len(commits)
          /\ \E i \in 1..Len(<<h, d>>) : <<h, d>>[i] = h
    <3> SUFFICES ASSUME NEW h \in 1..Len(commits), NEW d \in 1..Len(commits)
                 PROVE  /\ <<h, d>> \in Seq(Nat) /\ \A i \in 1..Len(<<h, d>>) : <<h, d>>[i] \in 1..Len(commits)
                        /\ \E i \in 1..Len(<<h, d>>) : <<h, d>>[i] = h
      OBVIOUS
    <3>1. 1 \in 1..Len(<<h, d>>) /\ <<h, d>>[1] = h
      OBVIOUS
    <3> QED  BY <3>1
  <2> HIDE DEF tree
  <2> QED  BY <1>1, <2>1, <2>2, <2>3, <2>4, HistoryStored
<1>7. ASSUME NEW c \in W!Commits, NEW reverse \in BOOLEAN, W!ApplyDelta(c, reverse)  PROVE Kept
  <2> DEFINE from == W!Delta(c, reverse)[1]
             to == W!Delta(c, reverse)[2]
             tree == [p \in Path |-> IF from[p] # to[p] THEN to[p] ELSE index[p]]
  <2>1. W!Store(tree, W!HeadAsParent) /\ W!SetHead(W!Newest)
    BY <1>7 DEF W!ApplyDelta
  <2>2. to \in W!Tree
    BY <1>1, DeltaTypes
  <2> HIDE DEF from, to
  <2>3. tree \in W!Tree
    BY <1>1, <2>2 DEF W!Tree
  <2> QED  BY <1>3, <2>1, <2>3
<1> QED  BY <1>4, <1>5, <1>6, <1>7 DEF W!History, W!Merge

-----------------------------------------------------------------------------
(***************************************************************************)
(* Edits, and what reverting undoes                                        *)
(***************************************************************************)

LEMMA CheckoutKeepsEdits ==
  ASSUME NEW tree, W!Checkout(tree), NEW p \in W!Dirty
  PROVE  work'[p] = work[p]
<1> DEFINE gone == {q \in Path \ W!Dirty : index[q] # NoBlob /\ tree[q] = NoBlob}
           written == IF W!Conflicts(tree) = {} THEN W!Written(tree) ELSE {}
<1>1. work' = [q \in Path |-> IF q \in gone THEN NoBlob ELSE IF q \in written THEN tree[q] ELSE work[q]]
  BY DEF W!Checkout
<1>2. p \notin gone /\ p \notin written
  BY DEF W!Written
<1>3. p \in Path
  BY DEF W!Dirty
<1> HIDE DEF gone, written
<1> QED  BY <1>1, <1>2, <1>3

LEMMA EditsKept ==
  ASSUME W!History \/ W!Switches \/ W!Stashes \/ W!AddAll \/ W!Clean, NEW p \in W!Dirty
  PROVE  work'[p] = work[p]
<1>1. p \in Path /\ index[p] # NoBlob /\ work[p] # index[p]
  BY DEF W!Dirty
<1> DEFINE Checks == work' = work \/ \E tree : W!Checkout(tree)
<1>2. (\E all \in BOOLEAN : W!Commit(all)) => Checks
  BY DEF W!Commit
<1>3. ASSUME NEW c \in W!Commits, W!Merge(c) \/ W!Pull(c)  PROVE Checks
  BY <1>3 DEF W!Merge, W!FastForward, W!ThreeWay, W!Pull, W!MoveTo
<1>4. ASSUME NEW c \in W!Commits, NEW reverse \in BOOLEAN, W!ApplyDelta(c, reverse)  PROVE FALSE
  BY <1>1, <1>4 DEF W!ApplyDelta
<1>5. W!History => Checks
  BY <1>2, <1>3, <1>4 DEF W!History
<1>6. ASSUME NEW tree, NEW to, W!Switch(tree, to)  PROVE Checks
  BY <1>6 DEF W!Switch
<1>7. ASSUME NEW b \in Branch, NEW c, W!SetBranch(b, c) \/ W!CheckoutBranch(b) \/ W!CheckoutNew(b, c)  PROVE Checks
  BY <1>6, <1>7 DEF W!SetBranch, W!CheckoutBranch, W!CheckoutNew
<1>8. ASSUME NEW c, NEW how \in {"soft", "mixed", "hard"}, W!CheckoutDetached(c) \/ W!Reset(how, c)  PROVE Checks
  BY <1>6, <1>8 DEF W!CheckoutDetached, W!Reset
<1>9. W!Switches => Checks
  BY <1>7, <1>8 DEF W!Switches, W!DeleteBranch
<1>10. W!Stashes => Checks
  BY DEF W!Stashes, W!StashPush, W!StashApply, W!StashDrop
<1>11. W!AddAll => Checks
  BY DEF W!AddAll
<1>12. W!Clean => work'[p] = work[p]
  BY <1>1 DEF W!Clean
<1>13. Checks => work'[p] = work[p]
  BY CheckoutKeepsEdits
<1> HIDE DEF Checks
<1> QED  BY <1>5, <1>9, <1>10, <1>11, <1>12, <1>13

LEMMA RevertGivesBack ==
  ASSUME WorktreeTyped, NEW c \in W!Commits, W!HeadCommit = c, Len(commits[c].parents) = 1, W!ApplyDelta(c, TRUE)
  PROVE  work' = W!TreeOf(commits[c].parents[1])
<1> DEFINE from == W!TreeOf(c)
           to == W!TreeOf(commits[c].parents[1])
<1>1. commits[c].parents # << >>
  <2>1. Len(<< >>) = 0  OBVIOUS
  <2> QED  BY <2>1
<1>2. W!Delta(c, TRUE) = <<from, to>>
  BY <1>1 DEF W!Delta
<1>3. W!TreeOf(IF commits[c].parents = << >> THEN 0 ELSE commits[c].parents[1]) \in W!Tree
  BY DeltaTypes DEF WorktreeTyped
<1>4. from \in W!Tree /\ to \in W!Tree
  BY <1>1, <1>3, TreeTypes, CommitTypes DEF WorktreeTyped
<1>5. index = from /\ work = index
  BY DEF W!ApplyDelta
<1>6. work' = [p \in Path |-> IF W!Delta(c, TRUE)[1][p] # W!Delta(c, TRUE)[2][p]
                              THEN W!Delta(c, TRUE)[2][p] ELSE work[p]]
  BY DEF W!ApplyDelta
<1> HIDE DEF from, to
<1>7. work' = [p \in Path |-> IF from[p] # to[p] THEN to[p] ELSE work[p]]
  <2>1. <<from, to>>[1] = from /\ <<from, to>>[2] = to
    OBVIOUS
  <2>2. W!Delta(c, TRUE)[1] = from /\ W!Delta(c, TRUE)[2] = to
    BY <1>2, <2>1, Zenon
  <2> QED  BY <1>6, <2>2
<1>8. \A p \in Path : work'[p] = to[p]
  BY <1>5, <1>7
<1>9. work' = [p \in Path |-> to[p]]
  BY <1>7, <1>8
<1>10. to = [p \in Path |-> to[p]]
  BY <1>4 DEF W!Tree
<1> QED  BY <1>9, <1>10 DEF to

\* No commit, merge, pull, cherry-pick, revert, checkout of a branch, reset, stash or clean, with whatever
\* it checks out or refuses, overwrites or deletes a tracked file whose change is not in the index.
THEOREM EditsSurvive == ClientSpec => KeepsEdits
<1>1. [ClientNext]_ClientVars =>
        [(\E p \in W!Dirty : work'[p] # work[p])
           => ~(W!History \/ W!Switches \/ W!Stashes \/ W!AddAll \/ W!Clean)]_(W!repository)
  BY EditsKept
<1> QED  BY <1>1, PTL DEF ClientSpec, KeepsEdits, W!KeepsEdits

\* Committing, merging, pulling, picking and reverting only add to the history of HEAD, and
\* reverting the commit at HEAD gives back the files of its parent.
THEOREM CommitsAreKept == ClientSpec => CommitsKept
<1>1. W!TypeOK /\ [ClientNext]_ClientVars =>
        [~(W!Ancestors(W!HeadCommit) \subseteq W!Ancestors(W!HeadCommit)') => ~W!History]_(W!repository)
  BY HistoryGrows, WorktreeParts DEF WorktreeTyped
<1>2. W!TypeOK /\ [ClientNext]_ClientVars =>
        [\A c \in W!Commits :
           W!HeadCommit = c /\ Len(commits[c].parents) = 1 /\ W!ApplyDelta(c, TRUE)
             => work' = W!TreeOf(commits[c].parents[1])]_(W!repository)
  BY RevertGivesBack, WorktreeParts DEF WorktreeTyped
<1>3. ClientSpec => W!HistoryKept
  BY <1>1, ClientInvariant, PTL DEF ClientSpec, W!HistoryKept
<1>4. ClientSpec => W!RevertUndoes
  BY <1>2, ClientInvariant, PTL DEF ClientSpec, W!RevertUndoes
<1> QED  BY <1>3, <1>4 DEF CommitsKept

-----------------------------------------------------------------------------
(***************************************************************************)
(* Merging                                                                 *)
(***************************************************************************)

\* What the search for a merge base finds from c, when f has what it finds from older commits.
Met(f, a, c) ==
  IF c = 0 \/ c \in W!Ancestors(a) \/ commits[c].parents = << >>
  THEN IF c \in W!Ancestors(a) THEN c ELSE 0
  ELSE LET parents == commits[c].parents
           last == f[parents[Len(parents)]]
       IN IF last # 0 THEN last ELSE f[parents[1]]

MeetsTo(f, a, n) == f = [c \in 0..n |-> Met(f, a, c)]

\* The search asks for older commits only.
LEMMA MetAgrees ==
  ASSUME StoreTyped, NEW a, NEW f, NEW g, NEW c \in 0..Len(commits), \A q \in 0..(c - 1) : f[q] = g[q]
  PROVE  Met(f, a, c) = Met(g, a, c)
<1>1. CASE c = 0 \/ commits[c].parents = << >>
  BY <1>1 DEF Met
<1>2. CASE c # 0 /\ commits[c].parents # << >>
  <2>1. c \in W!Commits  BY <1>2, CommitTypes
  <2>2. commits[c].parents \in Seq(Nat) /\ Len(commits[c].parents) \in Nat  BY <2>1, CommitTypes
  <2>3. 1 \in 1..Len(commits[c].parents) /\ Len(commits[c].parents) \in 1..Len(commits[c].parents)
    BY <1>2, <2>2
  <2>4. /\ commits[c].parents[1] \in 0..(c - 1)
        /\ commits[c].parents[Len(commits[c].parents)] \in 0..(c - 1)
    BY <2>1, <2>3, Parent
  <2>5. /\ f[commits[c].parents[1]] = g[commits[c].parents[1]]
        /\ f[commits[c].parents[Len(commits[c].parents)]] = g[commits[c].parents[Len(commits[c].parents)]]
    BY <2>4
  <2> QED  BY <2>5 DEF Met
<1> QED  BY <1>1, <1>2

LEMMA MeetingExists ==
  ASSUME StoreTyped, NEW a
  PROVE  \A n \in 0..Len(commits) : \E f : MeetsTo(f, a, n)
<1> DEFINE T == {n \in 0..Len(commits) : ~\E f : MeetsTo(f, a, n)}
<1> SUFFICES ASSUME T # {}  PROVE FALSE
  OBVIOUS
<1>1. Len(commits) \in Nat
  BY CommitTypes
<1>2. PICK m \in T : \A k \in T : m <= k
  <2>1. T \in SUBSET Nat  BY <1>1
  <2> HIDE DEF T
  <2> QED  BY <2>1, LeastNumber
<1>3. \E g : \A c \in 0..(m - 1) : g[c] = Met(g, a, c)
  <2>1. CASE m = 0
    <3>1. 0..(m - 1) = {}  BY <2>1
    <3> QED  BY <3>1
  <2>2. CASE m # 0
    <3>1. m - 1 \in 0..Len(commits) /\ m - 1 \notin T  BY <1>1, <1>2, <2>2
    <3>2. PICK g : MeetsTo(g, a, m - 1)  BY <3>1
    <3>3. \A c \in 0..(m - 1) : g[c] = Met(g, a, c)  BY <3>2 DEF MeetsTo
    <3> QED  BY <3>3
  <2> QED  BY <2>1, <2>2
<1>4. PICK g : \A c \in 0..(m - 1) : g[c] = Met(g, a, c)
  BY <1>3
<1> DEFINE f == [c \in 0..m |-> Met(g, a, c)]
<1>5. \A c \in 0..m : f[c] = Met(g, a, c)
  OBVIOUS
<1>6. m \in 0..Len(commits) /\ m \in Nat
  BY <1>1
<1> HIDE DEF f
<1>7. \A c \in 0..(m - 1) : f[c] = g[c]
  <2>1. \A c \in 0..(m - 1) : c \in 0..m  BY <1>6
  <2> QED  BY <1>4, <1>5, <2>1
<1>8. ASSUME NEW c \in 0..m  PROVE f[c] = Met(f, a, c)
  <2>1. c \in 0..Len(commits) /\ \A q \in 0..(c - 1) : q \in 0..(m - 1)
    BY <1>1, <1>6
  <2>2. \A q \in 0..(c - 1) : f[q] = g[q]
    BY <1>7, <2>1
  <2>3. Met(f, a, c) = Met(g, a, c)
    BY <2>1, <2>2, MetAgrees
  <2> QED  BY <1>5, <2>3
<1>9. MeetsTo(f, a, m)
  <2>1. f = [c \in 0..m |-> Met(g, a, c)]  BY DEF f
  <2>2. \A c \in 0..m : Met(g, a, c) = Met(f, a, c)  BY <1>5, <1>8
  <2>3. [c \in 0..m |-> Met(g, a, c)] = [c \in 0..m |-> Met(f, a, c)]  BY <2>2
  <2> QED  BY <2>1, <2>3 DEF MeetsTo
<1> QED  BY <1>9

LEMMA FirstMets ==
  ASSUME StoreTyped, NEW a
  PROVE  \A c \in 0..Len(commits) : W!FirstMet(a)[c] = Met(W!FirstMet(a), a, c)
<1>1. Len(commits) \in 0..Len(commits)
  BY CommitTypes
<1>2. \E f : MeetsTo(f, a, Len(commits))
  BY <1>1, MeetingExists
<1>3. MeetsTo(W!FirstMet(a), a, Len(commits))
  BY <1>2 DEF W!FirstMet, MeetsTo, Met
<1> QED  BY <1>3 DEF MeetsTo

\* In a history without merges the search finds the common ancestor that all others are
\* ancestors of.
Best(a, c, m) == m \in W!Common(a, c) /\ W!Common(a, c) \subseteq W!Ancestors(m)

LEMMA LinearMeets ==
  ASSUME StoreTyped, NEW a \in W!Commits, NEW c \in W!Commits, W!Linear(c), W!FirstMet(a)[c] # 0
  PROVE  Best(a, c, W!FirstMet(a)[c])
<1> DEFINE first == W!FirstMet(a)
           G == {d \in W!Commits : W!Linear(d) /\ first[d] # 0 => Best(a, d, first[d])}
<1>1. \A d \in W!Commits : first[d] = Met(first, a, d)
  BY FirstMets, CommitTypes
<1> HIDE DEF first
<1>2. ASSUME NEW d \in W!Commits, W!ParentsOf(d) \subseteq G, W!Linear(d), first[d] # 0
      PROVE  Best(a, d, first[d])
  <2>1. d # 0 /\ d \in W!Ancestors(d) /\ Len(commits[d].parents) \in Nat /\ commits[d].parents \in Seq(Nat)
    BY CommitTypes, AncestorTypes
  <2>2. CASE d \in W!Ancestors(a)
    <3>1. first[d] = d  BY <1>1, <2>2 DEF Met
    <3> QED  BY <2>1, <2>2, <3>1 DEF Best, W!Common
  <2>3. CASE d \notin W!Ancestors(a)
    <3>1. commits[d].parents # << >>
      BY <1>1, <1>2, <2>3 DEF Met
    <3>2. Len(commits[d].parents) = 1
      <4>1. Len(commits[d].parents) <= 1  BY <2>1, <1>2 DEF W!Linear
      <4>2. Len(commits[d].parents) # 0  BY <2>1, <3>1
      <4>3. \A n \in Nat : n <= 1 /\ n # 0 => n = 1
        OBVIOUS
      <4> QED  BY <2>1, <4>1, <4>2, <4>3
    <3>3. PICK q \in W!Commits : q = commits[d].parents[1]
      BY <3>2, Parent
    <3>4. W!ParentsOf(d) = {q}
      BY <3>2, <3>3 DEF W!ParentsOf
    <3>5. first[d] = first[q]
      <4>1. first[d] = IF first[q] # 0 THEN first[q] ELSE first[q]
        BY <1>1, <2>1, <2>3, <3>1, <3>2, <3>3 DEF Met
      <4> QED  BY <4>1
    <3>6. W!Ancestors(q) \subseteq W!Ancestors(d) /\ \A x \in W!Ancestors(d) : x = d \/ x \in W!Ancestors(q)
      BY <3>4, AncestorCases
    <3>7. W!Linear(q)
      BY <1>2, <3>6 DEF W!Linear
    <3>8. Best(a, q, first[q])
      BY <1>2, <3>4, <3>5, <3>7
    <3> QED  BY <2>3, <3>5, <3>6, <3>8 DEF Best, W!Common
  <2> QED  BY <2>2, <2>3
<1>3. G = W!Commits
  <2>1. \A d \in W!Commits : W!ParentsOf(d) \subseteq G => d \in G
    BY <1>2
  <2> HIDE DEF G
  <2>2. G \in SUBSET W!Commits  BY DEF G
  <2> QED  BY <2>1, <2>2, OlderFirst
<1> QED  BY <1>3 DEF first

\* The search finds where two histories parted, when the second has no merge.
LEMMA PartedAtBase ==
  ASSUME StoreTyped, NEW a \in W!Commits, NEW c \in W!Commits, W!Linear(c), W!MergeBase(a, c) # 0
  PROVE  \A d \in W!Parted(a, c) : d = W!MergeBase(a, c)
<1>1. Best(a, c, W!MergeBase(a, c))
  BY LinearMeets DEF W!MergeBase
<1> QED  BY <1>1 DEF Best, W!Parted

\* What is known of commits stays so when others are added.
LEMMA KnownStay ==
  ASSUME StoreTyped, StoreTyped', Grows, NEW c \in W!Commits
  PROVE  /\ W!Ancestors(c)' = W!Ancestors(c) /\ W!TreeOf(c)' = W!TreeOf(c)
         /\ W!Linear(c)' => W!Linear(c)
         /\ \A d \in W!Commits : W!Parted(c, d)' = W!Parted(c, d) /\ W!Parted(c, d) \subseteq W!Commits
<1>1. \A d \in W!Commits : W!Ancestors(d)' = W!Ancestors(d) /\ W!Ancestors(d) \subseteq W!Commits
  BY AncestorsStay, AncestorTypes, CommitTypes
<1>2. W!TreeOf(c)' = W!TreeOf(c)
  BY DEF Grows, W!TreeOf
<1>3. W!Linear(c)' => W!Linear(c)
  BY <1>1 DEF Grows, W!Linear
<1>4. ASSUME NEW d \in W!Commits  PROVE W!Parted(c, d)' = W!Parted(c, d) /\ W!Parted(c, d) \subseteq W!Commits
  <2>1. W!Common(c, d)' = W!Common(c, d) /\ W!Common(c, d) \subseteq W!Commits
    BY <1>1 DEF W!Common
  <2>2. \A e \in W!Common(c, d) : W!Ancestors(e)' = W!Ancestors(e)
    BY <1>1, <2>1
  <2>3. W!Parted(c, d) = {a \in W!Common(c, d) : \A e \in W!Common(c, d) \ {a} : a \notin W!Ancestors(e)}
    BY DEF W!Parted
  <2>4. W!Parted(c, d)' = {a \in W!Common(c, d) : \A e \in W!Common(c, d) \ {a} : a \notin W!Ancestors(e)'}
    BY <2>1 DEF W!Parted
  <2> QED  BY <2>1, <2>2, <2>3, <2>4
<1> QED  BY <1>1, <1>2, <1>3, <1>4

\* Merges that are there stay what they are.
LEMMA MergesStay ==
  ASSUME StoreTyped, StoreTyped', Grows, NEW m \in W!Commits, W!KeepsBothSides(m)
  PROVE  W!KeepsBothSides(m)'
<1>1. PICK sides : sides = commits[m].parents
  OBVIOUS
<1>2. sides = commits'[m].parents
  BY <1>1 DEF Grows
<1> SUFFICES ASSUME Len(sides) = 2, W!Linear(sides[1])', W!Linear(sides[2])',
                    NEW p \in Path, NEW i \in {1, 2}, NEW a \in W!Parted(sides[1], sides[2])',
                    W!TreeOf(sides[i])'[p] # W!TreeOf(a)'[p]
             PROVE  W!TreeOf(m)'[p] = W!TreeOf(sides[i])'[p]
  BY <1>2 DEF W!KeepsBothSides
<1>3. sides[1] \in W!Commits /\ sides[2] \in W!Commits /\ sides[i] \in W!Commits
  BY <1>1, Parent
<1>4. W!Linear(sides[1]) /\ W!Linear(sides[2])
  BY <1>3, KnownStay
<1>5. a \in W!Parted(sides[1], sides[2]) /\ a \in W!Commits
  BY <1>3, KnownStay
<1>6. /\ W!TreeOf(m)' = W!TreeOf(m) /\ W!TreeOf(a)' = W!TreeOf(a)
      /\ W!TreeOf(sides[i])' = W!TreeOf(sides[i])
  BY <1>3, <1>5, KnownStay
<1>7. W!TreeOf(sides[i])[p] # W!TreeOf(a)[p]
  BY <1>6
<1>8. W!TreeOf(m)[p] = W!TreeOf(sides[i])[p]
  BY <1>1, <1>4, <1>5, <1>7 DEF W!KeepsBothSides
<1> QED  BY <1>6, <1>8

\* A commit with fewer than two parents is no merge.
LEMMA NoMergeAdded ==
  ASSUME StoreTyped, RefsTyped, W!MergeKeepsBothSides, NEW tree \in W!Tree, W!Store(tree, W!HeadAsParent)
  PROVE  W!MergeKeepsBothSides'
<1>1. /\ StoreTyped' /\ Len(commits') = Len(commits) + 1 /\ W!Newest = Len(commits) + 1
      /\ commits'[W!Newest] = [tree |-> tree, parents |-> W!HeadAsParent] /\ Grows
  BY HeadParents, Added DEF Grows
<1>2. Len(W!HeadAsParent) # 2
  <2>1. Len(<< >>) = 0 /\ \A h : Len(<<h>>) = 1
    OBVIOUS
  <2> QED  BY <2>1 DEF W!HeadAsParent
<1>3. ASSUME NEW m \in W!Commits'  PROVE W!KeepsBothSides(m)'
  <2>1. m \in W!Commits \/ m = W!Newest
    BY <1>1, CommitTypes DEF W!Commits
  <2>2. CASE m \in W!Commits
    BY <1>1, <2>2, MergesStay DEF W!MergeKeepsBothSides
  <2>3. CASE m = W!Newest
    <3>1. Len(commits'[m].parents) # 2
      BY <1>1, <1>2, <2>3
    <3> QED  BY <3>1 DEF W!KeepsBothSides
  <2> QED  BY <2>1, <2>2, <2>3
<1> QED  BY <1>3 DEF W!MergeKeepsBothSides

LEMMA NothingAdded ==
  ASSUME StoreTyped, W!MergeKeepsBothSides, UNCHANGED commits
  PROVE  W!MergeKeepsBothSides'
<1>1. StoreTyped' /\ W!Commits' = W!Commits /\ Grows
  BY StoreStays DEF Grows
<1> QED  BY <1>1, MergesStay DEF W!MergeKeepsBothSides

\* Where neither side clashes with the other the merged tree has the changes of both.
LEMMA MergedKeeps ==
  ASSUME NEW base, NEW ours, NEW theirs, W!Clash(base, ours, theirs) = {}, NEW p \in Path
  PROVE  /\ ours[p] # base[p] => W!MergedTree(base, ours, theirs)[p] = ours[p]
         /\ theirs[p] # base[p] => W!MergedTree(base, ours, theirs)[p] = theirs[p]
BY DEF W!Clash, W!MergedTree

LEMMA MergeAdded ==
  ASSUME WorktreeTyped, W!MergeKeepsBothSides, NEW c \in W!Commits, W!ThreeWay(c)
  PROVE  W!MergeKeepsBothSides'
<1>1. StoreTyped /\ RefsTyped /\ W!Commits = 1..Len(commits) /\ Len(commits) \in Nat
  BY CommitTypes DEF WorktreeTyped
<1>2. PICK h \in W!Commits : h = W!HeadCommit
  BY <1>1, HeadTypes DEF W!ThreeWay
<1> DEFINE base == W!MergeBase(h, c)
           tree == W!MergedTree(W!TreeOf(base), W!TreeOf(h), W!TreeOf(c))
<1>3. /\ base # 0 /\ W!Clash(W!TreeOf(base), W!TreeOf(h), W!TreeOf(c)) = {}
      /\ W!Store(tree, <<h, c>>)
  BY <1>2 DEF W!ThreeWay
<1>4. tree \in W!Tree
  BY <1>1, TreeTypes, MergedTypes
<1>5. /\ <<h, c>> \in Seq(Nat) /\ \A i \in 1..Len(<<h, c>>) : <<h, c>>[i] \in W!Commits
      /\ <<h, c>>[1] = h /\ <<h, c>>[2] = c
  <2>1. \A x, y \in 1..Len(commits) :
          /\ <<x, y>> \in Seq(Nat) /\ \A i \in 1..Len(<<x, y>>) : <<x, y>>[i] \in 1..Len(commits)
          /\ <<x, y>>[1] = x /\ <<x, y>>[2] = y
    OBVIOUS
  <2> QED  BY <1>1, <2>1
<1>6. \A p \in Path :
        /\ W!TreeOf(h)[p] # W!TreeOf(base)[p] => tree[p] = W!TreeOf(h)[p]
        /\ W!TreeOf(c)[p] # W!TreeOf(base)[p] => tree[p] = W!TreeOf(c)[p]
  BY <1>3, MergedKeeps
<1>7. W!Linear(c) => \A a \in W!Parted(h, c) : a = base
  BY <1>1, <1>3, PartedAtBase
<1> HIDE DEF tree, base
<1>8. /\ StoreTyped' /\ Len(commits') = Len(commits) + 1 /\ W!Newest = Len(commits) + 1
      /\ commits'[W!Newest] = [tree |-> tree, parents |-> <<h, c>>] /\ Grows
  BY <1>1, <1>3, <1>4, <1>5, Added DEF Grows
<1>9. ASSUME NEW m \in W!Commits', m = W!Newest  PROVE W!KeepsBothSides(m)'
  <2>1. PICK sides : sides = <<h, c>>
    OBVIOUS
  <2>2. commits'[m].parents = sides /\ commits'[m].tree = tree /\ sides[1] = h /\ sides[2] = c
    BY <1>5, <1>8, <1>9, <2>1
  <2>3. W!TreeOf(m)' = tree
    <3>1. m # 0  BY <1>1, <1>8, <1>9
    <3> QED  BY <2>2, <3>1 DEF W!TreeOf
  <2> SUFFICES ASSUME W!Linear(c)', NEW p \in Path, NEW i \in {1, 2}, NEW a \in W!Parted(h, c)',
                      W!TreeOf(sides[i])'[p] # W!TreeOf(a)'[p]
               PROVE  W!TreeOf(m)'[p] = W!TreeOf(sides[i])'[p]
    BY <2>2 DEF W!KeepsBothSides
  <2>4. W!Linear(c) /\ a \in W!Parted(h, c) /\ a \in W!Commits
    BY <1>1, <1>8, KnownStay
  <2>5. a = base
    BY <1>7, <2>4
  <2>6. W!TreeOf(h)' = W!TreeOf(h) /\ W!TreeOf(c)' = W!TreeOf(c) /\ W!TreeOf(a)' = W!TreeOf(a)
    BY <1>1, <1>8, <2>4, KnownStay
  <2>7. CASE i = 1
    BY <1>6, <2>2, <2>3, <2>5, <2>6, <2>7
  <2>8. CASE i = 2
    BY <1>6, <2>2, <2>3, <2>5, <2>6, <2>8
  <2> QED  BY <2>7, <2>8
<1>10. ASSUME NEW m \in W!Commits'  PROVE W!KeepsBothSides(m)'
  <2>1. m \in W!Commits \/ m = W!Newest
    BY <1>1, <1>8 DEF W!Commits
  <2> QED  BY <1>1, <1>8, <1>9, <2>1, MergesStay DEF W!MergeKeepsBothSides
<1> QED  BY <1>10 DEF W!MergeKeepsBothSides

LEMMA MergesKept ==
  ASSUME W!TypeOK, W!MergeKeepsBothSides, [W!Next]_(W!vars)
  PROVE  W!MergeKeepsBothSides'
<1>1. WorktreeTyped /\ StoreTyped /\ RefsTyped /\ index \in W!Tree /\ work \in W!Tree
  BY WorktreeParts DEF WorktreeTyped, FilesTyped
<1> DEFINE Kept == W!MergeKeepsBothSides'
<1>2. UNCHANGED commits => Kept
  BY <1>1, NothingAdded
<1>3. ASSUME NEW all \in BOOLEAN, W!Commit(all)  PROVE Kept
  <2> DEFINE tree == IF all THEN [p \in Path |-> IF index[p] = NoBlob THEN NoBlob ELSE work[p]] ELSE index
  <2>1. tree \in W!Tree
    BY <1>1 DEF W!Tree
  <2>2. UNCHANGED commits \/ W!Store(tree, W!HeadAsParent)
    BY <1>3 DEF W!Commit
  <2> HIDE DEF tree
  <2> QED  BY <1>1, <1>2, <2>1, <2>2, NoMergeAdded
<1>4. ASSUME NEW c \in W!Commits, NEW reverse \in BOOLEAN, W!ApplyDelta(c, reverse)  PROVE Kept
  <2> DEFINE from == W!Delta(c, reverse)[1]
             to == W!Delta(c, reverse)[2]
             tree == [p \in Path |-> IF from[p] # to[p] THEN to[p] ELSE index[p]]
  <2>1. W!Store(tree, W!HeadAsParent)
    BY <1>4 DEF W!ApplyDelta
  <2>2. to \in W!Tree
    BY <1>1, DeltaTypes
  <2> HIDE DEF from, to
  <2>3. tree \in W!Tree
    BY <1>1, <2>2 DEF W!Tree
  <2> QED  BY <1>1, <2>1, <2>3, NoMergeAdded
<1>5. ASSUME NEW c \in W!Commits, W!Merge(c) \/ W!Pull(c)  PROVE Kept
  <2>1. W!FastForward(c) \/ W!Pull(c) => UNCHANGED commits
    BY DEF W!FastForward, W!Pull
  <2> QED  BY <1>1, <1>2, <1>5, <2>1, MergeAdded DEF W!Merge
<1>6. W!History => Kept
  BY <1>3, <1>4, <1>5 DEF W!History
<1>7. W!Files => UNCHANGED commits
  BY DEF W!Files, W!Edit, W!Add, W!AddAll, W!Remove, W!Move, W!Restore, W!CheckoutPath, W!ResetPath, W!RestoreFromIndex, W!Clean
<1>8. W!Switches => UNCHANGED commits
  BY DEF W!Switches, W!DeleteBranch, W!SetBranch, W!CheckoutBranch, W!CheckoutNew, W!CheckoutDetached, W!Switch, W!Reset
<1>9. W!StashPush => Kept
  BY <1>1, NoMergeAdded DEF W!StashPush
<1>10. W!Stashes => Kept
  BY <1>2, <1>9 DEF W!Stashes, W!StashApply, W!StashDrop
<1>11. UNCHANGED W!vars => UNCHANGED commits
  BY DEF W!vars, W!repository
<1> HIDE DEF Kept
<1>12. Kept
  BY <1>2, <1>6, <1>7, <1>8, <1>10, <1>11 DEF W!Next
<1> QED  BY <1>12 DEF Kept

LEMMA NoMergesYet == ClientInit => W!MergeKeepsBothSides
<1> SUFFICES ASSUME ClientInit, NEW m \in W!Commits  PROVE Len(commits[m].parents) # 2
  BY DEF W!MergeKeepsBothSides, W!KeepsBothSides
<1>1. CASE NoWorktree
  BY <1>1 DEF NoWorktree, W!Commits
<1>2. CASE W!Init
  <2>1. PICK ours \in W!Tree, theirs \in W!Tree :
          commits = << [tree |-> W!NoFiles, parents |-> << >>], [tree |-> Root, parents |-> <<1>>],
                       [tree |-> ours, parents |-> <<2>>], [tree |-> theirs, parents |-> <<2>>] >>
    BY <1>2 DEF W!Init
  <2>2. m \in 1..4  BY <2>1 DEF W!Commits
  <2>3. commits[m].parents \in {<< >>, <<1>>, <<2>>}
    BY <2>1, <2>2
  <2>4. Len(<< >>) # 2 /\ Len(<<1>>) # 2 /\ Len(<<2>>) # 2
    OBVIOUS
  <2> QED  BY <2>3, <2>4
<1> QED  BY <1>1, <1>2 DEF ClientInit

\* Every merge of two histories without merges, in whatever state of the clone it was made, takes at each
\* file the side that has changed it since the histories parted, although the commit
\* that they parted from is found by a search that goes through parents one by one.
THEOREM MergesKeepBothSides == ClientSpec => []MergeKeepsBothSides
<1>1. W!TypeOK /\ W!MergeKeepsBothSides /\ [ClientNext]_ClientVars => W!MergeKeepsBothSides'
  BY ClientSteps, MergesKept
<1>2. W!MergeKeepsBothSides => MergeKeepsBothSides
  BY DEF MergeKeepsBothSides
<1> QED  BY <1>1, <1>2, NoMergesYet, ClientInvariant, PTL DEF ClientSpec
=============================================================================
