------------------------------ MODULE Worktree ------------------------------
(***************************************************************************)
(* The native local Git commands (internal/app/local_native.go,            *)
(* local_extra.go): one command at a time reads and writes HEAD, the       *)
(* branches, the stash, the index and the files of a worktree. Trees are   *)
(* functions from paths to blobs; directories, file modes, ignore rules    *)
(* and tags are left out. A command that is refused before it has written  *)
(* anything is no step; one that is refused later is, with what it has     *)
(* done.                                                                   *)
(***************************************************************************)
EXTENDS Naturals, Sequences

CONSTANTS
  Path,       \* files
  Blob,       \* contents of files
  NoBlob,     \* there is no such file, or no such index entry
  Branch,     \* names of branches
  Root,       \* the tree of the commit that the branches part from
  MaxCommits, \* bound: number of commits, to keep the model finite
  MaxCommands \* bound: number of commands and edits

VARIABLES
  commits,  \* the commits of the object store: tree and parents, oldest first
  refs,     \* refs[b]: the commit of branch b, or 0
  stash,    \* the commit of refs/stash, or 0
  head,     \* HEAD: a branch, or a commit when it is detached
  index,    \* index[p]: the blob of the entry of p
  work,     \* work[p]: the content of the file p
  commands  \* number of commands and edits so far, for the bound

repository == <<commits, refs, stash, head, index, work>>
vars == <<repository, commands>>

Tree == [Path -> Blob \cup {NoBlob}]
Commits == 1..Len(commits)
ParentsOf(c) == {commits[c].parents[i] : i \in 1..Len(commits[c].parents)}

TypeOK ==
  /\ commits \in Seq([tree : Tree, parents : Seq(Nat)])
  /\ Len(commits) <= MaxCommits
  /\ \A c \in Commits : ParentsOf(c) \subseteq 1..(c - 1)
  /\ refs \in [Branch -> 0..Len(commits)]
  /\ stash \in 0..Len(commits)
  /\ head \in Branch \cup Commits
  /\ index \in Tree
  /\ work \in Tree
  /\ commands \in 0..MaxCommands

NoFiles == [p \in Path |-> NoBlob]
TreeOf(c) == IF c = 0 THEN NoFiles ELSE commits[c].tree
HeadCommit == IF head \in Branch THEN refs[head] ELSE head

\* The commits that a walk from c meets: c, and what it descends from.
walk[c \in 0..Len(commits)] ==
  IF c = 0 THEN {} ELSE {c} \cup UNION {walk[q] : q \in ParentsOf(c)}

\* The commits from which descendants[d] is reached; isAncestor(a, d) walks them.
Ancestors(d) == walk[d]

\* Tracked files that differ from their index entry, deleted ones included.
Dirty == {p \in Path : index[p] # NoBlob /\ work[p] # index[p]}

\* An empty first commit, a second one, two branches that have parted since,
\* and a clean checkout of one of them.
Init ==
  /\ \E ours, theirs \in Tree \ {Root} :
       commits = << [tree |-> NoFiles, parents |-> << >>],
                    [tree |-> Root, parents |-> <<1>>],
                    [tree |-> ours, parents |-> <<2>>],
                    [tree |-> theirs, parents |-> <<2>>] >>
  /\ head \in Branch
  /\ refs = [b \in Branch |-> IF b = head THEN 3 ELSE 4]
  /\ stash = 0
  /\ index = TreeOf(3)
  /\ work = TreeOf(3)
  /\ commands = 0

-----------------------------------------------------------------------------
(***************************************************************************)
(* What the commands are made of                                           *)
(***************************************************************************)

SetHead(c) ==
  IF head \in Branch
  THEN refs' = [refs EXCEPT ![head] = c] /\ UNCHANGED head
  ELSE head' = c /\ UNCHANGED refs

Store(tree, parents) ==
  /\ Len(commits) < MaxCommits
  /\ commits' = Append(commits, [tree |-> tree, parents |-> parents])

Newest == Len(commits) + 1

\* Mutated: an unborn branch gives an empty parent line.
HeadAsParent_Always == <<HeadCommit>>

HeadAsParent == IF HeadCommit = 0 THEN << >> ELSE <<HeadCommit>>

\* Changed files that the checkout of a tree would overwrite or delete.
Conflicts(tree) == {p \in Dirty : tree[p] # index[p]}

\* Mutated: every file of the tree is written.
Written_All(tree) == {p \in Path : tree[p] # NoBlob}

\* The files that the checkout writes, those without an index entry included.
Written(tree) == {p \in Path \ Dirty : tree[p] # NoBlob}

\* Clean files that the tree lacks are removed before anything is refused.
Checkout(tree) ==
  LET gone == {p \in Path \ Dirty : index[p] # NoBlob /\ tree[p] = NoBlob}
      written == IF Conflicts(tree) = {} THEN Written(tree) ELSE {}
  IN /\ work' = [p \in Path |-> IF p \in gone THEN NoBlob
                                ELSE IF p \in written THEN tree[p] ELSE work[p]]
     /\ index' = IF Conflicts(tree) = {} THEN tree ELSE index

-----------------------------------------------------------------------------
(***************************************************************************)
(* Files and the index                                                     *)
(***************************************************************************)

Edit(p, v) ==
  /\ work' = [work EXCEPT ![p] = v]
  /\ UNCHANGED <<commits, refs, stash, head, index>>

Add(p) ==
  /\ work[p] # NoBlob
  /\ index' = [index EXCEPT ![p] = work[p]]
  /\ UNCHANGED <<commits, refs, stash, head, work>>

AddAll ==
  /\ index' = work
  /\ UNCHANGED <<commits, refs, stash, head, work>>

Remove(p) ==
  /\ index' = [index EXCEPT ![p] = NoBlob]
  /\ work' = [work EXCEPT ![p] = NoBlob]
  /\ UNCHANGED <<commits, refs, stash, head>>

\* The entry moves with its blob, whatever the file holds; dst is overwritten.
Move(src, dst) ==
  /\ src # dst
  /\ work[src] # NoBlob
  /\ work' = [work EXCEPT ![dst] = work[src], ![src] = NoBlob]
  /\ index' = IF index[src] # NoBlob
              THEN [index EXCEPT ![dst] = index[src], ![src] = NoBlob]
              ELSE [index EXCEPT ![dst] = work[src]]
  /\ UNCHANGED <<commits, refs, stash, head>>

\* A path that the commit lacks is removed from the index and from the files.
Restore(c, p, staged, worktree) ==
  /\ index' = IF staged THEN [index EXCEPT ![p] = TreeOf(c)[p]] ELSE index
  /\ work' = IF worktree THEN [work EXCEPT ![p] = TreeOf(c)[p]] ELSE work
  /\ UNCHANGED <<commits, refs, stash, head>>

CheckoutPath(c, p) == Restore(c, p, TRUE, TRUE)
ResetPath(c, p) == Restore(c, p, TRUE, FALSE)

RestoreFromIndex(p) ==
  /\ work' = [work EXCEPT ![p] = index[p]]
  /\ UNCHANGED <<commits, refs, stash, head, index>>

Clean ==
  /\ work' = [p \in Path |-> IF index[p] = NoBlob THEN NoBlob ELSE work[p]]
  /\ UNCHANGED <<commits, refs, stash, head, index>>

-----------------------------------------------------------------------------
(***************************************************************************)
(* Branches and commits                                                    *)
(***************************************************************************)

\* commit -a writes the index before it finds that there is nothing to commit.
Commit(all) ==
  LET tree == IF all THEN [p \in Path |-> IF index[p] = NoBlob THEN NoBlob ELSE work[p]]
              ELSE index
  IN /\ index' = tree
     /\ IF HeadCommit # 0 /\ TreeOf(HeadCommit) = tree
        THEN UNCHANGED <<commits, refs, head>>
        ELSE Store(tree, HeadAsParent) /\ SetHead(Newest)
     /\ UNCHANGED <<stash, work>>

SetBranch(b, c) ==
  /\ refs' = [refs EXCEPT ![b] = c]
  /\ UNCHANGED <<commits, stash, head, index, work>>

DeleteBranch(b) == SetBranch(b, 0)

\* HEAD moves when the checkout was not refused.
Switch(tree, to) ==
  /\ Checkout(tree)
  /\ head' = IF Conflicts(tree) = {} THEN to ELSE head
  /\ UNCHANGED <<commits, stash>>

CheckoutBranch(b) == refs[b] # 0 /\ Switch(TreeOf(refs[b]), b) /\ UNCHANGED refs
CheckoutDetached(c) == Switch(TreeOf(c), c) /\ UNCHANGED refs

\* checkout -b moves the branch, if there is one, before the files are checked.
CheckoutNew(b, c) == Switch(TreeOf(c), b) /\ refs' = [refs EXCEPT ![b] = c]

\* HEAD has moved when a hard reset finds that it may not overwrite a file.
Reset(mode, c) ==
  /\ SetHead(c)
  /\ CASE mode = "soft" -> UNCHANGED <<index, work>>
       [] mode = "mixed" -> index' = TreeOf(c) /\ UNCHANGED work
       [] mode = "hard" -> Checkout(TreeOf(c))
  /\ UNCHANGED <<commits, stash>>

-----------------------------------------------------------------------------
(***************************************************************************)
(* Stash                                                                   *)
(***************************************************************************)

\* The files are saved, the untracked ones too; a stash that was there is lost.
StashPush ==
  /\ Store(work, HeadAsParent)
  /\ stash' = Newest
  /\ IF HeadCommit = 0 THEN UNCHANGED <<index, work>> ELSE Checkout(TreeOf(HeadCommit))
  /\ UNCHANGED <<refs, head>>

StashApply(pop) ==
  /\ stash # 0
  /\ Checkout(TreeOf(stash))
  /\ stash' = IF pop /\ Conflicts(TreeOf(stash)) = {} THEN 0 ELSE stash
  /\ UNCHANGED <<commits, refs, head>>

StashDrop ==
  /\ stash' = 0
  /\ UNCHANGED <<commits, refs, head, index, work>>

-----------------------------------------------------------------------------
(***************************************************************************)
(* Merging                                                                 *)
(***************************************************************************)

\* The first ancestor of a that a walk from c meets, last parents first; 0 when there is none.
FirstMet(a) ==
  LET first[c \in 0..Len(commits)] ==
        IF c = 0 \/ c \in Ancestors(a) \/ commits[c].parents = << >>
        THEN IF c \in Ancestors(a) THEN c ELSE 0
        ELSE LET parents == commits[c].parents
                 last == first[parents[Len(parents)]]
             IN IF last # 0 THEN last ELSE first[parents[1]]
  IN first

\* Mutated: the history of the other side is not searched.
MergeBase_Root(a, b) == 1

\* The first common ancestor of a and b that the walk from b meets.
MergeBase(a, b) == FirstMet(a)[b]

Clash(base, ours, theirs) ==
  {p \in Path : ours[p] # base[p] /\ theirs[p] # base[p] /\ ours[p] # theirs[p]}

MergedTree(base, ours, theirs) ==
  [p \in Path |-> IF theirs[p] # base[p] THEN theirs[p] ELSE ours[p]]

FastForwards(c) == HeadCommit \in Ancestors(c)

\* HEAD is moved before the files are checked.
MoveTo(c, tree) ==
  /\ SetHead(c)
  /\ Checkout(tree)
  /\ UNCHANGED stash

FastForward(c) ==
  /\ HeadCommit # 0
  /\ FastForwards(c)
  /\ MoveTo(c, TreeOf(c))
  /\ UNCHANGED commits

ThreeWay(c) ==
  LET base == MergeBase(HeadCommit, c)
      tree == MergedTree(TreeOf(base), TreeOf(HeadCommit), TreeOf(c))
  IN /\ HeadCommit # 0
     /\ ~FastForwards(c)
     /\ base # 0
     /\ Clash(TreeOf(base), TreeOf(HeadCommit), TreeOf(c)) = {}
     /\ Store(tree, <<HeadCommit, c>>)
     /\ MoveTo(Newest, tree)

Merge(c) == FastForward(c) \/ ThreeWay(c)

\* The end of pull, once its objects are here: a fast-forward, also of no branch.
Pull(c) ==
  /\ HeadCommit # c
  /\ HeadCommit = 0 \/ FastForwards(c)
  /\ MoveTo(c, TreeOf(c))
  /\ UNCHANGED commits

\* Mutated: the change is applied in the same direction.
Delta_Forward(c, reverse) ==
  <<TreeOf(IF commits[c].parents = << >> THEN 0 ELSE commits[c].parents[1]), TreeOf(c)>>

\* The trees between which cherry-pick or revert carries the changes over.
Delta(c, reverse) ==
  LET parent == TreeOf(IF commits[c].parents = << >> THEN 0 ELSE commits[c].parents[1])
  IN IF reverse THEN <<TreeOf(c), parent>> ELSE <<parent, TreeOf(c)>>

\* cherry-pick and revert need a clean tree; an untracked file makes it unclean.
ApplyDelta(c, reverse) ==
  LET from == Delta(c, reverse)[1]
      to == Delta(c, reverse)[2]
      changed(tree) == [p \in Path |-> IF from[p] # to[p] THEN to[p] ELSE tree[p]]
  IN /\ index = TreeOf(HeadCommit)
     /\ work = index
     /\ Len(commits[c].parents) <= 1
     /\ Store(changed(index), HeadAsParent)
     /\ SetHead(Newest)
     /\ index' = changed(index)
     /\ work' = changed(work)
     /\ UNCHANGED stash

-----------------------------------------------------------------------------
Files ==
  \/ \E p \in Path :
       \/ \E v \in Blob \cup {NoBlob} : Edit(p, v)
       \/ Add(p)
       \/ Remove(p)
       \/ \E q \in Path : Move(p, q)
       \/ RestoreFromIndex(p)
       \/ \E c \in Commits :
            \/ CheckoutPath(c, p)
            \/ ResetPath(c, p)
            \/ Restore(c, p, FALSE, TRUE)
  \/ AddAll
  \/ Clean

History ==
  \/ \E all \in BOOLEAN : Commit(all)
  \/ \E c \in Commits : Merge(c) \/ Pull(c) \/ ApplyDelta(c, TRUE) \/ ApplyDelta(c, FALSE)

Switches ==
  \/ \E b \in Branch :
       \/ DeleteBranch(b)
       \/ CheckoutBranch(b)
       \/ \E c \in Commits : SetBranch(b, c) \/ CheckoutNew(b, c)
  \/ \E c \in Commits :
       \/ CheckoutDetached(c)
       \/ \E mode \in {"soft", "mixed", "hard"} : Reset(mode, c)

Stashes == StashPush \/ StashApply(TRUE) \/ StashApply(FALSE) \/ StashDrop

Next ==
  /\ commands < MaxCommands
  /\ commands' = commands + 1
  /\ Files \/ History \/ Switches \/ Stashes

Spec == Init /\ [][Next]_vars

-----------------------------------------------------------------------------
(***************************************************************************)
(* Properties                                                              *)
(***************************************************************************)

\* A change of a tracked file that is not in the index survives every command
\* that does not name the file: no commit, merge, pull, cherry-pick, checkout of
\* a branch, reset, stash or clean overwrites or deletes it.
KeepsEdits ==
  [][(\E p \in Dirty : work'[p] # work[p])
       => ~(History \/ Switches \/ Stashes \/ AddAll \/ Clean)]_repository

\* HEAD loses no commit of its history unless the user switches, resets or sets
\* branches: committing, merging, pulling, picking and reverting only add to it.
HistoryKept ==
  [][~(Ancestors(HeadCommit) \subseteq Ancestors(HeadCommit)') => ~History]_repository

\* The histories of the branches that a merge joined have no merge themselves.
Linear(c) == \A a \in Ancestors(c) : Len(commits[a].parents) <= 1

\* The common ancestors that no other common ancestor descends from.
Common(c, d) == Ancestors(c) \cap Ancestors(d)
Parted(c, d) == {a \in Common(c, d) : \A e \in Common(c, d) \ {a} : a \notin Ancestors(e)}

KeepsBothSides(m) ==
  LET sides == commits[m].parents
  IN Len(sides) = 2 /\ Linear(sides[1]) /\ Linear(sides[2]) =>
       \A p \in Path, i \in {1, 2}, a \in Parted(sides[1], sides[2]) :
         TreeOf(sides[i])[p] # TreeOf(a)[p] => TreeOf(m)[p] = TreeOf(sides[i])[p]

\* A merge undoes nothing: where the two sides differ, it takes the side that
\* has changed the file since the histories parted.
MergeKeepsBothSides == \A m \in Commits : KeepsBothSides(m)

\* Reverting the commit at HEAD gives back the files of its parent.
RevertUndoes ==
  [][\A c \in Commits :
       HeadCommit = c /\ Len(commits[c].parents) = 1 /\ ApplyDelta(c, TRUE)
         => work' = TreeOf(commits[c].parents[1])]_repository
=============================================================================
