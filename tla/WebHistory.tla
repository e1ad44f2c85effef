----------------------------- MODULE WebHistory -----------------------------
(***************************************************************************)
(* What the web server and "bgit status" say of two branches (web.go):     *)
(* whether a pull request can be merged, which commits it brings, and how  *)
(* far a branch is ahead of another. The walks over the commits are loops  *)
(* over a stack or a queue, one action for each commit taken from it, on a *)
(* store that may lack commits. One path stands for the files, which are   *)
(* compared path by path.                                                  *)
(*                                                                         *)
(* Bounds: N commits, no parent twice, at most one commit missing, and     *)
(* files only where none is.                                               *)
(***************************************************************************)
EXTENDS Naturals, Sequences, FiniteSets, SequencesExt

CONSTANTS N      \* bound: commits, each younger than its parents

Commit == 1..N
NoCommit == 0

VARIABLES
  parents,    \* the parents of each commit, in their order
  touched,    \* the commits that write the file; the others have their first parent's
  missing,    \* commits that the store lacks
  target, source,   \* the two branches
  goal,       \* "merge" (pullRequestMergeability) or "range" (commitRange)
  pc,         \* the loop, or how it ended
  stack,      \* commits to visit
  ancestors,  \* commits reached from the target
  seen,       \* commits reached from the source
  commits,    \* the commits listed, in the order they are found
  base        \* the merge base

input == <<parents, touched, missing, target, source, goal>>
vars == <<input, pc, stack, ancestors, seen, commits, base>>

Ended == {"mergeable", "conflict", "no base", "listed", "error"}

TypeOK ==
  /\ parents \in [Commit -> Seq(Commit)] /\ touched \subseteq Commit /\ missing \subseteq Commit
  /\ {target, source} \subseteq Commit /\ goal \in {"merge", "range"}
  /\ pc \in {"mark", "find", "list", "compare"} \cup Ended
  /\ stack \in Seq(Commit) /\ commits \in Seq(Commit)
  /\ ancestors \subseteq Commit /\ seen \subseteq Commit /\ base \in Commit \cup {NoCommit}

ParentLists(c) ==
  LET Older == 1..(c - 1)
  IN {<< >>} \cup {<<p>> : p \in Older} \cup {pq \in Older \X Older : pq[1] # pq[2]}

\* The history of a commit, itself included.
History[c \in Commit] == {c} \cup UNION {History[p] : p \in ToSet(parents[c])}

\* Commits that no walk comes near are the youngest, and alike.
Others == Commit \ (History[source] \cup History[target])
Alike == \A c \in Others : /\ parents[c] = << >> /\ c \notin touched \cup missing
                           /\ \A d \in c..N : d \in Others

Init ==
  /\ parents \in {f \in [Commit -> ParentLists(N)] :
                    \A c \in Commit : f[c] \in ParentLists(c)}
  /\ target \in Commit /\ source \in Commit /\ goal \in {"merge", "range"}
  /\ missing \in {{}} \cup {{c} : c \in Commit}
  /\ touched \in IF goal = "merge" /\ missing = {} THEN SUBSET Commit ELSE {{}}
  /\ Alike
  /\ pc = IF goal = "range" /\ source = target THEN "listed" ELSE "mark"
  /\ stack = <<target>> /\ ancestors = {} /\ seen = {} /\ commits = << >> /\ base = NoCommit

\* treeFilesForCommit: the file of a commit, none where no commit before has written it.
Content[c \in Commit] ==
  IF c \in touched THEN c ELSE IF parents[c] = << >> THEN NoCommit ELSE Content[parents[c][1]]

Top == Last(stack)
Fails == pc' = "error" /\ UNCHANGED <<input, stack, ancestors, seen, commits, base>>

\* markCommitAncestors, and the first loop of mergeBase: depth first, from the target.
Mark ==
  /\ pc = "mark" /\ stack # << >>
  /\ IF Top \notin ancestors /\ Top \in missing THEN Fails
     ELSE /\ ancestors' = ancestors \cup {Top}
          /\ stack' = Front(stack) \o (IF Top \in ancestors THEN << >> ELSE parents[Top])
          /\ UNCHANGED <<input, pc, seen, commits, base>>

Marked ==
  /\ pc = "mark" /\ stack = << >>
  /\ stack' = <<source>> /\ pc' = IF goal = "merge" THEN "find" ELSE "list"
  /\ UNCHANGED <<input, ancestors, seen, commits, base>>

\* The second loop of mergeBase: the first commit it takes that the target has, last parents
\* first.
Find ==
  /\ pc = "find" /\ stack # << >>
  /\ \/ /\ Top \in ancestors /\ base' = Top /\ pc' = "compare" /\ stack' = << >>
        /\ UNCHANGED <<input, ancestors, seen, commits>>
     \/ /\ Top \notin ancestors
        /\ IF Top \notin seen /\ Top \in missing THEN Fails
           ELSE /\ seen' = seen \cup {Top}
                /\ stack' = Front(stack) \o (IF Top \in seen THEN << >> ELSE parents[Top])
                /\ UNCHANGED <<input, pc, ancestors, commits, base>>

NoBase ==
  /\ pc = "find" /\ stack = << >> /\ pc' = "no base"
  /\ UNCHANGED <<input, stack, ancestors, seen, commits, base>>

\* hasMergeConflict: both have changed the file since the base, and not to the same.
Conflicting(b, t, s) == b # t /\ b # s /\ t # s
hasMergeConflict ==
  /\ pc = "compare"
  /\ IF {base, target, source} \cap missing # {} THEN Fails
     ELSE /\ pc' = IF Conflicting(Content[base], Content[target], Content[source])
                   THEN "conflict" ELSE "mergeable"
          /\ UNCHANGED <<input, stack, ancestors, seen, commits, base>>

\* The second loop of commitRange: breadth first, from the source, around what the target has.
List ==
  /\ pc = "list" /\ stack # << >>
  /\ LET c == Head(stack) IN
       IF c \notin seen \cup ancestors /\ c \in missing THEN Fails
       ELSE /\ seen' = seen \cup {c}
            /\ IF c \in seen \cup ancestors
               THEN stack' = Tail(stack) /\ UNCHANGED commits
               ELSE stack' = Tail(stack) \o parents[c] /\ commits' = Append(commits, c)
            /\ UNCHANGED <<input, pc, ancestors, base>>

Listed ==
  /\ pc = "list" /\ stack = << >> /\ pc' = "listed"
  /\ UNCHANGED <<input, stack, ancestors, seen, commits, base>>

Next == Mark \/ Marked \/ Find \/ NoBase \/ hasMergeConflict \/ List \/ Listed

Spec == Init /\ [][Next]_vars

(***************************************************************************)
(* Properties                                                              *)
(***************************************************************************)
\* The commits listed are those of the source that the target lacks, each once, whatever the
\* order in which merges make the walks meet; and no more commits are needed than those of both.
\* (The page shows the newest fifty of them: the cut of the list by age is left out.)
RangeIsDifference ==
  /\ pc = "listed" => ToSet(commits) = History[source] \ History[target]
                      /\ IsInjective(commits)
  /\ pc = "error" => missing \cap (History[source] \cup History[target]) # {}

\* A base is a common ancestor, and is found when there is one and no commit is missing.
BaseIsCommon ==
  /\ base # NoCommit => base \in History[source] \cap History[target]
  /\ pc = "no base" => History[source] \cap History[target] = {}

\* Without merge commits the base is the last common ancestor, and a source that holds all of
\* the target never conflicts with it.
Linear == \A c \in Commit : Len(parents[c]) <= 1
LinearBaseIsLast ==
  Linear =>
    /\ base # NoCommit => History[base] = History[source] \cap History[target]
    /\ pc = "conflict" => target \notin History[source]
=============================================================================
