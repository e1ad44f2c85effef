-------------------------------- MODULE Client --------------------------------
(***************************************************************************)
(* The native Git client: either the commands that exchange commits with a *)
(* bucket (Sync), or those that work on the files of one clone (Worktree). *)
(* The part that is not explored stays as it starts.                       *)
(***************************************************************************)
EXTENDS Sync, Sequences

CONSTANTS Path, Blob, NoBlob, Branch, Root, MaxCommits, MaxCommands

VARIABLES part, commits, refs, stash, head, index, work, commands

W == INSTANCE Worktree

ASSUME RootAssumption == Root \in W!Tree
ASSUME BoundsAssumption == MaxCommits \in Nat /\ MaxCommits >= 4 /\ MaxCommands \in Nat

\* HEAD names a branch or is a commit, never both.
ASSUME BranchAssumption == Branch \cap (0..MaxCommits) = {}

worktree == <<commits, refs, stash, head, index, work, commands>>
ClientVars == <<part, vars, worktree>>

\* An empty repository stands for the worktree that is not explored.
NoWorktree ==
  /\ commits = << >>
  /\ refs = [b \in Branch |-> 0]
  /\ stash = 0
  /\ head \in Branch
  /\ index = W!NoFiles
  /\ work = W!NoFiles
  /\ commands = 0

ClientInit ==
  /\ Init
  /\ \/ part = "sync" /\ NoWorktree
     \/ part = "worktree" /\ W!Init /\ remote = NoOid

ClientNext ==
  \/ part = "sync" /\ Next /\ UNCHANGED <<part, worktree>>
  \/ part = "worktree" /\ W!Next /\ UNCHANGED <<part, vars>>

ClientSpec == ClientInit /\ [][ClientNext]_ClientVars

\* The types of both parts.
TypesOK == TypeOK /\ W!TypeOK

\* What the commands of a clone keep, and undo (Worktree).
MergeKeepsBothSides == W!MergeKeepsBothSides
KeepsEdits == W!KeepsEdits
CommitsKept == W!HistoryKept /\ W!RevertUndoes
=============================================================================
