----------------------------- MODULE WebWorktree -----------------------------
(***************************************************************************)
(* What the browser does to the work tree through the local web server     *)
(* (internal/app/web.go). Each action of the browser runs commands of      *)
(* Worktree. Discarding a file and taking commits back first read the      *)
(* state of the repository, which is about the current branch, or the      *)
(* branch of the configuration when HEAD is detached; in the meantime a    *)
(* terminal may work in the same directory.                                *)
(***************************************************************************)
EXTENDS Naturals, Sequences

CONSTANTS
  Path, Blob, NoBlob, Branch, Root, MaxCommits, MaxCommands,   \* see Worktree
  Main,        \* the branch of the configuration
  None         \* no action is under way

VARIABLES
  commits, refs, stash, head, index, work, commands,           \* see Worktree
  remote,      \* the remote-tracking branches: a commit, or 0
  request,     \* the action that has read the state of the repository, and what it has read
  disturbed    \* something has happened since

W == INSTANCE Worktree

repository == <<commits, refs, stash, head, index, work>>
vars == <<repository, commands, remote, request, disturbed>>

Request == [kind : {"discard", "uncommit"}, path : Path, source : Nat]

TypeOK ==
  /\ W!TypeOK /\ remote \in [Branch -> 0..Len(commits)]
  /\ request \in Request \cup {None} /\ disturbed \in BOOLEAN
  /\ request # None => request.source \in W!Commits

\* The remote has what the branch has, less, nothing, or something else.
Init ==
  /\ W!Init
  /\ remote \in [Branch -> {0, 2, 4}]
  /\ request = None /\ disturbed = FALSE

-----------------------------------------------------------------------------
(***************************************************************************)
(* webRepositoryState                                                      *)
(***************************************************************************)
Ref == IF head \in Branch THEN head ELSE Main
LocalHead == refs[Ref]
RemoteHead == remote[Ref]
UnpushedCommits == W!Ancestors(LocalHead) \ W!Ancestors(RemoteHead)

\* localWorkingTreeStatus: what differs between HEAD, the index and the files.
Staged == {p \in Path : index[p] # W!TreeOf(W!HeadCommit)[p]}
Unstaged == {p \in Path : index[p] # NoBlob /\ work[p] # index[p]}
Untracked == {p \in Path : index[p] = NoBlob /\ work[p] # NoBlob}

-----------------------------------------------------------------------------
(***************************************************************************)
(* Actions of the browser                                                  *)
(***************************************************************************)
\* Whatever is done between the reading and the acting of a request disturbs it.
Calm == UNCHANGED <<remote, request>> /\ disturbed' = (request # None)

handleAPIActionCommit == W!Commit(FALSE) /\ Calm
handleAPIActionStage(p) == W!Add(p) /\ Calm
handleAPIActionUnstage(p) == W!HeadCommit # 0 /\ W!ResetPath(W!HeadCommit, p) /\ Calm
handleAPIActionPull == RemoteHead # 0 /\ W!Pull(RemoteHead) /\ Calm

Ask(kind, p, source) ==
  /\ request = None /\ source # 0
  /\ request' = [kind |-> kind, path |-> p, source |-> source] /\ disturbed' = FALSE
  /\ UNCHANGED <<repository, remote>>

\* A file goes back to what it is in the remote branch, or else in the local one ...
handleAPIActionDiscard(p) == Ask("discard", p, IF RemoteHead # 0 THEN RemoteHead ELSE LocalHead)
Discard ==
  /\ request # None /\ request.kind = "discard"
  /\ W!CheckoutPath(request.source, request.path)

\* ... and HEAD to the remote branch, when the local one is ahead.
handleAPIActionUncommit(p) ==
  RemoteHead # 0 /\ UnpushedCommits # {} /\ Ask("uncommit", p, RemoteHead)
Uncommit ==
  /\ request # None /\ request.kind = "uncommit"
  /\ W!Reset("soft", request.source)

Act == (Discard \/ Uncommit) /\ request' = None /\ disturbed' = FALSE /\ UNCHANGED remote

\* fetchWebRemoteTracking, of the browser or of a terminal.
fetchWebRemoteTracking ==
  /\ \E b \in Branch, c \in W!Commits : remote' = [remote EXCEPT ![b] = c]
  /\ disturbed' = (request # None) /\ UNCHANGED <<repository, request>>

Terminal ==
  /\ \/ \E p \in Path : \E v \in Blob : W!Edit(p, v)
     \/ W!Commit(TRUE)
     \/ \E b \in Branch : W!CheckoutBranch(b)
     \/ \E c \in W!Commits : W!CheckoutDetached(c)
  /\ Calm

\* MaxCommands counts what happens besides the end of a request.
Next ==
  \/ Act /\ UNCHANGED commands
  \/ /\ commands < MaxCommands /\ commands' = commands + 1
     /\ \/ handleAPIActionCommit \/ handleAPIActionPull
        \/ \E p \in Path : \/ handleAPIActionStage(p) \/ handleAPIActionUnstage(p)
                           \/ handleAPIActionDiscard(p)
        \/ handleAPIActionUncommit(CHOOSE p \in Path : TRUE)
        \/ fetchWebRemoteTracking \/ Terminal

Spec == Init /\ [][Next]_vars

-----------------------------------------------------------------------------
(***************************************************************************)
(* Properties                                                              *)
(***************************************************************************)
\* Commits that are taken back, with nothing disturbing and on a branch, are those that were
\* not pushed, but for a diverged branch, which gets those of the remote instead; the files
\* and the index keep what the commits had, so that nothing is left to stage.  (With a detached
\* HEAD the commits counted are those of another branch.)
UncommitIsExact ==
  [][Uncommit /\ request' = None /\ ~disturbed /\ head \in Branch =>
       /\ W!Ancestors(refs[head]) \ W!Ancestors(refs'[head]) = UnpushedCommits
       /\ UnpushedCommits # {} /\ refs'[head] = remote[head]
       /\ \A b \in Branch \ {head} : refs'[b] = refs[b]
       /\ Unstaged' = Unstaged /\ Untracked' = Untracked
       /\ Staged' \subseteq Staged \cup {p \in Path : W!TreeOf(LocalHead)[p] # W!TreeOf(RemoteHead)[p]}]_vars

\* A discarded file has no changes left when the remote branch and HEAD agree on it, and
\* otherwise a staged one that nobody made; no other file is touched.
DiscardIsExact ==
  [][Discard /\ request' = None /\ ~disturbed /\ head \in Branch =>
       LET p == request.path IN
       /\ p \notin (Unstaged \cup Untracked)'
       /\ p \in Staged' <=> remote[head] # 0 /\ W!TreeOf(remote[head])[p] # W!TreeOf(refs[head])[p]
       /\ \A q \in Path \ {p} : (q \in Staged \cup Unstaged \cup Untracked)' = (q \in Staged \cup Unstaged \cup Untracked)]_vars
=============================================================================
