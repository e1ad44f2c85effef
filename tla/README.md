# A TLA+ verification development for bucketgit (bgit)

bgit keeps Git repositories in object stores (a directory, Amazon S3, Google
Cloud Storage) and puts brokers in front of them. What makes it correct is that
shared state is replaced by compare-and-swap, by several programs at once, on
stores whose only shared primitive is a conditional write, a lease file or a
transaction; and that long sequences of such steps, in brokers, clones, the
set-up and the local web server, may overlap and stop anywhere. The modules here
model those protocols step by step, TLC checks them on small instances, and
TLAPS proves the central properties for every value of the constants.

## 1. Inventory of the system

| Component | Source | State it keeps | Operations | Interacts with |
|---|---|---|---|---|
| Store contract | `store/store.go`, `store/refs.go`, `store/path.go` | none | interfaces `Store`, `RefStore`, `ConditionalStore`; `ReadRefs` | implemented by the three stores, used by everything below |
| Filesystem store | `store/fs/store.go` | files, ref files, lease files | `CompareAndSwapRef`, `CompareAndSwap`, reads, writes, lists | other processes through the directory |
| S3 store, GCS store | `store/s3/store.go`; `store/gcs/store.go`, `storage_api.go` | objects with ETags or generations (in the bucket) | the same, as conditional requests | the bucket, through a client that resends |
| Receive-pack | `transport/receive_pack.go`, `pktline.go` | per push: commands, pack, listing, errors | advertise, read request, ingest pack, validate, swap refs, report | a store; other pushes through it |
| Upload-pack, remote helper | `transport/upload_pack.go`, `remote_helper.go` | none across requests | collect reachable objects, send a pack | a store, read only |
| Local broker | `broker/local/` | Git refs, per-ref records, `repo.json`, `repos.json`, `owners.json`, issues and board positions, a mutex per repository | update and reconcile refs; create, edit, move, take, archive issues; create and import repositories and owners | a store; other broker processes through it |
| GCP broker, AWS broker | `broker/gcp/index.js`, `broker/aws/template.yaml` | a document per repository, a record per pull request, users, teams, memberships, CI runs, nonces, Git ref objects | about 80 endpoints | Firestore or DynamoDB, the bucket, concurrent requests |
| CI materializer | `broker/gcp/materializer.js` | none | copies one commit for a build | the bucket |
| Broker client, capability store | `broker/client/`, `broker/capability/`, `protocol/` | keys | signed requests with timestamp and nonce; objects by signed URLs | the brokers |
| Repository reader | `repository/` | caches | objects, packs, deltas, snapshots | a store, read only |
| Native Git client | `internal/app/native_git.go`, `local_native.go`, `local_extra.go` | a Git directory, a work tree | push, fetch, pull, clone; every local command | brokers and stores; other clones through them |
| Set-up and deployment | `internal/app/setup.go`, `ssh.go`, `broker_lifecycle.go`, `broker_commands.go`, `internal/setup/` | cloud resources, the global config | dialogs, readiness of a cloud profile, deploy, upgrade, delete, import the first owner, manage users and teams | cloud command lines, brokers, a person at a terminal |
| Command line | `internal/app/main.go`, `broker_commands.go`, `internal/cli/` | files of one user | `init`, `clone`, commands on brokers, issues, pull requests | all of the above |
| Web interface | `internal/app/web.go`, `internal/web/` | caches under `.git/bucketgit`, an event hub | pages, actions on the work tree and on pull requests | the broker, the Git directory, browsers, a terminal in the same directory |
| Configuration, identity | `internal/config/`, `internal/identity/` | the global config, Git config | read, merge, write whole files | every command |

What is hard, per component, and what makes it correct:

- **Filesystem store.** The lease file is created with `O_EXCL`, never waited for,
  and taken over once it is two minutes old; a holder may crash or be slow.
  Correct: a call is one atomic compare-and-swap with a true answer, it always
  returns, a dead process blocks nobody for good.
- **Cloud stores.** The comparison is made in memory with what an earlier request
  returned; conditional requests are lost, answered late, and sent again.
  Correct: a stale writer never wins, a request takes effect once.
- **Receive-pack.** Refs are listed one by one while other pushes move them, and
  everything validated is used later. Objects arrive one by one and sessions
  break. Correct: branches only move forward, a ref never names an absent object,
  reports are true, an invalid command stops an atomic push.
- **Local broker.** A ref has three copies, written one after the other, under a
  mutex that another process does not share; issues and lists are whole files
  that are read, changed and swapped. Correct: a reconciliation restores the
  agreement of the copies and never disturbs it; no answered change is lost; a
  story stands where it was asked to, its column is numbered without gaps and the
  others keep their order; what is listed exists.
- **Deployed brokers.** Requests interleave; some writes are conditional
  (`updateRefCAS`), others write the whole document back (`saveRepo`), the ref
  object follows outside the transaction, a merge writes five times, accounts live
  in several documents and an index. Correct: swaps are exact, protections count
  when the swap takes effect, a merge is recorded only after its target moved,
  deleted users are out, a reindex repairs the index, runs of CI are not lost.
- **Signed calls.** A call is signed with every key and sent until a key is
  accepted, over a network that delays and repeats. Correct: it is made once, and
  the right key is found.
- **Native client.** Objects are uploaded before the ref moves and listed before
  the refs are read, while other clones do the same; local commands rewrite HEAD,
  index and files one after the other. Correct: the bucket holds whole histories,
  nobody's commits drop out, uncommitted edits survive what is not asked to
  destroy them, a merge has both sides.
- **Set-up.** Dialogs read a terminal byte by byte (an arrow begins with Esc);
  resources are made one by one with a one-time token for the first owner; people
  do this at the same time, and configs are read at the start and written at the
  end. Correct: what is marked is shown, nothing is deleted by accident, no broker
  is left with a used token and no owner, an undisturbed command does all it says.
- **Web server.** Handlers read a cache file, ask the broker and write the file;
  pages follow the repository by polling and a bounded channel of events. Correct: one
  undisturbed refresh repairs a cache, a page ends up showing the repository, walks
  over commits give the set they stand for.

Everything listed under "hazards" in `PROJECT.json` is one of these, at the line
where it bites.

## 2. Modules

| Module | Models | Relations |
|---|---|---|
| `AtomicRef` | what `RefStore.CompareAndSwapRef` promises: between call and answer the ref is compared and replaced in one step, or not at all | abstract specification of the next two |
| `FsRefStore` | `store/fs` | implements `AtomicRef` |
| `ConditionalRefStore` | `store/s3` and `store/gcs` | implements `AtomicRef` |
| `ReceivePack` | `transport.ServeReceivePack`, any number of sessions | its `Swap` is the atomic step of `AtomicRef`; `Pushes` chooses between any packs and complete ones |
| `LocalRefs`, `Board`, `Admin` | `broker/local`: refs, issues, repositories and owners | composed in `LocalBroker` |
| `CloudBroker`, `Accounts`, `CiRuns` | the deployed brokers: refs and pull requests; users, teams and memberships; CI runs | composed in `CloudService` |
| `SignedRequests` | a call of `broker/client` and its check by a broker | the same |
| `Sync`, `Worktree` | the native client: what it exchanges with a bucket; what it does in one clone | composed in `Client`; `WebWorktree` instantiates `Worktree` |
| `Keys`, `Dialogs`, `ProfileDialogs` | the terminal dialogs | `Keys` is extended by the other two |
| `GcloudProject`, `Deployment`, `Management`, `Checkouts` | a cloud profile made ready; brokers deployed and deleted; the menus that manage one; `init` and `clone` | composed in `MCTools` |
| `WebCache`, `WebHistory`, `WebWorktree`, `WebMonitor` | the local web server and its page | the same |
| `RepositoryActions`, `CiCommands`, `CiWatch` | what the terminal and the browser ask a broker to do to one repository; how a CI run is started; how it is watched | the same |
| `MC...` | constants for TLC and symmetry | extends the module it is about; `MCTools` composes its thirteen parts itself |
| `...Proofs` | theorems and their lemmas | extends the module it is named after; `ReceivePackProofs` extends `Pushes` and `WebProofs` extends `MCTools` |

The composed modules share nothing in the code but the process they run in, or
files that are different ones. A module that composes them (`LocalBroker`,
`CloudService`, `Client`, `MCTools`) picks a `part` in its initial state and lets
only that part move: it is the union of the systems, not their product, and every
property is one of the parts. The theorems are about these specifications
(of `MCTools`, the web server), so that a theorem names the very property that its run
checks.

### Stores
`FsRefStore`: one action per system call: `CreateLease` (`O_CREATE|O_EXCL`),
`StatLease`, `RemoveLease`, `ReadRef`, `WriteRef`, `ReleaseLease` (the deferred
remove), `Fail` (any of them fails). `attempt` counts the two rounds of
`acquireFileLease`. `lease` says whether the file is there and older than
`fileLeaseLifetime`; `owner` is a history variable, the file does not say whose it
is. `Crash`/`Restart` end and start a process anywhere. `ExpireOrphan` ages the
lease of a process that is gone, `ExpireHeld` that of a slow holder. Three
specifications differ in the clock: `NoExpirySpec` (no lease reaches two minutes),
`OrphanSpec` (only orphans do), `Spec` (any).

`ConditionalRefStore`: `FetchAttrs` and `FetchContent` are the two requests of GCS; S3
fetches both with one. `Compare` is the check in memory, `Condition` what the bucket
evaluates, `Send` the conditional write or delete, which is accepted, refused or
lost; `Reply` is the reply of an accepted one, which may be lost too. `NoReply` is
the client library's retry: up to `MaxSends` times the same request, then a failure.

### Receive-pack
`Connect` advertises, `AnySend`/`FullSend` are the client's request, `StoreObject`
stores one object of the pack, `EndUnpack` or `UnpackFails` end it, `ListRef` reads
one ref of the listing (`ListFails`: the listing fails), `Validate` is the loop of
`validateCommand` with the refusal of a spoiled atomic push, `Swap` one iteration
of the second loop, `Report` the report, `Break` the end of the connection or of
the process. Objects are commits, and `Parents` is the commit graph;
`FastForward` is `isAncestor` on the objects that can be loaded.

### Local broker
`LocalRefs`: `Acquire` is `LockRepository`, `Load` reads `repo.json`, `Swap` and
`WriteRecord` are `UpdateRef`, `ListGitRefs`, `ListRecords`, `RepairRecord` are
`ReconcileRepository`, `SaveState`, `Indexed`, `IndexConflict` are
`SaveRepositoryState` with the attempts at `repos.json` (16 in the code, `MaxTries`
here). `Fail` and `Crash` may strike anywhere; a failed swap may have been made.
`suspect` is a history variable: a call has failed since the last successful
reconciliation.

`Board`: a request reads `issues.json`, makes its change in memory (`CreateIssue`,
`MoveStory`, `TakeStory`, ...) and `SaveIssues` replaces the file if it still holds
what was read. `Ordered`, `Normalized` and `Index` are the arithmetic of positions.

`Admin`: creation and import of repositories and owners: `repo.json` first, then the
list entry, with the retries of the swaps of `repos.json` and `owners.json`.

### Deployed brokers and their clients
`CloudBroker`: one action per access to shared state: `Load` (`ensureRepo`, then
`Protect`, `CreatePr` or `EditElsewhere`, the edits of the copy that `Save` writes
back), `LoadPr`, `Transact` (GCP's transaction) or `ReadDoc` and `Put` (AWS's read and
conditional put), `WriteObject`, `WriteAgain` and `DropSource` (the rest of a merge),
`Save` (`saveRepo`), `SaveRecord` (`savePR`), `Fail`. `touched` names the readers whose
text has been overwritten: every write appends to the audit trail, so the text of
the document never comes back.

`Accounts`: a request reads and decides in one step and then makes its writes, one
step each (`todo`); every endpoint from `/owners/upsert` to
`/owners/transfer/accept` is an operator that lists its writes. `CiRuns`: the run
list of the repository document under `saveRepo`'s merge, with the build service.

`SignedRequests`: `Sign` makes all signatures, `Deliver` lets a request arrive (again),
and `Receive` is what the client makes of a reply. `Checked`, `Spent`, `Expiry` are
the broker's tests of timestamp and nonce.

### Native client
`Sync`: any number of clones, one branch; a command is a sequence of requests
(`StartPush`, `Upload`, `SetRemote`, `RecordPush`; `StartFetch`, `CopyObjects`,
`FetchRefs`, `Advance`), which may fail at each. Objects are commits, and a fetch may
copy only a part of them. `SetRemote` compares through the broker, and does not with
`--skip-broker`. `Worktree`: one action per local command on HEAD, branches, the
stash, index and files, with the order of its writes where a refusal comes late.

### Set-up, deployment and administration
`Dialogs` and `ProfileDialogs`: every dialog as a function of the bytes read.
`GcloudProject`: ask, repair, ask again, with logins that expire and changes that
are visible late. `Deployment`: the cloud resources one by one, the one-time token,
the import of the owner, and the config of each person, which a command reads
when it starts and writes when it ends. `Management`: an operation of a menu is a
sequence of requests to a broker that others change meanwhile. `Checkouts`: the keys
of the Git config that `init` and `clone` write, and the repository they name.

### Web interface
`WebCache`: handlers that read, ask and write two cache files, truncation included.
`WebHistory`: the walks behind "can be merged", the commits of a pull request, and
ahead and behind, commit by commit. `WebWorktree`: the actions of the browser on
the work tree, which read its state first, with a terminal beside them.
`WebMonitor`: poll, hub, channel and page.

### Commands on a repository of a cloud broker
`RepositoryActions`: a broker keeps a document per name and the issues and pull
requests below it. `Start` takes a command of the terminal or an action of the
browser with the name it goes by (the Git config each time, or what the web server
took when it started); `Load`, `Save`, `SaveRecord` and `Delete` are the broker's steps;
a rename is `Move`, `Copied` and `Retire` (new document, records, old document), and
then `Correct` and `CorrectOrigin` in the client. Others create, rename and delete at
any time (`Elsewhere`). `strayed`, `torn`, `behind` record what has made a name wrong.
`CiCommands`: `ciCommand` and `handleAPIActionCI` ask Git twice, for the commit
(`RevParse`) and for a build file in it (`detectCIConfig`), and send both (`RunCI`);
commits, switches and pushes come between. `CiWatch`: the loop of `watchCIRun`, with
status, log and sleep, and the second question (`LatestEntries`) for a log whose
first page has been printed.

## 3. Runs

| Run | Instance | Question and answer |
|---|---|---|
| `fs_no_expiry` | 3 processes, 2 object ids | crashes and I/O errors anywhere, no lease reaches two minutes: `LeaseExclusive`, and the store implements `AtomicRef` |
| `fs_liveness` | 2 processes, 1 object id | with leases of any age, under fairness: a call returns (`CallsReturn`), an orphaned lease is taken over (`OrphanIsTakenOver`) |
| `fs_takeover` | 2 processes, 2 object ids | **violated**: two processes that see one expired lease both take it over (see 5) |
| `conditional_store` | 2 callers, 2 object ids, 1 or 2 sends, ETags or generations | with losses and resends: `StaleWritersRejected`, `AppliedAtMostOnce`; with one send it implements `AtomicRef`, although an ETag may come back |
| `pushes` | 2 pushes; a branch and any packs of 3 commits in a fork, or branch and tag and complete packs | `NoDanglingRef`, `FastForwardOnly`, `AtomicRejectsAll`; with complete packs, histories stay complete and reports are true (`CompletePushesHold`) |
| `push_report` | 2 pushes, 1 branch | **violated**: a failed listing is reported as success |
| `local_broker` | refs: 2 calls of 1 process, 2 refs; board: 2 processes, 2 requests after 3 stories; administration: 2 processes, 2 names, 2 places | `AgreeWhenQuiet`, `ReconcileRepairs`, `ReconcileIsSafe`; `IssuesHold` (answered changes stay), `OrderHolds` (others keep their order, stories stand as asked, columns have no gaps); `ListingsHold` (what is listed exists where its creator put it, answered entries stay) |
| `local_two` | 2 calls in 2 processes, 1 ref | **violated**: a reconciliation overwrites newer copies |
| `cloud_requests` | 2 requests of every kind, 2 branches, 2 ids, 1 pull request, both clouds; 3 account requests, 2 overlapping, 2 users with a key; 1 signed call with 2 keys; 2 CI runs, 1 kept | `ProtectionHolds`, `SwapIsPrecise`, `MergedHasMoved`, `SerialAgrees`; `MembershipsHold`, `AccountsRepaired`; `CallsHold`; `RunsHold` (answered runs stay, ids differ) |
| `cloud_save` | two requests on GCP | **violated**: a saved document puts a ref back |
| `client` | sync: 2 clones, 3 commits in a fork; work tree: 2 files, 2 contents, 3 commands after two branches have parted | `RemoteComplete`, `BranchKept`; `KeepsEdits`, `CommitsKept`, `MergeKeepsBothSides` |
| `tools` | see `Tools.cfg` | `DialogsHold`, `DeploymentHolds`, `CommandsAreComplete`, `WebHolds`: each names the properties of the modules it stands for, in `MCTools` |

**Why the bounds are enough.** Most protocols are about one ref, file or document
and about a pair of actors: one that has read and one that writes meanwhile. Two
object ids besides the zero id let a value change and come back (ABA), and one
is enough where only agreement matters. Three processes are used for the lease,
where a third could slip between the two that exclude each other. `MaxGen = 4` lets a
caller be overtaken twice in the middle of its call; the bound is a guard of
the bucket's `Replace`, never of a property. `MaxTries = 2` has the first, the last
and a middle attempt. `MaxPr = 1` lets a pull request be created twice with one
id, merged, closed and commented on; `Guarded = {main}` protects the branch
that is merged into. Three stories let one move past two, with archived ones
between. Three account requests are one that prepares and two that overlap.
`Window = 2`, `Skew = 1`, `MaxTime = 5` let a signature be early, in time, on the
last second and late. `Cap = 1` with two runs drops one. A fork of three commits
has an ancestor, a descendant and a commit beside; the walks of the web server get
every graph of four commits, with one missing. Dialogs have one more row than the
window and one more item than the page. Two names let a repository be renamed and
another take its name; two commands of two people may overlap in a deployment, and a
log of three entries is longer than its page of two. Three commands in a work tree are a change,
a command that depends on it and one that undoes it; beside a browser two things happen
besides the end of its request, one before it asks or one in between, and two files show
that only one is touched. A channel of two events
overflows with two changes.

**Symmetry** is over what the configuration treats alike (object ids, processes,
sessions, clones, files, branches), and is not used with liveness. `tools` has
none: most of its parts are small, and the commands and people of `Deployment` are
put in order by a guard instead (`InOrder`).
**Deadlock** is not checked where the system really may stop: sessions, requests and
commands come to an end, and their number is bounded.

**Fairness** (`fs_liveness` only). A running process is scheduled (`WF` of its
steps) and time passes (`WF` of `ExpireOrphan`). `SF` of the lease's three system
calls says that crashes and I/O errors do not strike every single acquisition;
without it nobody could promise that an orphan goes. `CallsReturn` needs no more
than `WF`, because the code never waits for a lease. `OrphanIsTakenOver` assumes
besides, in its own statement, that somebody keeps asking for the ref. Nothing else
in the code promises that something will happen: requests end with their first
failure, and what is left is repaired by the next command of a person. What such
a repair achieves is stated as an action property of its last step
(`ReconcileRepairs`, `AccountsRepaired`, `RefreshRepairs`, `SetupIsComplete`).

## 4. Proofs

All proofs are checked by TLAPS for arbitrary constants; they assume nothing but
the named assumptions of the modules (the zero id is not an object id, packs and
parents are sets of commits, and so on) and, where said, a condition of the
theorem.

- `FsRefStoreProofs`: `FsRefStoreTypes`; `LeaseIsExclusive`, `FsRefStoreIsAtomic` under
  `NoExpirySpec`. `IInv` says that a holder is the creator of the file that is there
  (`LeaseOwned`), that what it has compared stays true until it writes (`Compared`), and
  that a process at work has not answered. Exclusion alone is not inductive:
  without the owner, the release of one process could remove another's file, which
  is what happens once leases expire.
- `ConditionalRefStoreProofs`: `ConditionalTypes`; `StaleWritersAreRejected` and
  `NothingIsAppliedTwice` for any number of sends, `SentOnceIsAtomic` when
  `MaxSends = 1`. `IInv` says that a caller about to send has fetched what it expects
  and that, as long as the object keeps the tag, it keeps that content; an ETag
  gives this by itself, a generation because it is never reused.
- `ReceivePackProofs`: `ReceivePackTypes`, `RefsNameObjects`, `PushesFastForward`,
  `HistoriesStayComplete`, `AtomicPushesAreSpoiled`, and `ReportsAreTrue` as long as
  listings succeed, for any commit graph, number of sessions and packs.
  `ValidatedObjects` and `ValidatedDescent` keep, for every command not yet applied,
  what validation has found; objects are never removed, and the swap compares
  with the value the descent was checked from. That `isAncestor` is right on
  incomplete stores is the lemma `ReachIsAncestry`: a walk that meets the old commit
  proves the ancestry whatever it could not load.
- `ReceivePackProofs` goes on with `PushesAreServed` and `CompletePushes`
  (`CompletePushesHold`): what the run explores is a behaviour of the sessions, and
  complete packs keep histories complete and reports true in it.
- `LocalBrokerProofs`: `LocalRefsTypes`; `OneBrokerReconciles`, `OneBrokerReconcilesSafely`
  and `OneBrokerAgrees` when one process serves all calls (`OneBroker`). `Locked` says that a call at work holds the
  mutex; `Reconciled` says which copies agree at each step of a reconciliation.
  `IssuesAreKept` (`IssuesHold`) and `ListingsAreKept` (`ListingsHold`) for any number of
  processes. For the board, `CopiesKeep` says that the copy a request is about to
  store has every issue it has read with at least the history it has read; the
  comparison in `saveIssues` makes what was read what is stored. `OrderIsKept`
  (`OrderHolds`) for any number of processes: `CopiesStand` says that the story a request
  is about stands in its copy where it was asked to be (`Stands`). The positions of a
  column are numbered by sorting, so where a story comes to stand, and that no number
  is left out, are counting arguments about the sort; a story that goes to the end is
  only followed by stories that had no position, or one beyond their number
  (`EndStands`). For the others,
  every change in memory is a chain of boards that are `Alike` but for one story, since the
  new positions of a column follow the old order (`RanksFollow`), and `CopiesOwn` says that
  a changed copy holds a number that neither the file nor another copy has, so that
  what is stored tells which request has stored it. For the lists, `Prepared` says what each call has put in
  place before it writes an entry.
- `CloudServiceProofs`: `CloudBrokerTypes`, `ProtectionsAreHonoured`, `SwapsArePrecise`,
  `MergesHaveMoved`, `SerialRequestsAgree` for any number of requests, refs and pull
  requests. `StillAsRead` says that a document nobody has written since it was read
  is still the one that was checked, which carries the conditional put;
  `MergeMoved` follows a merge from its swap to its record.
  `SignedCallsAreMadeOnce` (`CallsHold`: a call is made once, with a right key if the client
  has one) holds for any number of keys and any window if the client's clock is ahead
  by no more than the window. `TurnedAway` says that the client only goes on to
  another key when the one before has become useless: it is not entitled, or its
  signature is too old, and then so are all the others. With a clock further ahead
  this fails, because a request that is refused for being early can be accepted when
  it is repeated.
  `CiRunsAreKept` (`RunsHold`) for any number of requests and any length of the list:
  `CiInv` says that every copy of the list that a request holds is one the document has
  had, with ids of their own; what a cut drops is covered by as many newer runs as
  the list may have (`Covers`, by cardinality). That a run whose start nothing
  overlapped is kept itself, and not another one under its id, is `OwnInv`: such
  a start is the only one under way and has the newest id to give (`StartsAlone`), its run
  is known to nobody else before it is saved (`Unseen`), ids only grow (`IdsInOrder`), and
  so nobody else takes its id (`Distinct`). When a save falls between the read and the write of another,
  `next_ci_id` may go back: the answers so far are then left aside, and starts
  count as overlapping.
- `CloudServiceProofs`, accounts: `MembershipsAreListed` (`MembershipsHold`) and
  `AccountsAreRepaired` (`AccountsRepaired`) for any users, keys, teams and
  repositories. `AccountTypes` says that keys of a user are that user's, in every document and every pending write;
  `Tidy` and `Ordered` give the shape of the list of writes that a request has left
  (`SaveShape`, `DropShape`, `MoveShape`): what is still unlisted is what the remaining
  writes are going to list; `TeamsGranted` does the same for the grants of a team
  that is being deleted. About thirty endpoints are shown to begin with a list of one
  of these shapes (`Sound`).
- `ClientProofs`, exchange with the bucket: `SyncTypes`, `BucketIsComplete`
  (`RemoteComplete`) and `NoCommitIsLost` (`BranchKept`) for any number of clones and any
  commit graph, merges included. `RemoteComplete` is not inductive: a clone may track,
  and then push, a branch of whose history it holds only a part, because it fetched
  while another clone uploaded. `TipComplete` says where the rest is: what a clone
  lacks of its own branch is in the bucket, and stays there. `PushedComplete` carries it
  from the swap to the remote-tracking branch, and `PushHasTip` is what makes the walk
  of the fast-forward check start at a commit.
- `ClientProofs`, the work tree: `ClientTypes` (`TypesOK`), `EditsSurvive` (`KeepsEdits`),
  `CommitsAreKept` (`CommitsKept`) and `MergesKeepBothSides` (`MergeKeepsBothSides`) for any
  files, contents, branches and number of commands. The types say more than their
  name: parents are older than their child, and branches, the stash and a detached
  `HEAD` name commits that are there. The histories are a recursive walk, and `mergeBase` is
  a recursive search; that both do what they are defined to do is shown for every
  commit by a least counterexample (`LeastNumber`, `Walked`, `FirstMets`), because the
  provers cannot instantiate the library's theorems on recursive functions.
  `AncestorsStay` says that a new commit changes no history. `LinearMeets` says that in two
  histories without merges the search finds the one commit that they parted from, and
  `MergesStay` that a merge stays correct when commits are added. With merges in the
  histories the search may return a base that is not the last one, and the property
  does not claim otherwise.
- `DeploymentProofs`: `DeploymentsAreSafe` (`DeploymentHolds`), `SetupsAreComplete`
  (`SetupIsComplete`) and `DeletionsAreComplete` (`DeletionIsComplete`), for any people,
  targets, choices and number of commands, crashes included. `Ready` says that a command at
  a target has one to work on. For the two action properties, `KindsFit` says which
  steps each kind of command can be at, `LeftAlone` that a command in `alone` is the only
  busy one, and `Progress` what such a command has done so far and what it remembers:
  each broker it has deployed is there, owned, and in the config it is about to write.
  Without `LeftAlone` a second command could delete a broker between two steps, which
  is what the models allow and what overlapping commands lose.
- `WebProofs`: `WebIsRight` (`WebHolds`), in the specification that the run explores, for
  any number of requests at once, any acyclic history and any watched files. Of a
  cache, `Faithful` follows a refresh that nothing has disturbed: what it read is what
  the file holds, and what it has got is what the broker has. Of the histories,
  `Reaching` and `Listing` say what the stack and the marks of a walk are at each step:
  what is marked is reached, and what is reached and not marked is reached from
  something on the stack; that the set of all ancestors is what its recursive
  definition says is again shown by a least counterexample, and `LineLeads` says that
  on a line a walk meets the last common commit first. Of a page, `WillSee` says that
  whatever it lacks is announced: an event is in the channel, or the next poll sees it
  (`Due`) because a file is younger than the newest one it knew, or fewer files than it
  counted are as old (`OldFiles`). `GreetedOnce` is where the channel must hold two events: the greeting and one more.

Assumptions on constants are the weakest the proofs need, and TLC evaluates each in
a run: bounds are natural numbers (`BoundsAssumption`; the work tree starts with four
commits, so `MaxCommits` is at least four); names of branches are no numbers of commits
(`BranchAssumption` of `Client`: `HEAD` is one or the other); the first tree is a tree
(`RootAssumption`); a choice in a set-up is a sequence of targets (`ChoicesAssumption`);
a channel of the web server holds two events or more (`WebAssumption`: eight in the
code); columns include those the code names (`LaneAssumption`); `Nothing`, `NoOid` and
the like are no values.

Only model-checked:

- Liveness (`CallsReturn`, `OrphanIsTakenOver`): fairness and `ENABLED` are beyond the
  prover.
- What the run `tools` checks besides deployments and the web server (`DialogsHold` and
  the other clauses of `CommandsAreComplete`): dialogs over a few bytes and rows, menus,
  work trees, names and builds. TLC exhausts these small instances, and most of their
  constants are small in the code too.

## 5. Where code and documents disagree

Four runs end in a counterexample to something the repository says:

1. `fs_takeover` (`README.md:548-550`, "stale writers are rejected"). Two processes
   find the same expired lease; one removes it and creates its own, the other then
   removes that new file: both compare and write. `acquireFileLease` does not check
   that what it removes is what it saw expired.
2. `push_report` (`SEGMENT.md:399-400`). When `ReadRefs` fails in `applyCommands`,
   the report is built from a nil map and says `ok` for every command.
3. `local_two` (comment at `broker/local/refs.go:41-44`). `ReconcileRepository` is
   called safe "when another local-broker process updated a shared bucket"; between
   its listing and its writes such an update is undone in records and ref map.
4. `cloud_save` (`SEGMENT.md:509`, `CHANGELOG.md:260-261`). `saveRepo` writes back
   the whole document its request has loaded, so saving a protection, a pull request
   or an audit entry takes back a ref that has been swapped meanwhile.

The models also contain behaviour that no document excludes clearly enough to be
called a disagreement: an S3 request that was resent reports a conflict for an
update that was made; a GCS writer that loses the race between its two reads gets a
plain failure instead of `ErrConflict`; a swap that fails in an atomic push leaves the
swaps before it in place; `UpdateRef` may return `ErrConflict` because of `repos.json`
after the ref was changed; the Git ref is written before its broker record
(`README.md:283-285` has it the other way round); a comment saved after a merge
reopens the pull request; two pull requests created at once get one id; CI runs whose starts overlap
may take one id, and one of them is lost; a story moved to the end of a column, as
`board move` does by default, may stand before stories whose positions archived ones
have left high; Firestore's `merge: true` keeps the entry of a deleted ref; the broker of GCP takes a repeated
request in the last second of its timestamp; grants to a user outlive the user;
users whose invitation is pending may read and are not listed; a push with
`--skip-broker` overwrites what others have pushed since the listing; overlapping
commands lose entries of the global config. Noticed while reading and not modelled:
`/issues/take` of both cloud brokers calls `saveIssues` without its first argument
(`broker/gcp/index.js:2379`, `broker/aws/template.yaml:2823`) and so fails.

## 6. Not modelled

- **Arithmetic on bytes, one pass over data that nobody else writes.** The
  repository reader (packs, deltas, objects), packet framing, upload-pack and the
  remote helper, the CI materializer. They share no state and wait for nobody; what
  could go wrong in them is a matter of a decoder and its inputs, which a tester
  reaches and a model of whole commits does not.
- **Adapters.** The capability store, the command line's adapters of the transport,
  the endpoints of the broker client, and commands that send one request and
  print the answer: the protocols under them are modelled where they live.
- **Issues of the deployed brokers.** Their handlers repeat those of the local board
  on records of their own.
- **AWS where it repeats GCP.** Users, teams, CI runs and menus are modelled from
  the handlers of GCP; those of AWS put whole items in the same order.
- **Left out of what is modelled.** Path validation and packed-refs; text of
  comments, issues and audit entries; tags, file modes and ignore rules in the work
  tree; rendering, and the cut of a list of commits at fifty; templates of cloud resources; creation of cloud profiles; parsing
  of configs and the lookup of SSH keys.
- **Fewer parties than the code allows.** One branch in `Sync`; a clone and a work
  tree run one command at a time; a key is used in the name of its own user only;
  the document of a deployed broker exists under its present id.

What would add most from here: two commands at once in one clone (HEAD is read again
after the upload); the issues of the deployed brokers, composed with `CloudBroker`'s
document; fixed-width decoding of pack offsets against a reference definition; and
proofs of `OneRepository` (`Checkouts`), `NamesFollow` (`RepositoryActions`) and
`RunsCanBuild` (`CiCommands`).
