------------------------------- MODULE MCTools -------------------------------
(***************************************************************************)
(* What a person uses besides Git: "bgit setup" with its simple dialogs    *)
(* (Dialogs), those of profiles (ProfileDialogs), the commands that deploy *)
(* brokers (Deployment), what makes a GCP project ready for that           *)
(* (GcloudProject), the menus that manage a broker (Management), and the   *)
(* commands that make repositories and work trees (Checkouts); and the     *)
(* local web server, with its caches (WebCache), its walks over commits    *)
(* (WebHistory), what it does to a work tree (WebWorktree) and how its     *)
(* pages follow the repository (WebMonitor). What both the terminal and    *)
(* the browser ask a cloud broker to do: to a repository by its name       *)
(* (RepositoryActions), to start a build (CiCommands) and to show one      *)
(* (CiWatch). One part is explored; the others stay as they start.         *)
(***************************************************************************)
EXTENDS Deployment

CONSTANTS
  c1, c2, bob, gcp, aws, r1, r2, trunk, side,
  Height, PerPage, Limit, MaxItems, MaxFields, PerProvider, MaxProfiles, MaxKeys, Polls, MaxExpired,
  User, Root, Key, Team, Home, Granted, None, Rounds, MaxOthers,
  Process, Dir, File, Bucket, MaxStarts,
  Handler, Id, Part, MaxVersion, NoFile, Mixed, N,
  Path, Blob, NoBlob, Branch, Main, MaxCommits, MaxActions,
  Watched, Capacity, MaxChanges, MaxRefused

VARIABLES part,
  kind, items, creatable, cursor, button, page, ticked, fields, required, editing, original,
  escape, ending, chosen, sequence, tabbed,
  dialog, profiles, creators, keys, existing, row, push, pages, selected, kept, form, values,
  initial, edited, before, read, finish, arrow,
  interactive, login, project, quota, api, meter, billed, step, polls, retried, expired, seen,
  managed, menu, was, undisturbed, subject, op, requests, outcome, rounds, others,
  records, index, hosted, global, tree, commandPc, command, starts, broken, tied, done,
  about, prs, given, syncs, settings, prsFile, settingsFile, handler, base, got, asked, only,
  parents, touched, missing, target, source, goal, loop, stack, ancestors, reached, commits, common,
  objects, refs, stash, head, staging, work, actions, remote, request, disturbed,
  files, other, last, greeted, connected, queue, refresh, reading, shown, refused, missed,
  docs, below, configName, originName, serverName, filled, rank, task, sent, behind, strayed,
  halved, answered, changed,
  branches, current, pushed, built, starting, settled,
  status, written, visible, watch, over, screen, printed, due, skipped

\* Bounds are numbers, and a channel holds more than the one event that greets the user.
WebBounds ==
  /\ MaxVersion \in Nat /\ N \in Nat /\ MaxChanges \in Nat /\ MaxRefused \in Nat
  /\ Capacity \in Nat /\ Capacity >= 2 /\ IsFiniteSet(Watched)
ASSUME WebAssumption == WebBounds

D == INSTANCE Dialogs
P == INSTANCE ProfileDialogs WITH
       cursor <- row, button <- push, ticked <- selected, editing <- edited, original <- before,
       escape <- read, ending <- finish, sequence <- arrow
G == INSTANCE GcloudProject WITH pc <- step
M == INSTANCE Management WITH
       broker <- managed, alone <- undisturbed, todo <- requests,
       KeyOf <- [k \in Key |-> IF k = "k3" THEN Root ELSE "ann"]
W == INSTANCE Checkouts WITH pc <- commandPc, me <- command, torn <- broken
C == INSTANCE WebCache WITH
       file <- prsFile, stored <- settingsFile, pc <- handler, alone <- only
H == INSTANCE WebHistory WITH pc <- loop, seen <- reached, base <- common
T == INSTANCE WebWorktree WITH
       commits <- objects, index <- staging, commands <- actions, MaxCommands <- MaxActions,
       Root <- [p \in Path |-> CHOOSE v \in Blob : TRUE]
E == INSTANCE WebMonitor WITH File <- Watched, page <- shown
R == INSTANCE RepositoryActions WITH
       Name <- {"a", "b"}, First <- "a", Id <- {1}, Nobody <- None,
       records <- below, config <- configName, origin <- originName, server <- serverName,
       page <- filled, commands <- sent, torn <- halved
B == INSTANCE CiCommands WITH
       local <- branches, head <- current, ask <- starting, MaxCommits <- 2
S == INSTANCE CiWatch WITH shown <- screen, Page <- 2, MaxEntries <- 3

\* A project of GCP with two regions and a stack of AWS.
Targets == {<<gcp, r1>>, <<gcp, r2>>, <<aws, r1>>}
Selections == {<< >>, <<<<gcp, r2>>, <<gcp, r1>>>>, <<<<aws, r1>>>>}

dialogVars == <<kind, items, creatable, cursor, button, page, ticked, fields, required, editing,
                original, escape, ending, chosen, sequence, tabbed>>
profileVars == <<dialog, profiles, creators, keys, existing, row, push, pages, selected, kept, form,
                 values, initial, edited, before, read, finish, arrow>>
gcloudVars == <<interactive, login, project, quota, api, meter, billed, step, polls, retried,
                expired, seen>>
managementVars == <<managed, menu, was, undisturbed, subject, op, requests, outcome, rounds, others>>
checkoutVars == <<records, index, hosted, global, tree, commandPc, command, starts, broken, tied, done>>
cacheVars == <<about, prs, given, syncs, settings, prsFile, settingsFile, handler, base, got, asked,
               only>>
historyVars == <<parents, touched, missing, target, source, goal, loop, stack, ancestors, reached,
                 commits, common>>
worktreeVars == <<objects, refs, stash, head, staging, work, actions, remote, request, disturbed>>
pageVars == <<files, other, last, greeted, connected, queue, refresh, reading, shown, refused, missed>>
actionVars == <<docs, below, configName, originName, serverName, filled, rank, task, sent, behind,
                strayed, halved, answered, changed>>
ciVars == <<branches, current, pushed, built, starting, settled>>
watchVars == <<status, written, visible, watch, over, screen, printed, due, skipped>>
ToolsVars == <<part, vars, dialogVars, profileVars, gcloudVars, managementVars, checkoutVars, cacheVars,
               historyVars, worktreeVars, pageVars, actionVars, ciVars, watchVars>>

\* Profiles that fill a page and more, with and without keys and commands to create more.
SomeProfiles ==
  \/ dialog = "init"
  \/ creators = {} /\ keys = 1 /\ profiles["gcs"] = 2 /\ profiles["s3"] = 1
  \/ creators = {"s3"} /\ keys = 0 /\ profiles["gcs"] = 0 /\ profiles["s3"] = 1
  \/ creators = {"gcs"} /\ keys = 1 /\ profiles["gcs"] = 1 /\ profiles["s3"] = 0

ToolsInit ==
  /\ part \in {"dialogs", "profiles", "deployment", "gcloud", "management", "checkouts", "cache", "history",
              "worktree", "page", "actions", "ci", "watch"}
  /\ Init
  /\ D!Init /\ (part # "dialogs" => kind = "output" /\ ticked = {})
  /\ P!Init /\ SomeProfiles
  /\ part # "profiles" => dialog = "setup" /\ creators = {} /\ selected = {}
  /\ G!Init
  /\ part # "gcloud" =>
       /\ ~interactive /\ login = "none" /\ ~project /\ quota = "none"
       /\ api = "off" /\ meter = "off" /\ billed = "off"
  /\ IF part = "management" THEN M!Init
     ELSE /\ managed = None /\ menu = "broker" /\ was = None /\ undisturbed = TRUE /\ subject = Root
          /\ op = M!Nothing /\ requests = << >> /\ outcome = "none" /\ rounds = 0 /\ others = 0
  /\ W!Init /\ (part # "checkouts" => ~hosted)
  /\ C!Init /\ (part # "cache" => about = "prs" /\ syncs)
  /\ IF part = "history" THEN H!Init
     ELSE /\ parents = << >> /\ touched = {} /\ missing = {} /\ target = 1 /\ source = 1 /\ goal = "merge"
          /\ loop = "mark" /\ stack = << >> /\ ancestors = {} /\ reached = {} /\ commits = << >> /\ common = 0
  /\ IF part = "worktree" THEN T!Init
     ELSE /\ objects = << >> /\ refs = [b \in Branch |-> 0] /\ stash = 0 /\ head = Main /\ actions = 0
          /\ staging = [p \in Path |-> NoBlob] /\ work = staging
          /\ remote = refs /\ request = None /\ disturbed = FALSE
  /\ E!Init /\ (part # "page" => \A f \in Watched : files[f] = 1)
  /\ R!Init /\ (part # "actions" => rank = "broker")
  /\ B!Init /\ (part # "ci" => built = <<TRUE>>)
  /\ S!Init

\* Commands are alike, and people (Deployment): the first command is c1 and ada's, and c2 is one
\* that starts while c1 runs.  (As a symmetry of the other parts, which have none, this would be slow.)
InOrder ==
  /\ started = 0 => \A c \in Command : me'[c].who # bob
  /\ pc[c2] = "idle" /\ pc'[c2] # "idle" => pc[c1] # "idle"

ToolsNext ==
  \/ /\ part = "dialogs" /\ D!Next
     /\ UNCHANGED <<part, profileVars, vars, gcloudVars, managementVars, checkoutVars, cacheVars,
                      historyVars, worktreeVars, pageVars, actionVars, ciVars, watchVars>>
  \/ /\ part = "profiles" /\ P!Next
     /\ UNCHANGED <<part, dialogVars, vars, gcloudVars, managementVars, checkoutVars, cacheVars,
                      historyVars, worktreeVars, pageVars, actionVars, ciVars, watchVars>>
  \/ /\ part = "deployment" /\ Next /\ InOrder
     /\ UNCHANGED <<part, dialogVars, profileVars, gcloudVars, managementVars, checkoutVars,
                      cacheVars, historyVars, worktreeVars, pageVars, actionVars, ciVars,
                      watchVars>>
  \/ /\ part = "gcloud" /\ G!Next
     /\ UNCHANGED <<part, dialogVars, profileVars, vars, managementVars, checkoutVars, cacheVars,
                      historyVars, worktreeVars, pageVars, actionVars, ciVars, watchVars>>
  \/ /\ part = "management" /\ M!Next
     /\ UNCHANGED <<part, dialogVars, profileVars, vars, gcloudVars, checkoutVars, cacheVars,
                      historyVars, worktreeVars, pageVars, actionVars, ciVars, watchVars>>
  \/ /\ part = "checkouts" /\ W!Next
     /\ UNCHANGED <<part, dialogVars, profileVars, vars, gcloudVars, managementVars, cacheVars,
                      historyVars, worktreeVars, pageVars, actionVars, ciVars, watchVars>>
  \/ /\ part = "cache" /\ C!Next
     /\ UNCHANGED <<part, dialogVars, profileVars, vars, gcloudVars, managementVars, checkoutVars,
                      historyVars, worktreeVars, pageVars, actionVars, ciVars, watchVars>>
  \/ /\ part = "history" /\ H!Next
     /\ UNCHANGED <<part, dialogVars, profileVars, vars, gcloudVars, managementVars, checkoutVars,
                      cacheVars, worktreeVars, pageVars, actionVars, ciVars, watchVars>>
  \/ /\ part = "worktree" /\ T!Next
     /\ UNCHANGED <<part, dialogVars, profileVars, vars, gcloudVars, managementVars, checkoutVars,
                      cacheVars, historyVars, pageVars, actionVars, ciVars, watchVars>>
  \/ /\ part = "page" /\ E!Next
     /\ UNCHANGED <<part, dialogVars, profileVars, vars, gcloudVars, managementVars, checkoutVars,
                      cacheVars, historyVars, worktreeVars, actionVars, ciVars, watchVars>>
  \/ /\ part = "actions" /\ R!Next
     /\ UNCHANGED <<part, dialogVars, profileVars, vars, gcloudVars, managementVars, checkoutVars,
                      cacheVars, historyVars, worktreeVars, pageVars, ciVars, watchVars>>
  \/ /\ part = "ci" /\ B!Next
     /\ UNCHANGED <<part, dialogVars, profileVars, vars, gcloudVars, managementVars, checkoutVars,
                      cacheVars, historyVars, worktreeVars, pageVars, actionVars, watchVars>>
  \/ /\ part = "watch" /\ S!Next
     /\ UNCHANGED <<part, dialogVars, profileVars, vars, gcloudVars, managementVars, checkoutVars,
                      cacheVars, historyVars, worktreeVars, pageVars, actionVars, ciVars>>

ToolsSpec == ToolsInit /\ [][ToolsNext]_ToolsVars

\* What is marked exists and is shown, forms leave nothing behind, a deletion takes a Tab, and
\* Esc, and so an arrow, takes back what was typed into a field (Dialogs, ProfileDialogs).
DialogsHold ==
  /\ [](part = "dialogs" => D!TypeOK /\ D!MarkedIsShown /\ D!DeletionIsDeliberate)
  /\ [](part = "profiles" => P!TypeOK /\ P!MarkedExists /\ P!FormsAreClean)
  /\ D!EscRestores /\ P!EscRestores

\* Commands that do not overlap do what they say (Deployment), and begin with a project that
\* is ready, changing nothing unasked but its APIs (GcloudProject).  An operation of a menu that
\* nobody disturbs does all of what it says or stops with an error, and only an invitation
\* makes a user (Management).  Work trees name one repository that exists, and all of it (Checkouts).
\* A command or an action reaches its own repository and its records, through renames too,
\* and changes the one setting that it says (RepositoryActions).  A branch that is pushed can
\* be built, with the build file that was found (CiCommands), and is watched to its end (CiWatch).
\* The browser takes back the commits that were not pushed, and discards one file (WebWorktree).
CommandsAreComplete ==
  /\ SetupIsComplete /\ DeletionIsComplete
  /\ G!OnlyApisUnasked /\ [](part = "gcloud" => G!TypeOK /\ G!ReadyMeansReady)
  /\ [](part = "management" => M!TypeOK) /\ M!OperationsAreComplete /\ M!OnlyInvitedAppear
  /\ [](part = "checkouts" => W!TypeOK /\ W!OneRepository /\ W!ConfigIsWhole)
  /\ [](part = "actions" => R!TypeOK /\ R!NamesFollow /\ R!RecordsAreKept)
  /\ R!RequestsReachOurs /\ R!SettingsAreKept
  /\ [](part = "ci" => B!TypeOK /\ B!RunsCanBuild /\ B!PushedIsStarted)
  /\ [](part = "watch" => S!TypeOK /\ S!WatchIsFaithful)
  /\ [](part = "worktree" => T!TypeOK) /\ T!UncommitIsExact /\ T!DiscardIsExact

\* One refresh that nothing disturbs repairs a cache (WebCache); a pull request brings the
\* commits that its target lacks, and is judged from a common ancestor (WebHistory); and pages
\* that nothing is on its way to show the repository (WebMonitor).
WebHolds ==
  /\ [](part = "cache" => C!TypeOK) /\ C!RefreshRepairs
  /\ [](part = "history" => H!TypeOK /\ H!RangeIsDifference /\ H!BaseIsCommon /\ H!LinearBaseIsLast)
  /\ [](part = "page" => E!TypeOK /\ E!PageIsCurrent)
=============================================================================
