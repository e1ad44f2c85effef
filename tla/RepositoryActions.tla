-------------------------- MODULE RepositoryActions --------------------------
(***************************************************************************)
(* What the commands of a terminal (broker_commands.go) and the actions of *)
(* the browser (web.go) ask a cloud broker to do to the repository of one  *)
(* work tree, by its name. A command takes the name from the Git config    *)
(* each time; the web server took it when it was started. The broker       *)
(* (broker/gcp/index.js) keeps a document of each name, with its issues    *)
(* and pull requests in collections below it; a rename moves them in       *)
(* several steps, and then the client corrects the names that it keeps.    *)
(*                                                                         *)
(* A command is the requests that it may send once its arguments are       *)
(* valid. Text, refs of pull requests (CloudBroker), stories' lanes, order *)
(* and archive (Board), keys and members (Accounts), and requests that     *)
(* only read are left out. Other people make repositories, and change      *)
(* settings while a form shows them, at once. Bounds: MaxCommands, Id, and *)
(* that no command starts once two have overlapped.                        *)
(***************************************************************************)
EXTENDS Naturals, FiniteSets

CONSTANTS
  Name, First,  \* names of repositories, and ours at the beginning
  Id,           \* numbers of issues and of pull requests
  Nobody,
  MaxCommands

VARIABLES
  docs, records,           \* the broker: the documents and what is below them
  config, origin, server,  \* the name in the Git config, in its remote, in the web server
  page,                    \* the settings that the browser's form was filled with
  rank,                    \* whether the person owns the broker, or the repository only
  task,                    \* what the terminal and the browser do
  commands,
  \* History: names left behind by a failed write or another's rename; a request was carried
  \* out on something else than our repository; a rename stopped half-way or overlapped another
  \* request; what was answered; settings were changed since the form was filled.
  behind, strayed, torn, answered, changed

vars == <<docs, records, config, origin, server, page, rank, task, commands, behind, strayed, torn,
          answered, changed>>
names == <<config, origin, server>>
history == <<behind, strayed, answered>>

Actor == {"terminal", "browser"}
Settings == [public : BOOLEAN, frozen : BOOLEAN]
Doc == [of : {"ours", "other", "ghost"}, public : BOOLEAN, frozen : BOOLEAN, protected : BOOLEAN,
        issue : Id \cup {0}, pr : Id \cup {0}]
Record == [in : {"issue", "pr"}, id : Id, story : BOOLEAN, open : BOOLEAN, of : {"ours", "other", "ghost"}]

\* A request: what it does, the kind and number of its record, the fields that it sets, the new
\* name.
Ask(does) == [does |-> does, kind |-> "none", id |-> 0, set |-> << >>, to |-> Nobody]
Create(kind) == [Ask("create") EXCEPT !.kind = kind]
Change(kind, sets) == {[Ask("change") EXCEPT !.kind = kind, !.id = i, !.set = s] : i \in Id, s \in sets}
Update(sets) == {[Ask("update") EXCEPT !.set = s] : s \in sets}
Rename == {[Ask("rename") EXCEPT !.to = n] : n \in Name}
Comment == << >>
Open(b) == [open |-> b]

(***************************************************************************)
(* The commands and actions                                                *)
(***************************************************************************)
issueCommand == {Create("issue")} \cup Change("issue", {Comment, Open(FALSE), Open(TRUE)})

handleAPIActionIssue == issueCommand

\* edit, priority, archive, take and assign are for a story; a comment is for any issue.
boardCommand == {Create("story")} \cup Change("story", {Comment}) \cup Change("issue", {Comment})

handleAPIActionBoard == boardCommand

prCreateCommand == {Create("pr")}

\* merge and close end a pull request; checkout and diff fetch what they have read.
prCommand == prCreateCommand \cup Change("pr", {Comment, Open(FALSE), Open(TRUE)})

brokerProtectionCommand == Update({[protected |-> b] : b \in BOOLEAN})

\* A new secret for CI: of the repository's document only the audit changes.
brokerAdminCICommand == Update({<< >>})

brokerAdminRepoCommand ==
  {Ask("delete")} \cup Update({[public |-> b] : b \in BOOLEAN} \cup {[frozen |-> b] : b \in BOOLEAN})
    \cup Rename

\* An invitation is for a repository that is there.
brokerInviteUserCommand == {Ask("invite")}

\* The form is sent as a whole: what it was filled with, but for one change.
Form == IF page = Nobody THEN {}
        ELSE {page, [page EXCEPT !.public = ~@], [page EXCEPT !.frozen = ~@]}
handleAPIActionSettings ==
  Update(Form \cup {[protected |-> b] : b \in BOOLEAN} \cup {<< >>}) \cup Rename \cup {Ask("invite"), Ask("delete")}

brokerAdminCommandWithInput ==
  brokerProtectionCommand \cup brokerAdminCICommand \cup brokerAdminRepoCommand \cup brokerInviteUserCommand

Terminal == issueCommand \cup boardCommand \cup prCommand \cup brokerAdminCommandWithInput
Browser == handleAPIActionIssue \cup handleAPIActionBoard \cup prCommand
             \cup handleAPIActionSettings

Idle == [at |-> "idle", name |-> Nobody, ask |-> Ask("none"), doc |-> Nobody, record |-> Nobody, fresh |-> TRUE]

TypeOK ==
  /\ docs \in [Name -> Doc \cup {Nobody}] /\ \A n \in Name : records[n] \subseteq Record
  /\ config \in Name /\ origin \in Name /\ server \in Name \cup {Nobody}
  /\ page \in Settings \cup {Nobody} /\ rank \in {"broker", "repository"}
  /\ \A a \in Actor :
       task[a].at \in {"idle", "load", "save", "record", "move", "copy", "retire", "config", "origin"}
  /\ commands \in 0..MaxCommands
  /\ behind \subseteq {"config", "origin", "server"} /\ {strayed, torn, changed} \subseteq BOOLEAN
  /\ \A n \in Name : \A r, s \in records[n] : r.in = s.in /\ r.id = s.id => r = s

NewDoc(of) == [of |-> of, public |-> FALSE, frozen |-> FALSE, protected |-> FALSE, issue |-> 0, pr |-> 0]

Init ==
  /\ docs = [n \in Name |-> IF n = First THEN NewDoc("ours") ELSE Nobody]
  /\ records = [n \in Name |-> {}]
  /\ config = First /\ origin = First /\ server = Nobody
  /\ page = Nobody /\ rank \in {"broker", "repository"}
  /\ task = [a \in Actor |-> Idle] /\ commands = 0
  /\ behind = {} /\ strayed = FALSE /\ torn = FALSE /\ answered = {} /\ changed = FALSE

Goto(a, t) == task' = [task EXCEPT ![a] = t]
At(a, step) == task[a].at = step

Exists(n) == docs[n] # Nobody
Ours == {n \in Name : Exists(n) /\ docs[n].of = "ours"}

(***************************************************************************)
(* The clients                                                             *)
(***************************************************************************)
\* A rename whose names are not all corrected.
Renaming(a) == task[a].ask.does = "rename" /\ task[a].at \notin {"load", "move"}

\* The name that a command goes by, and the names in what keeps it.
Keeper(a) == IF a = "terminal" THEN "config" ELSE "server"
configForBrokerCommand == config
KeptName(a) == IF a = "terminal" THEN configForBrokerCommand ELSE server

Start(a, ask) ==
  /\ At(a, "idle") /\ commands < MaxCommands
  /\ ~torn /\ KeptName(a) # Nobody /\ ask.to # KeptName(a)
  /\ commands' = commands + 1
  /\ Goto(a, [Idle EXCEPT !.at = "load", !.name = KeptName(a), !.ask = ask,
                          !.fresh = Ours # {} /\ Keeper(a) \notin behind /\ \A b \in Actor : ~Renaming(b)])
  /\ UNCHANGED <<docs, records, names, page, rank, history, changed>>

\* "bgit web" in the work tree: the server keeps the name that its config has.
openWebRepository ==
  /\ At("browser", "idle") /\ server # config
  /\ server' = config /\ page' = Nobody
  /\ behind' = IF "config" \in behind \/ \E b \in Actor : Renaming(b) THEN behind \cup {"server"} ELSE behind \ {"server"}
  /\ UNCHANGED <<docs, records, config, origin, rank, task, commands, strayed, answered, changed>>

SettingsOf(doc) == [public |-> doc.public, frozen |-> doc.frozen]

\* The page of settings is shown.
settingsInfo ==
  /\ At("browser", "idle") /\ server # Nobody /\ docs[server] # Nobody
  /\ page' = SettingsOf(docs[server]) /\ changed' = FALSE /\ (page' # page \/ changed)
  /\ UNCHANGED <<docs, records, names, rank, task, commands, history>>

(***************************************************************************)
(* The broker                                                              *)
(***************************************************************************)
\* Somebody who owns the repository, or the broker; of other repositories an owner of the
\* broker is an administrator only, and where there is none a document is begun.
Administers(n) == rank = "broker" \/ n \in Ours
Writes(n) == n \in Ours /\ ~docs[n].frozen

ensureRepo(n) == IF Exists(n) THEN docs[n] ELSE NewDoc("ghost")
Found(n, ask) == {r \in records[n] : r.in = (IF ask.kind = "pr" THEN "pr" ELSE "issue") /\ r.id = ask.id
                                        /\ (ask.kind = "story" => r.story)}

Served(t) ==
  CASE t.ask.does = "create" -> Writes(t.name) /\ ensureRepo(t.name)[IF t.ask.kind = "pr" THEN "pr" ELSE "issue"] + 1 \in Id
    [] t.ask.does = "change" -> Writes(t.name) /\ Found(t.name, t.ask) # {}
    [] t.ask.does \in {"update", "delete"} -> Administers(t.name)
    [] t.ask.does = "invite" -> Administers(t.name) /\ Exists(t.name)
    [] t.ask.does = "rename" -> Administers(t.name) /\ ~Exists(t.ask.to)

FirstStep(ask) ==
  CASE ask.does = "rename" -> "move"
    [] ask.does = "change" /\ ask.kind # "pr" -> "record"
    [] OTHER -> "save"

\* The document and the record are loaded, and the request is refused or goes on.
Load(a) ==
  /\ At(a, "load")
  /\ IF ~Served(task[a]) THEN Goto(a, Idle) /\ UNCHANGED strayed
     ELSE /\ Goto(a, [task[a] EXCEPT !.at = FirstStep(task[a].ask), !.doc = ensureRepo(task[a].name),
                      !.record = IF task[a].ask.does # "change" THEN Nobody
                                 ELSE CHOOSE r \in Found(task[a].name, task[a].ask) : TRUE])
          /\ strayed' = (strayed \/ ensureRepo(task[a].name).of # "ours")
  /\ UNCHANGED <<docs, records, names, page, rank, commands, behind, answered, changed>>

With(old, set) == [f \in DOMAIN old |-> IF f \in DOMAIN set THEN set[f] ELSE old[f]]

\* nextIssueID, nextPRID: the document counts what was created.
Counted(doc, ask) ==
  IF ask.does # "create" THEN doc
  ELSE IF ask.kind = "pr" THEN [doc EXCEPT !.pr = @ + 1] ELSE [doc EXCEPT !.issue = @ + 1]

NewRecord(doc, kind) ==
  [in |-> IF kind = "pr" THEN "pr" ELSE "issue", id |-> IF kind = "pr" THEN doc.pr ELSE doc.issue,
   story |-> kind = "story", open |-> TRUE, of |-> doc.of]

\* The names that others have taken before this step of a are old.
Outdated(a, t) == [b \in Actor |-> IF b = a THEN t ELSE [task[b] EXCEPT !.fresh = FALSE]]

\* Who deletes a repository takes the document with all that is below it.
Delete(a) ==
  /\ At(a, "save") /\ task[a].ask.does = "delete"
  /\ docs' = [docs EXCEPT ![task[a].name] = Nobody]
  /\ records' = [records EXCEPT ![task[a].name] = {}]
  /\ answered' = {r \in answered : r.of # task[a].doc.of}
  /\ task' = Outdated(a, Idle)
  /\ UNCHANGED <<names, page, rank, commands, behind, strayed, changed>>

Differs(t) == ~Exists(t.name) \/ SettingsOf(t.doc) # SettingsOf(docs[t.name])

\* saveRepo: the document is written as it was loaded, but for what the request sets.
Save(a) ==
  LET t == task[a]
      doc == With(Counted(t.doc, t.ask), IF t.ask.does = "update" THEN t.ask.set ELSE << >>)
  IN /\ At(a, "save") /\ t.ask.does # "delete"
     /\ docs' = [docs EXCEPT ![t.name] = doc]
     /\ Goto(a, IF t.ask.kind = "none" THEN Idle
                ELSE [t EXCEPT !.at = "record",
                               !.record = IF @ = Nobody THEN NewRecord(doc, t.ask.kind) ELSE @])
     /\ changed' = (changed \/ Differs([t EXCEPT !.doc = doc]))
     /\ UNCHANGED <<records, names, page, rank, commands, history>>

\* saveIssue, savePR.
SaveRecord(a) ==
  LET t == task[a]
      record == With(t.record, t.ask.set)
  IN /\ At(a, "record")
     /\ records' = [records EXCEPT ![t.name] = {r \in @ : r.in # record.in \/ r.id # record.id} \cup {record}]
     /\ answered' = answered \cup {[in |-> record.in, id |-> record.id, of |-> record.of]}
     /\ Goto(a, Idle)
     /\ UNCHANGED <<docs, names, page, rank, commands, behind, strayed, changed>>

\* /repo/rename: the document is written under the new name, what is below the old one is
\* copied, and the old document is deleted, but not what is below it.
Move(a) ==
  /\ At(a, "move")
  /\ docs' = [docs EXCEPT ![task[a].ask.to] = task[a].doc]
  /\ task' = Outdated(a, [task[a] EXCEPT !.at = "copy"])
  /\ behind' = IF a = "terminal" THEN behind \cup {"server"} ELSE behind
  /\ changed' = (changed \/ Differs(task[a]))
  /\ UNCHANGED <<records, names, page, rank, commands, strayed, answered>>

Copied(from, to) ==
  records[from] \cup {r \in records[to] : \A s \in records[from] : s.in # r.in \/ s.id # r.id}

moveRepoSubcollections(a) ==
  /\ At(a, "copy")
  /\ records' = [records EXCEPT ![task[a].ask.to] = Copied(task[a].name, task[a].ask.to)]
  /\ Goto(a, [task[a] EXCEPT !.at = "retire"])
  /\ UNCHANGED <<docs, names, page, rank, commands, history, changed>>

Retire(a) ==
  /\ At(a, "retire")
  /\ docs' = [docs EXCEPT ![task[a].name] = Nobody]
  /\ Goto(a, [task[a] EXCEPT !.at = "config"])
  /\ UNCHANGED <<records, names, page, rank, commands, history, changed>>

(***************************************************************************)
(* After a rename                                                          *)
(***************************************************************************)
\* The Git config and then its remote; an error of Git is ignored.
Correct(a) ==
  /\ At(a, "config")
  /\ \/ config' = task[a].ask.to /\ behind' = behind \ {"config"}
     \/ config' = config /\ behind' = behind \cup {"config"}
  /\ Goto(a, [task[a] EXCEPT !.at = "origin"])
  /\ UNCHANGED <<docs, records, origin, server, page, rank, commands, strayed, answered, changed>>

ServerAfter(a) == IF a = "browser" THEN task[a].ask.to ELSE server

CorrectOrigin(a) ==
  /\ At(a, "origin")
  /\ server' = ServerAfter(a)
  /\ LET rest == IF a = "browser" THEN behind \ {"server"} ELSE behind
     IN \/ origin' = task[a].ask.to /\ behind' = rest \ {"origin"}
        \/ origin' = origin /\ behind' = rest \cup {"origin"}
  /\ Goto(a, Idle)
  /\ UNCHANGED <<docs, records, config, page, rank, commands, strayed, answered, changed>>

\* The broker fails, or the connection; once it has answered, only the program can stop.
Fail(a) ==
  /\ ~At(a, "idle")
  /\ Goto(a, Idle)
  /\ IF task[a].at \in {"config", "origin"} \/ task[a].at \in {"copy", "retire"}
     THEN behind' = {"config", "origin", "server"} ELSE UNCHANGED behind
  /\ server' = IF a = "browser" /\ task[a].at \in {"config", "origin"} THEN Nobody ELSE server
  /\ UNCHANGED <<docs, records, config, origin, page, rank, commands, strayed, answered, changed>>

(***************************************************************************)
(* Other people                                                            *)
(***************************************************************************)
\* /repos/create: whoever administers the broker makes a repository.
brokerAdminRepoCreateCommand(n) ==
  /\ ~Exists(n) /\ \A m \in Name \ Ours : ~Exists(m)
  /\ docs' = [docs EXCEPT ![n] = NewDoc("other")]
  /\ UNCHANGED <<records, names, page, rank, task, commands, history, changed>>

Elsewhere(n) ==
  /\ n \in Ours /\ ~docs[n].public /\ page # Nobody /\ ~changed
  /\ docs' = [docs EXCEPT ![n].public = TRUE] /\ changed' = TRUE
  /\ UNCHANGED <<records, names, page, rank, task, commands, history>>

\* Two requests that the broker has begun to carry out, or two renames to their end.
Working(t) == t.at \in {"save", "record", "move", "copy", "retire"}
Corrects(t) == t.at \in {"move", "copy", "retire", "config", "origin"}
Overlap(tasks) ==
  \E a, b \in Actor :
    /\ a # b
    /\ (Working(tasks[a]) /\ Working(tasks[b])) \/ (Corrects(tasks[a]) /\ Corrects(tasks[b]))
HalfMoved(before, after) == \E a \in Actor : before[a].at \in {"copy", "retire"} /\ after[a].at = "idle"

Next ==
  /\ \/ \E ask \in Terminal : Start("terminal", ask)
     \/ \E ask \in Browser : Start("browser", ask)
     \/ openWebRepository \/ settingsInfo
     \/ \E a \in Actor :
          \/ Load(a) \/ Delete(a) \/ Save(a) \/ SaveRecord(a)
          \/ Move(a) \/ moveRepoSubcollections(a) \/ Retire(a)
          \/ Correct(a) \/ CorrectOrigin(a) \/ Fail(a)
     \/ \E n \in Name : brokerAdminRepoCreateCommand(n) \/ Elsewhere(n)
  /\ torn' = (torn \/ Overlap(task') \/ HalfMoved(task, task'))

Spec == Init /\ [][Next]_vars

(***************************************************************************)
(* What holds                                                              *)
(***************************************************************************)
Moving == \E a \in Actor : Renaming(a)
Kept == [config |-> config, origin |-> origin, server |-> server]

\* When no rename is under way, each name that the work tree and the server keep is the name of
\* our repository, unless it could not be written, another has renamed the repository since it was taken,
\* or the repository is gone; requests of a name with nothing behind it can spoil this (strayed).
NamesFollow ==
  ~Moving /\ ~torn /\ ~strayed /\ Ours # {} =>
    \A k \in DOMAIN Kept \ behind : Kept[k] \in Ours \cup {Nobody}

\* A request is carried out on our repository or refused: only one that goes by a name from before
\* a rename or a deletion can reach a repository of others, or begin a document where there is none.
RequestsReachOurs ==
  [][strayed' /\ ~strayed /\ ~torn => \E a \in Actor : At(a, "load") /\ ~At(a, "load")' /\ ~task[a].fresh]_vars

\* What was answered stays with the repository through its renames, unless one of them overlapped
\* another request or stopped half-way.
RecordsAreKept ==
  ~Moving /\ ~torn =>
    \A r \in answered, n \in Ours : r.of = "ours" => \E s \in records[n] : s.in = r.in /\ s.id = r.id

\* A command changes what it says and no other setting; the form of the browser, which sends
\* them all, takes nothing back unless it was filled before the last change.
SettingsAreKept ==
  [][\A a \in Actor : At(a, "save") /\ task[a].ask.does = "update" /\ docs' # docs /\ ~At(a, "save")'
       /\ task[a].doc = docs[task[a].name] /\ task[a].doc.of = "ours" /\ (a = "browser" => ~changed)
     => Cardinality({f \in {"public", "frozen", "protected"} : docs'[task[a].name][f] # docs[task[a].name][f]}) <= 1]_vars
=============================================================================
