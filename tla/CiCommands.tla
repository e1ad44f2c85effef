----------------------------- MODULE CiCommands -----------------------------
(***************************************************************************)
(* "bgit ci run" (broker_commands.go) and the CI page of the browser       *)
(* (web.go). Who starts a run reads a commit from the work tree's Git and  *)
(* looks for a build file in it, while commits are made and pushed; the    *)
(* broker (broker/gcp/index.js) starts the run only if its ref is at that  *)
(* commit. The list of runs is in CiRuns, watching one in CiWatch. Bound:  *)
(* MaxCommits.                                                             *)
(***************************************************************************)
EXTENDS Naturals, Sequences

CONSTANTS Branch, Main, None, MaxCommits

VARIABLES
  local, head,  \* the branches of the work tree, and the one that is checked out
  pushed,       \* the refs of the broker
  built,        \* for each commit whether it has a build file
  ask,          \* what the terminal or the browser is starting, or has
  settled       \* history: the branch was pushed when it began, and nothing was done since

vars == <<local, head, pushed, built, ask, settled>>

Starter == {"terminal", "browser"}
Nothing == [by |-> "terminal", at |-> "idle", ref |-> Main, commit |-> 0, config |-> "none"]

TypeOK ==
  /\ local \in [Branch -> 0..Len(built)] /\ pushed \in [Branch -> 0..Len(built)] /\ head \in Branch
  /\ built \in Seq(BOOLEAN) /\ Len(built) <= MaxCommits
  /\ ask \in [by : Starter, at : {"idle", "commit", "config", "send", "started", "conflict"}, ref : Branch,
             commit : 0..Len(built), config : {"none", "given", "found", "default"}]
  /\ settled \in BOOLEAN

Init ==
  /\ built \in [{1} -> BOOLEAN] /\ head = Main
  /\ local = [b \in Branch |-> IF b = Main THEN 1 ELSE 0] /\ pushed = local
  /\ ask = Nothing /\ settled = FALSE

(***************************************************************************)
(* The work tree and the broker's refs                                     *)
(***************************************************************************)
Unsettle == settled' = FALSE /\ UNCHANGED ask

Commit ==
  /\ Len(built) < MaxCommits
  /\ \E b \in BOOLEAN : built' = Append(built, b)
  /\ local' = [local EXCEPT ![head] = Len(built) + 1]
  /\ Unsettle /\ UNCHANGED <<head, pushed>>

Switch(b) ==
  /\ b # head /\ head' = b
  /\ local' = IF local[b] = 0 THEN [local EXCEPT ![b] = local[head]] ELSE local
  /\ Unsettle /\ UNCHANGED <<pushed, built>>

Push ==
  /\ pushed[head] # local[head] /\ pushed' = [pushed EXCEPT ![head] = local[head]]
  /\ Unsettle /\ UNCHANGED <<local, head, built>>

(***************************************************************************)
(* Starting a run                                                          *)
(***************************************************************************)
Goto(a) == ask' = a /\ UNCHANGED <<local, head, pushed, built>>

Begin(by, ref, config, commits) ==
  /\ ask.at \in {"idle", "started", "conflict"}
  /\ Goto([by |-> by, at |-> "commit", ref |-> ref, commit |-> 0, config |-> config])
  /\ settled' = (local[ref] # 0 /\ pushed[ref] = local[ref] /\ commits)

\* Without --ref it is the branch that is checked out.
ciCommand(ref, config) == Begin("terminal", IF ref = None THEN head ELSE ref, config, ref = None)

handleAPIActionCI(ref, config) == Begin("browser", ref, config, TRUE)

\* rev-parse: the terminal takes HEAD whatever the ref is; the browser the ref, or HEAD if the
\* work tree does not have it.
Parsed == IF ask.by = "browser" /\ local[ask.ref] # 0 THEN local[ask.ref] ELSE local[head]

RevParse ==
  /\ ask.at = "commit"
  /\ Goto([ask EXCEPT !.at = IF ask.config = "given" THEN "send" ELSE "config", !.commit = Parsed])
  /\ UNCHANGED settled

\* The build file is looked for in the commit, not in the work tree; without one the terminal gives
\* up, and the browser leaves it to the broker's default.
detectCIConfig ==
  LET found == built[ask.commit]
  IN /\ ask.at = "config"
     /\ Goto(IF found THEN [ask EXCEPT !.at = "send", !.config = "found"]
             ELSE IF ask.by = "terminal" THEN Nothing
             ELSE [ask EXCEPT !.at = "send", !.config = "default"])
     /\ UNCHANGED settled

\* /ci/run: a ref that the broker has, at the commit; or it is not found, or a conflict.
RunCI ==
  /\ ask.at = "send"
  /\ Goto([ask EXCEPT !.at = IF pushed[ask.ref] = ask.commit THEN "started" ELSE "conflict"])
  /\ UNCHANGED settled

\* Git fails, the broker, Cloud Build or the connection.
Fail == ask.at \in {"commit", "send"} /\ Goto(Nothing) /\ UNCHANGED settled

Next ==
  \/ Commit \/ (\E b \in Branch : Switch(b)) \/ Push
  \/ \E config \in {"none", "given"} :
       (\E ref \in Branch \cup {None} : ciCommand(ref, config)) \/ (\E ref \in Branch : handleAPIActionCI(ref, config))
  \/ RevParse \/ detectCIConfig \/ RunCI \/ Fail

Spec == Init /\ [][Next]_vars

\* A run builds a commit that has the build file which was found for it, although commits are made
\* and branches switched between the questions that are asked of Git.
RunsCanBuild == ask.at = "started" /\ ask.config = "found" => built[ask.commit]

\* Who pushed a branch and does nothing else can build it: the checked out one from the terminal, each
\* from the browser.  (With --ref the terminal asks for another branch at the commit of HEAD,
\* which is a conflict.)
PushedIsStarted == settled => ask.at # "conflict"
=============================================================================
