------------------------------- MODULE CiWatch -------------------------------
(***************************************************************************)
(* "bgit ci watch" (broker_commands.go): who watches a CI run polls its    *)
(* status and log, and prints what is new, until the run is over. For each *)
(* poll the broker (broker/gcp/index.js) asks Cloud Build for the status   *)
(* and then Cloud Logging for a page of entries, which arrive late.        *)
(*                                                                         *)
(* An entry of the log is its number, and all have one length. Entries     *)
(* arrive in order, and other builds are silent. Bound: MaxEntries; Page   *)
(* is 1000 in the code.                                                    *)
(***************************************************************************)
EXTENDS Naturals, Sequences

CONSTANTS Page, MaxEntries

VARIABLES
  status, written, visible,  \* the run: its status, its entries, and how many can be read
  watch, over,               \* what the watcher does next; the status that it has read was a last one
  shown, printed,            \* the entries on the screen, and how much it takes for printed
  due, skipped  \* history: the entries that could be read with the status; an answer was the end of a long log

run == <<status, written, visible>>
vars == <<run, watch, over, shown, printed, due, skipped>>

ciStatusTerminal(s) == s \in {"passed", "failed", "cancelled", "timed_out"}

TypeOK ==
  /\ status \in {"queued", "building", "passed", "failed"}
  /\ visible \in 0..written /\ written \in 0..MaxEntries /\ printed \in 0..Page
  /\ watch \in {"idle", "status", "log", "again", "sleep", "done"} /\ over \in BOOLEAN
  /\ shown \in Seq(1..MaxEntries) /\ due \in 0..MaxEntries /\ skipped \in BOOLEAN

Init ==
  /\ status = "queued" /\ written = 0 /\ visible = 0
  /\ watch = "idle" /\ over = FALSE /\ shown = << >> /\ printed = 0 /\ due = 0 /\ skipped = FALSE

\* Cloud Build goes on with the build, which writes its log.
Build ==
  /\ ~ciStatusTerminal(status)
  /\ \/ status' \in (IF status = "queued" THEN {"building"} ELSE {"passed", "failed"}) /\ UNCHANGED written
     \/ status = "building" /\ written < MaxEntries /\ written' = written + 1 /\ UNCHANGED status
  /\ UNCHANGED <<visible, watch, over, shown, printed, due, skipped>>

\* Cloud Logging takes in what was written.
Ingest ==
  /\ \E n \in (visible + 1)..written : visible' = n
  /\ UNCHANGED <<status, written, watch, over, shown, printed, due, skipped>>

watchCIRun ==
  /\ watch \in {"idle", "sleep"} /\ watch' = "status"
  /\ UNCHANGED <<run, over, shown, printed, due, skipped>>

\* /ci/logs: the status is refreshed first.
refreshCIRun ==
  /\ watch = "status" /\ watch' = "log"
  /\ over' = ciStatusTerminal(status) /\ due' = visible
  /\ UNCHANGED <<run, shown, printed, skipped>>

AtMostAPage(n) == IF n < Page THEN n ELSE Page
FirstPage == [i \in 1..AtMostAPage(visible) |-> i]
LastPage == [i \in 1..AtMostAPage(visible) |-> visible - AtMostAPage(visible) + i]

\* Of what came, the part beyond what was printed.
PrintEntries(log) ==
  /\ IF Len(log) > printed
     THEN shown' = shown \o SubSeq(log, printed + 1, Len(log)) /\ printed' = Len(log)
     ELSE UNCHANGED <<shown, printed>>
  /\ watch' = IF over THEN "done" ELSE "sleep"
  /\ UNCHANGED <<run, over, due>>

\* ciRunLogs: the first entries of the build; if there are none, those of it among the latest of
\* all builds, when more may have arrived.
ciRunLogs ==
  /\ watch = "log"
  /\ IF visible > 0 THEN PrintEntries(FirstPage) ELSE watch' = "again" /\ UNCHANGED <<run, over, shown, printed, due>>
  /\ UNCHANGED skipped

LatestEntries == watch = "again" /\ PrintEntries(LastPage) /\ skipped' = (skipped \/ visible > Page)

\* A request that fails ends the command; the next one begins with an empty screen.
Fail ==
  /\ watch \in {"status", "log", "again"} /\ watch' = "idle"
  /\ shown' = << >> /\ printed' = 0 /\ due' = 0 /\ skipped' = FALSE /\ over' = FALSE
  /\ UNCHANGED run

Next == Build \/ Ingest \/ watchCIRun \/ refreshCIRun \/ ciRunLogs \/ LatestEntries \/ Fail

Spec == Init /\ [][Next]_vars

\* Whoever watches a run sees each entry of its log once and in order, and has seen, when the command
\* ends, all that could be read when the run was found over, up to a page.  (The second
\* question, asked when the first was answered with nothing, brings the end of a long log.)
WatchIsFaithful ==
  ~skipped =>
    /\ shown = [i \in 1..Len(shown) |-> i]
    /\ watch = "done" => Len(shown) >= AtMostAPage(due)
=============================================================================
