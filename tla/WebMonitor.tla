----------------------------- MODULE WebMonitor -----------------------------
(***************************************************************************)
(* How a page of the browser follows the repository: monitorWebPath polls  *)
(* a fingerprint of the Git directory and broadcasts an event through the  *)
(* hub (internal/web/events.go); the page (internal/web/www/app.js)        *)
(* refreshes itself at an event, when it is loaded and every half minute,  *)
(* but never twice at a time. Clocks do not go backwards and no two writes *)
(* have the same time.                                                     *)
(***************************************************************************)
EXTENDS Naturals, Sequences, FiniteSetsExt, SequencesExt

CONSTANTS
  File,       \* files whose names and times the fingerprint is taken of
  Capacity,   \* events that the channel of a page holds
  MaxChanges, \* bound: changes of the repository
  MaxRefused  \* bound: refreshes that fail, and connections that are lost

VARIABLES
  files,      \* files[f]: when f was last written, or 0 when there is no such file
  other,      \* changes elsewhere: the index, tracking branches, tags, the work tree
  last,       \* the fingerprint at the last poll
  greeted,    \* the role of the user has been broadcast
  connected,  \* the page is subscribed
  queue,      \* the events of its channel
  refresh,    \* its refresh: "none", "asked", "read" (by the server)
  reading,    \* what the server has read
  page,       \* what the page shows
  refused,    \* number of failures, for the bound
  missed      \* history: nothing will tell the page of a change since its last reading

repository == <<files, other>>
vars == <<files, other, last, greeted, connected, queue, refresh, reading, page, refused, missed>>

webPathFingerprint ==
  <<Max({files[f] : f \in File} \cup {0}), Cardinality({f \in File : files[f] # 0})>>

Changes == Max({files[f] : f \in File} \cup {other, last[1], reading[2], page[2]})

TypeOK ==
  /\ files \in [File -> 0..MaxChanges + 1] /\ other \in 0..MaxChanges + 1
  /\ last \in (0..MaxChanges + 1) \X (0..Cardinality(File))
  /\ greeted \in BOOLEAN /\ connected \in BOOLEAN /\ missed \in BOOLEAN
  /\ queue \in BoundedSeq({"git", "whoami"}, Capacity) /\ (queue # << >> => connected)
  /\ refresh \in {"none", "asked", "read"} /\ refused \in 0..MaxRefused

\* The page is loaded: it refreshes, and connects.
Init ==
  /\ files \in [File -> {0, 1}] \ {[f \in File |-> 0]} /\ other = 1 /\ last = webPathFingerprint
  /\ greeted = FALSE /\ connected = FALSE /\ queue = << >>
  /\ refresh = "asked" /\ reading = repository /\ page = repository
  /\ refused = 0 /\ missed = FALSE

-----------------------------------------------------------------------------
(***************************************************************************)
(* The repository changes                                                  *)
(***************************************************************************)
Now == Changes + 1

\* A refresh that has been asked for will still see everything.
Miss(when) == missed' = (refresh' # "asked" /\ (missed \/ when))

Write(f) == files' = [files EXCEPT ![f] = Now] /\ UNCHANGED <<other, missed>>

\* A file that is younger than the last poll may be gone before the next one.
Delete(f) ==
  /\ files[f] # 0 /\ files' = [files EXCEPT ![f] = 0]
  /\ Miss(files[f] > last[1]) /\ UNCHANGED other

\* A file keeps its time when it is renamed, and nothing else is watched.
Rename(f, g) ==
  /\ f # g /\ files[f] # 0
  /\ files' = [files EXCEPT ![g] = files[f], ![f] = 0]
  /\ Miss(files[g] = 0 \/ files[g] > last[1]) /\ UNCHANGED other
Unwatched == other' = Now /\ Miss(TRUE) /\ UNCHANGED files

Change ==
  /\ Now <= MaxChanges + 1
  /\ UNCHANGED <<last, greeted, connected, queue, refresh, reading, page, refused>>
  /\ \/ \E f \in File : Write(f) \/ Delete(f) \/ \E g \in File : Rename(f, g)
     \/ Unwatched

-----------------------------------------------------------------------------
(***************************************************************************)
(* The server                                                              *)
(***************************************************************************)

\* A full channel takes no event.
Broadcast(event) ==
  queue' = IF connected /\ Len(queue) < Capacity THEN Append(queue, event) ELSE queue

monitorWebPath ==
  /\ webPathFingerprint # last
  /\ last' = webPathFingerprint
  /\ Broadcast("git")
  /\ UNCHANGED <<repository, greeted, connected, refresh, reading, page, refused>>
  /\ Miss(~connected)

refreshWhoamiForWeb ==
  /\ ~greeted /\ greeted' = TRUE
  /\ Broadcast("whoami")
  /\ UNCHANGED <<repository, last, connected, refresh, reading, page, refused, missed>>

\* webRepositoryState, for the page.
Read ==
  /\ refresh = "asked" /\ refresh' = "read"
  /\ reading' = repository /\ missed' = FALSE
  /\ UNCHANGED <<repository, last, greeted, connected, queue, page, refused>>

handleEvents ==
  /\ ~connected /\ connected' = TRUE
  /\ UNCHANGED <<repository, last, greeted, queue, refresh, reading, page, refused, missed>>

\* The connection is lost, with the events of its channel.
Unsubscribe ==
  /\ connected /\ refused < MaxRefused
  /\ connected' = FALSE /\ queue' = << >> /\ refused' = refused + 1
  /\ UNCHANGED <<repository, last, greeted, refresh, reading, page>>
  /\ Miss(Contains(queue, "git"))

-----------------------------------------------------------------------------
(***************************************************************************)
(* The page                                                                *)
(***************************************************************************)

\* An event during a refresh does nothing.
refreshRemoteState == refresh' = IF refresh = "none" THEN "asked" ELSE refresh

connectBgitEvents ==
  /\ queue # << >> /\ queue' = Tail(queue)
  /\ IF Head(queue) = "git"
     THEN refreshRemoteState /\ Miss(refresh = "read")
     ELSE UNCHANGED <<refresh, missed>>
  /\ UNCHANGED <<repository, last, greeted, connected, reading, page, refused>>

\* Every half minute.
Interval ==
  /\ refresh = "none" /\ refreshRemoteState /\ Miss(FALSE)
  /\ UNCHANGED <<repository, last, greeted, connected, queue, reading, page, refused>>

applyRepositoryState ==
  /\ refresh = "read" /\ refresh' = "none" /\ page' = reading
  /\ UNCHANGED <<repository, last, greeted, connected, queue, reading, refused, missed>>

Fail ==
  /\ refresh # "none" /\ refused < MaxRefused
  /\ refresh' = "none" /\ refused' = refused + 1 /\ missed' = TRUE /\ reading' = page
  /\ UNCHANGED <<repository, last, greeted, connected, queue, page>>

Next ==
  \/ Change
  \/ monitorWebPath \/ refreshWhoamiForWeb \/ Read \/ handleEvents \/ Unsubscribe
  \/ connectBgitEvents \/ Interval \/ applyRepositoryState \/ Fail

Spec == Init /\ [][Next]_vars

-----------------------------------------------------------------------------
\* Nothing is on its way to the page: no poll, event or refresh will tell it more.
Quiet == webPathFingerprint = last /\ ~Contains(queue, "git") /\ refresh = "none"

\* A page that nothing is on its way to shows the repository as it is, although full channels
\* drop events, unless since its last reading something has changed that is not watched, a file
\* was renamed or came and went between polls, a refresh has failed, or an event has come while
\* it was not connected or too late for a reading.
PageIsCurrent == Quiet /\ ~missed => page = repository
=============================================================================
