-------------------------------- MODULE Board --------------------------------
(***************************************************************************)
(* The issues and the story board of a repository as the local broker      *)
(* keeps them (broker/local/issues.go), in one file that is read, changed  *)
(* in memory, and replaced by a compare-and-swap of its content. A broker  *)
(* process serves one such request of a repository at a time               *)
(* (LockRepository); several processes may share the file. Titles,         *)
(* comments and other text are left out; what an issue's history records   *)
(* is the number of the request.                                           *)
(***************************************************************************)
EXTENDS Naturals, Sequences, FiniteSets

CONSTANTS
  Process,    \* the broker processes that share the repository
  Lane,       \* the columns, "backlog" and "doing" among them
  MaxRequests \* bound: number of requests

VARIABLES
  board,    \* issues.json: the issues, the i-th of them with id i
  pc,       \* pc[k]: what the request that k serves does next
  asked,    \* asked[k]: that request, where a property speaks of it
  expected, \* expected[k]: the board as the request has read it
  copy,     \* copy[k]: the board that the request wants to store
  requests, \* number of requests so far
  kept      \* the requests answered with success: their number and issue (history)

vars == <<board, pc, asked, expected, copy, requests, kept>>

Ids(b) == DOMAIN b

Issue ==
  [story : BOOLEAN, lane : Lane, position : Nat, archived : BOOLEAN, closed : BOOLEAN,
   events : SUBSET (1..MaxRequests)]

\* order = 0: no rank is given.  after: the story to follow, or 0 for the first place.
NoRequest == [kind |-> "none", id |-> 0, lane |-> "backlog", after |-> 0, order |-> 0]

TypeOK ==
  /\ board \in Seq(Issue)
  /\ pc \in [Process -> {"idle", "save"}]
  /\ asked \in [Process -> [kind : {"none", "edit", "move", "take", "end"}, id : Nat, lane : Lane,
                            after : Nat, order : Nat]]
  /\ expected \in [Process -> Seq(Issue)]
  /\ copy \in [Process -> Seq(Issue)]
  /\ requests \in 0..MaxRequests
  /\ kept \subseteq (1..MaxRequests) \X (Nat \ {0})

\* The stories of a column that are shown, but for one.
Stories(b, lane, except) ==
  {i \in Ids(b) : i # except /\ b[i].story /\ ~b[i].archived /\ b[i].lane = lane}

\* Position 0 is "none yet" and sorts last.
Before(b, i, j) ==
  LET p == b[i].position
      q == b[j].position
  IN IF p = q THEN i < j ELSE q = 0 \/ (p # 0 /\ p < q)

\* The place of i among the stories S.
Rank(b, S, i) == 1 + Cardinality({j \in S : Before(b, j, i)})

\* Three stories that have been created in the backlog, some archived since; and
\* the others may have been given new numbers by a move.
Init ==
  /\ \E hidden \in SUBSET (1..3), renumbered \in BOOLEAN :
       board = [i \in 1..3 |->
         [story |-> TRUE, lane |-> "backlog", archived |-> i \in hidden, closed |-> FALSE,
          position |-> IF renumbered /\ i \notin hidden
                       THEN Cardinality((1..i) \ hidden) ELSE i,
          events |-> {}]]
  /\ pc = [k \in Process |-> "idle"]
  /\ asked = [k \in Process |-> NoRequest]
  /\ expected = [k \in Process |-> << >>]
  /\ copy = [k \in Process |-> << >>]
  /\ requests = 0
  /\ kept = {}

-----------------------------------------------------------------------------
(***************************************************************************)
(* Positions                                                               *)
(***************************************************************************)

\* Not the id of an issue: a story that follows it comes last.
BeyondAll(b) == Len(b) + 1

NextPosition(b, lane) == Cardinality(Stories(b, lane, 0)) + 1

Numbered(b, S, i) == Rank(b, S, i)

Normalized(b, lane, except) ==
  LET S == Stories(b, lane, except)
  IN [i \in Ids(b) |-> IF i \in S THEN [b[i] EXCEPT !.position = Numbered(b, S, i)] ELSE b[i]]

\* How many stories of S come first.  A story that is not in S means all of them.
Index(b, S, after, order) ==
  IF order > 0 THEN IF order - 1 < Cardinality(S) THEN order - 1 ELSE Cardinality(S)
  ELSE IF after = 0 THEN 0
  ELSE IF after \in S THEN Rank(b, S, after) ELSE Cardinality(S)

\* applyOrder: archived stories and plain issues are given a place all the same.
Ordered(b, id, lane, after, order) ==
  LET S == Stories(b, lane, id)
      index == Index(b, S, after, order)
      place(i) == Rank(b, S, i)
  IN [i \in Ids(b) |->
       IF i = id THEN [b[i] EXCEPT !.lane = lane, !.position = index + 1]
       ELSE IF i \in S
            THEN [b[i] EXCEPT !.position = IF place(i) > index THEN place(i) + 1 ELSE place(i)]
            ELSE b[i]]

\* Mutated: the column that a story has left keeps its gap.
LeftBehind_Open(b, id, from, to) == b

\* The column that a story has left is closed up.
LeftBehind(b, id, from, to) == IF from = to THEN b ELSE Normalized(b, from, id)

-----------------------------------------------------------------------------
(***************************************************************************)
(* Requests                                                                *)
(***************************************************************************)

Goto(k, l) == pc' = [pc EXCEPT ![k] = l]

\* The file is read, and changed in memory.
Request(k, what, new) ==
  /\ pc[k] = "idle"
  /\ requests < MaxRequests
  /\ requests' = requests + 1
  /\ asked' = [asked EXCEPT ![k] = what]
  /\ expected' = [expected EXCEPT ![k] = board]
  /\ copy' = [copy EXCEPT ![k] = new]
  /\ Goto(k, "save")
  /\ UNCHANGED <<board, kept>>

\* event
Noted(b, id) == [b EXCEPT ![id].events = @ \cup {requests + 1}]

About(kind, id) == [NoRequest EXCEPT !.kind = kind, !.id = id]

Mutate(k, id, new) == Request(k, About("edit", id), Noted(new, id))

ToEnd(id, lane) == [About("end", id) EXCEPT !.lane = lane]

CreateIssue(k, story, lane) ==
  LET issue == [story |-> story, lane |-> lane, archived |-> FALSE, closed |-> FALSE,
                position |-> IF story THEN NextPosition(board, lane) ELSE 0,
                events |-> {requests + 1}]
      new == Append(board, issue)
  IN IF story THEN Request(k, ToEnd(Len(new), lane), Normalized(new, lane, 0))
     ELSE Request(k, About("edit", Len(new)), new)

UpdateIssue(k, id, story) == Mutate(k, id, [board EXCEPT ![id].story = story])

\* Comments and assignments.
CommentIssue(k, id) == Mutate(k, id, board)

ArchiveIssue(k, id, archived) == Mutate(k, id, [board EXCEPT ![id].archived = archived])

\* Closing a closed issue is no event.
SetIssueClosed(k, id, closed) ==
  IF board[id].closed = closed
  THEN Request(k, NoRequest, board)
  ELSE Mutate(k, id, [board EXCEPT ![id].closed = closed])

MoveStory(k, id, lane, after, order) ==
  Request(k, [kind |-> "move", id |-> id, lane |-> lane, after |-> after, order |-> order],
    Noted(LeftBehind(Ordered(board, id, lane, after, order), id, board[id].lane, lane), id))

\* The position after as many stories as are shown, which is not always the end: archived
\* stories may have left higher positions behind.
MoveStoryToLaneEnd(k, id, lane) ==
  LET moved == [board EXCEPT ![id].lane = lane, ![id].position = 0]
      placed == [moved EXCEPT ![id].position = NextPosition(moved, lane)]
  IN Request(k, ToEnd(id, lane),
       Noted(Normalized(LeftBehind(placed, id, board[id].lane, lane), lane, 0), id))

\* From the backlog a story moves to the end of "doing".
TakeStory(k, id) ==
  IF board[id].lane = "backlog"
  THEN Request(k, [About("take", id) EXCEPT !.lane = "doing"],
         Noted(LeftBehind(Ordered(board, id, "doing", BeyondAll(board), 0), id, "backlog", "doing"), id))
  ELSE Mutate(k, id, IF board[id].position = 0
                     THEN Normalized(board, board[id].lane, 0) ELSE board)

Stop(k) ==
  /\ Goto(k, "idle")
  /\ asked' = [asked EXCEPT ![k] = NoRequest]
  /\ expected' = [expected EXCEPT ![k] = << >>]
  /\ copy' = [copy EXCEPT ![k] = << >>]
  /\ UNCHANGED requests

\* Mutated: the file is replaced whatever it holds by now.
Current_Any(k) == TRUE

Current(k) == board = expected[k]

Replace(k) == Current(k) /\ board' = copy[k]

\* The number under which the request is in the history of its issue, if it is.
Numbers(k) ==
  {x \in (1..requests) \X Ids(copy[k]) :
     LET i == x[2]
     IN x[1] \in copy[k][i].events /\ (i \in Ids(expected[k]) => x[1] \notin expected[k][i].events)}

SaveIssues(k) ==
  /\ pc[k] = "save"
  /\ \/ Replace(k) /\ kept' = kept \cup Numbers(k)
     \/ ~Current(k) /\ UNCHANGED <<board, kept>>
  /\ Stop(k)

\* The store fails, or the process ends, before the file is replaced or after.
Fail(k) ==
  /\ pc[k] = "save"
  /\ Replace(k) \/ UNCHANGED board
  /\ Stop(k)
  /\ UNCHANGED kept

Next ==
  \E k \in Process :
    \/ \E story \in BOOLEAN, lane \in Lane : CreateIssue(k, story, lane)
    \/ \E id \in Ids(board) :
         \/ CommentIssue(k, id)
         \/ TakeStory(k, id)
         \/ \E yes \in BOOLEAN :
              UpdateIssue(k, id, yes) \/ ArchiveIssue(k, id, yes) \/ SetIssueClosed(k, id, yes)
         \/ \E lane \in Lane :
              \/ MoveStoryToLaneEnd(k, id, lane)
              \/ \E order \in 1..Len(board) : MoveStory(k, id, lane, 0, order)
              \/ \E after \in 0..BeyondAll(board) : MoveStory(k, id, lane, after, 0)
    \/ SaveIssues(k)
    \/ Fail(k)

Spec == Init /\ [][Next]_vars

-----------------------------------------------------------------------------
(***************************************************************************)
(* Properties                                                              *)
(***************************************************************************)

\* Whatever other processes store meanwhile, a change that was answered with
\* success stays in the history of its issue.
AnsweredStays == \A change \in kept : change[1] \in board[change[2]].events

Shown(b, id) == b[id].story /\ ~b[id].archived

\* A request about one story leaves the others in their order: two stories that
\* are shown in a column are not exchanged, neither by moving a third one past
\* them, nor by the archived stories and plain issues in between.
OthersKeepOrder ==
  [][\A k \in Process : pc[k] = "save" /\ board' # board /\ board' = copy[k] =>
       \A i, j \in Ids(board) \ {asked[k].id} :
         Shown(board, i) /\ Shown(board, j) /\ board[i].lane = board[j].lane
           => /\ board'[i].lane = board[i].lane /\ board'[j].lane = board[j].lane
              /\ Before(board', i, j) <=> Before(board, i, j)]_vars

\* The stories of a column are numbered from 1 without a gap.
Dense(b, lane) ==
  LET column == Stories(b, lane, 0) IN \A i \in column : b[i].position = Rank(b, column, i)

\* Where the request puts its story, if it is about a place: c is what it makes of the board b.
\* At the end, only such stories follow as had no position in b or one beyond their number.
Stands(b, c, what) ==
  LET column == Stories(c, what.lane, 0)
      others == column \ {what.id}
      place == Rank(c, column, what.id)
      last == Cardinality(column)
  IN what.kind \in {"move", "take", "end"} /\ Shown(c, what.id) =>
       /\ c[what.id].lane = what.lane /\ Dense(c, what.lane)
       /\ what.id \in Ids(b) => Dense(c, b[what.id].lane)
       /\ what.kind = "move" /\ what.order > 0 =>
            place = what.order \/ (place = last /\ what.order > last)
       /\ what.kind = "move" /\ what.order = 0 =>
            place = IF what.after = 0 THEN 1
                    ELSE IF what.after \in others THEN Rank(c, column, what.after) + 1 ELSE last
       /\ what.kind = "take" => place = last
       /\ what.kind = "end" =>
            \A i \in others : Before(c, what.id, i) => b[i].position \notin 1..last

\* When it is stored, a story that is created, moved or taken stands where it was asked to
\* among what is shown by then, whatever archived and restored stories have left of numbers,
\* and both the column it came to and the one it left are numbered without a gap.
StandsAsAsked ==
  [][\A k \in Process : pc[k] = "save" /\ board' # board /\ board' = copy[k] =>
       Stands(board, board', asked[k])]_vars
=============================================================================
