----------------------------- MODULE LocalBroker -----------------------------
(***************************************************************************)
(* The local broker: either the refs of a repository in one process        *)
(* (LocalRefs), or its board (Board), or the repositories and owners       *)
(* (Admin), the last two in processes that share the files. A part that is *)
(* not explored stays as it starts.                                        *)
(***************************************************************************)
EXTENDS LocalRefs

CONSTANTS Process, Lane, MaxRequests, Name, Place, Local, Owner, Nothing

ASSUME LaneAssumption == {"backlog", "doing"} \subseteq Lane
ASSUME RequestsAssumption == MaxRequests \in Nat
ASSUME NothingAssumption == Nothing \notin Place /\ Nothing \notin [name : Name, by : Call]

VARIABLES part,
  board, boardPc, moves, expected, copy, requests, boardKept,
  repo, lists, adminPc, asked, server, read, adminTries, kept

B == INSTANCE Board WITH pc <- boardPc, asked <- moves, kept <- boardKept
A == INSTANCE Admin WITH Broker <- Process, pc <- adminPc, tries <- adminTries

boardVars == <<board, boardPc, moves, expected, copy, requests, boardKept>>
adminVars == <<repo, lists, adminPc, asked, server, read, adminTries, kept>>
BrokerVars == <<part, vars, boardVars, adminVars>>

NoRefs ==
  /\ refs = [r \in Ref |-> NoOid]
  /\ \E r \in Ref : request = [c \in Call |-> [ref |-> r, old |-> NoOid, new |-> NoOid]]

BrokerInit ==
  /\ Init /\ B!Init /\ A!Init
  /\ part \in {"refs", "board", "admin"}
  /\ part # "refs" => NoRefs
  /\ part # "board" => \A i \in 1..3 : ~board[i].archived

BrokerNext ==
  \/ part = "refs" /\ Next /\ UNCHANGED <<part, boardVars, adminVars>>
  \/ part = "board" /\ B!Next /\ UNCHANGED <<part, vars, adminVars>>
  \/ part = "admin" /\ A!Next /\ UNCHANGED <<part, vars, boardVars>>

BrokerSpec == BrokerInit /\ [][BrokerNext]_BrokerVars

\* Boards are of their type, and answered changes of issues are in the file (Board).
IssuesHold == B!TypeOK /\ B!AnsweredStays

\* Lists are of their type; what is listed exists, where its creator put it, and answered
\* entries stay (Admin).
ListingsHold == A!TypeOK /\ A!ListedExists /\ A!CreatorsKeepPlaces /\ A!ListingsStay

\* A request puts its story where it was asked to, and leaves the order of the others (Board).
OrderHolds == B!OthersKeepOrder /\ B!StandsAsAsked
=============================================================================
