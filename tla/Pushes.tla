------------------------------- MODULE Pushes -------------------------------
(***************************************************************************)
(* Pushes at once to one repository: either of any packs to the one branch,*)
(* when listings may fail, or of complete packs to branch and tag, when    *)
(* they do not; one commit beside the first is in play then, and all       *)
(* otherwise.                                                              *)
(***************************************************************************)
EXTENDS ReceivePack, FiniteSets, Naturals

CONSTANTS
  c1,   \* the commit that the others descend from
  main  \* the branch

ASSUME MainAssumption == main \in Ref

VARIABLE completePacks

pushVars == <<vars, completePacks>>

\* The commits in play.
InUse ==
  {o \in Oid \ {c1} : o \in objects \/ \E s \in Session, r \in Ref : o = want[s][r]}

PushInit ==
  /\ completePacks \in BOOLEAN
  /\ Init
  /\ IF completePacks THEN Cardinality(InUse) <= 1 ELSE \A r \in Ref \ {main} : refs[r] = NoOid

FullPush(s) == pc[s] = "advertise" /\ FullSend(s) /\ Cardinality(InUse') <= 1

AnyPush(s) ==
  pc[s] = "advertise" /\ \E v \in Value, a \in BOOLEAN, pack \in SUBSET Oid :
    pack \subseteq History({v}) /\ Send(s, {main}, [NoRefs EXCEPT ![main] = v], a, pack)

PushNext ==
  /\ \E s \in Session :
       \/ Serve(s)
       \/ completePacks /\ FullPush(s)
       \/ ~completePacks /\ (AnyPush(s) \/ ListFails(s))
  /\ UNCHANGED completePacks

PushSpec == PushInit /\ [][PushNext]_pushVars

\* With complete packs and listings that do not fail, histories are complete and
\* reports are true (validateCommand, writeReceiveReport).
CompletePushesHold == completePacks => HistoryComplete /\ ReportIsTrue
=============================================================================
