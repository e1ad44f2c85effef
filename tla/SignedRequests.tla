---------------------------- MODULE SignedRequests ----------------------------
(***************************************************************************)
(* One call of the broker client (broker/client/client.go, signing.go) and *)
(* its check by a deployed broker (verifySignedRequest in                  *)
(* broker/gcp/index.js, and in broker/aws/template.yaml). The client signs *)
(* the call with every key it has, each signature with a nonce of its own, *)
(* and sends one after the other as long as the broker asks for another    *)
(* key. A request or its reply may be lost, a request may be delayed and   *)
(* may arrive again; clocks may differ. The broker keeps the nonces it has *)
(* accepted until their timestamp is too old.                              *)
(***************************************************************************)
EXTENDS Naturals, Sequences

CONSTANTS
  Keys,        \* the client's keys are 1..Keys; Keys + 1 is the request without signature
  Window,      \* seconds for which a timestamp is accepted; 300 in the code
  Skew,        \* how far the client's clock may be ahead
  MaxTime,     \* bound on the broker's clock
  MaxAccepted  \* bound on accepted requests

VARIABLES
  cloud,     \* which broker it is
  standing,  \* what the broker knows of each key
  clock,     \* the broker's clock
  stamp,     \* the timestamp of the client, or Unstamped
  current,   \* the request the client waits for
  outcome,   \* what the client knows of its call
  sent,      \* requests on their way, which may arrive at any time from now on
  nonces,    \* nonces[i]: when the nonce of request i expires, or 0
  accepted,  \* the requests that were accepted, and when (history)
  repeated   \* a request has arrived twice (history)

vars == <<cloud, standing, clock, stamp, current, outcome, sent, nonces, accepted, repeated>>

Request == 1..Keys + 1
Unsigned == Keys + 1
Unstamped == MaxTime + Skew + 1

TypeOK ==
  /\ cloud \in {"gcp", "aws"} /\ standing \in [Request -> {"unknown", "known", "entitled"}]
  /\ clock \in 1..MaxTime /\ stamp \in 1..Unstamped
  /\ current \in Request /\ sent \subseteq Request
  /\ outcome \in {"open", "ok", "refused", "error"}
  /\ nonces \in [Request -> 0..MaxTime + Skew + Window]
  /\ Len(accepted) <= MaxAccepted
  /\ repeated \in BOOLEAN

Init ==
  /\ cloud \in {"gcp", "aws"}
  /\ standing \in [Request -> {"unknown", "known", "entitled"}] /\ standing[Unsigned] # "known"
  /\ clock = 1 /\ stamp = Unstamped
  /\ current = 1 /\ outcome = "open" /\ sent = {}
  /\ nonces = [i \in Request |-> 0]
  /\ accepted = <<>> /\ repeated = FALSE

Tick ==
  /\ clock < MaxTime
  /\ clock' = clock + 1
  /\ UNCHANGED <<cloud, standing, stamp, current, outcome, sent, nonces, accepted, repeated>>

\* HeaderSets: all signatures are made before the first request is sent.
Sign ==
  /\ stamp = Unstamped
  /\ \E ahead \in 0..Skew : stamp' = clock + ahead
  /\ sent' = {1}
  /\ UNCHANGED <<cloud, standing, clock, current, outcome, nonces, accepted, repeated>>

\* The key is one of the broker's, and validateSignatureHeaders takes the timestamp.
Checked(i) ==
  /\ i # Unsigned /\ standing[i] # "unknown"
  /\ clock - stamp <= Window /\ stamp - clock <= Window

\* A nonce that was accepted and has not expired, which the broker of AWS takes to
\* happen a second later than that of Google.
Spent(i) == nonces[i] # 0 /\ (nonces[i] > clock \/ (cloud = "aws" /\ nonces[i] = clock))

\* Mutated: a nonce expires a while after it has arrived.
Expiry_OfArrival == clock + Window

Expiry == stamp + Window

Admitted(i) == standing[i] = "entitled" /\ (i = Unsigned \/ (Checked(i) /\ ~Spent(i)))

\* verifySignedRequest and what the handler makes of it.
Reply(i) ==
  IF Admitted(i) THEN "ok" ELSE IF Checked(i) /\ Spent(i) THEN "replayed" ELSE "another key"

\* brokerForbiddenAllowsSignatureRetry
Retries(reply) == reply = "another key"

\* PostJSONBytes, when the reply to the request it waits for arrives.
Receive(i, reply) ==
  CASE reply = "ok" -> outcome' = "ok" /\ UNCHANGED <<current, sent>>
    [] reply # "ok" /\ Retries(reply) /\ i < Unsigned ->
         current' = i + 1 /\ sent' = sent \cup {i + 1} /\ UNCHANGED outcome
    [] OTHER -> outcome' = "refused" /\ UNCHANGED <<current, sent>>

\* A request arrives, and its reply if it is the first time.
Deliver(i) ==
  /\ i \in sent /\ Len(accepted) < MaxAccepted
  /\ nonces' = IF Checked(i) /\ ~Spent(i) THEN [nonces EXCEPT ![i] = Expiry] ELSE nonces
  /\ accepted' = IF Reply(i) = "ok" THEN Append(accepted, <<i, clock>>) ELSE accepted
  /\ IF i = current /\ outcome = "open"
     THEN (Receive(i, Reply(i)) /\ UNCHANGED repeated) \/ (repeated' = TRUE /\ UNCHANGED <<current, outcome, sent>>)
     ELSE repeated' = TRUE /\ UNCHANGED <<current, outcome, sent>>
  /\ UNCHANGED <<cloud, standing, clock, stamp>>

\* The connection breaks; the client does not know whether the call was made.
GiveUp ==
  /\ outcome = "open" /\ stamp # Unstamped
  /\ outcome' = "error"
  /\ UNCHANGED <<cloud, standing, clock, stamp, current, sent, nonces, accepted, repeated>>

Next == Tick \/ Sign \/ GiveUp \/ \E i \in Request : Deliver(i)

Spec == Init /\ [][Next]_vars

-----------------------------------------------------------------------------
(***************************************************************************)
(* Properties                                                              *)
(***************************************************************************)

\* A signed call is made once at most, with whichever key, however often and late
\* its requests arrive and however far ahead the client's clock is.  (The broker of
\* Google takes a request again in the last second its timestamp is accepted.)
MadeOnce ==
  \A m, n \in DOMAIN accepted :
    (m < n /\ Unsigned \notin {accepted[m][1], accepted[n][1]})
      => cloud = "gcp" /\ accepted[n] = <<accepted[m][1], stamp + Window>>

\* The client finds the key it needs: its call is refused only if no key of it is
\* entitled, as long as the signatures are fresh and no request arrives twice.
RightKeyIsFound ==
  (outcome = "refused" /\ ~repeated /\ clock <= stamp + Window) =>
    \A i \in Request : standing[i] # "entitled"
=============================================================================
