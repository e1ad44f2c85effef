----------------------------- MODULE GcloudProject -----------------------------
(***************************************************************************)
(* How "bgit setup" makes a gcloud profile ready before it deploys to its  *)
(* project (internal/app/setup.go, ensureGcloudSetupAuth and what follows  *)
(* it): the login, the project, its APIs, the quota project and the        *)
(* billing account. It asks the cloud, repairs what the answer says and    *)
(* asks again. Logins expire, and what was enabled is visible only later.  *)
(***************************************************************************)
EXTENDS Naturals

CONSTANTS
  Polls,   \* how often what was enabled is asked for; 12 or 24 in the code
  MaxExpired  \* logins that expire (a bound of the model)

VARIABLES
  interactive, \* not --yes
  login,       \* the profile has a token: "none", "other" (of an account without access), "good"
  project,     \* the profile names a project
  quota,       \* its quota project: "none", "same" or "other"
  api, meter,  \* the project's APIs, and the one that tells of billing: "off", "requested" or "on"
  billed,      \* its billing account
  pc,          \* what it does next
  polls,       \* how often it polled
  retried,     \* the access is asked for after a login
  expired,     \* how many logins have expired
  \* History: what was seen since the command began.
  seen

account == <<login, project, quota>>
services == <<api, meter, billed>>
vars == <<interactive, account, services, pc, polls, retried, expired, seen>>

Switch == {"off", "requested", "on"}
Steps == {"auth", "login", "token", "project", "access", "enable", "wait", "again", "repair", "relogin",
          "billing", "meter", "metered", "linking", "link", "linked", "ready", "failed"}

TypeOK ==
  /\ interactive \in BOOLEAN /\ project \in BOOLEAN /\ retried \in BOOLEAN
  /\ login \in {"none", "other", "good"} /\ quota \in {"none", "same", "other"}
  /\ api \in Switch /\ meter \in Switch /\ billed \in Switch
  /\ pc \in Steps /\ polls \in 0..Polls /\ expired \in 0..MaxExpired
  /\ seen \subseteq {"token", "access", "billing"}

Init ==
  /\ interactive \in BOOLEAN
  /\ login \in {"none", "other", "good"}
  /\ project \in BOOLEAN
  /\ quota \in {"none", "same", "other"}
  /\ api \in {"off", "on"}
  /\ meter \in {"off", "on"}
  /\ billed \in {"off", "on"}
  /\ pc = "auth"
  /\ polls = 0
  /\ retried = FALSE
  /\ expired = 0
  /\ seen = {}

Goto(l) == pc' = l

\* Nothing of the account or the project changes.
Same == UNCHANGED <<interactive, account, services, expired>>

\* A call to the cloud fails, or the person cancels.
Fail ==
  /\ pc \notin {"ready", "failed"}
  /\ Goto("failed")
  /\ polls' = 0
  /\ retried' = FALSE
  /\ UNCHANGED seen /\ Same

-----------------------------------------------------------------------------
(***************************************************************************)
(* Login                                                                   *)
(***************************************************************************)

\* ensureGcloudSetupAuth: any account's token will do.
CheckAuth ==
  /\ pc = "auth"
  /\ IF login # "none" THEN Goto("project") /\ seen' = seen \cup {"token"}
     ELSE Goto(IF interactive THEN "login" ELSE "failed") /\ UNCHANGED seen
  /\ UNCHANGED <<polls, retried>> /\ Same

\* gcloud auth login, here and after access was denied; the person chooses the account.
Login ==
  /\ pc \in {"login", "relogin"}
  /\ login' \in {"other", "good"}
  /\ Goto(IF pc = "login" THEN "token" ELSE "access")
  /\ retried' = (pc = "relogin")
  /\ UNCHANGED <<interactive, project, quota, services, polls, expired, seen>>

CheckToken ==
  /\ pc = "token"
  /\ Goto(IF login # "none" THEN "project" ELSE "failed")
  /\ seen' = IF login # "none" THEN seen \cup {"token"} ELSE seen
  /\ UNCHANGED <<polls, retried>> /\ Same

-----------------------------------------------------------------------------
(***************************************************************************)
(* Project                                                                 *)
(***************************************************************************)

\* ensureGcloudSetupProjectSelected: an existing project or a new one, whose APIs and
\* billing are off, becomes the quota project too.
SelectProject ==
  /\ pc = "project"
  /\ IF project THEN Goto("access") /\ UNCHANGED <<project, quota, services>>
     ELSE IF ~interactive THEN Goto("failed") /\ UNCHANGED <<project, quota, services>>
     ELSE /\ project' = TRUE /\ quota' = "same"
          /\ \/ UNCHANGED services
             \/ api' = "off" /\ meter' = "off" /\ billed' = "off"
          /\ Goto("access")
  /\ UNCHANGED <<interactive, login, polls, retried, expired, seen>>

Access ==
  CASE login # "good" -> "denied"
    [] api # "on" -> "disabled"
    [] quota = "other" -> "denied"
    [] OTHER -> "granted"

\* ensureGcloudSetupProjectAccess: disabled APIs are enabled, a wrong quota project is
\* repaired, and otherwise the person logs in and everything is tried once more.
CheckAccess ==
  /\ pc = "access"
  /\ Goto(CASE Access = "granted" -> "billing"
            [] Access = "disabled" -> "enable"
            [] Access = "denied" /\ quota = "other" -> IF interactive THEN "repair" ELSE "failed"
            [] OTHER -> IF interactive /\ ~retried THEN "relogin" ELSE "failed")
  /\ seen' = IF Access = "granted" THEN seen \cup {"access"} ELSE seen
  /\ UNCHANGED <<polls, retried>> /\ Same

\* maybeRepairGcloudQuotaProject
RepairQuota ==
  /\ pc = "repair"
  /\ quota' = "same"
  /\ LET granted == login = "good" /\ api = "on"
     IN /\ Goto(IF granted THEN "billing" ELSE "failed")
        /\ seen' = IF granted THEN seen \cup {"access"} ELSE seen
  /\ UNCHANGED <<interactive, login, project, services, polls, retried, expired>>

Requested(switch) == IF switch = "off" THEN "requested" ELSE switch

\* enableGcloudSetupProjectServices, of the project's APIs or of the one for billing.
EnableApis ==
  /\ \/ pc = "enable" /\ api' = Requested(api) /\ Goto("wait") /\ UNCHANGED meter
     \/ pc = "meter" /\ meter' = Requested(meter) /\ Goto("metered") /\ UNCHANGED api
  /\ polls' = 0
  /\ UNCHANGED <<interactive, account, billed, retried, expired, seen>>

\* It is asked for until it is there, and at most Polls times more.
Poll(there, then) ==
  IF there THEN Goto(then) /\ polls' = 0
  ELSE IF polls = Polls THEN Goto("failed") /\ polls' = 0
  ELSE polls' = polls + 1 /\ UNCHANGED pc

\* waitForGCPServicesEnabled
WaitForApis ==
  /\ \/ pc = "wait" /\ Poll(api = "on", "again")
     \/ pc = "metered" /\ Poll(meter = "on", "linking")
  /\ UNCHANGED <<retried, seen>> /\ Same

\* The access is asked for again once the APIs are on.
PollAccess ==
  /\ pc = "again"
  /\ Goto(IF Access = "granted" THEN "billing" ELSE "failed")
  /\ seen' = IF Access = "granted" THEN seen \cup {"access"} ELSE seen
  /\ UNCHANGED <<polls, retried>> /\ Same

-----------------------------------------------------------------------------
(***************************************************************************)
(* Billing                                                                 *)
(***************************************************************************)

\* gcloudSetupBillingEnabled; when it is not known, it is an error.
Billed == login = "good" /\ meter = "on" /\ billed = "on"
Unknown == login # "good" \/ meter # "on"

\* ensureGcloudSetupBilling, before and after its API was enabled.
CheckBilling ==
  /\ pc \in {"billing", "linking"}
  /\ Goto(CASE Billed -> "ready"
            [] ~Billed /\ login = "good" /\ meter # "on" /\ pc = "billing" -> "meter"
            [] ~Billed /\ ~Unknown /\ interactive -> "link"
            [] OTHER -> "failed")
  /\ seen' = IF Billed THEN seen \cup {"billing"} ELSE seen
  /\ UNCHANGED <<polls, retried>> /\ Same

LinkBilling ==
  /\ pc = "link"
  /\ billed' = Requested(billed)
  /\ Goto("linked")
  /\ UNCHANGED <<interactive, account, api, meter, polls, retried, expired, seen>>

\* waitForGcloudSetupBilling
WaitForBilling ==
  /\ pc = "linked"
  /\ Poll(Billed, "ready")
  /\ seen' = IF Billed THEN seen \cup {"billing"} ELSE seen
  /\ UNCHANGED retried /\ Same

-----------------------------------------------------------------------------
\* What was requested becomes visible.
BecomeVisible ==
  /\ \/ api = "requested" /\ api' = "on" /\ UNCHANGED <<meter, billed>>
     \/ meter = "requested" /\ meter' = "on" /\ UNCHANGED <<api, billed>>
     \/ billed = "requested" /\ billed' = "on" /\ UNCHANGED <<api, meter>>
  /\ UNCHANGED <<interactive, account, pc, polls, retried, expired, seen>>

\* A token expires.
Expire ==
  /\ login # "none" /\ expired < MaxExpired
  /\ login' = "none"
  /\ expired' = expired + 1
  /\ UNCHANGED <<interactive, project, quota, services, pc, polls, retried, seen>>

Next ==
  \/ CheckAuth \/ Login \/ CheckToken
  \/ SelectProject \/ CheckAccess \/ RepairQuota \/ EnableApis \/ WaitForApis \/ PollAccess
  \/ CheckBilling \/ LinkBilling \/ WaitForBilling
  \/ BecomeVisible \/ Expire \/ Fail

Spec == Init /\ [][Next]_vars

-----------------------------------------------------------------------------
(***************************************************************************)
(* Properties                                                              *)
(***************************************************************************)

\* A deployment begins only with a project whose APIs are on and which is billed, to
\* which the account had access, although each was asked for at another time and through
\* different repairs.
ReadyMeansReady ==
  pc = "ready" => project /\ quota # "other" /\ api = "on" /\ billed = "on" /\ seen = {"token", "access", "billing"}

\* Without a person to ask, nothing but APIs is changed: no login, no project, no quota
\* project and no billing account.
OnlyApisUnasked ==
  [][~interactive => (login' = login \/ login' = "none") /\ UNCHANGED <<project, quota>>
       /\ (billed' # billed => billed = "requested")]_vars
=============================================================================
