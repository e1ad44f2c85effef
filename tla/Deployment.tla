------------------------------ MODULE Deployment ------------------------------
(***************************************************************************)
(* Brokers as "bgit setup", "bgit admin broker upgrade" and "bgit broker   *)
(* delete" deploy, redeploy and delete them (internal/app/setup.go,        *)
(* ssh.go, broker_commands.go, broker_lifecycle.go): cloud resources that  *)
(* are made one by one, the import of the first owner with a one-time      *)
(* token, and the global config of each person, which commands read when   *)
(* they start and write when they end. Commands overlap and may end at any *)
(* step.                                                                   *)
(***************************************************************************)
EXTENDS FiniteSets, Sequences, Naturals

CONSTANTS
  Command,     \* commands that run at the same time
  Person,      \* people, each with an SSH key and a config file
  NoOne,       \* who runs a command that is not running
  Target,      \* where brokers can be: pairs of a cloud profile and a region
  Aws,         \* the profiles of AWS; others are of GCP, each with a project of its own
  Choices,     \* lists of targets that can be chosen together
  MaxDeploys,  \* deployments (a bound of the model)
  MaxCommands  \* commands that are started (a bound of the model)

Profile == {t[1] : t \in Target}

ASSUME AwsAssumption == Aws \subseteq Profile
ASSUME ChoicesAssumption == Choices \subseteq Seq(Target)
ASSUME BoundsAssumption == MaxDeploys \in Nat /\ MaxCommands \in Nat

VARIABLES
  broker,   \* broker[t]: the deployment whose token hash the broker of t has; 0: none
  data,     \* data[s]: its owners, and whether the token of an owner was used
  secret,   \* secret[s]: the materializer's token: "none", "empty" or "seeded"
  file,     \* file[w]: w's config: profiles that are known, brokers that are listed
  pc, me,   \* what each command does next, and its variables
  deploys, started,
  \* History: commands that ran alone, and stores whose seeding was interrupted.
  alone, torn

cloud == <<broker, data, secret>>
vars == <<cloud, file, pc, me, deploys, started, alone, torn>>

AnyRegion == "every region"

\* Brokers of a GCP project share its Firestore database and its secret; a stack of AWS
\* has its own.
Store(t) == IF t[1] \in Aws THEN t ELSE <<t[1], AnyRegion>>
Stores == {Store(t) : t \in Target}

Config == [known : SUBSET Profile, listed : SUBSET Target]
NoConfig == [known |-> {}, listed |-> {}]
Data == [there : BOOLEAN, owners : SUBSET Person, used : BOOLEAN]
NoData == [there |-> FALSE, owners |-> {}, used |-> FALSE]

Kind == {"none", "new", "upsert", "update", "record", "delete"}

\* A command: who runs it; the targets that are left, and those that it deployed; whether
\* keys are imported; the config that it read; the last deployment and what the broker read.
Idle == [kind |-> "none", who |-> NoOne, todo |-> << >>, made |-> {},
         import |-> FALSE, config |-> NoConfig, copy |-> NoConfig, number |-> 0, owners |-> NoData]

Memory == [kind : Kind, who : Person \cup {NoOne}, todo : Seq(Target), made : SUBSET Target,
           import : BOOLEAN, config : Config, copy : Config, number : 0..MaxDeploys, owners : Data]

Places == {"idle", "choose", "record", "target", "secret", "seed", "deploy", "discover",
           "owners", "save", "team", "write", "data", "unlist"}

TypeOK ==
  /\ broker \in [Target -> 0..MaxDeploys]
  /\ data \in [Stores -> Data]
  /\ secret \in [Stores -> {"none", "empty", "seeded"}]
  /\ file \in [Person -> Config]
  /\ pc \in [Command -> Places]
  /\ me \in [Command -> Memory]
  /\ deploys \in 0..MaxDeploys /\ started \in 0..MaxCommands
  /\ alone \subseteq Command /\ torn \subseteq Stores

Init ==
  /\ broker = [t \in Target |-> 0]
  /\ data = [s \in Stores |-> NoData]
  /\ secret = [s \in Stores |-> "none"]
  /\ file = [w \in Person |-> NoConfig]
  /\ pc = [c \in Command |-> "idle"]
  /\ me = [c \in Command |-> Idle]
  /\ deploys = 0
  /\ started = 0
  /\ alone = {}
  /\ torn = {}

-----------------------------------------------------------------------------
(***************************************************************************)
(* Commands                                                                *)
(***************************************************************************)

Goto(c, l) == pc' = [pc EXCEPT ![c] = l]

Busy == {c \in Command : pc[c] # "idle"}

Start(c, l, mine) ==
  /\ pc[c] = "idle" /\ started < MaxCommands
  /\ Goto(c, l)
  /\ me' = [me EXCEPT ![c] = mine]
  /\ started' = started + 1
  /\ alone' = IF Busy = {} THEN {c} ELSE {}
  /\ UNCHANGED <<cloud, file, deploys, torn>>

End(c) ==
  /\ Goto(c, "idle")
  /\ me' = [me EXCEPT ![c] = Idle]

\* The command fails, is canceled, or its process ends.  What it has in memory is lost.
Fail(c) ==
  /\ pc[c] # "idle"
  /\ End(c)
  /\ torn' = IF pc[c] = "seed" THEN torn \cup {Store(Head(me[c].todo))} ELSE torn
  /\ alone' = alone \ {c}
  /\ UNCHANGED <<cloud, file, deploys, started>>

Base(kind, w) == [Idle EXCEPT !.kind = kind, !.who = w]

\* setup: the config is read before anything is chosen.  update, and upgrade, which is
\* like it, is of a listed broker and imports no keys.
StartSetup(c, w, kind, import) ==
  Start(c, "choose", [Base(kind, w) EXCEPT !.import = import, !.config = file[w]])

StartUpdate(c, w, t) ==
  /\ t \in file[w].listed
  /\ Start(c, "target", [Base("update", w) EXCEPT !.config = file[w], !.todo = <<t>>])

\* The dialog: profiles and their regions, or the identity only.
Choose(c, todo) ==
  /\ pc[c] = "choose"
  /\ Goto(c, IF todo = << >> THEN "write" ELSE "target")
  /\ me' = [me EXCEPT ![c].todo = todo]
  /\ UNCHANGED <<cloud, file, deploys, started, alone, torn>>

\* Back from the regions of the next profile: the selection starts again, with the config
\* that is in memory.
Back(c) ==
  /\ pc[c] = "target" /\ me[c].kind # "update"
  /\ Goto(c, "choose")
  /\ me' = [me EXCEPT ![c].todo = << >>]
  /\ UNCHANGED <<cloud, file, deploys, started, alone, torn>>

-----------------------------------------------------------------------------
(***************************************************************************)
(* Profiles                                                                *)
(***************************************************************************)

\* recordCreatedCloudProfile, as a command or from the dialog of setup: it reads the
\* config, asks the cloud for the account and writes the config.
StartRecord(c, w) == Start(c, "record", [Base("record", w) EXCEPT !.copy = file[w]])

CreateProfile(c) ==
  /\ pc[c] = "choose"
  /\ Goto(c, "record")
  /\ me' = [me EXCEPT ![c].copy = file[me[c].who]]
  /\ UNCHANGED <<cloud, file, deploys, started, alone, torn>>

\* The entry of the profile's region has no URL, whether or not there was one.
Record(c, t) ==
  LET old == me[c].copy
  IN /\ pc[c] = "record"
     /\ file' = [file EXCEPT ![me[c].who] = [known |-> old.known \cup {t[1]}, listed |-> old.listed \ {t}]]
     /\ IF me[c].kind = "record" THEN End(c)
        ELSE Goto(c, "choose") /\ me' = [me EXCEPT ![c].copy = NoConfig]
     /\ UNCHANGED <<cloud, deploys, started, alone, torn>>

-----------------------------------------------------------------------------
(***************************************************************************)
(* Deployment                                                              *)
(***************************************************************************)

Of(c) == Head(me[c].todo)

\* setupProvisionSelectedProfile, up to the APIs, the database and the service account;
\* a stack of AWS needs nothing but a bucket.
StartTarget(c) ==
  LET s == Store(Of(c)) IN
  /\ pc[c] = "target"
  /\ ~(me[c].kind = "new" /\ Of(c) \in me[c].config.listed)
  /\ IF Of(c)[1] \in Aws
     THEN Goto(c, "deploy") /\ UNCHANGED data
     ELSE Goto(c, "secret") /\ data' = [data EXCEPT ![s].there = TRUE]
  /\ UNCHANGED <<broker, secret, file, me, deploys, started, alone, torn>>

\* Mutated: the secret is left for the broker to seed.
AfterSecret_Unseeded(s) == "deploy"

\* A secret that is there is taken to be seeded.
AfterSecret(s) == IF secret[s] = "none" THEN "seed" ELSE "deploy"

\* ensureGCPMaterializerSecret: describe, and create what is not there.
EnsureSecret(c) ==
  LET s == Store(Of(c)) IN
  /\ pc[c] = "secret"
  /\ secret' = [secret EXCEPT ![s] = IF @ = "none" THEN "empty" ELSE @]
  /\ Goto(c, AfterSecret(s))
  /\ UNCHANGED <<broker, data, file, me, deploys, started, alone, torn>>

Seed(c) ==
  /\ pc[c] = "seed"
  /\ secret' = [secret EXCEPT ![Store(Of(c))] = "seeded"]
  /\ Goto(c, "deploy")
  /\ UNCHANGED <<broker, data, file, me, deploys, started, alone, torn>>

\* The broker has the hash of this deployment's token from now on.  A stack makes the
\* tables and the secret with it.
Deploy(c) ==
  LET t == Of(c)
  IN /\ pc[c] = "deploy" /\ deploys < MaxDeploys
     /\ deploys' = deploys + 1
     /\ broker' = [broker EXCEPT ![t] = deploys']
     /\ me' = [me EXCEPT ![c].number = deploys']
     /\ IF t[1] \in Aws
        THEN /\ data' = [data EXCEPT ![t].there = TRUE]
             /\ secret' = [secret EXCEPT ![t] = "seeded"]
        ELSE UNCHANGED <<data, secret>>
     /\ Goto(c, "discover")
     /\ UNCHANGED <<file, started, alone, torn>>

\* The URL is asked for; the broker may be gone again.
Discover(c) ==
  /\ pc[c] = "discover"
  /\ broker[Of(c)] # 0
  /\ Goto(c, IF me[c].import THEN "owners" ELSE "team")
  /\ UNCHANGED <<cloud, file, me, deploys, started, alone, torn>>

\* verifyBootstrapToken
Bootstraps(e, t, number) == ~e.used /\ broker[t] = number

\* verifySignature: the token counts while there are no owners, and a signature later.
Admits(e, t, w, number) == IF e.owners = {} THEN Bootstraps(e, t, number) ELSE w \in e.owners

\* /owners/upsert loads the owners and saves them.
LoadOwners(c) ==
  LET t == Of(c)
      e == data[Store(t)]
  IN /\ pc[c] = "owners"
     /\ broker[t] # 0 /\ e.there
     /\ Admits(e, t, me[c].who, me[c].number)
     /\ me' = [me EXCEPT ![c].owners = e]
     /\ Goto(c, "save")
     /\ UNCHANGED <<cloud, file, deploys, started, alone, torn>>

\* upsertGlobalGCPProfile and its like
Listed(config, t) == [known |-> config.known \cup {t[1]}, listed |-> config.listed \cup {t}]

\* The target is done: it is listed in the config that is in memory.
Next1(c) ==
  /\ LET mine == me[c]
     IN me' = [me EXCEPT ![c] = [mine EXCEPT
          !.config = Listed(mine.config, Of(c)), !.made = mine.made \cup {Of(c)}, !.todo = Tail(mine.todo),
          !.number = 0, !.owners = NoData]]
  /\ Goto(c, IF Len(me[c].todo) = 1 THEN "write" ELSE "target")

SaveOwners(c) ==
  LET s == Store(Of(c))
      e == me[c].owners
  IN /\ pc[c] = "save"
     /\ data[s].there
     /\ data' = [data EXCEPT ![s].owners = e.owners \cup {me[c].who}, ![s].used = e.used \/ e.owners = {}]
     /\ Next1(c)
     /\ UNCHANGED <<broker, secret, file, deploys, started, alone, torn>>

\* brokerEnsureCoreTeam takes an owner.
EnsureTeam(c) ==
  /\ pc[c] = "team"
  /\ broker[Of(c)] # 0 /\ me[c].who \in data[Store(Of(c))].owners
  /\ Next1(c)
  /\ UNCHANGED <<cloud, file, deploys, started, alone, torn>>

\* The config is written as it is in memory.
WriteConfig(c) ==
  /\ pc[c] = "write"
  /\ file' = [file EXCEPT ![me[c].who] = me[c].config]
  /\ End(c)
  /\ UNCHANGED <<cloud, deploys, started, alone, torn>>

-----------------------------------------------------------------------------
(***************************************************************************)
(* Deletion                                                                *)
(***************************************************************************)

\* The functions of a GCP broker go, and a whole stack of AWS.  Without a region the default
\* one is deleted, and every region is taken off the config.
StartDelete(c, w, t) == Start(c, "data", [Base("delete", w) EXCEPT !.todo = <<t>>])

DeleteBroker(c, withData) ==
  LET t == Of(c)
      gone == withData \/ t[1] \in Aws
  IN /\ pc[c] = "data"
     /\ broker' = [broker EXCEPT ![t] = 0]
     /\ data' = IF gone THEN [data EXCEPT ![Store(t)] = NoData] ELSE data
     /\ secret' = IF t[1] \in Aws THEN [secret EXCEPT ![t] = "none"] ELSE secret
     /\ Goto(c, "unlist")
     /\ UNCHANGED <<file, me, deploys, started, alone, torn>>

\* removeDeletedBrokerFromGlobalConfig: without a region every region is taken off, and without
\* a profile those of every profile of the provider.
Taken(t, from, everyProfile, everyRegion) ==
  /\ IF everyProfile THEN t[1] \in Aws <=> from[1] \in Aws ELSE t[1] = from[1]
  /\ everyRegion \/ t[2] = from[2]

Unlist(c, everyRegion) ==
  \E everyProfile \in BOOLEAN :
    LET gone == {t \in Target : Taken(t, Of(c), everyProfile, everyRegion)}
    IN /\ pc[c] = "unlist"
       /\ file' = [file EXCEPT ![me[c].who].listed = @ \ gone]
       /\ End(c)
       /\ UNCHANGED <<cloud, deploys, started, alone, torn>>

Proceed(c) ==
  \/ \E todo \in Choices : Choose(c, todo)
  \/ CreateProfile(c)
  \/ Back(c)
  \/ \E t \in Target : Record(c, t)
  \/ StartTarget(c)
  \/ EnsureSecret(c)
  \/ Seed(c)
  \/ Deploy(c)
  \/ Discover(c)
  \/ LoadOwners(c)
  \/ SaveOwners(c)
  \/ EnsureTeam(c)
  \/ WriteConfig(c)
  \/ \E b \in BOOLEAN : DeleteBroker(c, b) \/ Unlist(c, b)
  \/ Fail(c)

Begin(c, w) ==
  \/ \E kind \in {"new", "upsert"}, import \in BOOLEAN : StartSetup(c, w, kind, import)
  \/ StartRecord(c, w)
  \/ \E t \in Target : StartUpdate(c, w, t) \/ StartDelete(c, w, t)

Next == \E c \in Command : Proceed(c) \/ \E w \in Person : Begin(c, w)

Spec == Init /\ [][Next]_vars

-----------------------------------------------------------------------------
(***************************************************************************)
(* Properties                                                              *)
(***************************************************************************)

\* Whoever imports the first owner is remembered with the use of the token, whatever
\* crashes or overlaps: a store whose token was used has an owner who can sign.
NotLockedOut == \A s \in Stores : data[s].used => data[s].owners # {}

\* The materializer's secret is without a token only while it is being made, or after a
\* command ended between its creation and its seeding: nothing seeds it then.
SeededUnlessTorn ==
  \A s \in Stores : secret[s] = "empty" =>
    s \in torn \/ \E c \in Command : pc[c] = "seed" /\ Store(Of(c)) = s

\* A store whose token was used has an owner, and a secret is left without a token by an
\* interrupted command only.
DeploymentHolds == TypeOK /\ NotLockedOut /\ SeededUnlessTorn

\* A command that no other overlapped has, when it ends well, every broker that it deployed
\* in the config, owned by whoever ran it, also after it went back and chose again; and
\* every broker that was listed is listed still, although it read the config long before.
SetupEndsWell(c) ==
  (c \in alone /\ pc[c] = "write" /\ pc'[c] = "idle" /\ c \in alone') =>
    LET w == me[c].who
    IN /\ file[w].listed \subseteq file'[w].listed
       /\ \A t \in me[c].made :
            t \in file'[w].listed /\ broker[t] # 0 /\ w \in data[Store(t)].owners

SetupIsComplete == [][\A c \in Command : SetupEndsWell(c)]_vars

\* After a deletion that no other command overlapped, and that ends well, the broker is
\* neither deployed nor listed.
DeletionEndsWell(c) ==
  (c \in alone /\ pc[c] = "unlist" /\ pc'[c] = "idle" /\ c \in alone') =>
    broker[Of(c)] = 0 /\ Of(c) \notin file'[me[c].who].listed

DeletionIsComplete == [][\A c \in Command : DeletionEndsWell(c)]_vars
=============================================================================
