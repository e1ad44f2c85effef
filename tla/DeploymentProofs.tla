--------------------------- MODULE DeploymentProofs ---------------------------
(***************************************************************************)
(* For any number of people, targets, commands and deployments, which fail *)
(* or overlap at any step: a used token has left an owner, a secret        *)
(* without a token is somebody's unfinished work, and a command that       *)
(* nobody overlapped does all of what it says.                             *)
(***************************************************************************)
EXTENDS Deployment, SequenceTheorems, TLAPS

(***************************************************************************)
(* Types. A command that runs is somebody's, and one that works on a       *)
(* target has it at the head of its list.                                  *)
(***************************************************************************)
AtTarget == {"target", "secret", "seed", "deploy", "discover", "owners", "save", "team", "data", "unlist"}

Ready ==
  \A c \in Command :
    /\ pc[c] # "idle" => me[c].who \in Person
    /\ pc[c] \in AtTarget => me[c].todo # << >>

Typed == TypeOK /\ Ready

LEMMA StoreTypes ==
  ASSUME NEW t \in Target
  PROVE  Store(t) \in Stores /\ t[1] \in Profile /\ (t[1] \in Aws => Store(t) = t)
BY DEF Stores, Store, Profile

LEMMA Tails ==
  ASSUME NEW S, NEW s \in Seq(S), s # << >>
  PROVE  Len(s) # 1 => Tail(s) # << >>
<1>1. Tail(s) \in Seq(S) /\ Len(Tail(s)) = Len(s) - 1
  BY HeadTailProperties
<1>2. Tail(s) = << >> <=> Len(Tail(s)) = 0
  BY <1>1, EmptySeq
<1>3. Len(s) \in Nat
  OBVIOUS
<1> QED  BY <1>1, <1>2, <1>3

\* The target that a command works on.
LEMMA TargetTypes ==
  ASSUME Typed, NEW c \in Command, pc[c] \in AtTarget
  PROVE  /\ Of(c) \in Target /\ Store(Of(c)) \in Stores /\ Of(c)[1] \in Profile
         /\ Of(c)[1] \in Aws => Store(Of(c)) = Of(c)
         /\ Tail(me[c].todo) \in Seq(Target)
         /\ Len(me[c].todo) # 1 => Tail(me[c].todo) # << >>
<1>1. me[c].todo \in Seq(Target) /\ me[c].todo # << >>
  BY DEF Typed, TypeOK, Memory, Ready
<1>2. Of(c) \in Target /\ Tail(me[c].todo) \in Seq(Target)
  BY <1>1, HeadTailProperties DEF Of
<1>3. Len(me[c].todo) # 1 => Tail(me[c].todo) # << >>
  BY <1>1, Tails
<1> QED  BY <1>2, <1>3, StoreTypes

\* A command that goes on with memory m.
LEMMA Moves ==
  ASSUME Typed, NEW c \in Command, NEW l \in Places, NEW m \in Memory,
         pc' = [pc EXCEPT ![c] = l], me' = [me EXCEPT ![c] = m],
         l # "idle" => m.who \in Person, l \in AtTarget => m.todo # << >>
  PROVE  pc' \in [Command -> Places] /\ me' \in [Command -> Memory] /\ Ready'
<1>1. pc \in [Command -> Places] /\ me \in [Command -> Memory] /\ Ready
  BY DEF Typed, TypeOK
<1>2. pc' \in [Command -> Places] /\ me' \in [Command -> Memory]
  BY <1>1
<1>3. ASSUME NEW d \in Command
      PROVE  /\ pc'[d] # "idle" => me'[d].who \in Person
             /\ pc'[d] \in AtTarget => me'[d].todo # << >>
  <2>1. CASE d = c  BY <1>1, <2>1
  <2>2. CASE d # c
    <3>1. pc'[d] = pc[d] /\ me'[d] = me[d]  BY <1>1, <2>2
    <3> QED  BY <1>1, <3>1 DEF Ready
  <2> QED  BY <2>1, <2>2
<1> QED  BY <1>2, <1>3 DEF Ready

\* A command that goes on with the memory that it has.
LEMMA Steps ==
  ASSUME Typed, NEW c \in Command, NEW l \in Places, pc[c] # "idle",
         pc' = [pc EXCEPT ![c] = l], UNCHANGED me, l \in AtTarget => me[c].todo # << >>
  PROVE  pc' \in [Command -> Places] /\ me' \in [Command -> Memory] /\ Ready'
<1>1. me \in [Command -> Memory] /\ me[c].who \in Person
  BY DEF Typed, TypeOK, Ready
<1>2. me' = [me EXCEPT ![c] = me[c]]
  BY <1>1
<1> QED  BY <1>1, <1>2, Moves

LEMMA IdleTypes == Idle \in Memory /\ NoData \in Data /\ NoConfig \in Config
<1>1. NoData \in Data /\ NoConfig \in Config
  BY DEF NoData, Data, NoConfig, Config
<1>2. << >> \in Seq(Target)  OBVIOUS
<1>3. 0 \in 0..MaxDeploys  BY BoundsAssumption
<1> QED  BY <1>1, <1>2, <1>3 DEF Idle, Memory, Kind

LEMMA Ends ==
  ASSUME Typed, NEW c \in Command, End(c)
  PROVE  pc' \in [Command -> Places] /\ me' \in [Command -> Memory] /\ Ready'
<1>1. "idle" \in Places /\ "idle" \notin AtTarget  BY DEF Places, AtTarget
<1> QED  BY <1>1, IdleTypes, Moves DEF End, Goto

(***************************************************************************)
(* Each step keeps the types                                               *)
(***************************************************************************)
CloudTyped ==
  /\ broker \in [Target -> 0..MaxDeploys] /\ data \in [Stores -> Data]
  /\ secret \in [Stores -> {"none", "empty", "seeded"}] /\ deploys \in 0..MaxDeploys

FilesTyped == file \in [Person -> Config]
HistoryTyped == started \in 0..MaxCommands /\ alone \subseteq Command /\ torn \subseteq Stores

CommandsTyped == pc \in [Command -> Places] /\ me \in [Command -> Memory] /\ Ready

LEMMA TypedParts == Typed <=> CloudTyped /\ FilesTyped /\ HistoryTyped /\ CommandsTyped
BY DEF Typed, TypeOK, CloudTyped, FilesTyped, HistoryTyped, CommandsTyped

\* Starting and ending a command.
LEMMA BaseTypes ==
  ASSUME NEW kind \in Kind, NEW w \in Person
  PROVE  Base(kind, w) \in Memory /\ Base(kind, w).who = w
BY IdleTypes DEF Base, Memory, Idle

LEMMA StartTyped ==
  ASSUME Typed, NEW c \in Command, NEW l \in Places, NEW m \in Memory, Start(c, l, m),
         m.who \in Person, l \in AtTarget => m.todo # << >>
  PROVE  Typed'
<1>1. CommandsTyped'
  BY Moves DEF Start, Goto, CommandsTyped
<1>2. CloudTyped' /\ FilesTyped'
  BY TypedParts DEF Start, cloud, CloudTyped, FilesTyped
<1>3. HistoryTyped'
  BY TypedParts, BoundsAssumption DEF Start, HistoryTyped
<1> QED  BY <1>1, <1>2, <1>3, TypedParts DEF Typed, TypeOK, CloudTyped, FilesTyped, HistoryTyped, CommandsTyped

LEMMA BeginTyped ==
  ASSUME Typed, NEW c \in Command, NEW w \in Person, Begin(c, w)
  PROVE  Typed'
<1>1. file[w] \in Config
  BY DEF Typed, TypeOK
<1>2. ASSUME NEW kind \in {"new", "upsert"}, NEW import \in BOOLEAN, StartSetup(c, w, kind, import)
      PROVE  Typed'
  <2> DEFINE m == [Base(kind, w) EXCEPT !.import = import, !.config = file[w]]
  <2>1. Base(kind, w) \in Memory /\ Base(kind, w).who = w
    BY BaseTypes DEF Kind
  <2>2. m \in Memory /\ m.who = w
    BY <1>1, <2>1 DEF Memory
  <2>3. Start(c, "choose", m)  BY <1>2 DEF StartSetup
  <2> HIDE DEF m
  <2> QED  BY <2>2, <2>3, StartTyped DEF Places, AtTarget
<1>3. ASSUME StartRecord(c, w)  PROVE Typed'
  <2> DEFINE m == [Base("record", w) EXCEPT !.copy = file[w]]
  <2>1. Base("record", w) \in Memory /\ Base("record", w).who = w
    BY BaseTypes DEF Kind
  <2>2. m \in Memory /\ m.who = w
    BY <1>1, <2>1 DEF Memory
  <2>3. Start(c, "record", m)  BY <1>3 DEF StartRecord
  <2> HIDE DEF m
  <2> QED  BY <2>2, <2>3, StartTyped DEF Places, AtTarget
<1>4. ASSUME NEW t \in Target, StartUpdate(c, w, t)  PROVE Typed'
  <2> DEFINE m == [Base("update", w) EXCEPT !.config = file[w], !.todo = <<t>>]
  <2>1. Base("update", w) \in Memory /\ Base("update", w).who = w
    BY BaseTypes DEF Kind
  <2>2. <<t>> \in Seq(Target) /\ <<t>> # << >>
    OBVIOUS
  <2>3. m \in Memory /\ m.who = w /\ m.todo = <<t>>
    BY <1>1, <2>1, <2>2 DEF Memory
  <2>4. Start(c, "target", m)  BY <1>4 DEF StartUpdate
  <2> HIDE DEF m
  <2> QED  BY <2>2, <2>3, <2>4, StartTyped DEF Places, AtTarget
<1>5. ASSUME NEW t \in Target, StartDelete(c, w, t)  PROVE Typed'
  <2> DEFINE m == [Base("delete", w) EXCEPT !.todo = <<t>>]
  <2>1. Base("delete", w) \in Memory /\ Base("delete", w).who = w
    BY BaseTypes DEF Kind
  <2>2. <<t>> \in Seq(Target) /\ <<t>> # << >>
    OBVIOUS
  <2>3. m \in Memory /\ m.who = w /\ m.todo = <<t>>
    BY <2>1, <2>2 DEF Memory
  <2>4. Start(c, "data", m)  BY <1>5 DEF StartDelete
  <2> HIDE DEF m
  <2> QED  BY <2>2, <2>3, <2>4, StartTyped DEF Places, AtTarget
<1> QED  BY <1>2, <1>3, <1>4, <1>5 DEF Begin

\* Dialogs and profiles.
LEMMA ChoosingTyped ==
  ASSUME Typed, NEW c \in Command,
         \/ \E todo \in Choices : Choose(c, todo)
         \/ CreateProfile(c) \/ Back(c) \/ (\E t \in Target : Record(c, t)) \/ WriteConfig(c)
  PROVE  Typed'
<1>1. me \in [Command -> Memory] /\ pc \in [Command -> Places] /\ file \in [Person -> Config] /\ CommandsTyped
      /\ CloudTyped /\ HistoryTyped
  BY TypedParts DEF Typed, TypeOK
<1>2. me[c] \in Memory /\ (pc[c] # "idle" => me[c].who \in Person /\ file[me[c].who] \in Config)
  BY <1>1 DEF CommandsTyped, Ready
<1>3. ASSUME NEW todo \in Choices, Choose(c, todo)  PROVE Typed'
  <2> DEFINE m == [me[c] EXCEPT !.todo = todo]
  <2>1. todo \in Seq(Target)  BY ChoicesAssumption
  <2>2. m \in Memory /\ m.who = me[c].who /\ m.todo = todo
    BY <1>2, <2>1 DEF Memory
  <2>3. me' = [me EXCEPT ![c] = m]  BY <1>3, <1>1 DEF Choose
  <2> HIDE DEF m
  <2>4. CommandsTyped'
    <3> DEFINE l == IF todo = << >> THEN "write" ELSE "target"
    <3>1. l \in Places /\ l # "idle" /\ (l \in AtTarget => m.todo # << >>)
      BY <2>2 DEF Places, AtTarget
    <3>2. pc' = [pc EXCEPT ![c] = l] /\ pc[c] = "choose"
      BY <1>3 DEF Choose, Goto
    <3> HIDE DEF l
    <3> QED  BY <1>2, <2>2, <2>3, <3>1, <3>2, Moves DEF CommandsTyped
  <2>5. CloudTyped' /\ FilesTyped' /\ HistoryTyped'
    BY <1>1, <1>3 DEF Choose, cloud, CloudTyped, FilesTyped, HistoryTyped
  <2> QED  BY <2>4, <2>5 DEF Typed, TypeOK, CloudTyped, FilesTyped, HistoryTyped, CommandsTyped
<1>4. ASSUME CreateProfile(c)  PROVE Typed'
  <2> DEFINE m == [me[c] EXCEPT !.copy = file[me[c].who]]
  <2>1. m \in Memory /\ m.who = me[c].who
    BY <1>2, <1>4 DEF Memory, CreateProfile
  <2>2. me' = [me EXCEPT ![c] = m]  BY <1>4, <1>1 DEF CreateProfile
  <2> HIDE DEF m
  <2>3. CommandsTyped'
    BY <1>2, <1>4, <2>1, <2>2, Moves DEF CreateProfile, Goto, CommandsTyped, Places, AtTarget
  <2>4. CloudTyped' /\ FilesTyped' /\ HistoryTyped'
    BY <1>1, <1>4 DEF CreateProfile, cloud, CloudTyped, FilesTyped, HistoryTyped
  <2> QED  BY <2>3, <2>4 DEF Typed, TypeOK, CloudTyped, FilesTyped, HistoryTyped, CommandsTyped
<1>5. ASSUME Back(c)  PROVE Typed'
  <2> DEFINE m == [me[c] EXCEPT !.todo = << >>]
  <2>0. << >> \in Seq(Target)  OBVIOUS
  <2>1. m \in Memory /\ m.who = me[c].who
    BY <1>2, <2>0 DEF Memory
  <2>2. me' = [me EXCEPT ![c] = m]  BY <1>5, <1>1 DEF Back
  <2> HIDE DEF m
  <2>3. CommandsTyped'
    BY <1>2, <1>5, <2>1, <2>2, Moves DEF Back, Goto, CommandsTyped, Places, AtTarget
  <2>4. CloudTyped' /\ FilesTyped' /\ HistoryTyped'
    BY <1>1, <1>5 DEF Back, cloud, CloudTyped, FilesTyped, HistoryTyped
  <2> QED  BY <2>3, <2>4 DEF Typed, TypeOK, CloudTyped, FilesTyped, HistoryTyped, CommandsTyped
<1>6. ASSUME NEW t \in Target, Record(c, t)  PROVE Typed'
  <2>1. CloudTyped' /\ HistoryTyped'
    BY <1>1, <1>6 DEF Record, cloud, CloudTyped, HistoryTyped
  <2>2. FilesTyped'
    <3> DEFINE new == [known |-> me[c].copy.known \cup {t[1]}, listed |-> me[c].copy.listed \ {t}]
    <3>1. me[c].copy \in Config  BY <1>2 DEF Memory
    <3>2. new \in Config  BY <3>1, StoreTypes DEF Config
    <3>3. file' = [file EXCEPT ![me[c].who] = new]  BY <1>6 DEF Record
    <3> HIDE DEF new
    <3> QED  BY <1>1, <3>2, <3>3 DEF FilesTyped
  <2>3. CommandsTyped'
    <3>1. CASE me[c].kind = "record"
      BY <1>6, <3>1, Ends DEF Record, CommandsTyped
    <3>2. CASE me[c].kind # "record"
      <4> DEFINE m == [me[c] EXCEPT !.copy = NoConfig]
      <4>1. m \in Memory /\ m.who = me[c].who
        BY <1>2, IdleTypes DEF Memory
      <4>2. me' = [me EXCEPT ![c] = m] /\ pc' = [pc EXCEPT ![c] = "choose"] /\ pc[c] = "record"
        BY <1>6, <1>1, <3>2 DEF Record, Goto
      <4> HIDE DEF m
      <4> QED  BY <1>2, <4>1, <4>2, Moves DEF CommandsTyped, Places, AtTarget
    <3> QED  BY <3>1, <3>2
  <2> QED  BY <2>1, <2>2, <2>3 DEF Typed, TypeOK, CloudTyped, FilesTyped, HistoryTyped, CommandsTyped
<1>7. ASSUME WriteConfig(c)  PROVE Typed'
  <2>1. me[c].config \in Config  BY <1>2 DEF Memory
  <2>2. CloudTyped' /\ FilesTyped' /\ HistoryTyped'
    BY <1>1, <1>7, <2>1 DEF WriteConfig, cloud, CloudTyped, FilesTyped, HistoryTyped
  <2>3. CommandsTyped'
    BY <1>7, Ends DEF WriteConfig, CommandsTyped
  <2> QED  BY <2>2, <2>3 DEF Typed, TypeOK, CloudTyped, FilesTyped, HistoryTyped, CommandsTyped
<1> QED  BY <1>3, <1>4, <1>5, <1>6, <1>7

\* A command that is done with its target.
LEMMA Next1Typed ==
  ASSUME Typed, NEW c \in Command, pc[c] \in AtTarget, pc[c] # "idle", Next1(c)
  PROVE  CommandsTyped'
<1>1. me \in [Command -> Memory] /\ me[c] \in Memory /\ me[c].who \in Person
  BY DEF Typed, TypeOK, Ready
<1>2. /\ Of(c) \in Target /\ Of(c)[1] \in Profile /\ Tail(me[c].todo) \in Seq(Target)
      /\ Len(me[c].todo) # 1 => Tail(me[c].todo) # << >>
  BY TargetTypes
<1> DEFINE config == Listed(me[c].config, Of(c))
           made == me[c].made \cup {Of(c)}
           todo == Tail(me[c].todo)
           m == [me[c] EXCEPT !.config = config, !.made = made, !.todo = todo, !.number = 0, !.owners = NoData]
           l == IF Len(me[c].todo) = 1 THEN "write" ELSE "target"
<1>3. config \in Config
  BY <1>1, <1>2 DEF Listed, Config, Memory
<1>4. made \in SUBSET Target
  <2>1. me[c].made \in SUBSET Target  BY <1>1 DEF Memory
  <2>2. Of(c) \in Target  BY <1>2
  <2> QED  BY <2>1, <2>2
<1>5. me' = [me EXCEPT ![c] = m] /\ pc' = [pc EXCEPT ![c] = l]
  BY <1>1 DEF Next1, Goto
<1>6. l \in Places /\ l # "idle" /\ (l \in AtTarget => todo # << >>)
  BY <1>2 DEF Places, AtTarget
<1>7. todo \in Seq(Target)
  BY <1>2
<1> HIDE DEF config, made, todo, l
<1>8. 0 \in 0..MaxDeploys
  BY BoundsAssumption
<1>9. m \in Memory /\ m.who = me[c].who /\ m.todo = todo
  BY <1>1, <1>3, <1>4, <1>7, <1>8, IdleTypes DEF Memory
<1> HIDE DEF m
<1> QED  BY <1>1, <1>5, <1>6, <1>9, Moves DEF CommandsTyped

\* Deployments and deletions.
LEMMA DeployingTyped ==
  ASSUME Typed, NEW c \in Command,
         \/ StartTarget(c) \/ EnsureSecret(c) \/ Seed(c) \/ Deploy(c) \/ Discover(c) \/ LoadOwners(c)
         \/ SaveOwners(c) \/ EnsureTeam(c)
         \/ (\E b \in BOOLEAN : DeleteBroker(c, b) \/ Unlist(c, b))
         \/ Fail(c)
  PROVE  Typed'
<1>1. me \in [Command -> Memory] /\ pc \in [Command -> Places] /\ CommandsTyped
      /\ CloudTyped /\ FilesTyped /\ HistoryTyped
  BY TypedParts DEF Typed, TypeOK
<1>2. me[c] \in Memory /\ (pc[c] # "idle" => me[c].who \in Person)
      /\ (pc[c] \in AtTarget => me[c].todo # << >>)
  BY <1>1 DEF CommandsTyped, Ready
<1>3. pc[c] \in AtTarget =>
        Of(c) \in Target /\ Store(Of(c)) \in Stores /\ (Of(c)[1] \in Aws => Store(Of(c)) = Of(c))
  BY TargetTypes
<1>4. \A s \in Stores : data[s] \in Data /\ [data[s] EXCEPT !.there = TRUE] \in Data
  BY <1>1 DEF CloudTyped, Data
<1>5. ASSUME StartTarget(c)  PROVE Typed'
  <2>1. pc[c] \in AtTarget /\ pc[c] # "idle"  BY <1>5 DEF StartTarget, AtTarget
  <2>2. CommandsTyped'
    <3>1. PICK l \in {"deploy", "secret"} : pc' = [pc EXCEPT ![c] = l]
      BY <1>5 DEF StartTarget, Goto
    <3>2. l \in Places  BY DEF Places
    <3> QED  BY <1>2, <1>5, <2>1, <3>1, <3>2, Steps DEF StartTarget, CommandsTyped
  <2>3. CloudTyped'
    <3>1. data' = data \/ data' = [data EXCEPT ![Store(Of(c))] = [data[Store(Of(c))] EXCEPT !.there = TRUE]]
      BY <1>1, <1>3, <1>5, <2>1 DEF StartTarget, CloudTyped
    <3>2. data' \in [Stores -> Data]
      BY <1>1, <1>3, <1>4, <2>1, <3>1 DEF CloudTyped
    <3> QED  BY <1>1, <1>5, <3>2 DEF StartTarget, CloudTyped
  <2>4. FilesTyped' /\ HistoryTyped'
    BY <1>1, <1>5 DEF StartTarget, FilesTyped, HistoryTyped
  <2> QED  BY <2>2, <2>3, <2>4 DEF Typed, TypeOK, CloudTyped, FilesTyped, HistoryTyped, CommandsTyped
<1>6. ASSUME EnsureSecret(c)  PROVE Typed'
  <2>1. pc[c] \in AtTarget /\ pc[c] # "idle"  BY <1>6 DEF EnsureSecret, AtTarget
  <2>2. CommandsTyped'
    <3>1. PICK l \in {"deploy", "seed"} : pc' = [pc EXCEPT ![c] = l]
      BY <1>6 DEF EnsureSecret, AfterSecret, Goto
    <3>2. l \in Places  BY DEF Places
    <3> QED  BY <1>2, <1>6, <2>1, <3>1, <3>2, Steps DEF EnsureSecret, CommandsTyped
  <2>3. CloudTyped' /\ FilesTyped' /\ HistoryTyped'
    BY <1>1, <1>6 DEF EnsureSecret, CloudTyped, FilesTyped, HistoryTyped
  <2> QED  BY <2>2, <2>3 DEF Typed, TypeOK, CloudTyped, FilesTyped, HistoryTyped, CommandsTyped
<1>7. ASSUME Seed(c)  PROVE Typed'
  <2>1. pc[c] \in AtTarget /\ pc[c] # "idle"  BY <1>7 DEF Seed, AtTarget
  <2>2. CommandsTyped'
    <3>1. "deploy" \in Places  BY DEF Places
    <3> QED  BY <1>2, <1>7, <2>1, <3>1, Steps DEF Seed, Goto, CommandsTyped
  <2>3. CloudTyped' /\ FilesTyped' /\ HistoryTyped'
    BY <1>1, <1>7 DEF Seed, CloudTyped, FilesTyped, HistoryTyped
  <2> QED  BY <2>2, <2>3 DEF Typed, TypeOK, CloudTyped, FilesTyped, HistoryTyped, CommandsTyped
<1>8. ASSUME Deploy(c)  PROVE Typed'
  <2>1. pc[c] \in AtTarget /\ pc[c] # "idle"  BY <1>8 DEF Deploy, AtTarget
  <2>2. deploys' \in 0..MaxDeploys
    BY <1>1, <1>8, BoundsAssumption DEF Deploy, CloudTyped
  <2>3. CommandsTyped'
    <3> DEFINE m == [me[c] EXCEPT !.number = deploys']
    <3>1. m \in Memory /\ m.who = me[c].who /\ m.todo = me[c].todo
      BY <1>2, <2>2 DEF Memory
    <3>2. me' = [me EXCEPT ![c] = m] /\ pc' = [pc EXCEPT ![c] = "discover"]
      BY <1>8, <1>1 DEF Deploy, Goto
    <3>3. "discover" \in Places  BY DEF Places
    <3> HIDE DEF m
    <3> QED  BY <1>2, <2>1, <3>1, <3>2, <3>3, Moves DEF CommandsTyped
  <2>4. broker' \in [Target -> 0..MaxDeploys]
    BY <1>1, <1>8, <2>2 DEF Deploy, CloudTyped
  <2>5. data' \in [Stores -> Data] /\ secret' \in [Stores -> {"none", "empty", "seeded"}]
    <3>1. CASE Of(c)[1] \in Aws
      <4>1. Of(c) \in Stores /\ [data[Of(c)] EXCEPT !.there = TRUE] \in Data
        BY <1>3, <1>4, <2>1, <3>1
      <4>2. data' = [data EXCEPT ![Of(c)] = [data[Of(c)] EXCEPT !.there = TRUE]]
        BY <1>1, <1>8, <3>1, <4>1 DEF Deploy, CloudTyped
      <4>3. secret' = [secret EXCEPT ![Of(c)] = "seeded"]
        BY <1>8, <3>1 DEF Deploy
      <4> QED  BY <1>1, <4>1, <4>2, <4>3 DEF CloudTyped
    <3>2. CASE Of(c)[1] \notin Aws
      BY <1>1, <1>8, <3>2 DEF Deploy, CloudTyped
    <3> QED  BY <3>1, <3>2
  <2>6. FilesTyped' /\ HistoryTyped'
    BY <1>1, <1>8 DEF Deploy, FilesTyped, HistoryTyped
  <2> QED  BY <2>2, <2>3, <2>4, <2>5, <2>6 DEF Typed, TypeOK, CloudTyped, FilesTyped, HistoryTyped, CommandsTyped
<1>9. ASSUME Discover(c)  PROVE Typed'
  <2>1. pc[c] \in AtTarget /\ pc[c] # "idle"  BY <1>9 DEF Discover, AtTarget
  <2>2. CommandsTyped'
    <3>1. PICK l \in {"owners", "team"} : pc' = [pc EXCEPT ![c] = l]
      BY <1>9 DEF Discover, Goto
    <3>2. l \in Places  BY DEF Places
    <3> QED  BY <1>2, <1>9, <2>1, <3>1, <3>2, Steps DEF Discover, CommandsTyped
  <2>3. CloudTyped' /\ FilesTyped' /\ HistoryTyped'
    BY <1>1, <1>9 DEF Discover, cloud, CloudTyped, FilesTyped, HistoryTyped
  <2> QED  BY <2>2, <2>3 DEF Typed, TypeOK, CloudTyped, FilesTyped, HistoryTyped, CommandsTyped
<1>10. ASSUME LoadOwners(c)  PROVE Typed'
  <2>1. pc[c] \in AtTarget /\ pc[c] # "idle"  BY <1>10 DEF LoadOwners, AtTarget
  <2>2. CommandsTyped'
    <3> DEFINE m == [me[c] EXCEPT !.owners = data[Store(Of(c))]]
    <3>1. data[Store(Of(c))] \in Data  BY <1>3, <1>4, <2>1
    <3>2. m \in Memory /\ m.who = me[c].who /\ m.todo = me[c].todo
      BY <1>2, <3>1 DEF Memory
    <3>3. me' = [me EXCEPT ![c] = m] /\ pc' = [pc EXCEPT ![c] = "save"]
      BY <1>10, <1>1 DEF LoadOwners, Goto
    <3>4. "save" \in Places  BY DEF Places
    <3> HIDE DEF m
    <3> QED  BY <1>2, <2>1, <3>2, <3>3, <3>4, Moves DEF CommandsTyped
  <2>3. CloudTyped' /\ FilesTyped' /\ HistoryTyped'
    BY <1>1, <1>10 DEF LoadOwners, cloud, CloudTyped, FilesTyped, HistoryTyped
  <2> QED  BY <2>2, <2>3 DEF Typed, TypeOK, CloudTyped, FilesTyped, HistoryTyped, CommandsTyped
<1>11. ASSUME SaveOwners(c)  PROVE Typed'
  <2>1. pc[c] \in AtTarget /\ pc[c] # "idle"  BY <1>11 DEF SaveOwners, AtTarget
  <2>2. CommandsTyped'
    BY <1>11, <2>1, Next1Typed DEF SaveOwners
  <2>3. data' \in [Stores -> Data]
    <3> DEFINE s == Store(Of(c))
               e == me[c].owners
               new == [data[s] EXCEPT !.owners = e.owners \cup {me[c].who}, !.used = e.used \/ e.owners = {}]
    <3>1. s \in Stores /\ data[s] \in Data /\ e \in Data /\ me[c].who \in Person
      BY <1>2, <1>3, <1>4, <2>1 DEF Memory
    <3>2. new \in Data
      BY <3>1 DEF Data
    <3>3. data' = [data EXCEPT ![s] = new]
      BY <1>1, <1>11, <3>1 DEF SaveOwners, CloudTyped
    <3> HIDE DEF s, new
    <3> QED  BY <1>1, <3>1, <3>2, <3>3 DEF CloudTyped
  <2>4. CloudTyped' /\ FilesTyped' /\ HistoryTyped'
    BY <1>1, <1>11, <2>3 DEF SaveOwners, CloudTyped, FilesTyped, HistoryTyped
  <2> QED  BY <2>2, <2>4 DEF Typed, TypeOK, CloudTyped, FilesTyped, HistoryTyped, CommandsTyped
<1>12. ASSUME EnsureTeam(c)  PROVE Typed'
  <2>1. pc[c] \in AtTarget /\ pc[c] # "idle"  BY <1>12 DEF EnsureTeam, AtTarget
  <2>2. CommandsTyped'
    BY <1>12, <2>1, Next1Typed DEF EnsureTeam
  <2>3. CloudTyped' /\ FilesTyped' /\ HistoryTyped'
    BY <1>1, <1>12 DEF EnsureTeam, cloud, CloudTyped, FilesTyped, HistoryTyped
  <2> QED  BY <2>2, <2>3 DEF Typed, TypeOK, CloudTyped, FilesTyped, HistoryTyped, CommandsTyped
<1>13. ASSUME NEW b \in BOOLEAN, DeleteBroker(c, b)  PROVE Typed'
  <2>1. pc[c] \in AtTarget /\ pc[c] # "idle"  BY <1>13 DEF DeleteBroker, AtTarget
  <2>2. CommandsTyped'
    <3>1. "unlist" \in Places  BY DEF Places
    <3> QED  BY <1>2, <1>13, <2>1, <3>1, Steps DEF DeleteBroker, Goto, CommandsTyped
  <2>3. broker' \in [Target -> 0..MaxDeploys]
    <3>1. 0 \in 0..MaxDeploys  BY BoundsAssumption
    <3>2. broker' = [broker EXCEPT ![Of(c)] = 0]  BY <1>13 DEF DeleteBroker
    <3> QED  BY <1>1, <3>1, <3>2 DEF CloudTyped
  <2>4. data' \in [Stores -> Data]
    <3>1. data' = data \/ data' = [data EXCEPT ![Store(Of(c))] = NoData]
      BY <1>13 DEF DeleteBroker
    <3> QED  BY <1>1, <3>1, IdleTypes DEF CloudTyped
  <2>5. secret' \in [Stores -> {"none", "empty", "seeded"}]
    <3>1. secret' = secret \/ secret' = [secret EXCEPT ![Of(c)] = "none"]
      BY <1>13 DEF DeleteBroker
    <3> QED  BY <1>1, <3>1 DEF CloudTyped
  <2>6. CloudTyped' /\ FilesTyped' /\ HistoryTyped'
    BY <1>1, <1>13, <2>3, <2>4, <2>5 DEF DeleteBroker, CloudTyped, FilesTyped, HistoryTyped
  <2> QED  BY <2>2, <2>6 DEF Typed, TypeOK, CloudTyped, FilesTyped, HistoryTyped, CommandsTyped
<1>14. ASSUME NEW b \in BOOLEAN, Unlist(c, b)  PROVE Typed'
  <2> PICK every \in BOOLEAN :
           /\ file' = [file EXCEPT ![me[c].who].listed = @ \ {t \in Target : Taken(t, Of(c), every, b)}]
           /\ pc[c] = "unlist" /\ End(c) /\ UNCHANGED <<cloud, deploys, started, alone, torn>>
    BY <1>14 DEF Unlist
  <2> DEFINE gone == {t \in Target : Taken(t, Of(c), every, b)}
             w == me[c].who
             new == [file[w] EXCEPT !.listed = @ \ gone]
  <2>1. w \in Person /\ file[w] \in Config  BY <1>1, <1>2, <1>14 DEF Unlist, FilesTyped
  <2>2. new \in Config  BY <2>1 DEF Config
  <2>3. file' = [file EXCEPT ![w] = new]  BY <1>1, <1>14, <2>1 DEF Unlist, FilesTyped
  <2> HIDE DEF w, new
  <2>4. FilesTyped'  BY <1>1, <2>1, <2>2, <2>3 DEF FilesTyped
  <2>5. CloudTyped' /\ HistoryTyped'
    BY <1>1, <1>14 DEF Unlist, cloud, CloudTyped, HistoryTyped
  <2>6. CommandsTyped'
    BY <1>14, Ends DEF Unlist, CommandsTyped
  <2> QED  BY <2>4, <2>5, <2>6 DEF Typed, TypeOK, CloudTyped, FilesTyped, HistoryTyped, CommandsTyped
<1>15. ASSUME Fail(c)  PROVE Typed'
  <2>1. CommandsTyped'
    BY <1>15, Ends DEF Fail, CommandsTyped
  <2>2. torn' \subseteq Stores
    <3>1. pc[c] = "seed" => Store(Head(me[c].todo)) \in Stores
      BY <1>3 DEF AtTarget, Of
    <3> QED  BY <1>1, <1>15, <3>1 DEF Fail, HistoryTyped
  <2>3. CloudTyped' /\ FilesTyped' /\ HistoryTyped'
    BY <1>1, <1>15, <2>2 DEF Fail, cloud, CloudTyped, FilesTyped, HistoryTyped
  <2> QED  BY <2>1, <2>3 DEF Typed, TypeOK, CloudTyped, FilesTyped, HistoryTyped, CommandsTyped
<1> QED
  BY <1>5, <1>6, <1>7, <1>8, <1>9, <1>10, <1>11, <1>12, <1>13, <1>14, <1>15

LEMMA NextTyped ==
  ASSUME Typed, [Next]_vars
  PROVE  Typed'
<1>1. CASE UNCHANGED vars
  BY <1>1 DEF Typed, TypeOK, Ready, vars, cloud, Of
<1>2. ASSUME NEW c \in Command, Proceed(c)  PROVE Typed'
  BY <1>2, ChoosingTyped, DeployingTyped DEF Proceed
<1>3. ASSUME NEW c \in Command, NEW w \in Person, Begin(c, w)  PROVE Typed'
  BY <1>3, BeginTyped
<1> QED  BY <1>1, <1>2, <1>3 DEF Next

LEMMA InitTyped == Init => Typed
<1> SUFFICES ASSUME Init  PROVE Typed  OBVIOUS
<1>1. 0 \in 0..MaxDeploys /\ 0 \in 0..MaxCommands  BY BoundsAssumption
<1>2. CloudTyped /\ FilesTyped
  BY <1>1, IdleTypes DEF Init, CloudTyped, FilesTyped
<1>3. HistoryTyped  BY <1>1 DEF Init, HistoryTyped
<1>4. CommandsTyped
  BY IdleTypes DEF Init, CommandsTyped, Ready, Places, AtTarget
<1> QED  BY <1>2, <1>3, <1>4, TypedParts

\* A step of one command leaves the others where they are.
LEMMA OneMoves ==
  ASSUME Typed, NEW c \in Command, Proceed(c) \/ \E w \in Person : Begin(c, w)
  PROVE  \A d \in Command \ {c} : pc'[d] = pc[d] /\ me'[d] = me[d]
<1>1. me \in [Command -> Memory] /\ pc \in [Command -> Places]
  BY DEF Typed, TypeOK
<1>2. ASSUME NEW d \in Command, d # c  PROVE pc'[d] = pc[d] /\ me'[d] = me[d]
  <2>1. End(c) => pc'[d] = pc[d] /\ me'[d] = me[d]
    BY <1>1, <1>2 DEF End, Goto
  <2>2. \A l, m : Start(c, l, m) => pc'[d] = pc[d] /\ me'[d] = me[d]
    BY <1>1, <1>2 DEF Start, Goto
  <2>3. (\E w \in Person : Begin(c, w)) => pc'[d] = pc[d] /\ me'[d] = me[d]
    BY <2>2 DEF Begin, StartSetup, StartRecord, StartUpdate, StartDelete
  <2>4. \/ \E todo \in Choices : Choose(c, todo)
        \/ CreateProfile(c) \/ Back(c)
        => pc'[d] = pc[d] /\ me'[d] = me[d]
    BY <1>1, <1>2 DEF Choose, CreateProfile, Back, Goto
  <2>5. (\E t \in Target : Record(c, t)) => pc'[d] = pc[d] /\ me'[d] = me[d]
    BY <1>1, <1>2, <2>1 DEF Record, Goto
  <2>6. StartTarget(c) \/ EnsureSecret(c) \/ Seed(c) \/ Discover(c) \/ (\E b \in BOOLEAN : DeleteBroker(c, b))
        => pc'[d] = pc[d] /\ me'[d] = me[d]
    BY <1>1, <1>2 DEF StartTarget, EnsureSecret, Seed, Discover, DeleteBroker, Goto
  <2>7. Deploy(c) \/ LoadOwners(c) => pc'[d] = pc[d] /\ me'[d] = me[d]
    BY <1>1, <1>2 DEF Deploy, LoadOwners, Goto
  <2>8. SaveOwners(c) \/ EnsureTeam(c) => pc'[d] = pc[d] /\ me'[d] = me[d]
    BY <1>1, <1>2 DEF SaveOwners, EnsureTeam, Next1, Goto
  <2>9. WriteConfig(c) \/ (\E b \in BOOLEAN : Unlist(c, b)) \/ Fail(c) => pc'[d] = pc[d] /\ me'[d] = me[d]
    BY <2>1 DEF WriteConfig, Unlist, Fail
  <2> QED  BY <2>3, <2>4, <2>5, <2>6, <2>7, <2>8, <2>9 DEF Proceed
<1> QED  BY <1>2

(***************************************************************************)
(* What has data, and whose secrets are without a token                    *)
(***************************************************************************)

\* Only four steps change what the stores have.
LEMMA DataSteps ==
  ASSUME Typed, NEW c \in Command, Proceed(c)
  PROVE  \/ UNCHANGED data
         \/ \E s \in Stores : data' = [data EXCEPT ![s].there = TRUE]
         \/ \E s \in Stores : data' = [data EXCEPT ![s] = NoData]
         \/ SaveOwners(c)
<1>1. pc[c] \in AtTarget =>
        Of(c) \in Target /\ Store(Of(c)) \in Stores /\ (Of(c)[1] \in Aws => Store(Of(c)) = Of(c))
  BY TargetTypes
<1>2. StartTarget(c) => UNCHANGED data \/ \E s \in Stores : data' = [data EXCEPT ![s].there = TRUE]
  BY <1>1 DEF StartTarget, AtTarget
<1>3. Deploy(c) => UNCHANGED data \/ \E s \in Stores : data' = [data EXCEPT ![s].there = TRUE]
  BY <1>1 DEF Deploy, AtTarget
<1>4. (\E b \in BOOLEAN : DeleteBroker(c, b)) => UNCHANGED data \/ \E s \in Stores : data' = [data EXCEPT ![s] = NoData]
  BY <1>1 DEF DeleteBroker, AtTarget
<1>5. \/ \E todo \in Choices : Choose(c, todo)
      \/ CreateProfile(c) \/ Back(c) \/ (\E t \in Target : Record(c, t)) \/ EnsureSecret(c) \/ Seed(c) \/ Discover(c)
      \/ LoadOwners(c) \/ EnsureTeam(c) \/ WriteConfig(c) \/ (\E b \in BOOLEAN : Unlist(c, b)) \/ Fail(c)
      => UNCHANGED data
  BY DEF Choose, CreateProfile, Back, Record, EnsureSecret, Seed, Discover, LoadOwners, EnsureTeam, WriteConfig, Unlist, Fail,
         cloud
<1> QED  BY <1>2, <1>3, <1>4, <1>5 DEF Proceed

LEMMA OwnersKept ==
  ASSUME Typed, NotLockedOut, [Next]_vars
  PROVE  NotLockedOut'
<1>1. data \in [Stores -> Data]
  BY DEF Typed, TypeOK
<1>2. UNCHANGED data => NotLockedOut'
  BY DEF NotLockedOut
<1>3. ASSUME NEW s \in Stores, data' = [data EXCEPT ![s].there = TRUE]  PROVE NotLockedOut'
  <2>1. \A r \in Stores : data'[r].used = data[r].used /\ data'[r].owners = data[r].owners
    BY <1>1, <1>3 DEF Data
  <2> QED  BY <2>1 DEF NotLockedOut
<1>4. ASSUME NEW s \in Stores, data' = [data EXCEPT ![s] = NoData]  PROVE NotLockedOut'
  <2>1. \A r \in Stores : data'[r] = data[r] \/ ~data'[r].used
    BY <1>1, <1>4 DEF NoData
  <2> QED  BY <2>1 DEF NotLockedOut
<1>5. ASSUME NEW c \in Command, SaveOwners(c)  PROVE NotLockedOut'
  <2>1. \A r \in Stores : data'[r] = data[r] \/ me[c].who \in data'[r].owners
    BY <1>1, <1>5 DEF SaveOwners, Data
  <2> QED  BY <2>1 DEF NotLockedOut
<1>6. ASSUME NEW c \in Command, NEW w \in Person, Begin(c, w)  PROVE UNCHANGED data
  BY <1>6 DEF Begin, StartSetup, StartRecord, StartUpdate, StartDelete, Start, cloud
<1>7. UNCHANGED vars => UNCHANGED data
  BY DEF vars, cloud
<1> QED
  BY <1>2, <1>3, <1>4, <1>5, <1>6, <1>7, DataSteps DEF Next

\* A command that is about to seed a store.
Seeding(c, s) == pc[c] = "seed" /\ Store(Of(c)) = s

LEMMA SecretsExplained ==
  ASSUME Typed, SeededUnlessTorn, [Next]_vars
  PROVE  SeededUnlessTorn'
<1> SUFFICES ASSUME NEW s \in Stores, secret'[s] = "empty"
             PROVE  s \in torn' \/ \E d \in Command : Seeding(d, s)'
  BY DEF SeededUnlessTorn, Seeding, Of
<1>1. me \in [Command -> Memory] /\ pc \in [Command -> Places] /\ secret \in [Stores -> {"none", "empty", "seeded"}]
  BY DEF Typed, TypeOK
<1>2. secret[s] = "empty" => s \in torn \/ \E d \in Command : Seeding(d, s)
  BY DEF SeededUnlessTorn, Seeding
\* Who did not move is where it was.
<1>3. ASSUME NEW c \in Command, \A d \in Command \ {c} : pc'[d] = pc[d] /\ me'[d] = me[d],
             secret[s] = "empty", torn \subseteq torn', ~Seeding(c, s)
      PROVE  s \in torn' \/ \E d \in Command : Seeding(d, s)'
  <2>1. CASE s \in torn  BY <1>3, <2>1
  <2>2. ASSUME NEW d \in Command, Seeding(d, s)  PROVE Seeding(d, s)'
    <3>1. d # c  BY <1>3, <2>2
    <3>2. pc'[d] = pc[d] /\ me'[d] = me[d]  BY <1>3, <3>1
    <3> QED  BY <2>2, <3>2 DEF Seeding, Of
  <2> QED  BY <1>2, <1>3, <2>1, <2>2
<1>4. ASSUME UNCHANGED vars  PROVE s \in torn' \/ \E d \in Command : Seeding(d, s)'
  <2>1. secret' = secret /\ pc' = pc /\ me' = me /\ torn' = torn  BY <1>4 DEF vars, cloud
  <2>2. \A d \in Command : Seeding(d, s) <=> Seeding(d, s)'
    BY <2>1 DEF Seeding, Of
  <2> QED  BY <1>2, <2>1, <2>2
<1>5. ASSUME NEW c \in Command, NEW w \in Person, Begin(c, w)
      PROVE  s \in torn' \/ \E d \in Command : Seeding(d, s)'
  <2>1. pc[c] = "idle" /\ UNCHANGED <<secret, torn>>
    BY <1>5 DEF Begin, StartSetup, StartRecord, StartUpdate, StartDelete, Start, cloud
  <2> QED  BY <1>3, <1>5, <2>1, OneMoves DEF Seeding
<1>6. ASSUME NEW c \in Command, Proceed(c)
      PROVE  s \in torn' \/ \E d \in Command : Seeding(d, s)'
  <2>1. \A d \in Command \ {c} : pc'[d] = pc[d] /\ me'[d] = me[d]
    BY <1>6, OneMoves
  <2>2. CASE EnsureSecret(c)
    <3>1. pc[c] = "secret" /\ torn' = torn  BY <2>2 DEF EnsureSecret
    <3>2. CASE secret[s] = "empty"
      BY <1>3, <2>1, <3>1, <3>2 DEF Seeding
    <3>3. CASE secret[s] # "empty"
      <4>1. s = Store(Of(c)) /\ secret[s] = "none"
        BY <1>1, <2>2, <3>3 DEF EnsureSecret
      <4>2. pc'[c] = "seed" /\ me' = me
        BY <1>1, <2>2, <4>1 DEF EnsureSecret, AfterSecret, Goto
      <4> QED  BY <4>1, <4>2 DEF Seeding, Of
    <3> QED  BY <3>2, <3>3
  <2>3. CASE Seed(c)
    <3>1. s # Store(Of(c)) /\ secret[s] = "empty" /\ torn' = torn
      BY <1>1, <2>3 DEF Seed
    <3> QED  BY <1>3, <2>1, <3>1 DEF Seeding
  <2>4. CASE Fail(c)
    <3>1. secret[s] = "empty" /\ torn \subseteq torn'
      BY <2>4 DEF Fail, cloud
    <3>2. CASE Seeding(c, s)
      BY <2>4, <3>2 DEF Fail, Seeding, Of
    <3> QED  BY <1>3, <2>1, <3>1, <3>2
  <2>5. CASE ~EnsureSecret(c) /\ ~Seed(c) /\ ~Fail(c)
    <3>1. secret[s] = "empty" /\ torn' = torn /\ pc[c] # "seed"
      <4>1. \/ \E todo \in Choices : Choose(c, todo)
            \/ CreateProfile(c) \/ Back(c) \/ (\E t \in Target : Record(c, t)) \/ Discover(c)
            \/ LoadOwners(c) \/ EnsureTeam(c) \/ WriteConfig(c) \/ (\E b \in BOOLEAN : Unlist(c, b))
            => secret' = secret /\ torn' = torn /\ pc[c] # "seed"
        BY DEF Choose, CreateProfile, Back, Record, Discover, LoadOwners, EnsureTeam, WriteConfig, Unlist, cloud
      <4>2. StartTarget(c) \/ SaveOwners(c) => secret' = secret /\ torn' = torn /\ pc[c] # "seed"
        BY DEF StartTarget, SaveOwners
      <4>3. Deploy(c) => secret[s] = "empty" /\ torn' = torn /\ pc[c] # "seed"
        BY <1>1 DEF Deploy
      <4>4. (\E b \in BOOLEAN : DeleteBroker(c, b)) => secret[s] = "empty" /\ torn' = torn /\ pc[c] # "seed"
        BY <1>1 DEF DeleteBroker
      <4> QED  BY <1>6, <2>5, <4>1, <4>2, <4>3, <4>4 DEF Proceed
    <3> QED  BY <1>3, <2>1, <3>1 DEF Seeding
  <2> QED  BY <2>2, <2>3, <2>4, <2>5
<1> QED  BY <1>4, <1>5, <1>6 DEF Next

\* In any execution, whatever fails or overlaps, every store whose token was used has an owner,
\* and every secret without a token is explained: by a command that is seeding it, or by one that ended then.
THEOREM DeploymentsAreSafe == Spec => []DeploymentHolds
<1> DEFINE Inv == Typed /\ NotLockedOut /\ SeededUnlessTorn
<1>1. Init => Inv
  BY InitTyped DEF Init, NotLockedOut, SeededUnlessTorn, NoData
<1>2. Inv /\ [Next]_vars => Inv'
  BY NextTyped, OwnersKept, SecretsExplained
<1>3. Inv => DeploymentHolds
  BY DEF Typed, DeploymentHolds
<1> QED  BY <1>1, <1>2, <1>3, PTL DEF Spec

(***************************************************************************)
(* Commands that nobody overlapped                                         *)
(***************************************************************************)

\* What a command does next says what kind it is.
InSetup(c) == pc[c] # "idle" /\ me[c].kind \notin {"record", "delete"}

KindFits(c) ==
  /\ pc[c] \in {"data", "unlist"} => me[c].kind = "delete"
  /\ pc[c] # "idle" /\ me[c].kind = "delete" => pc[c] \in {"data", "unlist"}
  /\ pc[c] # "idle" /\ me[c].kind = "record" => pc[c] = "record"

KindsFit == \A c \in Command : KindFits(c)

\* While a command is alone no other runs.
LeftAlone == \A c \in alone : Busy \subseteq {c}

\* What a command that is alone has read is not out of date, and what it has done is there.
Progress(c) ==
  /\ InSetup(c) =>
       /\ file[me[c].who].listed \subseteq me[c].config.listed
       /\ pc[c] = "record" => me[c].copy.listed \subseteq me[c].config.listed
       /\ \A t \in me[c].made : t \in me[c].config.listed /\ broker[t] # 0 /\ me[c].who \in data[Store(t)].owners
       /\ pc[c] \in {"owners", "save", "team"} => broker[Of(c)] # 0
  /\ pc[c] = "unlist" => broker[Of(c)] = 0

Undisturbed == LeftAlone /\ \A c \in alone : Progress(c)

LEMMA Proceeding ==
  ASSUME NEW c \in Command, Proceed(c)
  PROVE  pc[c] # "idle" /\ alone' \subseteq alone
<1>1. \/ \E todo \in Choices : Choose(c, todo)
      \/ CreateProfile(c) \/ Back(c) \/ (\E t \in Target : Record(c, t)) \/ WriteConfig(c) \/ Fail(c)
      => pc[c] # "idle" /\ alone' \subseteq alone
  BY DEF Choose, CreateProfile, Back, Record, WriteConfig, Fail
<1>2. StartTarget(c) \/ EnsureSecret(c) \/ Seed(c) \/ Deploy(c) \/ Discover(c) \/ LoadOwners(c)
      => pc[c] # "idle" /\ alone' \subseteq alone
  BY DEF StartTarget, EnsureSecret, Seed, Deploy, Discover, LoadOwners
<1>3. SaveOwners(c) \/ EnsureTeam(c) \/ (\E b \in BOOLEAN : DeleteBroker(c, b) \/ Unlist(c, b))
      => pc[c] # "idle" /\ alone' \subseteq alone
  BY DEF SaveOwners, EnsureTeam, DeleteBroker, Unlist
<1> QED  BY <1>1, <1>2, <1>3 DEF Proceed

LEMMA Beginning ==
  ASSUME NEW c \in Command, NEW w \in Person, Begin(c, w)
  PROVE  alone' = (IF Busy = {} THEN {c} ELSE {}) /\ UNCHANGED <<broker, data, file>>
BY DEF Begin, StartSetup, StartRecord, StartUpdate, StartDelete, Start, cloud

LEMMA StaysAlone ==
  ASSUME Typed, LeftAlone, [Next]_vars
  PROVE  /\ LeftAlone'
         /\ \A c \in Command, w \in Person : Begin(c, w) => alone' \subseteq {c}
         /\ \A c \in Command : Proceed(c) => alone' \subseteq alone \cap {c}
<1>1. alone \subseteq Command
  BY DEF Typed, TypeOK
<1>2. ASSUME NEW c \in Command, NEW w \in Person, Begin(c, w)  PROVE alone' \subseteq {c} /\ LeftAlone'
  <2>1. alone' = (IF Busy = {} THEN {c} ELSE {})  BY <1>2, Beginning
  <2>2. \A d \in Command \ {c} : pc'[d] = pc[d]  BY <1>2, OneMoves
  <2> QED  BY <2>1, <2>2 DEF LeftAlone, Busy
<1>3. ASSUME NEW c \in Command, Proceed(c)  PROVE alone' \subseteq alone \cap {c} /\ LeftAlone'
  <2>1. pc[c] # "idle" /\ alone' \subseteq alone  BY <1>3, Proceeding
  <2>2. alone \subseteq {c}  BY <2>1 DEF LeftAlone, Busy
  <2>3. \A d \in Command \ {c} : pc'[d] = pc[d]  BY <1>3, OneMoves
  <2> QED  BY <2>1, <2>2, <2>3 DEF LeftAlone, Busy
<1>4. UNCHANGED vars => LeftAlone'
  BY DEF vars, LeftAlone, Busy
<1> QED  BY <1>2, <1>3, <1>4 DEF Next

\* A command that goes on remains of its kind.
LEMMA GoesOn ==
  ASSUME Typed, NEW c \in Command, Proceed(c)
  PROVE  pc'[c] = "idle" \/ (me'[c].kind = me[c].kind /\ me'[c].who = me[c].who)
<1>1. me \in [Command -> Memory] /\ pc \in [Command -> Places] /\ me[c] \in Memory
  BY DEF Typed, TypeOK
<1> DEFINE Same == me'[c].kind = me[c].kind /\ me'[c].who = me[c].who
<1>2. \/ \E todo \in Choices : Choose(c, todo)
      \/ CreateProfile(c) \/ Back(c)
      => Same
  BY <1>1 DEF Choose, CreateProfile, Back, Memory
<1>3. End(c) => pc'[c] = "idle"
  BY <1>1 DEF End, Goto
<1>4. (\E t \in Target : Record(c, t)) => pc'[c] = "idle" \/ Same
  BY <1>1, <1>3 DEF Record, Memory
<1>5. StartTarget(c) \/ EnsureSecret(c) \/ Seed(c) \/ Discover(c) \/ (\E b \in BOOLEAN : DeleteBroker(c, b))
      => Same
  BY DEF StartTarget, EnsureSecret, Seed, Discover, DeleteBroker
<1>6. Deploy(c) \/ LoadOwners(c) => Same
  BY <1>1 DEF Deploy, LoadOwners, Memory
<1>7. SaveOwners(c) \/ EnsureTeam(c) => Same
  BY <1>1 DEF SaveOwners, EnsureTeam, Next1, Memory
<1>8. WriteConfig(c) \/ (\E b \in BOOLEAN : Unlist(c, b)) \/ Fail(c) => pc'[c] = "idle"
  BY <1>3 DEF WriteConfig, Unlist, Fail
<1> QED  BY <1>2, <1>4, <1>5, <1>6, <1>7, <1>8 DEF Proceed

\* Where a command can go.
LEMMA Paths ==
  ASSUME Typed, NEW c \in Command, Proceed(c)
  PROVE  \/ pc'[c] = "idle"
         \/ pc[c] = "data" /\ pc'[c] = "unlist"
         \/ pc[c] \notin {"data", "unlist"} /\ pc'[c] \notin {"data", "unlist"}
            /\ (pc[c] = "record" => me[c].kind # "record")
<1>1. pc \in [Command -> Places]
  BY DEF Typed, TypeOK
<1> DEFINE There == pc[c] \notin {"data", "unlist", "record"} /\ pc'[c] \notin {"data", "unlist"}
<1>2. \/ \E todo \in Choices : Choose(c, todo)
      \/ CreateProfile(c) \/ Back(c) \/ StartTarget(c)
      => There
  BY <1>1 DEF Choose, CreateProfile, Back, StartTarget, Goto
<1>3. EnsureSecret(c) \/ Seed(c) \/ Deploy(c) \/ Discover(c) \/ LoadOwners(c) => There
  BY <1>1 DEF EnsureSecret, AfterSecret, Seed, Deploy, Discover, LoadOwners, Goto
<1>4. SaveOwners(c) \/ EnsureTeam(c) => There
  BY <1>1 DEF SaveOwners, EnsureTeam, Next1, Goto
<1>5. End(c) => pc'[c] = "idle"
  BY <1>1 DEF End, Goto
<1>6. WriteConfig(c) \/ (\E b \in BOOLEAN : Unlist(c, b)) \/ Fail(c) => pc'[c] = "idle"
  BY <1>5 DEF WriteConfig, Unlist, Fail
<1>7. (\E b \in BOOLEAN : DeleteBroker(c, b)) => pc[c] = "data" /\ pc'[c] = "unlist"
  BY <1>1 DEF DeleteBroker, Goto
<1>8. (\E t \in Target : Record(c, t)) =>
        pc[c] = "record" /\ (pc'[c] = "idle" \/ (me[c].kind # "record" /\ pc'[c] = "choose"))
  BY <1>1, <1>5 DEF Record, Goto
<1> QED  BY <1>2, <1>3, <1>4, <1>6, <1>7, <1>8 DEF Proceed

LEMMA StartsFit ==
  ASSUME Typed, NEW c \in Command, NEW w \in Person, Begin(c, w)
  PROVE  KindFits(c)'
<1>1. me \in [Command -> Memory] /\ pc \in [Command -> Places]
  BY DEF Typed, TypeOK
<1>3. ASSUME NEW kind \in {"new", "upsert"}, NEW import \in BOOLEAN, StartSetup(c, w, kind, import)
      PROVE  KindFits(c)'
  <2>1. pc'[c] = "choose" /\ me'[c].kind = kind
    BY <1>1, <1>3 DEF StartSetup, Start, Goto, Base, Idle
  <2> QED  BY <2>1 DEF KindFits
<1>4. ASSUME StartRecord(c, w)  PROVE KindFits(c)'
  <2>1. pc'[c] = "record" /\ me'[c].kind = "record"
    BY <1>1, <1>4 DEF StartRecord, Start, Goto, Base, Idle
  <2> QED  BY <2>1 DEF KindFits
<1>5. ASSUME NEW t \in Target, StartUpdate(c, w, t)  PROVE KindFits(c)'
  <2>1. pc'[c] = "target" /\ me'[c].kind = "update"
    BY <1>1, <1>5 DEF StartUpdate, Start, Goto, Base, Idle
  <2> QED  BY <2>1 DEF KindFits
<1>6. ASSUME NEW t \in Target, StartDelete(c, w, t)  PROVE KindFits(c)'
  <2>1. pc'[c] = "data" /\ me'[c].kind = "delete"
    BY <1>1, <1>6 DEF StartDelete, Start, Goto, Base, Idle
  <2> QED  BY <2>1 DEF KindFits
<1> QED  BY <1>3, <1>4, <1>5, <1>6 DEF Begin

LEMMA KindsKept ==
  ASSUME Typed, KindsFit, [Next]_vars
  PROVE  KindsFit'
<1>1. ASSUME NEW d \in Command, pc'[d] = pc[d], me'[d] = me[d]  PROVE KindFits(d)'
  BY <1>1 DEF KindsFit, KindFits
<1>2. ASSUME NEW c \in Command, Proceed(c)  PROVE KindsFit'
  <2>1. KindFits(c)'
    BY <1>2, GoesOn, Paths, Proceeding DEF KindsFit, KindFits
  <2> QED  BY <1>1, <1>2, <2>1, OneMoves DEF KindsFit
<1>3. ASSUME NEW c \in Command, NEW w \in Person, Begin(c, w)  PROVE KindsFit'
  BY <1>1, <1>3, StartsFit, OneMoves DEF KindsFit
<1>4. UNCHANGED vars => KindsFit'
  BY DEF vars, KindsFit, KindFits
<1> QED  BY <1>2, <1>3, <1>4 DEF Next

LEMMA BeginsWell ==
  ASSUME Typed, NEW c \in Command, NEW w \in Person, Begin(c, w)
  PROVE  Progress(c)'
<1>1. me \in [Command -> Memory] /\ pc \in [Command -> Places]
  BY DEF Typed, TypeOK
<1>2. file' = file
  BY Beginning
<1>3. ASSUME NEW kind \in {"new", "upsert"}, NEW import \in BOOLEAN, StartSetup(c, w, kind, import)
      PROVE  Progress(c)'
  <2>1. pc'[c] = "choose" /\ me'[c].who = w /\ me'[c].made = {} /\ me'[c].config = file[w]
    BY <1>1, <1>3 DEF StartSetup, Start, Goto, Base, Idle
  <2> QED  BY <1>2, <2>1 DEF Progress
<1>4. ASSUME StartRecord(c, w)  PROVE Progress(c)'
  <2>1. pc'[c] = "record" /\ me'[c].kind = "record"
    BY <1>1, <1>4 DEF StartRecord, Start, Goto, Base, Idle
  <2> QED  BY <2>1 DEF Progress, InSetup
<1>5. ASSUME NEW t \in Target, StartUpdate(c, w, t)  PROVE Progress(c)'
  <2>1. pc'[c] = "target" /\ me'[c].who = w /\ me'[c].made = {} /\ me'[c].config = file[w]
    BY <1>1, <1>5 DEF StartUpdate, Start, Goto, Base, Idle
  <2> QED  BY <1>2, <2>1 DEF Progress
<1>6. ASSUME NEW t \in Target, StartDelete(c, w, t)  PROVE Progress(c)'
  <2>1. pc'[c] = "data" /\ me'[c].kind = "delete"
    BY <1>1, <1>6 DEF StartDelete, Start, Goto, Base, Idle
  <2> QED  BY <2>1 DEF Progress, InSetup
<1> QED  BY <1>3, <1>4, <1>5, <1>6 DEF Begin

\* A step that takes nothing away from what a set-up has done.
LEMMA KeepsUp ==
  ASSUME NEW c \in Command, Progress(c), InSetup(c), pc'[c] # "unlist", file' = file,
         me'[c].who = me[c].who, me'[c].config = me[c].config, me'[c].made = me[c].made,
         pc'[c] = "record" => me'[c].copy.listed \subseteq me[c].config.listed,
         \A t \in me[c].made : broker[t] # 0 => broker'[t] # 0,
         \A t \in me[c].made : me[c].who \in data[Store(t)].owners => me[c].who \in data'[Store(t)].owners,
         pc'[c] \in {"owners", "save", "team"} => broker'[Of(c)'] # 0
  PROVE  Progress(c)'
<1>1. file'[me'[c].who].listed \subseteq me'[c].config.listed
  BY DEF Progress
<1>2. \A t \in me'[c].made :
        t \in me'[c].config.listed /\ broker'[t] # 0 /\ me'[c].who \in data'[Store(t)].owners
  BY DEF Progress
<1> QED  BY <1>1, <1>2 DEF Progress

\* The dialog, and the profiles that are made from it.
LEMMA ChoosesWell ==
  ASSUME Typed, KindsFit, NEW c \in Command, Progress(c),
         \/ \E todo \in Choices : Choose(c, todo)
         \/ CreateProfile(c) \/ Back(c) \/ (\E t \in Target : Record(c, t))
  PROVE  Progress(c)'
<1>1. me \in [Command -> Memory] /\ pc \in [Command -> Places] /\ file \in [Person -> Config] /\ me[c] \in Memory
  BY DEF Typed, TypeOK
<1>2. KindFits(c)
  BY DEF KindsFit
<1>3. pc[c] # "idle" => me[c].who \in Person
  BY DEF Typed, Ready
<1>4. ASSUME NEW todo \in Choices, Choose(c, todo)  PROVE Progress(c)'
  <2>1. InSetup(c)  BY <1>2, <1>4 DEF Choose, InSetup, KindFits
  <2>2. pc'[c] \in {"write", "target"}  BY <1>1, <1>4 DEF Choose, Goto
  <2>3. me'[c].who = me[c].who /\ me'[c].config = me[c].config /\ me'[c].made = me[c].made
    BY <1>1, <1>4 DEF Choose, Memory
  <2>4. UNCHANGED <<file, broker, data>>  BY <1>4 DEF Choose, cloud
  <2> QED  BY <2>1, <2>2, <2>3, <2>4, KeepsUp
<1>5. ASSUME CreateProfile(c)  PROVE Progress(c)'
  <2>1. InSetup(c)  BY <1>2, <1>5 DEF CreateProfile, InSetup, KindFits
  <2>2. pc'[c] = "record"  BY <1>1, <1>5 DEF CreateProfile, Goto
  <2>3. me'[c].who = me[c].who /\ me'[c].config = me[c].config /\ me'[c].made = me[c].made
        /\ me'[c].copy = file[me[c].who]
    BY <1>1, <1>5 DEF CreateProfile, Memory
  <2>4. UNCHANGED <<file, broker, data>>  BY <1>5 DEF CreateProfile, cloud
  <2>5. me'[c].copy.listed \subseteq me[c].config.listed
    BY <2>1, <2>3 DEF Progress
  <2> QED  BY <2>1, <2>2, <2>3, <2>4, <2>5, KeepsUp
<1>6. ASSUME Back(c)  PROVE Progress(c)'
  <2>1. InSetup(c)  BY <1>2, <1>6 DEF Back, InSetup, KindFits
  <2>2. pc'[c] = "choose"  BY <1>1, <1>6 DEF Back, Goto
  <2>3. me'[c].who = me[c].who /\ me'[c].config = me[c].config /\ me'[c].made = me[c].made
    BY <1>1, <1>6 DEF Back, Memory
  <2>4. UNCHANGED <<file, broker, data>>  BY <1>6 DEF Back, cloud
  <2> QED  BY <2>1, <2>2, <2>3, <2>4, KeepsUp
<1>7. ASSUME NEW t \in Target, Record(c, t)  PROVE Progress(c)'
  <2>1. CASE me[c].kind = "record"
    <3>1. pc'[c] = "idle"  BY <1>1, <1>7, <2>1 DEF Record, End, Goto
    <3> QED  BY <3>1 DEF Progress, InSetup
  <2>2. CASE me[c].kind # "record"
    <3>1. pc[c] = "record" /\ pc'[c] = "choose"  BY <1>1, <1>7, <2>2 DEF Record, Goto
    <3>2. InSetup(c)  BY <1>2, <2>2, <3>1 DEF InSetup, KindFits
    <3>3. me'[c].who = me[c].who /\ me'[c].config = me[c].config /\ me'[c].made = me[c].made
      BY <1>1, <1>7, <2>2 DEF Record, Memory
    <3>4. file'[me[c].who].listed = me[c].copy.listed \ {t} /\ UNCHANGED <<broker, data>>
      BY <1>1, <1>3, <1>7, <3>1 DEF Record, cloud
    <3>5. file'[me'[c].who].listed \subseteq me'[c].config.listed
      BY <3>1, <3>2, <3>3, <3>4 DEF Progress
    <3>6. \A u \in me'[c].made :
            u \in me'[c].config.listed /\ broker'[u] # 0 /\ me'[c].who \in data'[Store(u)].owners
      BY <3>2, <3>3, <3>4 DEF Progress
    <3> QED  BY <3>1, <3>5, <3>6 DEF Progress
  <2> QED  BY <2>1, <2>2
<1> QED  BY <1>4, <1>5, <1>6, <1>7

\* A target, up to what its broker is asked.
LEMMA DeploysWell ==
  ASSUME Typed, KindsFit, NEW c \in Command, Progress(c),
         StartTarget(c) \/ EnsureSecret(c) \/ Seed(c) \/ Deploy(c) \/ Discover(c) \/ LoadOwners(c)
  PROVE  Progress(c)'
<1>1. /\ me \in [Command -> Memory] /\ pc \in [Command -> Places] /\ me[c] \in Memory
      /\ broker \in [Target -> 0..MaxDeploys] /\ data \in [Stores -> Data] /\ deploys \in Nat
  BY BoundsAssumption DEF Typed, TypeOK
<1>2. pc[c] \in {"target", "secret", "seed", "deploy", "discover", "owners"} => InSetup(c) /\ pc[c] \in AtTarget
  BY DEF KindsFit, KindFits, InSetup, AtTarget
<1>3. me[c].made \subseteq Target /\ \A t \in me[c].made : Store(t) \in Stores
  BY <1>1, StoreTypes DEF Memory
<1>4. pc[c] \in AtTarget => Of(c) \in Target
  BY TargetTypes
<1>5. \A s, r \in Stores : [data EXCEPT ![s].there = TRUE][r].owners = data[r].owners
  BY <1>1 DEF Data
<1>6. ASSUME StartTarget(c)  PROVE Progress(c)'
  <2>1. pc[c] = "target" /\ pc'[c] \in {"deploy", "secret"} /\ UNCHANGED <<file, me, broker>>
    BY <1>1, <1>6 DEF StartTarget, Goto
  <2>2. data' = data \/ data' = [data EXCEPT ![Store(Of(c))].there = TRUE]
    BY <1>6 DEF StartTarget
  <2>3. Store(Of(c)) \in Stores  BY <1>2, <1>4, <2>1, StoreTypes
  <2>4. \A t \in me[c].made : data'[Store(t)].owners = data[Store(t)].owners
    BY <1>3, <1>5, <2>2, <2>3
  <2> QED  BY <1>2, <2>1, <2>4, KeepsUp
<1>7. ASSUME EnsureSecret(c) \/ Seed(c)  PROVE Progress(c)'
  <2>1. pc[c] \in {"secret", "seed"} /\ pc'[c] \in {"seed", "deploy"} /\ UNCHANGED <<file, me, broker, data>>
    BY <1>1, <1>7 DEF EnsureSecret, AfterSecret, Seed, Goto
  <2> QED  BY <1>2, <2>1, KeepsUp
<1>8. ASSUME Deploy(c)  PROVE Progress(c)'
  <2>1. pc[c] = "deploy" /\ pc'[c] = "discover" /\ file' = file /\ Of(c) \in Target
    BY <1>1, <1>2, <1>4, <1>8 DEF Deploy, Goto
  <2>2. me'[c].who = me[c].who /\ me'[c].config = me[c].config /\ me'[c].made = me[c].made
    BY <1>1, <1>8 DEF Deploy, Memory
  <2>3. \A t \in me[c].made : broker[t] # 0 => broker'[t] # 0
    BY <1>1, <1>3, <1>8, <2>1 DEF Deploy
  <2>4. \A t \in me[c].made : data'[Store(t)].owners = data[Store(t)].owners
    <3>1. data' = data \/ (Of(c)[1] \in Aws /\ data' = [data EXCEPT ![Of(c)].there = TRUE])
      BY <1>8 DEF Deploy
    <3>2. Of(c)[1] \in Aws => Of(c) \in Stores
      BY <2>1, StoreTypes
    <3> QED  BY <1>3, <1>5, <3>1, <3>2
  <2> QED  BY <1>2, <2>1, <2>2, <2>3, <2>4, KeepsUp
<1>9. ASSUME Discover(c)  PROVE Progress(c)'
  <2>1. pc[c] = "discover" /\ pc'[c] \in {"owners", "team"} /\ UNCHANGED <<file, me, broker, data>> /\ broker[Of(c)] # 0
    BY <1>1, <1>9 DEF Discover, Goto, cloud
  <2>2. Of(c)' = Of(c)  BY <2>1 DEF Of
  <2> QED  BY <1>2, <2>1, <2>2, KeepsUp
<1>10. ASSUME LoadOwners(c)  PROVE Progress(c)'
  <2>1. pc[c] = "owners" /\ pc'[c] = "save" /\ UNCHANGED <<file, broker, data>> /\ broker[Of(c)] # 0
    BY <1>1, <1>10 DEF LoadOwners, Goto, cloud
  <2>2. /\ me'[c].who = me[c].who /\ me'[c].config = me[c].config /\ me'[c].made = me[c].made
        /\ me'[c].todo = me[c].todo
    BY <1>1, <1>10 DEF LoadOwners, Memory
  <2>3. Of(c)' = Of(c)  BY <2>2 DEF Of
  <2> QED  BY <1>2, <2>1, <2>2, <2>3, KeepsUp
<1> QED  BY <1>6, <1>7, <1>8, <1>9, <1>10

\* A target that is done joins the others.
LEMMA FinishesWell ==
  ASSUME Typed, KindsFit, NEW c \in Command, Progress(c), SaveOwners(c) \/ EnsureTeam(c)
  PROVE  Progress(c)'
<1>1. /\ me \in [Command -> Memory] /\ pc \in [Command -> Places] /\ me[c] \in Memory /\ data \in [Stores -> Data]
  BY DEF Typed, TypeOK
<1>2. pc[c] \in {"save", "team"} /\ Next1(c) /\ UNCHANGED <<file, broker>>
  BY DEF SaveOwners, EnsureTeam, cloud
<1>3. InSetup(c) /\ pc[c] \in AtTarget
  BY <1>2 DEF KindsFit, KindFits, InSetup, AtTarget
<1>4. me[c].made \subseteq Target /\ Of(c) \in Target /\ Store(Of(c)) \in Stores
      /\ \A t \in me[c].made : Store(t) \in Stores
  BY <1>1, <1>3, TargetTypes, StoreTypes DEF Memory
<1>5. pc'[c] \in {"write", "target"}
  BY <1>1, <1>2 DEF Next1, Goto
<1>6. /\ me'[c].who = me[c].who /\ me'[c].made = me[c].made \cup {Of(c)}
      /\ me'[c].config = Listed(me[c].config, Of(c))
  BY <1>1, <1>2 DEF Next1, Memory
<1>7. me'[c].config.listed = me[c].config.listed \cup {Of(c)}
  BY <1>6 DEF Listed
<1>8. /\ me[c].who \in data'[Store(Of(c))].owners
      /\ \A t \in me[c].made : me[c].who \in data[Store(t)].owners => me[c].who \in data'[Store(t)].owners
  <2>1. CASE EnsureTeam(c)  BY <2>1 DEF EnsureTeam, cloud
  <2>2. CASE SaveOwners(c)
    <3>1. \A r \in Stores : data'[r] = data[r] \/ me[c].who \in data'[r].owners
      BY <1>1, <2>2 DEF SaveOwners, Data
    <3>2. me[c].who \in data'[Store(Of(c))].owners
      BY <1>1, <1>4, <2>2 DEF SaveOwners, Data
    <3> QED  BY <1>4, <3>1, <3>2
  <2> QED  BY <2>1, <2>2
<1>9. broker[Of(c)] # 0
  BY <1>2, <1>3 DEF Progress
<1>10. \A t \in me'[c].made :
         t \in me'[c].config.listed /\ broker'[t] # 0 /\ me'[c].who \in data'[Store(t)].owners
  BY <1>2, <1>3, <1>6, <1>7, <1>8, <1>9 DEF Progress
<1>11. file'[me'[c].who].listed \subseteq me'[c].config.listed
  BY <1>2, <1>3, <1>6, <1>7 DEF Progress
<1> QED  BY <1>5, <1>10, <1>11 DEF Progress

LEMMA GoesWell ==
  ASSUME Typed, KindsFit, NEW c \in Command, Progress(c), Proceed(c)
  PROVE  Progress(c)'
<1>1. me \in [Command -> Memory] /\ pc \in [Command -> Places] /\ broker \in [Target -> 0..MaxDeploys]
  BY DEF Typed, TypeOK
<1>2. ASSUME pc'[c] = "idle"  PROVE Progress(c)'
  BY <1>2 DEF Progress, InSetup
<1>3. ASSUME WriteConfig(c) \/ (\E b \in BOOLEAN : Unlist(c, b)) \/ Fail(c)  PROVE Progress(c)'
  <2>1. End(c)  BY <1>3 DEF WriteConfig, Unlist, Fail
  <2> QED  BY <1>1, <1>2, <2>1 DEF End, Goto
<1>4. ASSUME NEW b \in BOOLEAN, DeleteBroker(c, b)  PROVE Progress(c)'
  <2>1. pc[c] = "data" /\ pc'[c] = "unlist" /\ me' = me  BY <1>1, <1>4 DEF DeleteBroker, Goto
  <2>2. me'[c].kind = "delete"  BY <2>1 DEF KindsFit, KindFits
  <2>3. Of(c) \in Target  BY <2>1, TargetTypes DEF AtTarget
  <2>4. broker'[Of(c)] = 0 /\ Of(c)' = Of(c)
    BY <1>1, <1>4, <2>1, <2>3 DEF DeleteBroker, Of
  <2> QED  BY <2>2, <2>4 DEF Progress, InSetup
<1> QED  BY <1>3, <1>4, ChoosesWell, DeploysWell, FinishesWell DEF Proceed

LEMMA UndisturbedKept ==
  ASSUME Typed, KindsFit, Undisturbed, [Next]_vars
  PROVE  Undisturbed'
<1>1. LeftAlone'
  BY StaysAlone DEF Undisturbed
<1>2. alone \subseteq Command
  BY DEF Typed, TypeOK
<1>3. ASSUME NEW c \in Command, Proceed(c)  PROVE \A d \in alone' : Progress(d)'
  <2>1. alone' \subseteq alone \cap {c}  BY <1>3, StaysAlone DEF Undisturbed
  <2>2. c \in alone => Progress(c)'  BY <1>3, GoesWell DEF Undisturbed
  <2> QED  BY <2>1, <2>2
<1>4. ASSUME NEW c \in Command, NEW w \in Person, Begin(c, w)  PROVE \A d \in alone' : Progress(d)'
  <2>1. alone' \subseteq {c}  BY <1>4, StaysAlone DEF Undisturbed
  <2> QED  BY <1>4, <2>1, BeginsWell
<1>5. ASSUME UNCHANGED vars  PROVE \A d \in alone' : Progress(d)'
  <2>1. UNCHANGED <<alone, pc, me, file, broker, data>>  BY <1>5 DEF vars, cloud
  <2>2. \A d : Progress(d) => Progress(d)'
    BY <2>1 DEF Progress, InSetup, Of
  <2> QED  BY <2>1, <2>2 DEF Undisturbed
<1> QED  BY <1>1, <1>3, <1>4, <1>5 DEF Next, Undisturbed

\* Only a command itself ends it, and one that ends well did not fail.
LEMMA OwnEnd ==
  ASSUME Typed, [Next]_vars, NEW c \in Command, pc[c] # "idle", pc'[c] = "idle"
  PROVE  Proceed(c)
<1>1. me \in [Command -> Memory] /\ pc \in [Command -> Places]
  BY DEF Typed, TypeOK
<1>2. ASSUME NEW d \in Command, Proceed(d)  PROVE Proceed(c)
  BY <1>2, OneMoves
<1>3. ASSUME NEW d \in Command, NEW w \in Person, Begin(d, w)  PROVE FALSE
  <2>1. pc[d] = "idle"
    BY <1>3 DEF Begin, StartSetup, StartRecord, StartUpdate, StartDelete, Start
  <2> QED  BY <1>3, <2>1, OneMoves
<1> QED  BY <1>2, <1>3 DEF Next, vars

LEMMA WellEnded ==
  ASSUME Typed, NEW c \in Command, Proceed(c), pc'[c] = "idle", c \in alone'
  PROVE  /\ pc[c] = "write" => WriteConfig(c)
         /\ pc[c] = "unlist" => \E b \in BOOLEAN : Unlist(c, b)
<1>1. pc \in [Command -> Places]
  BY DEF Typed, TypeOK
<1>2. ~Fail(c)
  BY DEF Fail
<1>3. \/ \E todo \in Choices : Choose(c, todo)
      \/ CreateProfile(c) \/ Back(c) \/ (\E t \in Target : Record(c, t)) \/ StartTarget(c)
      => pc[c] \notin {"write", "unlist"}
  BY DEF Choose, CreateProfile, Back, Record, StartTarget
<1>4. EnsureSecret(c) \/ Seed(c) \/ Deploy(c) \/ Discover(c) \/ LoadOwners(c) \/ SaveOwners(c) \/ EnsureTeam(c)
      => pc[c] \notin {"write", "unlist"}
  BY DEF EnsureSecret, Seed, Deploy, Discover, LoadOwners, SaveOwners, EnsureTeam
<1>5. (WriteConfig(c) => pc[c] = "write") /\ ((\E b \in BOOLEAN : Unlist(c, b)) => pc[c] = "unlist")
      /\ ((\E b \in BOOLEAN : DeleteBroker(c, b)) => pc[c] = "data")
  BY DEF WriteConfig, Unlist, DeleteBroker
<1> QED  BY <1>2, <1>3, <1>4, <1>5 DEF Proceed

Commands == Typed /\ KindsFit /\ Undisturbed

LEMMA CommandsInvariant == Spec => []Commands
<1>1. Init => Commands
  BY InitTyped DEF Init, Commands, KindsFit, KindFits, Undisturbed, LeftAlone
<1>2. Commands /\ [Next]_vars => Commands'
  BY NextTyped, KindsKept, UndisturbedKept DEF Commands
<1> QED  BY <1>1, <1>2, PTL DEF Spec

\* A set-up that nobody overlapped and that ends well: every broker that it deployed is there, is
\* owned by whoever ran it and is listed in the config, and nothing that was listed is lost,
\* however often it went back in the dialog, and although it read the config when it began.
THEOREM SetupsAreComplete == Spec => SetupIsComplete
<1>1. ASSUME Commands, [Next]_vars, NEW c \in Command,
             c \in alone, pc[c] = "write", pc'[c] = "idle", c \in alone'
      PROVE  /\ file[me[c].who].listed \subseteq file'[me[c].who].listed
             /\ \A t \in me[c].made :
                  t \in file'[me[c].who].listed /\ broker[t] # 0 /\ me[c].who \in data[Store(t)].owners
  <2>1. WriteConfig(c)
    BY <1>1, OwnEnd, WellEnded DEF Commands
  <2>2. InSetup(c) /\ Progress(c)
    BY <1>1 DEF Commands, KindsFit, KindFits, InSetup, Undisturbed
  <2>3. me[c].who \in Person /\ file \in [Person -> Config]
    BY <1>1 DEF Commands, Typed, TypeOK, Ready
  <2>4. file'[me[c].who] = me[c].config
    BY <2>1, <2>3 DEF WriteConfig
  <2> QED  BY <2>2, <2>4 DEF Progress
<1>2. Commands /\ [Next]_vars => [\A c \in Command : SetupEndsWell(c)]_vars
  BY <1>1 DEF SetupEndsWell
<1> QED  BY <1>2, CommandsInvariant, PTL DEF Spec, SetupIsComplete

\* A deletion that nobody overlapped and that ends well leaves a broker neither deployed nor listed.
THEOREM DeletionsAreComplete == Spec => DeletionIsComplete
<1>1. ASSUME Commands, [Next]_vars, NEW c \in Command,
             c \in alone, pc[c] = "unlist", pc'[c] = "idle", c \in alone'
      PROVE  broker[Of(c)] = 0 /\ Of(c) \notin file'[me[c].who].listed
  <2>1. PICK b \in BOOLEAN : Unlist(c, b)
    BY <1>1, OwnEnd, WellEnded DEF Commands
  <2>2. Progress(c)
    BY <1>1 DEF Commands, Undisturbed
  <2>3. me[c].who \in Person /\ file \in [Person -> Config] /\ Of(c) \in Target
    BY <1>1, TargetTypes DEF Commands, Typed, TypeOK, Ready, AtTarget
  <2>4. Of(c) \notin file'[me[c].who].listed
    BY <2>1, <2>3 DEF Unlist, Taken, Config
  <2> QED  BY <1>1, <2>2, <2>4 DEF Progress
<1>2. Commands /\ [Next]_vars => [\A c \in Command : DeletionEndsWell(c)]_vars
  BY <1>1 DEF DeletionEndsWell
<1> QED  BY <1>2, CommandsInvariant, PTL DEF Spec, DeletionIsComplete
=============================================================================
