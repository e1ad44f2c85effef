------------------------------ MODULE WebProofs ------------------------------
(***************************************************************************)
(* For any number of requests of the browser, any histories, any watched   *)
(* files and any channel of two events or more: one refresh that nothing   *)
(* disturbs repairs a cache of the web server (WebCache), its walks over   *)
(* commits give the sets they stand for (WebHistory), and a page that      *)
(* nothing is on its way to shows the repository (WebMonitor).             *)
(***************************************************************************)
EXTENDS MCTools, FiniteSetTheorems, SequenceTheorems, WellFoundedInduction, TLAPS

(***************************************************************************)
(* The caches. As long as nothing disturbs a refresh, what it has read is  *)
(* what the file holds, and what it has got so far is what the broker has. *)
(***************************************************************************)
Faithful(h) ==
  /\ handler[h] \in {"sync", "write", "finish", "ask", "save", "saved"}
  /\ handler[h] = "sync" => base[h] = C!readPullRequestCache
  /\ handler[h] \in {"write", "finish"} /\ syncs => got[h] = prs
  /\ handler[h] = "finish" => prsFile = NoFile
  /\ handler[h] = "ask" => \A p \in asked[h] : got[h][p] = settings[p]
  /\ handler[h] \in {"save", "saved"} => got[h] = settings
  /\ handler[h] = "saved" => settingsFile = NoFile

\* A request holds what is written to its file, and has asked only for parts of the settings.
AsksParts(h) == handler[h] \in {"ask", "save", "saved"}
Holds(h) ==
  /\ IF AsksParts(h) THEN got[h] \in C!Settings ELSE asked[h] = {}
  /\ handler[h] \in {"upsert", "write", "finish"} => got[h] \in C!Listing

CacheTyped == C!TypeOK /\ \A h \in Handler : Holds(h)
CacheInv == CacheTyped /\ \A h \in only : Faithful(h)

LEMMA CacheValues ==
  CacheTyped => /\ C!Empty \in C!Listing /\ C!Unknown \in C!Settings
                /\ C!readPullRequestCache \in C!Listing
<1> SUFFICES ASSUME CacheTyped
             PROVE  /\ C!Empty \in C!Listing /\ C!Unknown \in C!Settings
                    /\ C!readPullRequestCache \in C!Listing
  OBVIOUS
<1>1. 0 \in 0..MaxVersion
  BY WebAssumption DEF WebBounds
<1>2. C!Empty \in C!Listing /\ C!Unknown \in C!Settings
  BY <1>1 DEF C!Empty, C!Unknown, C!Absent, C!Listing, C!Settings
<1> QED  BY <1>2 DEF CacheTyped, C!TypeOK, C!readPullRequestCache

\* One request takes a step, and the others keep theirs.
Mine(h, to, value, parts, known) ==
  /\ handler' = [handler EXCEPT ![h] = to] /\ got' = [got EXCEPT ![h] = value]
  /\ asked' = [asked EXCEPT ![h] = parts] /\ base' = [base EXCEPT ![h] = known]

LEMMA MineTyped ==
  ASSUME CacheTyped, NEW h \in Handler, NEW to \in C!States,
         NEW value \in C!Listing \cup C!Settings, NEW parts \in SUBSET Part, NEW known \in C!Listing,
         Mine(h, to, value, parts, known),
         IF to \in {"ask", "save", "saved"} THEN value \in C!Settings ELSE parts = {},
         to \in {"upsert", "write", "finish"} => value \in C!Listing
  PROVE  /\ handler' \in [Handler -> C!States] /\ base' \in [Handler -> C!Listing]
         /\ got' \in [Handler -> C!Listing \cup C!Settings] /\ asked' \in [Handler -> SUBSET Part]
         /\ \A g \in Handler : Holds(g)'
<1>1. /\ handler \in [Handler -> C!States] /\ base \in [Handler -> C!Listing]
      /\ got \in [Handler -> C!Listing \cup C!Settings] /\ asked \in [Handler -> SUBSET Part]
  BY DEF CacheTyped, C!TypeOK
<1>2. /\ handler' \in [Handler -> C!States] /\ base' \in [Handler -> C!Listing]
      /\ got' \in [Handler -> C!Listing \cup C!Settings] /\ asked' \in [Handler -> SUBSET Part]
  BY <1>1 DEF Mine
<1>3. ASSUME NEW g \in Handler  PROVE Holds(g)'
  <2>1. CASE g = h
    <3>1. handler'[g] = to /\ got'[g] = value /\ asked'[g] = parts
      BY <1>1, <2>1 DEF Mine
    <3> QED  BY <3>1 DEF Holds, AsksParts
  <2>2. CASE g # h
    <3>1. handler'[g] = handler[g] /\ got'[g] = got[g] /\ asked'[g] = asked[g]
      BY <1>1, <2>2 DEF Mine
    <3>2. Holds(g)  BY DEF CacheTyped
    <3> QED  BY <3>1, <3>2 DEF Holds, AsksParts
  <2> QED  BY <2>1, <2>2
<1> QED  BY <1>2, <1>3

LEMMA CacheAdvances ==
  ASSUME CacheTyped, NEW h \in Handler,
         \/ \E i \in Id : C!handleAPIActionPullRequest(h, i)
         \/ C!upsertPullRequestCache(h)
         \/ C!refreshPullRequestCache(h) \/ C!Merge(h) \/ C!Fail(h)
         \/ C!Keep(h) \/ C!Truncate(h) \/ C!Finish(h)
         \/ C!cachedSettingsInfo(h) \/ (\E p \in Part : C!settingsInfo(h, p) \/ C!PartFails(h, p))
         \/ C!writeSettingsCache(h)
  PROVE  CacheTyped'
<1> DEFINE Moves(to, value, parts, known) ==
      /\ to \in C!States /\ value \in C!Listing \cup C!Settings /\ parts \in SUBSET Part
      /\ known \in C!Listing /\ Mine(h, to, value, parts, known)
      /\ IF to \in {"ask", "save", "saved"} THEN value \in C!Settings ELSE parts = {}
      /\ to \in {"upsert", "write", "finish"} => value \in C!Listing
    Rest == /\ about' \in {"prs", "settings"} /\ prs' \in C!Listing /\ given' \in 0..MaxVersion
            /\ syncs' \in BOOLEAN /\ settings' \in C!Settings
            /\ prsFile' \in C!Listing \cup {NoFile, Mixed}
            /\ settingsFile' \in C!Settings \cup {NoFile, Mixed} /\ only' \subseteq Handler
<1> SUFFICES Rest /\ \E to, value, parts, known : Moves(to, value, parts, known)
  BY MineTyped DEF CacheTyped, C!TypeOK
<1>1. /\ handler \in [Handler -> C!States] /\ base \in [Handler -> C!Listing]
      /\ got \in [Handler -> C!Listing \cup C!Settings] /\ asked \in [Handler -> SUBSET Part]
      /\ prs \in C!Listing /\ given \in 0..MaxVersion /\ settings \in C!Settings
      /\ about \in {"prs", "settings"} /\ syncs \in BOOLEAN /\ only \subseteq Handler
      /\ prsFile \in C!Listing \cup {NoFile, Mixed} /\ settingsFile \in C!Settings \cup {NoFile, Mixed}
  BY DEF CacheTyped, C!TypeOK
<1>2. /\ C!Empty \in C!Listing /\ C!Unknown \in C!Settings /\ C!readPullRequestCache \in C!Listing
      /\ Holds(h) /\ MaxVersion \in Nat
  BY CacheValues, WebAssumption DEF CacheTyped, WebBounds
<1>a. /\ handler = [handler EXCEPT ![h] = @] /\ got = [got EXCEPT ![h] = @]
      /\ asked = [asked EXCEPT ![h] = @] /\ base = [base EXCEPT ![h] = @]
  BY <1>1
<1> USE <1>1, <1>2, <1>a DEF Mine
<1>3. ASSUME NEW i \in Id, C!handleAPIActionPullRequest(h, i)
      PROVE  Rest /\ \E to, value, parts, known : Moves(to, value, parts, known)
  <2>1. given + 1 \in 0..MaxVersion
    BY <1>3 DEF C!handleAPIActionPullRequest, C!bumpPRVersion
  <2>2. prs' \in C!Listing /\ [C!Empty EXCEPT ![i] = C!Fresh] \in C!Listing
    BY <1>3, <2>1 DEF C!handleAPIActionPullRequest, C!bumpPRVersion, C!Fresh, C!Listing
  <2>3. Rest
    BY <1>3, <2>1, <2>2 DEF C!handleAPIActionPullRequest, C!bumpPRVersion, C!Fresh, C!Step
  <2>4. Moves("upsert", [C!Empty EXCEPT ![i] = C!Fresh], {}, base[h])
    BY <1>3, <2>2 DEF C!handleAPIActionPullRequest, C!Step, C!Put, C!States, Holds, AsksParts
  <2> QED  BY <2>3, <2>4
<1>4. CASE C!upsertPullRequestCache(h)
  <2> DEFINE w == [i \in Id |-> IF got[h][i] # C!Absent THEN got[h][i] ELSE C!readPullRequestCache[i]]
  <2>1. got[h] \in C!Listing
    BY <1>4 DEF C!upsertPullRequestCache, C!Step, Holds
  <2>2. w \in C!Listing
    BY <2>1 DEF C!Listing
  <2>3. Rest
    BY <1>4 DEF C!upsertPullRequestCache, C!Step, C!brokerVars
  <2> HIDE DEF w
  <2>4. got' = [got EXCEPT ![h] = w]
    BY <1>4 DEF C!upsertPullRequestCache, C!Put, w
  <2>5. asked[h] = {} /\ asked' = asked /\ base' = base /\ handler' = [handler EXCEPT ![h] = "write"]
    BY <1>4 DEF C!upsertPullRequestCache, C!Step, Holds, AsksParts
  <2>6. Mine(h, "write", w, {}, base[h])
    BY <2>4, <2>5
  <2>7. /\ "write" \in C!States /\ base[h] \in C!Listing /\ w \in C!Listing \cup C!Settings
        /\ {} \in SUBSET Part
        /\ IF "write" \in {"ask", "save", "saved"} THEN w \in C!Settings ELSE {} = {}
    BY <2>2 DEF C!States
  <2>8. Moves("write", w, {}, base[h])
    BY <2>2, <2>6, <2>7, Zenon
  <2> HIDE DEF Moves, Rest
  <2> QED  BY <2>3, <2>8
<1>5. CASE C!refreshPullRequestCache(h)
  <2>1. Rest
    BY <1>5 DEF C!refreshPullRequestCache, C!brokerVars
  <2>2. Moves("sync", got[h], {}, C!readPullRequestCache)
    BY <1>5 DEF C!refreshPullRequestCache, C!States, Holds, AsksParts
  <2> QED  BY <2>1, <2>2
<1>6. CASE C!Merge(h)
  <2> DEFINE w == C!mergePullRequestCache(base[h], IF syncs THEN C!syncPRRecords(base[h]) ELSE C!listPRs)
  <2>1. w \in C!Listing
    <3> DEFINE answer == IF syncs THEN C!syncPRRecords(base[h]) ELSE C!listPRs
    <3> HIDE DEF answer
    <3>1. C!mergePullRequestCache(base[h], answer) \in C!Listing
      <4>1. base[h] \in C!Listing /\ 0 \in 0..MaxVersion  OBVIOUS
      <4> QED  BY <4>1 DEF C!Listing, C!mergePullRequestCache, C!Absent
    <3> QED  BY <3>1 DEF answer
  <2>2. Rest
    BY <1>6 DEF C!Merge, C!Step, C!brokerVars
  <2> HIDE DEF w
  <2>3. got' = [got EXCEPT ![h] = w]
    BY <1>6 DEF C!Merge, C!Put, w
  <2>4. Moves("write", w, {}, C!Empty)
    BY <1>6, <2>1, <2>3 DEF C!Merge, C!Step, C!States, Holds, AsksParts
  <2> QED  BY <2>2, <2>4
<1>7. CASE C!Fail(h)
  <2>1. Rest
    BY <1>7 DEF C!Fail, C!Step, C!brokerVars
  <2>2. Moves("idle", got[h], {}, C!Empty)
    BY <1>7 DEF C!Fail, C!Step, C!States, Holds, AsksParts
  <2> QED  BY <2>1, <2>2
<1>8. CASE C!Keep(h)
  <2>1. Rest
    BY <1>8 DEF C!Keep, C!Step, C!brokerVars
  <2>2. Moves("idle", C!Empty, {}, base[h])
    BY <1>8 DEF C!Keep, C!Step, C!Put, C!States, Holds, AsksParts
  <2> QED  BY <2>1, <2>2
<1>9. CASE C!Truncate(h)
  <2>1. Rest
    BY <1>9 DEF C!Truncate, C!Step, C!brokerVars
  <2>2. /\ asked[h] = {} /\ got[h] \in C!Listing /\ handler' = [handler EXCEPT ![h] = "finish"]
        /\ asked' = asked /\ base' = base /\ got' = got
    BY <1>9 DEF C!Truncate, C!Step, Holds, AsksParts
  <2>3. Mine(h, "finish", got[h], {}, base[h])
    BY <2>2
  <2>4. /\ "finish" \in C!States /\ base[h] \in C!Listing /\ got[h] \in C!Listing \cup C!Settings
        /\ {} \in SUBSET Part
        /\ IF "finish" \in {"ask", "save", "saved"} THEN got[h] \in C!Settings ELSE {} = {}
    BY <2>2 DEF C!States
  <2>5. Moves("finish", got[h], {}, base[h])
    BY <2>2, <2>3, <2>4, Zenon
  <2> HIDE DEF Moves, Rest
  <2> QED  BY <2>1, <2>5
<1>10. CASE C!Finish(h)
  <2>0. got[h] \in C!Listing
    BY <1>10 DEF C!Finish, C!Step, Holds
  <2>1. Rest
    BY <1>10, <2>0 DEF C!Finish, C!Step, C!brokerVars
  <2>2. Moves("idle", C!Empty, {}, base[h])
    BY <1>10 DEF C!Finish, C!Step, C!Put, C!States, Holds, AsksParts
  <2> QED  BY <2>1, <2>2
<1>11. CASE C!cachedSettingsInfo(h)
  <2>1. Rest
    BY <1>11 DEF C!cachedSettingsInfo, C!brokerVars
  <2>2. Moves("ask", C!Unknown, asked[h], base[h])
    BY <1>11 DEF C!cachedSettingsInfo, C!Put, C!States
  <2> QED  BY <2>1, <2>2
<1>12. ASSUME NEW p \in Part, C!settingsInfo(h, p) \/ C!PartFails(h, p)
       PROVE  Rest /\ \E to, value, parts, known : Moves(to, value, parts, known)
  <2> DEFINE parts == asked[h] \cup {p}
             to == IF asked'[h] = Part THEN "save" ELSE "ask"
             w == [got[h] EXCEPT ![p] = settings[p]]
  <2>1. handler[h] = "ask" /\ got[h] \in C!Settings /\ asked' = [asked EXCEPT ![h] = parts]
    BY <1>12 DEF C!settingsInfo, C!PartFails, C!Step, Holds, AsksParts
  <2>2. w \in C!Settings /\ parts \in SUBSET Part /\ to \in {"ask", "save"}
    BY <2>1 DEF C!Settings
  <2>3. Rest
    BY <1>12 DEF C!settingsInfo, C!PartFails, C!Step, C!brokerVars
  <2> HIDE DEF w, parts
  <2>4. handler' = [handler EXCEPT ![h] = to] /\ base' = base
    BY <1>12 DEF C!settingsInfo, C!PartFails, C!Step
  <2>5. got' = [got EXCEPT ![h] = w] \/ got' = got
    BY <1>12 DEF C!settingsInfo, C!PartFails, C!Put, w
  <2> HIDE DEF to
  <2>6. Moves(to, w, parts, base[h]) \/ Moves(to, got[h], parts, base[h])
    BY <2>1, <2>2, <2>4, <2>5 DEF C!States
  <2> QED  BY <2>3, <2>6
<1>13. CASE C!writeSettingsCache(h)
  <2>1. got[h] \in C!Settings
    BY <1>13 DEF C!writeSettingsCache, C!Step, Holds, AsksParts
  <2>2. Rest
    BY <1>13, <2>1 DEF C!writeSettingsCache, C!Step, C!brokerVars
  <2>3. Moves("idle", C!Empty, {}, base[h]) \/ Moves("saved", got[h], asked[h], base[h])
    BY <1>13, <2>1 DEF C!writeSettingsCache, C!Step, C!Put, C!States
  <2> QED  BY <2>2, <2>3
<1> QED  BY <1>3, <1>4, <1>5, <1>6, <1>7, <1>8, <1>9, <1>10, <1>11, <1>12, <1>13

LEMMA CacheStepTyped == CacheTyped /\ [C!Next]_C!vars => CacheTyped'
<1> SUFFICES ASSUME CacheTyped, [C!Next]_C!vars  PROVE CacheTyped'
  OBVIOUS
<1>1. CASE UNCHANGED C!vars
  BY <1>1 DEF CacheTyped, C!TypeOK, Holds, AsksParts, C!vars, C!brokerVars
<1>2. CASE C!Elsewhere
  <2>1. prs \in C!Listing /\ given \in 0..MaxVersion /\ settings \in C!Settings /\ MaxVersion \in Nat
    BY WebAssumption DEF CacheTyped, C!TypeOK, WebBounds
  <2>2. prs' \in C!Listing /\ given' \in 0..MaxVersion /\ settings' \in C!Settings /\ syncs' = syncs
    <3>1. C!Empty \in C!Listing  BY CacheValues
    <3>2. given < MaxVersion => given + 1 \in 0..MaxVersion  BY <2>1
    <3>3. CASE \E i \in Id : C!bumpPRVersion(i)
      BY <2>1, <3>2, <3>3 DEF C!bumpPRVersion, C!Fresh, C!Listing
    <3>4. CASE prs' = C!Empty /\ UNCHANGED <<given, syncs, settings>>
      BY <2>1, <3>1, <3>4
    <3>5. ASSUME NEW p \in Part, given < MaxVersion, given' = C!Fresh,
                 settings' = [settings EXCEPT ![p] = C!Fresh], UNCHANGED <<prs, syncs>>
          PROVE  prs' \in C!Listing /\ given' \in 0..MaxVersion /\ settings' \in C!Settings /\ syncs' = syncs
      BY <2>1, <3>2, <3>5 DEF C!Fresh, C!Settings
    <3> QED  BY <1>2, <3>3, <3>4, <3>5 DEF C!Elsewhere
  <2>3. only' = {} /\ UNCHANGED <<about, prsFile, settingsFile, handler, base, got, asked>>
    BY <1>2 DEF C!Elsewhere
  <2> QED  BY <2>2, <2>3 DEF CacheTyped, C!TypeOK, Holds, AsksParts
<1> QED  BY <1>1, <1>2, CacheAdvances DEF C!Next

\* What the broker answers to a refresh of what it has.
LEMMA AnswerIsWhole ==
  ASSUME CacheTyped, syncs, NEW known \in C!Listing
  PROVE  C!mergePullRequestCache(known, C!syncPRRecords(known)) = prs
<1> DEFINE merged == C!mergePullRequestCache(known, C!syncPRRecords(known))
<1>1. prs \in C!Listing /\ MaxVersion \in Nat
  BY WebAssumption DEF CacheTyped, C!TypeOK, WebBounds
<1>2. ASSUME NEW i \in Id
      PROVE  (IF i \in C!syncPRRecords(known).prs THEN prs[i]
              ELSE IF i \in C!syncPRRecords(known).deleted THEN C!Absent ELSE known[i]) = prs[i]
  BY <1>1 DEF C!syncPRRecords, C!Absent, C!Listing
<1>3. merged = [i \in Id |-> prs[i]]
  BY <1>2 DEF C!mergePullRequestCache
<1>4. prs = [i \in Id |-> prs[i]]
  BY <1>1 DEF C!Listing
<1> QED  BY <1>3, <1>4, Zenon

\* A step leaves at most the request that takes it undisturbed, which has read what is there.
LEMMA CacheFaithful ==
  ASSUME CacheInv, C!Next, NEW h \in only'
  PROVE  Faithful(h)'
<1>1. /\ handler \in [Handler -> C!States] /\ base \in [Handler -> C!Listing]
      /\ got \in [Handler -> C!Listing \cup C!Settings] /\ asked \in [Handler -> SUBSET Part]
      /\ settings \in C!Settings /\ only \subseteq Handler
      /\ \A g \in Handler : Holds(g)
      /\ \A g \in only : Faithful(g)
  BY DEF CacheInv, CacheTyped, C!TypeOK
<1>2. ~C!Elsewhere
  BY DEF C!Elsewhere
<1>3. PICK g \in Handler :
         \/ \E i \in Id : C!handleAPIActionPullRequest(g, i)
         \/ C!upsertPullRequestCache(g)
         \/ C!refreshPullRequestCache(g) \/ C!Merge(g) \/ C!Fail(g)
         \/ C!Keep(g) \/ C!Truncate(g) \/ C!Finish(g)
         \/ C!cachedSettingsInfo(g) \/ (\E p \in Part : C!settingsInfo(g, p) \/ C!PartFails(g, p))
         \/ C!writeSettingsCache(g)
  BY <1>2, Zenon DEF C!Next
<1>4. ASSUME NEW from, NEW to, C!Step(g, from, to)
      PROVE  /\ h = g /\ handler[h] = from /\ handler'[h] = to /\ to # "idle"
             /\ Faithful(h) /\ from \in {"sync", "write", "finish", "ask", "save", "saved"}
  <2>1. to # "idle" /\ h \in only \cap {g}
    BY <1>4 DEF C!Step
  <2>2. h = g /\ h \in only /\ handler[g] = from /\ handler'[g] = to
    BY <1>1, <1>4, <2>1 DEF C!Step
  <2>3. Faithful(h)
    BY <1>1, <2>2
  <2> QED  BY <2>1, <2>2, <2>3 DEF Faithful
<1>5. ASSUME NEW i \in Id, C!handleAPIActionPullRequest(g, i)  PROVE FALSE
  <2>1. C!Step(g, "idle", "upsert")
    BY <1>5 DEF C!handleAPIActionPullRequest
  <2> QED  BY <1>4, <2>1
<1>6. CASE C!upsertPullRequestCache(g)
  <2>1. C!Step(g, "upsert", "write")
    BY <1>6 DEF C!upsertPullRequestCache
  <2> QED  BY <1>4, <2>1
<1>7. CASE C!refreshPullRequestCache(g)
  <2>1. h = g /\ handler'[h] = "sync" /\ base'[h] = C!readPullRequestCache
    BY <1>1, <1>7 DEF C!refreshPullRequestCache
  <2>2. C!readPullRequestCache' = C!readPullRequestCache
    BY <1>7 DEF C!refreshPullRequestCache, C!readPullRequestCache, C!Empty, C!Absent
  <2> QED  BY <2>1, <2>2 DEF Faithful
<1>8. CASE C!Merge(g)
  <2>1. C!Step(g, "sync", "write")
    BY <1>8 DEF C!Merge
  <2>2. h = g /\ handler'[h] = "write"
    BY <1>4, <2>1
  <2>3. got'[h] = C!mergePullRequestCache(base[h], IF syncs THEN C!syncPRRecords(base[h]) ELSE C!listPRs)
    BY <1>1, <1>8, <2>2 DEF C!Merge, C!Put
  <2>4. syncs => got'[h] = prs
    <3>1. base[h] \in C!Listing
      BY <1>1, <2>2
    <3>2. syncs => C!mergePullRequestCache(base[h], C!syncPRRecords(base[h])) = prs
      BY <3>1, AnswerIsWhole DEF CacheInv
    <3> QED  BY <2>3, <3>2, Zenon
  <2>5. syncs' = syncs /\ prs' = prs
    BY <1>8 DEF C!Merge, C!brokerVars
  <2> QED  BY <2>2, <2>4, <2>5 DEF Faithful
<1>9. CASE C!Fail(g) \/ C!Keep(g) \/ C!Finish(g)
  <2>1. \E from : C!Step(g, from, "idle")
    BY <1>9 DEF C!Fail, C!Keep, C!Finish
  <2> QED  BY <1>4, <2>1
<1>10. CASE C!Truncate(g)
  <2>1. C!Step(g, "write", "finish")
    BY <1>10 DEF C!Truncate
  <2>2. h = g /\ handler[h] = "write" /\ handler'[h] = "finish" /\ Faithful(h)
    BY <1>4, <2>1
  <2>3. prsFile' = NoFile /\ syncs' = syncs /\ prs' = prs /\ got' = got
    BY <1>10 DEF C!Truncate, C!brokerVars
  <2> QED  BY <2>2, <2>3 DEF Faithful
<1>11. CASE C!cachedSettingsInfo(g)
  <2>1. h = g /\ handler[h] = "idle" /\ handler'[h] = "ask" /\ asked' = asked
    BY <1>1, <1>11 DEF C!cachedSettingsInfo
  <2>2. asked[h] = {}
    BY <1>1, <2>1 DEF Holds, AsksParts
  <2> QED  BY <2>1, <2>2 DEF Faithful
<1>12. ASSUME NEW p \in Part, C!settingsInfo(g, p)  PROVE Faithful(h)'
  <2>1. C!Step(g, "ask", IF asked'[g] = Part THEN "save" ELSE "ask")
    BY <1>12 DEF C!settingsInfo
  <2>2. h = g /\ handler[h] = "ask" /\ handler'[h] = (IF asked'[g] = Part THEN "save" ELSE "ask") /\ Faithful(h)
    BY <1>4, <2>1
  <2>3. got[h] \in C!Settings /\ asked[h] \in SUBSET Part
    BY <1>1, <2>2 DEF Holds, AsksParts
  <2>4. /\ got'[h] = [got[h] EXCEPT ![p] = settings[p]] /\ asked'[h] = asked[h] \cup {p}
        /\ settings' = settings
    BY <1>1, <1>12, <2>2 DEF C!settingsInfo, C!Put, C!brokerVars
  <2>5. \A q \in asked[h] : got[h][q] = settings[q]
    BY <2>2 DEF Faithful
  <2>6. ASSUME NEW q \in asked'[h]  PROVE got'[h][q] = settings'[q]
    <3>1. q \in Part  BY <2>3, <2>4
    <3> QED  BY <2>3, <2>4, <2>5, <3>1 DEF C!Settings
  <2>7. CASE asked'[h] = Part
    <3>1. got'[h] \in C!Settings
      BY <1>1, <2>3, <2>4 DEF C!Settings
    <3>2. got'[h] = settings'
      BY <1>1, <2>4, <2>6, <2>7, <3>1 DEF C!Settings
    <3>3. handler'[h] = "save"  BY <2>2, <2>7
    <3> QED  BY <3>2, <3>3 DEF Faithful
  <2>8. CASE asked'[h] # Part
    <3>1. handler'[h] = "ask"  BY <2>2, <2>8
    <3> QED  BY <2>6, <3>1 DEF Faithful
  <2> QED  BY <2>7, <2>8
<1>13. ASSUME NEW p \in Part, C!PartFails(g, p)  PROVE FALSE
  BY <1>13 DEF C!PartFails
<1>14. CASE C!writeSettingsCache(g)
  <2>1. C!Step(g, "save", "saved") \/ \E from : C!Step(g, from, "idle")
    BY <1>14 DEF C!writeSettingsCache
  <2>2. C!Step(g, "save", "saved")
    BY <1>4, <2>1
  <2>3. h = g /\ handler[h] = "save" /\ handler'[h] = "saved" /\ Faithful(h)
    BY <1>4, <2>2
  <2>4. settingsFile' = NoFile /\ settings' = settings /\ got' = got
    BY <1>1, <1>14, <2>3 DEF C!writeSettingsCache, C!Step, C!brokerVars
  <2> QED  BY <2>3, <2>4 DEF Faithful
<1> QED  BY <1>3, <1>5, <1>6, <1>7, <1>8, <1>9, <1>10, <1>11, <1>12, <1>13, <1>14

LEMMA CacheStep == CacheInv /\ [C!Next]_C!vars => CacheInv'
<1> SUFFICES ASSUME CacheInv, [C!Next]_C!vars  PROVE CacheInv'
  OBVIOUS
<1>1. CacheTyped'
  BY CacheStepTyped DEF CacheInv
<1>2. CASE UNCHANGED C!vars
  <2>1. C!readPullRequestCache' = C!readPullRequestCache
    BY <1>2 DEF C!readPullRequestCache, C!Empty, C!Absent, C!vars
  <2>2. \A h \in only : Faithful(h)
    BY DEF CacheInv
  <2>3. \A h \in only' : Faithful(h)'
    BY <1>2, <2>1, <2>2 DEF Faithful, C!vars, C!brokerVars
  <2> QED  BY <1>1, <2>3 DEF CacheInv
<1>3. CASE C!Next
  BY <1>1, <1>3, CacheFaithful DEF CacheInv
<1> QED  BY <1>2, <1>3

\* What RefreshRepairs says of a step.
Repairs ==
  \A h \in Handler : h \in only /\ handler'[h] = "idle" /\ handler[h] # "sync" =>
    IF handler[h] \in {"save", "saved"} THEN settingsFile' = settings ELSE syncs => prsFile' = prs

LEMMA CacheRepairs == CacheInv /\ [C!Next]_C!vars => [Repairs]_C!vars
<1> SUFFICES ASSUME CacheInv, C!Next, NEW h \in Handler,
                    h \in only, handler'[h] = "idle", handler[h] # "sync"
             PROVE  IF handler[h] \in {"save", "saved"} THEN settingsFile' = settings
                    ELSE syncs => prsFile' = prs
  BY DEF Repairs
<1>1. /\ handler \in [Handler -> C!States] /\ Faithful(h)
      /\ got \in [Handler -> C!Listing \cup C!Settings]
  BY DEF CacheInv, CacheTyped, C!TypeOK
<1>2. handler[h] # "idle" /\ handler' # handler
  BY <1>1 DEF Faithful
<1>3. ~C!Elsewhere
  BY <1>2 DEF C!Elsewhere
<1>4. PICK g \in Handler :
         \/ \E i \in Id : C!handleAPIActionPullRequest(g, i)
         \/ C!upsertPullRequestCache(g)
         \/ C!refreshPullRequestCache(g) \/ C!Merge(g) \/ C!Fail(g)
         \/ C!Keep(g) \/ C!Truncate(g) \/ C!Finish(g)
         \/ C!cachedSettingsInfo(g) \/ (\E p \in Part : C!settingsInfo(g, p) \/ C!PartFails(g, p))
         \/ C!writeSettingsCache(g)
  BY <1>3, Zenon DEF C!Next
<1>5. ASSUME NEW to, handler' = [handler EXCEPT ![g] = to]
      PROVE  g = h /\ to = "idle"
  BY <1>1, <1>2, <1>5
<1>6. ASSUME NEW from, NEW to, C!Step(g, from, to)
      PROVE  g = h /\ to = "idle" /\ handler[h] = from
  BY <1>5, <1>6 DEF C!Step
<1>7. ASSUME NEW i \in Id, C!handleAPIActionPullRequest(g, i)  PROVE FALSE
  BY <1>6, <1>7 DEF C!handleAPIActionPullRequest
<1>8. ~C!upsertPullRequestCache(g) /\ ~C!Merge(g) /\ ~C!Fail(g) /\ ~C!Truncate(g)
  BY <1>6 DEF C!upsertPullRequestCache, C!Merge, C!Fail, C!Truncate
<1>9. ~C!refreshPullRequestCache(g) /\ ~C!cachedSettingsInfo(g)
  BY <1>5 DEF C!refreshPullRequestCache, C!cachedSettingsInfo
<1>10. ASSUME NEW p \in Part, C!settingsInfo(g, p) \/ C!PartFails(g, p)  PROVE FALSE
  BY <1>5, <1>6, <1>10 DEF C!settingsInfo, C!PartFails
<1>11. CASE C!Keep(g)
  <2>1. C!Step(g, "write", "idle") /\ prsFile = got[g] /\ prsFile' = prsFile
    BY <1>11 DEF C!Keep
  <2>2. g = h /\ handler[h] = "write"
    BY <1>6, <2>1
  <2> QED  BY <1>1, <2>1, <2>2 DEF Faithful
<1>12. CASE C!Finish(g)
  <2>1. C!Step(g, "finish", "idle") /\ prsFile' \in {got[g]} \cup (IF prsFile = NoFile THEN {} ELSE {Mixed})
    BY <1>12 DEF C!Finish
  <2>2. g = h /\ handler[h] = "finish"
    BY <1>6, <2>1
  <2> QED  BY <1>1, <2>1, <2>2 DEF Faithful
<1>13. CASE C!writeSettingsCache(g)
  <2>1. \/ C!Step(g, "save", "saved")
        \/ C!Step(g, "save", "idle") /\ settingsFile = got[g] /\ settingsFile' = settingsFile
        \/ /\ C!Step(g, "saved", "idle")
           /\ settingsFile' \in {got[g]} \cup (IF settingsFile = NoFile THEN {} ELSE {Mixed})
    BY <1>13 DEF C!writeSettingsCache
  <2>2. ~C!Step(g, "save", "saved")
    BY <1>6
  <2>3. CASE C!Step(g, "save", "idle") /\ settingsFile = got[g] /\ settingsFile' = settingsFile
    <3>1. g = h /\ handler[h] = "save"
      BY <1>6, <2>3
    <3> QED  BY <1>1, <2>3, <3>1 DEF Faithful
  <2>4. CASE /\ C!Step(g, "saved", "idle")
             /\ settingsFile' \in {got[g]} \cup (IF settingsFile = NoFile THEN {} ELSE {Mixed})
    <3>1. g = h /\ handler[h] = "saved"
      BY <1>6, <2>4
    <3> QED  BY <1>1, <2>4, <3>1 DEF Faithful
  <2> QED  BY <2>1, <2>2, <2>3, <2>4
<1> QED  BY <1>4, <1>7, <1>8, <1>9, <1>10, <1>11, <1>12, <1>13

LEMMA CacheStarts == C!Init => CacheInv
<1> SUFFICES ASSUME C!Init  PROVE CacheInv
  OBVIOUS
<1>1. 0 \in 0..MaxVersion
  BY WebAssumption DEF WebBounds
<1>2. C!Empty \in C!Listing /\ C!Unknown \in C!Settings
  BY <1>1 DEF C!Empty, C!Unknown, C!Absent, C!Listing, C!Settings
<1>3. C!TypeOK
  BY <1>1, <1>2 DEF C!Init, C!TypeOK, C!States
<1>4. \A h \in Handler : Holds(h)
  BY <1>2 DEF C!Init, Holds, AsksParts
<1> QED  BY <1>3, <1>4 DEF CacheInv, CacheTyped, C!Init

-----------------------------------------------------------------------------
\* A set of numbers has a least one: what is shown of a commit may be taken to be so of the
\* older ones.
LEMMA LeastNumber ==
  ASSUME NEW Numbers \in SUBSET Nat, Numbers # {}
  PROVE  \E m \in Numbers : \A k \in Numbers : m <= k
<1> DEFINE Below == OpToRel(<, Nat)
<1>1. IsWellFoundedOn(Below, Nat)
  BY NatLessThanWellFounded
<1>2. \A x, y \in Nat : x < y => <<x, y>> \in Below
  BY DEF OpToRel
<1> HIDE DEF Below
<1>3. PICK m \in Numbers : \A k \in Numbers : ~(<<k, m>> \in Below)
  BY <1>1, WFMin
<1>4. ASSUME NEW k \in Numbers  PROVE m <= k
  <2>1. k \in Nat /\ m \in Nat  OBVIOUS
  <2>2. ~(k < m)  BY <2>1, <1>2, <1>3
  <2> QED  BY <2>1, <2>2
<1> QED  BY <1>4

(***************************************************************************)
(* Histories. Parents are older, so the walk of all commits exists.        *)
(***************************************************************************)
Elders(c) == H!ToSet(parents[c])

HistoryTyped ==
  /\ parents \in [1..N -> Seq(1..N)]
  /\ \A c \in 1..N : Elders(c) \subseteq 1..(c - 1)

\* f is the walk of the commits up to n.
WalksTo(walk, n) ==
  walk = [c \in 0..n |-> IF c = 0 THEN {} ELSE {c} \cup UNION {walk[q] : q \in Elders(c)}]

LEMMA WalkExists == HistoryTyped => \A n \in 0..N : \E walk : WalksTo(walk, n)
<1> SUFFICES ASSUME HistoryTyped  PROVE \A n \in 0..N : \E walk : WalksTo(walk, n)
  OBVIOUS
<1> DEFINE Stuck == {n \in 0..N : ~\E walk : WalksTo(walk, n)}
<1> SUFFICES ASSUME Stuck # {}  PROVE FALSE
  OBVIOUS
<1>1. N \in Nat /\ \A c \in 1..N : Elders(c) \subseteq 1..(c - 1)
  BY WebAssumption DEF HistoryTyped, WebBounds
<1>2. PICK m \in Stuck : \A k \in Stuck : m <= k
  <2>1. Stuck \in SUBSET Nat  BY <1>1
  <2> HIDE DEF Stuck
  <2> QED  BY <2>1, LeastNumber
<1>3. CASE m = 0
  <2> DEFINE walk == [c \in 0..0 |-> {}]
  <2>1. walk = [c \in 0..0 |-> IF c = 0 THEN {} ELSE {c} \cup UNION {walk[q] : q \in Elders(c)}]
    OBVIOUS
  <2>2. WalksTo(walk, 0)  BY <2>1 DEF WalksTo
  <2> QED  BY <1>3, <2>2
<1>4. CASE m # 0
  <2>1. m - 1 \in 0..N /\ m - 1 \notin Stuck /\ m \in 1..N
    BY <1>1, <1>2, <1>4
  <2>2. PICK old : WalksTo(old, m - 1)
    BY <2>1
  <2> DEFINE walk == [c \in 0..m |-> IF c = m THEN {c} \cup UNION {old[q] : q \in Elders(c)} ELSE old[c]]
  <2>3. ASSUME NEW c \in 0..m  PROVE walk[c] = IF c = 0 THEN {} ELSE {c} \cup UNION {walk[q] : q \in Elders(c)}
    <3>1. \A q \in 0..(m - 1) : walk[q] = old[q]
      BY <2>1
    <3>2. c # 0 => \A q \in Elders(c) : q \in 0..(m - 1)
      BY <2>1, <1>1
    <3>3. c # 0 => {walk[q] : q \in Elders(c)} = {old[q] : q \in Elders(c)}
      <4> HIDE DEF walk
      <4>1. c # 0 => \A q \in Elders(c) : walk[q] = old[q]
        BY <3>1, <3>2
      <4> QED  BY <4>1
    <3>4. CASE c = m
      BY <3>3, <3>4, <1>4
    <3>5. CASE c # m
      <4>1. c \in 0..(m - 1)  BY <3>5, <2>1
      <4>2. old[c] = IF c = 0 THEN {} ELSE {c} \cup UNION {old[q] : q \in Elders(c)}
        BY <4>1, <2>2 DEF WalksTo
      <4> QED  BY <4>1, <4>2, <3>1, <3>3
    <3> QED  BY <3>4, <3>5
  <2>4. WalksTo(walk, m)
    BY <2>3 DEF WalksTo
  <2> QED  BY <2>4
<1> QED  BY <1>3, <1>4

\* The history of a commit is the commit and those of its parents.
LEMMA HistoryWalked ==
  ASSUME HistoryTyped, NEW c \in 1..N
  PROVE  H!History[c] = {c} \cup UNION {H!History[q] : q \in Elders(c)}
<1>1. N \in Nat /\ N \in 0..N /\ \A d \in 1..N : Elders(d) \subseteq 1..N
  BY WebAssumption DEF HistoryTyped, WebBounds
<1>2. PICK walk : WalksTo(walk, N)
  BY <1>1, WalkExists
<1> DEFINE short == [d \in 1..N |-> walk[d]]
<1>3. ASSUME NEW d \in 1..N  PROVE short[d] = {d} \cup UNION {short[q] : q \in Elders(d)}
  <2>1. walk[d] = {d} \cup UNION {walk[q] : q \in Elders(d)}
    <3>1. d \in 0..N /\ d # 0  BY <1>1
    <3> QED  BY <1>2, <3>1 DEF WalksTo
  <2>2. {walk[q] : q \in Elders(d)} = {short[q] : q \in Elders(d)}
    BY <1>1
  <2> QED  BY <2>1, <2>2
<1>4. short = [d \in 1..N |-> {d} \cup UNION {short[q] : q \in Elders(d)}]
  BY <1>3
<1> HIDE DEF short
<1>5. \E f : f = [d \in H!Commit |-> {d} \cup UNION {f[q] : q \in H!ToSet(parents[d])}]
  BY <1>4 DEF H!Commit, Elders
<1>6. H!History = [d \in H!Commit |-> {d} \cup UNION {H!History[q] : q \in H!ToSet(parents[d])}]
  BY <1>5 DEF H!History
<1>7. c \in H!Commit  BY DEF H!Commit
<1> QED  BY <1>6, <1>7, Zenon DEF Elders

\* A property of commits that each of them has when its parents do is one of all.
LEMMA OlderFirst ==
  ASSUME HistoryTyped, NEW Good \in SUBSET (1..N),
         \A c \in 1..N : Elders(c) \subseteq Good => c \in Good
  PROVE  Good = 1..N
<1> DEFINE Bad == (1..N) \ Good
<1> SUFFICES ASSUME Bad # {}  PROVE FALSE
  OBVIOUS
<1>1. N \in Nat /\ \A c \in 1..N : Elders(c) \subseteq 1..(c - 1)
  BY WebAssumption DEF HistoryTyped, WebBounds
<1>2. PICK m \in Bad : \A k \in Bad : m <= k
  <2>1. Bad \in SUBSET Nat  BY <1>1
  <2> HIDE DEF Bad
  <2> QED  BY <2>1, LeastNumber
<1>3. ASSUME NEW q \in Elders(m)  PROVE q \in Good
  <2>1. m \in 1..N  OBVIOUS
  <2>2. q \in 1..(m - 1)  BY <1>1, <2>1
  <2>3. q \in 1..N /\ ~(m <= q)  BY <1>1, <2>1, <2>2
  <2> QED  BY <1>2, <2>3
<1> QED  BY <1>3

LEMMA HistoryTypes ==
  ASSUME HistoryTyped, NEW c \in 1..N
  PROVE  c \in H!History[c] /\ H!History[c] \subseteq 1..c
<1> DEFINE Good == {d \in 1..N : H!History[d] \subseteq 1..d}
<1>1. ASSUME NEW d \in 1..N, Elders(d) \subseteq Good  PROVE d \in Good
  <2>1. H!History[d] = {d} \cup UNION {H!History[q] : q \in Elders(d)}
    BY HistoryWalked
  <2>2. ASSUME NEW q \in Elders(d)  PROVE H!History[q] \subseteq 1..d
    <3>1. q \in 1..(d - 1) /\ H!History[q] \subseteq 1..q
      BY <1>1 DEF HistoryTyped
    <3> QED  BY <3>1
  <2> QED  BY <2>1, <2>2
<1>2. Good = 1..N
  <2> HIDE DEF Good
  <2>1. Good \in SUBSET (1..N)  BY DEF Good
  <2> QED  BY <1>1, <2>1, OlderFirst
<1>3. H!History[c] = {c} \cup UNION {H!History[q] : q \in Elders(c)}
  BY HistoryWalked
<1> QED  BY <1>2, <1>3

\* A history holds the parents of its commits.
LEMMA HistoryClosed ==
  ASSUME HistoryTyped, NEW c \in 1..N, NEW x \in H!History[c]
  PROVE  x \in 1..N /\ Elders(x) \subseteq H!History[c]
<1> DEFINE Good == {d \in 1..N : \A y \in H!History[d] : Elders(y) \subseteq H!History[d]}
<1>1. ASSUME NEW d \in 1..N, Elders(d) \subseteq Good  PROVE d \in Good
  <2>1. H!History[d] = {d} \cup UNION {H!History[q] : q \in Elders(d)}
    BY HistoryWalked
  <2>2. ASSUME NEW q \in Elders(d)  PROVE q \in 1..N /\ q \in H!History[q]
    <3>1. q \in 1..N  BY <1>1
    <3> QED  BY <3>1, HistoryTypes
  <2>3. Elders(d) \subseteq H!History[d]
    BY <2>1, <2>2
  <2>4. ASSUME NEW q \in Elders(d), NEW y \in H!History[q]  PROVE Elders(y) \subseteq H!History[d]
    <3>1. Elders(y) \subseteq H!History[q]  BY <1>1
    <3> QED  BY <2>1, <3>1
  <2> QED  BY <2>1, <2>3, <2>4
<1>2. Good = 1..N
  <2> HIDE DEF Good
  <2>1. Good \in SUBSET (1..N)  BY DEF Good
  <2> QED  BY <1>1, <2>1, OlderFirst
<1>3. x \in 1..c  BY HistoryTypes
<1>4. x \in 1..N  BY <1>3, WebAssumption DEF WebBounds
<1>5. \A y \in H!History[c] : Elders(y) \subseteq H!History[c]  BY <1>2
<1> QED  BY <1>4, <1>5

\* A set that holds a commit and the parents of whatever it holds is one of the history.
LEMMA HistoryLeast ==
  ASSUME HistoryTyped, NEW c \in 1..N, NEW some, c \in some,
         \A d \in some \cap (1..N) : Elders(d) \subseteq some
  PROVE  H!History[c] \subseteq some
<1> DEFINE Good == {d \in 1..N : d \in some => H!History[d] \subseteq some}
<1>1. ASSUME NEW d \in 1..N, Elders(d) \subseteq Good  PROVE d \in Good
  <2>1. H!History[d] = {d} \cup UNION {H!History[q] : q \in Elders(d)}
    BY HistoryWalked
  <2> QED  BY <1>1, <2>1
<1>2. Good = 1..N
  <2> HIDE DEF Good
  <2>1. Good \in SUBSET (1..N)  BY DEF Good
  <2> QED  BY <1>1, <2>1, OlderFirst
<1> QED  BY <1>2

LEMMA HistoryOf ==
  ASSUME HistoryTyped, NEW c \in 1..N, NEW x \in H!History[c]
  PROVE  H!History[x] \subseteq H!History[c]
<1>1. x \in 1..N  BY HistoryClosed
<1>2. \A d \in H!History[c] \cap (1..N) : Elders(d) \subseteq H!History[c]
  BY HistoryClosed
<1> QED  BY <1>1, <1>2, HistoryLeast

-----------------------------------------------------------------------------
(***************************************************************************)
(* Sequences of commits to visit                                           *)
(***************************************************************************)
LEMMA Popped ==
  ASSUME NEW Items, NEW s \in Seq(Items), s # << >>
  PROVE  /\ H!Front(s) \in Seq(Items) /\ Len(H!Front(s)) = Len(s) - 1
         /\ H!Last(s) \in Items /\ H!ToSet(s) = H!ToSet(H!Front(s)) \cup {H!Last(s)}
<1>1. Len(s) \in Nat /\ Len(s) >= 1 /\ DOMAIN s = 1..Len(s)
  BY EmptySeq
<1>2. /\ H!Front(s) \in Seq(Items) /\ Len(H!Front(s)) = Len(s) - 1
      /\ \A n \in 1..(Len(s) - 1) : H!Front(s)[n] = s[n]
  <2> DEFINE k == Len(s) - 1
  <2>1. k \in Nat /\ k \in Int /\ 1 \in Int /\ \A n \in 1..k : s[n] \in Items
    BY <1>1
  <2> HIDE DEF k
  <2>2. /\ SubSeq(s, 1, k) \in Seq(Items)
        /\ Len(SubSeq(s, 1, k)) = IF 1 <= k THEN k - 1 + 1 ELSE 0
        /\ \A n \in 1..k - 1 + 1 : SubSeq(s, 1, k)[n] = s[1 + n - 1]
    BY <2>1, SubSeqProperties
  <2>3. k - 1 + 1 = k /\ \A n \in 1..k : 1 + n - 1 = n
    BY <2>1
  <2>4. H!Front(s) = SubSeq(s, 1, k)
    BY DEF H!Front, k
  <2>5. Len(SubSeq(s, 1, k)) = k
    BY <2>1, <2>2
  <2>6. \A n \in 1..k : SubSeq(s, 1, k)[n] = s[n]
    BY <2>2, <2>3
  <2>7. k = Len(s) - 1  BY DEF k
  <2> QED  BY <2>2, <2>4, <2>5, <2>6, <2>7
<1>3. \A n \in 1..Len(s) : n \in 1..(Len(s) - 1) \/ n = Len(s)
  <2> DEFINE k == Len(s)
  <2>1. k \in Nat  BY <1>1
  <2> HIDE DEF k
  <2>2. \A n \in 1..k : n \in 1..(k - 1) \/ n = k  BY <2>1
  <2> QED  BY <2>2 DEF k
<1>4. DOMAIN H!Front(s) = 1..(Len(s) - 1)
  BY <1>2
<1>5. H!ToSet(s) = H!ToSet(H!Front(s)) \cup {H!Last(s)}
  <2>1. H!ToSet(H!Front(s)) = {s[n] : n \in 1..(Len(s) - 1)}
    BY <1>2, <1>4 DEF H!ToSet
  <2>2. H!ToSet(s) = {s[n] : n \in 1..Len(s)}
    BY <1>1 DEF H!ToSet
  <2>3. s[Len(s)] = H!Last(s) /\ Len(s) \in 1..Len(s) /\ 1..(Len(s) - 1) \subseteq 1..Len(s)
    BY <1>1 DEF H!Last
  <2>4. ASSUME NEW x \in H!ToSet(s)  PROVE x \in H!ToSet(H!Front(s)) \cup {H!Last(s)}
    BY <1>3, <2>1, <2>2, <2>3
  <2> QED  BY <2>1, <2>2, <2>3, <2>4
<1> QED  BY <1>1, <1>2, <1>5 DEF H!Last

LEMMA Shifted ==
  ASSUME NEW Items, NEW s \in Seq(Items), s # << >>
  PROVE  /\ Tail(s) \in Seq(Items) /\ Head(s) \in Items
         /\ H!ToSet(s) = H!ToSet(Tail(s)) \cup {Head(s)}
<1>1. Len(s) \in Nat /\ Len(s) >= 1 /\ DOMAIN s = 1..Len(s)
  BY EmptySeq
<1>2. /\ Tail(s) \in Seq(Items) /\ Len(Tail(s)) = Len(s) - 1 /\ Head(s) = s[1]
      /\ \A n \in 1..Len(Tail(s)) : Tail(s)[n] = s[n + 1]
  BY <1>1, HeadTailProperties
<1>3. DOMAIN Tail(s) = 1..(Len(s) - 1)
  BY <1>2
<1>4. H!ToSet(s) = H!ToSet(Tail(s)) \cup {Head(s)}
  <2>1. ASSUME NEW x \in H!ToSet(s)  PROVE x \in H!ToSet(Tail(s)) \cup {Head(s)}
    <3>1. PICK n \in 1..Len(s) : x = s[n]
      BY <1>1 DEF H!ToSet
    <3>2. CASE n = 1  BY <1>2, <3>1, <3>2
    <3>3. CASE n # 1
      <4>1. n - 1 \in 1..(Len(s) - 1) /\ (n - 1) + 1 = n  BY <1>1, <3>3
      <4>2. x = Tail(s)[n - 1]  BY <1>2, <3>1, <4>1
      <4> QED  BY <1>3, <4>1, <4>2 DEF H!ToSet
    <3> QED  BY <3>2, <3>3
  <2>2. ASSUME NEW x \in H!ToSet(Tail(s))  PROVE x \in H!ToSet(s)
    <3>1. PICK n \in 1..(Len(s) - 1) : x = Tail(s)[n]
      BY <1>3 DEF H!ToSet
    <3>2. n + 1 \in 1..Len(s) /\ x = s[n + 1]
      BY <1>1, <1>2, <3>1
    <3> QED  BY <1>1, <3>2 DEF H!ToSet
  <2>3. Head(s) \in H!ToSet(s)
    BY <1>1, <1>2 DEF H!ToSet
  <2> QED  BY <2>1, <2>2, <2>3
<1> QED  BY <1>1, <1>2, <1>4

LEMMA Joined ==
  ASSUME NEW Items, NEW s \in Seq(Items), NEW t \in Seq(Items)
  PROVE  /\ s \o t \in Seq(Items) /\ Len(s \o t) = Len(s) + Len(t)
         /\ H!ToSet(s \o t) = H!ToSet(s) \cup H!ToSet(t)
<1>1. /\ s \o t \in Seq(Items) /\ Len(s \o t) = Len(s) + Len(t)
      /\ \A n \in 1..Len(s) + Len(t) : (s \o t)[n] = IF n <= Len(s) THEN s[n] ELSE t[n - Len(s)]
  BY ConcatProperties, Zenon
<1>2. /\ Len(s) \in Nat /\ Len(t) \in Nat /\ DOMAIN s = 1..Len(s) /\ DOMAIN t = 1..Len(t)
      /\ DOMAIN (s \o t) = 1..Len(s) + Len(t)
  BY <1>1
<1>3. ASSUME NEW x \in H!ToSet(s \o t)  PROVE x \in H!ToSet(s) \cup H!ToSet(t)
  <2>1. PICK n \in 1..Len(s) + Len(t) : x = (s \o t)[n]
    BY <1>2 DEF H!ToSet
  <2>2. CASE n <= Len(s)
    <3>1. n \in 1..Len(s) /\ x = s[n]  BY <1>1, <1>2, <2>1, <2>2
    <3> QED  BY <1>2, <3>1 DEF H!ToSet
  <2>3. CASE ~(n <= Len(s))
    <3>1. n - Len(s) \in 1..Len(t) /\ x = t[n - Len(s)]  BY <1>1, <1>2, <2>1, <2>3
    <3> QED  BY <1>2, <3>1 DEF H!ToSet
  <2> QED  BY <2>2, <2>3
<1>4. ASSUME NEW x \in H!ToSet(s)  PROVE x \in H!ToSet(s \o t)
  <2>1. PICK n \in 1..Len(s) : x = s[n]  BY <1>2 DEF H!ToSet
  <2>2. n \in 1..Len(s) + Len(t) /\ x = (s \o t)[n]  BY <1>1, <1>2, <2>1
  <2> QED  BY <1>2, <2>2 DEF H!ToSet
<1>5. ASSUME NEW x \in H!ToSet(t)  PROVE x \in H!ToSet(s \o t)
  <2>1. PICK n \in 1..Len(t) : x = t[n]  BY <1>2 DEF H!ToSet
  <2>2. Len(s) + n \in 1..Len(s) + Len(t) /\ ~(Len(s) + n <= Len(s)) /\ (Len(s) + n) - Len(s) = n
    BY <1>2
  <2>3. x = (s \o t)[Len(s) + n]  BY <1>1, <2>1, <2>2
  <2> QED  BY <1>2, <2>2, <2>3 DEF H!ToSet
<1> QED  BY <1>1, <1>3, <1>4, <1>5

LEMMA ParentsTyped ==
  ASSUME HistoryTyped, NEW c \in 1..N
  PROVE  parents[c] \in Seq(1..N) /\ H!ToSet(parents[c]) = Elders(c)
BY DEF HistoryTyped, Elders

LEMMA Nothing == H!ToSet(<< >>) = {} /\ \A x : H!ToSet(<<x>>) = {x}
BY DEF H!ToSet

-----------------------------------------------------------------------------
(***************************************************************************)
(* The walks. What a walk has reached is of the history that it walks, and *)
(* the parents of what it has reached are reached or on the stack; when    *)
(* the stack is empty it has reached all.                                  *)
(***************************************************************************)
Ours == H!History[source]
Theirs == H!History[target]

Reaching(s, some, from) ==
  /\ some \cup H!ToSet(s) \subseteq H!History[from] /\ from \in some \cup H!ToSet(s)
  /\ \A c \in some : Elders(c) \subseteq some \cup H!ToSet(s)

Listing(s, some, list) ==
  /\ some \cup H!ToSet(s) \subseteq Ours /\ source \in some \cup H!ToSet(s)
  /\ \A c \in some \ Theirs : Elders(c) \subseteq some \cup H!ToSet(s)
  /\ H!ToSet(list) = some \ Theirs /\ H!IsInjective(list)

LoopTyped ==
  /\ HistoryTyped /\ touched \subseteq 1..N /\ missing \subseteq 1..N
  /\ target \in 1..N /\ source \in 1..N /\ goal \in {"merge", "range"}
  /\ loop \in {"mark", "find", "list", "compare"} \cup H!Ended
  /\ stack \in Seq(1..N) /\ commits \in Seq(1..N)
  /\ ancestors \subseteq 1..N /\ reached \subseteq 1..N /\ common \in 0..N

\* A walk of commits that are not merges has one way to go.
IsBase(c) ==
  /\ c \in Ours \cap Theirs
  /\ H!Linear => H!History[c] = Ours \cap Theirs

LoopInv ==
  /\ loop = "mark" => Reaching(stack, ancestors, target) /\ reached = {} /\ commits = << >>
  /\ loop \notin {"mark", "listed", "error"} => ancestors = Theirs
  /\ loop = "find" => /\ Reaching(stack, reached, source) /\ reached \cap Theirs = {}
                      /\ H!Linear => Len(stack) <= 1
  /\ loop = "list" => Listing(stack, reached, commits)
  /\ IF loop \in {"compare", "mergeable", "conflict"} THEN IsBase(common)
     ELSE common = 0 \/ (loop = "error" /\ IsBase(common))
  /\ loop = "conflict" => H!Content[common] # H!Content[target]
  /\ loop = "listed" => H!ToSet(commits) = Ours \ Theirs /\ H!IsInjective(commits)
  /\ loop = "error" => missing \cap (Ours \cup Theirs) # {}
  /\ loop = "no base" => Ours \cap Theirs = {}

HistoryInv == LoopTyped /\ LoopInv

\* Whatever has been walked stays as it is.
LEMMA HistorySame ==
  ASSUME UNCHANGED H!input
  PROVE  /\ Ours' = Ours /\ Theirs' = Theirs /\ H!Linear' = H!Linear /\ H!Content' = H!Content
         /\ H!History' = H!History /\ \A c : Elders(c)' = Elders(c)
<1>1. UNCHANGED <<parents, touched, missing, target, source, goal>>
  BY DEF H!input
<1>2. H!History' = H!History
  BY <1>1 DEF H!History
<1>3. H!Content' = H!Content
  BY <1>1 DEF H!Content
<1>4. H!Linear' = H!Linear
  BY <1>1 DEF H!Linear
<1>5. \A c : Elders(c)' = Elders(c)
  BY <1>1 DEF Elders
<1> QED  BY <1>1, <1>2, <1>3, <1>4, <1>5 DEF Ours, Theirs

\* A walk that has nothing left to visit.
LEMMA ReachedAll ==
  ASSUME HistoryTyped, NEW from \in 1..N, NEW some, Reaching(<< >>, some, from)
  PROVE  some = H!History[from]
<1>1. H!ToSet(<< >>) = {}  BY Nothing
<1>2. from \in some /\ \A c \in some \cap (1..N) : Elders(c) \subseteq some
  BY <1>1 DEF Reaching
<1>3. H!History[from] \subseteq some
  BY <1>2, HistoryLeast
<1> QED  BY <1>3 DEF Reaching

\* The commit on top of the stack is visited: its parents take its place, or it was before.
LEMMA Visited ==
  ASSUME HistoryTyped, NEW s \in Seq(1..N), s # << >>, NEW from \in 1..N, NEW some,
         Reaching(s, some, from)
  PROVE  LET next == H!Front(s) \o (IF H!Last(s) \in some THEN << >> ELSE parents[H!Last(s)]) IN
         /\ Reaching(next, some \cup {H!Last(s)}, from) /\ next \in Seq(1..N)
         /\ H!Last(s) \in H!History[from] /\ H!Last(s) \in 1..N
<1> DEFINE top == H!Last(s)
           next == H!Front(s) \o (IF top \in some THEN << >> ELSE parents[top])
<1>1. /\ H!Front(s) \in Seq(1..N) /\ top \in 1..N
      /\ H!ToSet(s) = H!ToSet(H!Front(s)) \cup {top}
  BY Popped
<1> HIDE DEF top
<1>2. top \in H!History[from]
  BY <1>1 DEF Reaching
<1>3. Reaching(next, some \cup {top}, from) /\ next \in Seq(1..N)
  <2>1. CASE top \in some
    <3>1. next = H!Front(s) \o << >> /\ << >> \in Seq(1..N)
      BY <2>1
    <3>2. H!Front(s) \o << >> \in Seq(1..N) /\ H!ToSet(H!Front(s) \o << >>) = H!ToSet(H!Front(s)) \cup {}
      <4>1. << >> \in Seq(1..N)  OBVIOUS
      <4> QED  BY <1>1, <4>1, Joined, Nothing
    <3> HIDE DEF next
    <3>3. some \cup {top} = some /\ some \cup H!ToSet(next) = some \cup H!ToSet(s)
      BY <1>1, <2>1, <3>1, <3>2
    <3> QED  BY <3>1, <3>2, <3>3 DEF Reaching
  <2>2. CASE top \notin some
    <3>1. next = H!Front(s) \o parents[top] /\ parents[top] \in Seq(1..N)
          /\ H!ToSet(parents[top]) = Elders(top)
      BY <1>1, <2>2, ParentsTyped
    <3>2. /\ H!Front(s) \o parents[top] \in Seq(1..N)
          /\ H!ToSet(H!Front(s) \o parents[top]) = H!ToSet(H!Front(s)) \cup H!ToSet(parents[top])
      BY <1>1, <3>1, Joined
    <3> HIDE DEF next
    <3>3. next \in Seq(1..N) /\ H!ToSet(next) = H!ToSet(H!Front(s)) \cup Elders(top)
      BY <3>1, <3>2
    <3>4. Elders(top) \subseteq H!History[from]
      BY <1>2, HistoryClosed
    <3>5. some \cup H!ToSet(s) \subseteq (some \cup {top}) \cup H!ToSet(next)
      BY <1>1, <3>3
    <3>6. \A c \in some \cup {top} : Elders(c) \subseteq (some \cup {top}) \cup H!ToSet(next)
      BY <3>3, <3>5 DEF Reaching
    <3>7. (some \cup {top}) \cup H!ToSet(next) \subseteq H!History[from]
      BY <1>1, <1>2, <3>3, <3>4 DEF Reaching
    <3>8. from \in (some \cup {top}) \cup H!ToSet(next)
      BY <3>5 DEF Reaching
    <3> QED  BY <3>3, <3>6, <3>7, <3>8 DEF Reaching
  <2> QED  BY <2>1, <2>2
<1> QED  BY <1>1, <1>2, <1>3 DEF top

\* What the rest of a step has to show.
LEMMA LoopKept ==
  ASSUME LoopTyped, UNCHANGED H!input,
         loop' \in {"mark", "find", "list", "compare"} \cup H!Ended,
         stack' \in Seq(1..N), commits' \in Seq(1..N),
         ancestors' \subseteq 1..N, reached' \subseteq 1..N, common' \in 0..N
  PROVE  LoopTyped'
<1>1. UNCHANGED <<parents, touched, missing, target, source, goal>>
  BY DEF H!input
<1>2. HistoryTyped'
  BY <1>1 DEF LoopTyped, HistoryTyped, Elders
<1> QED  BY <1>1, <1>2 DEF LoopTyped, H!Ended

\* A commit that the store lacks ends the walk.
LEMMA WalkFails ==
  ASSUME HistoryInv, H!Fails, missing \cap (Ours \cup Theirs) # {}
  PROVE  HistoryInv'
<1>1. loop' = "error" /\ UNCHANGED <<H!input, stack, ancestors, reached, commits, common>>
  BY DEF H!Fails
<1>2. UNCHANGED missing  BY <1>1 DEF H!input
<1>3. LoopTyped'
  BY <1>1, LoopKept DEF HistoryInv, LoopTyped, H!Ended
<1>4. common = 0 \/ IsBase(common)
  BY DEF HistoryInv, LoopInv
<1>5. IsBase(common)' <=> IsBase(common)
  BY <1>1, HistorySame DEF IsBase
<1>6. LoopInv'
  BY <1>1, <1>2, <1>4, <1>5, HistorySame DEF LoopInv
<1> QED  BY <1>3, <1>6 DEF HistoryInv

LEMMA Marks ==
  ASSUME HistoryInv, H!Mark \/ H!Marked
  PROVE  HistoryInv'
<1>1. /\ HistoryTyped /\ target \in 1..N /\ source \in 1..N /\ stack \in Seq(1..N)
      /\ ancestors \subseteq 1..N /\ commits \in Seq(1..N)
      /\ Reaching(stack, ancestors, target) /\ reached = {} /\ commits = << >> /\ loop = "mark"
      /\ common = 0 /\ 0 \in 0..N
  BY WebAssumption DEF HistoryInv, LoopTyped, LoopInv, H!Mark, H!Marked, WebBounds
<1>2. CASE H!Mark
  <2>1. stack # << >>  BY <1>2 DEF H!Mark
  <2> DEFINE next == H!Front(stack) \o (IF H!Last(stack) \in ancestors THEN << >> ELSE parents[H!Last(stack)])
  <2>2. /\ Reaching(next, ancestors \cup {H!Last(stack)}, target) /\ next \in Seq(1..N)
        /\ H!Last(stack) \in Theirs /\ H!Last(stack) \in 1..N
    BY <1>1, <2>1, Visited DEF Theirs
  <2> HIDE DEF next
  <2>3. CASE H!Top \notin ancestors /\ H!Top \in missing
    <3>1. H!Fails  BY <1>2, <2>3 DEF H!Mark
    <3>2. missing \cap (Ours \cup Theirs) # {}
      BY <2>2, <2>3 DEF H!Top
    <3> QED  BY <3>1, <3>2, WalkFails
  <2>4. CASE ~(H!Top \notin ancestors /\ H!Top \in missing)
    <3>1. /\ ancestors' = ancestors \cup {H!Last(stack)} /\ stack' = next
          /\ UNCHANGED <<H!input, loop, reached, commits, common>>
      BY <1>2, <2>4 DEF H!Mark, H!Top, next
    <3>2. LoopTyped'
      <4>1. stack' \in Seq(1..N) /\ ancestors' \subseteq 1..N /\ common' \in 0..N
        BY <1>1, <2>2, <3>1
      <4>2. reached' \subseteq 1..N /\ commits' \in Seq(1..N) /\ loop' = "mark"
        BY <1>1, <3>1
      <4> QED  BY <3>1, <4>1, <4>2, LoopKept DEF HistoryInv
    <3>3. target' = target  BY <3>1 DEF H!input
    <3>4. Reaching(stack, ancestors, target)'
      <4>1. /\ (ancestors \cup {H!Last(stack)}) \cup H!ToSet(next) \subseteq H!History[target]
            /\ target \in (ancestors \cup {H!Last(stack)}) \cup H!ToSet(next)
            /\ \A c \in ancestors \cup {H!Last(stack)} :
                 Elders(c) \subseteq (ancestors \cup {H!Last(stack)}) \cup H!ToSet(next)
        BY <2>2 DEF Reaching
      <4> QED  BY <3>1, <3>3, <4>1, HistorySame DEF Reaching
    <3>5. LoopInv'
      BY <1>1, <3>1, <3>4 DEF LoopInv
    <3> QED  BY <3>2, <3>5 DEF HistoryInv
  <2> QED  BY <2>3, <2>4
<1>3. CASE H!Marked
  <2>1. /\ stack = << >> /\ stack' = <<source>> /\ loop' \in {"find", "list"}
        /\ UNCHANGED <<H!input, ancestors, reached, commits, common>>
    BY <1>3 DEF H!Marked
  <2>2. ancestors = Theirs
    BY <1>1, <2>1, ReachedAll DEF Theirs
  <2>3. <<source>> \in Seq(1..N) /\ Len(<<source>>) = 1 /\ H!ToSet(<<source>>) = {source}
    BY <1>1, Nothing
  <2>4. source \in Ours
    BY <1>1, HistoryTypes DEF Ours
  <2>5. Reaching(<<source>>, reached, source) /\ Listing(<<source>>, reached, commits)
    <3>1. H!IsInjective(<< >>) /\ H!ToSet(<< >>) = {}
      BY Nothing DEF H!IsInjective
    <3> QED  BY <1>1, <2>3, <2>4, <3>1 DEF Reaching, Listing, Ours
  <2>6. LoopTyped'
    BY <1>1, <2>1, <2>3, LoopKept DEF HistoryInv, LoopTyped
  <2>7. source' = source /\ stack' = <<source>>  BY <2>1 DEF H!input
  <2>8. Reaching(stack, reached, source)' /\ Listing(stack, reached, commits)'
    BY <2>1, <2>5, <2>7, HistorySame DEF Reaching, Listing
  <2>9. Len(stack') <= 1 /\ ancestors' = Theirs' /\ reached' = {} /\ common' = 0
    BY <1>1, <2>1, <2>2, <2>3, HistorySame
  <2>10. LoopInv'
    BY <2>1, <2>8, <2>9 DEF LoopInv
  <2> QED  BY <2>6, <2>10 DEF HistoryInv
<1> QED  BY <1>2, <1>3

\* On a line the walk that finds the first common commit leaves all of them behind it.
LEMMA LineLeads ==
  ASSUME HistoryTyped, NEW s \in Seq(1..N), s # << >>, Len(s) <= 1, source \in 1..N, target \in 1..N,
         NEW some, Reaching(s, some, source), some \cap Theirs = {}, H!Last(s) \in Theirs
  PROVE  H!History[H!Last(s)] = Ours \cap Theirs
<1> DEFINE top == H!Last(s)
<1>1. /\ H!Front(s) \in Seq(1..N) /\ Len(H!Front(s)) = Len(s) - 1 /\ top \in 1..N
      /\ H!ToSet(s) = H!ToSet(H!Front(s)) \cup {top}
  BY Popped
<1>2. H!ToSet(s) = {top}
  <2>1. Len(H!Front(s)) = 0
    BY <1>1
  <2>2. H!Front(s) = << >>
    BY <1>1, <2>1, EmptySeq
  <2> QED  BY <1>1, <2>2, Nothing
<1> HIDE DEF top
<1>3. top \in Ours /\ top \in Theirs
  BY <1>2 DEF Reaching, Ours, top
<1>4. H!History[top] \subseteq Ours \cap Theirs
  BY <1>3, HistoryOf DEF Ours, Theirs
<1> DEFINE all == some \cup H!History[top]
<1>5. top \in H!History[top]  BY <1>1, HistoryTypes
<1>6. source \in all
  BY <1>2, <1>5 DEF Reaching
<1>7. \A c \in all \cap (1..N) : Elders(c) \subseteq all
  <2>1. \A c \in some : Elders(c) \subseteq all
    BY <1>2, <1>5 DEF Reaching
  <2>2. \A c \in H!History[top] : Elders(c) \subseteq all
    BY <1>1, HistoryClosed
  <2> QED  BY <2>1, <2>2
<1> HIDE DEF all
<1>8. Ours \subseteq all
  BY <1>6, <1>7, HistoryLeast DEF Ours
<1>9. Ours \cap Theirs \subseteq H!History[top]
  BY <1>8 DEF all
<1> QED  BY <1>4, <1>9 DEF top

LEMMA Finds ==
  ASSUME HistoryInv, H!Find \/ H!NoBase
  PROVE  HistoryInv'
<1>1. /\ HistoryTyped /\ target \in 1..N /\ source \in 1..N /\ stack \in Seq(1..N)
      /\ ancestors \subseteq 1..N /\ reached \subseteq 1..N /\ commits \in Seq(1..N)
      /\ Reaching(stack, reached, source) /\ reached \cap Theirs = {} /\ loop = "find"
      /\ (H!Linear => Len(stack) <= 1) /\ ancestors = Theirs
      /\ common = 0 /\ common \in 0..N
  BY DEF HistoryInv, LoopTyped, LoopInv, H!Find, H!NoBase
<1>2. CASE H!Find
  <2>1. stack # << >>  BY <1>2 DEF H!Find
  <2> DEFINE next == H!Front(stack) \o (IF H!Last(stack) \in reached THEN << >> ELSE parents[H!Last(stack)])
  <2>2. /\ Reaching(next, reached \cup {H!Last(stack)}, source) /\ next \in Seq(1..N)
        /\ H!Last(stack) \in Ours /\ H!Last(stack) \in 1..N
    BY <1>1, <2>1, Visited DEF Ours
  <2>3. H!Linear => Len(next) <= 1
    <3> SUFFICES ASSUME H!Linear  PROVE Len(next) <= 1
      OBVIOUS
    <3>1. H!Front(stack) \in Seq(1..N) /\ Len(H!Front(stack)) = Len(stack) - 1 /\ H!Last(stack) \in 1..N
      BY <1>1, <2>1, Popped
    <3>2. parents[H!Last(stack)] \in Seq(1..N) /\ Len(parents[H!Last(stack)]) <= 1
      BY <1>1, <3>1, ParentsTyped DEF H!Linear, H!Commit
    <3> DEFINE more == IF H!Last(stack) \in reached THEN << >> ELSE parents[H!Last(stack)]
    <3>3. more \in Seq(1..N) /\ Len(more) <= 1
      <4>1. << >> \in Seq(1..N) /\ Len(<< >>) <= 1  OBVIOUS
      <4> QED  BY <3>2, <4>1
    <3> HIDE DEF more
    <3>4. Len(H!Front(stack) \o more) = Len(H!Front(stack)) + Len(more)
      BY <3>1, <3>3, Joined
    <3>5. Len(stack) <= 1 /\ Len(stack) \in Nat /\ Len(more) \in Nat
      BY <1>1, <3>3
    <3> QED  BY <3>1, <3>3, <3>4, <3>5 DEF more
  <2> HIDE DEF next
  <2>4. CASE H!Top \in ancestors
    <3>1. /\ common' = H!Last(stack) /\ loop' = "compare" /\ stack' = << >>
          /\ UNCHANGED <<H!input, ancestors, reached, commits>>
      BY <1>2, <2>4 DEF H!Find, H!Top
    <3>2. LoopTyped'
      <4>1. stack' \in Seq(1..N) /\ ancestors' \subseteq 1..N /\ common' \in 0..N
        BY <1>1, <2>2, <3>1
      <4>2. reached' \subseteq 1..N /\ commits' \in Seq(1..N) /\ loop' = "compare"
        BY <1>1, <3>1
      <4> QED  BY <3>1, <4>1, <4>2, LoopKept DEF HistoryInv
    <3>3. H!Last(stack) \in Theirs  BY <1>1, <2>4 DEF H!Top
    <3>4. H!Linear => H!History[H!Last(stack)] = Ours \cap Theirs
      BY <1>1, <2>1, <3>3, LineLeads
    <3>5. IsBase(common)'
      BY <2>2, <3>1, <3>3, <3>4, HistorySame DEF IsBase
    <3>6. ancestors' = Theirs'
      BY <1>1, <3>1, HistorySame
    <3>7. LoopInv'
      BY <3>1, <3>5, <3>6 DEF LoopInv
    <3> QED  BY <3>2, <3>7 DEF HistoryInv
  <2>5. CASE H!Top \notin ancestors /\ H!Top \notin reached /\ H!Top \in missing
    <3>1. H!Fails  BY <1>2, <2>5 DEF H!Find
    <3>2. missing \cap (Ours \cup Theirs) # {}
      BY <2>2, <2>5 DEF H!Top
    <3> QED  BY <3>1, <3>2, WalkFails
  <2>6. CASE H!Top \notin ancestors /\ ~(H!Top \notin reached /\ H!Top \in missing)
    <3>1. /\ reached' = reached \cup {H!Last(stack)} /\ stack' = next
          /\ UNCHANGED <<H!input, loop, ancestors, commits, common>>
      BY <1>2, <2>6 DEF H!Find, H!Top, next
    <3>2. LoopTyped'
      <4>1. stack' \in Seq(1..N) /\ ancestors' \subseteq 1..N /\ common' \in 0..N
        BY <1>1, <2>2, <3>1
      <4>2. reached' \subseteq 1..N /\ commits' \in Seq(1..N) /\ loop' = "find"
        BY <1>1, <2>2, <3>1
      <4> QED  BY <3>1, <4>1, <4>2, LoopKept DEF HistoryInv
    <3>3. source' = source  BY <3>1 DEF H!input
    <3>4. Reaching(stack, reached, source)'
      <4>1. /\ (reached \cup {H!Last(stack)}) \cup H!ToSet(next) \subseteq H!History[source]
            /\ source \in (reached \cup {H!Last(stack)}) \cup H!ToSet(next)
            /\ \A c \in reached \cup {H!Last(stack)} :
                 Elders(c) \subseteq (reached \cup {H!Last(stack)}) \cup H!ToSet(next)
        BY <2>2 DEF Reaching
      <4> QED  BY <3>1, <3>3, <4>1, HistorySame DEF Reaching
    <3>5. reached' \cap Theirs' = {}
      BY <1>1, <2>6, <3>1, HistorySame DEF H!Top
    <3>6. /\ ancestors' = Theirs' /\ (H!Linear' => Len(stack') <= 1)
          /\ loop' = "find" /\ common' = 0
      BY <1>1, <2>3, <3>1, HistorySame
    <3>7. LoopInv'
      BY <3>4, <3>5, <3>6 DEF LoopInv
    <3> QED  BY <3>2, <3>7 DEF HistoryInv
  <2> QED  BY <2>4, <2>5, <2>6
<1>3. CASE H!NoBase
  <2>1. /\ stack = << >> /\ loop' = "no base"
        /\ UNCHANGED <<H!input, stack, ancestors, reached, commits, common>>
    BY <1>3 DEF H!NoBase
  <2>2. reached = Ours
    BY <1>1, <2>1, ReachedAll DEF Ours
  <2>3. Ours' \cap Theirs' = {} /\ ancestors' = Theirs' /\ common' = 0
    BY <1>1, <2>1, <2>2, HistorySame
  <2>4. LoopTyped'
    BY <1>1, <2>1, LoopKept DEF HistoryInv, H!Ended
  <2>5. LoopInv'
    BY <2>1, <2>3 DEF LoopInv
  <2> QED  BY <2>4, <2>5 DEF HistoryInv
<1> QED  BY <1>2, <1>3

LEMMA Compares ==
  ASSUME HistoryInv, H!hasMergeConflict
  PROVE  HistoryInv'
<1>1. /\ HistoryTyped /\ target \in 1..N /\ source \in 1..N /\ stack \in Seq(1..N)
      /\ ancestors \subseteq 1..N /\ reached \subseteq 1..N /\ commits \in Seq(1..N)
      /\ loop = "compare" /\ ancestors = Theirs /\ IsBase(common) /\ common \in 0..N
  BY DEF HistoryInv, LoopTyped, LoopInv, H!hasMergeConflict
<1>2. source \in Ours /\ target \in Theirs /\ common \in Ours
  BY <1>1, HistoryTypes DEF Ours, Theirs, IsBase
<1>3. CASE {common, target, source} \cap missing # {}
  <2>1. H!Fails  BY <1>3 DEF H!hasMergeConflict
  <2>2. missing \cap (Ours \cup Theirs) # {}
    BY <1>2, <1>3
  <2> QED  BY <2>1, <2>2, WalkFails
<1>4. CASE ~({common, target, source} \cap missing # {})
  <2>1. /\ loop' = IF H!Conflicting(H!Content[common], H!Content[target], H!Content[source])
                   THEN "conflict" ELSE "mergeable"
        /\ UNCHANGED <<H!input, stack, ancestors, reached, commits, common>>
    BY <1>4 DEF H!hasMergeConflict
  <2>2. loop' \in {"conflict", "mergeable"}
    BY <2>1
  <2>3. LoopTyped'
    BY <1>1, <2>1, <2>2, LoopKept DEF HistoryInv, H!Ended
  <2>4. loop' = "conflict" => H!Content'[common'] # H!Content'[target']
    BY <2>1, HistorySame DEF H!Conflicting, H!input
  <2>5. IsBase(common)' /\ ancestors' = Theirs'
    BY <1>1, <2>1, HistorySame DEF IsBase
  <2>6. LoopInv'
    BY <2>2, <2>4, <2>5 DEF LoopInv
  <2> QED  BY <2>3, <2>6 DEF HistoryInv
<1> QED  BY <1>3, <1>4

\* The first commit of the queue is listed, and its parents come last.
LEMMA ListedNext ==
  ASSUME HistoryTyped, source \in 1..N, target \in 1..N, NEW s \in Seq(1..N), s # << >>,
         NEW some \in SUBSET (1..N), NEW list \in Seq(1..N), Listing(s, some, list)
  PROVE  /\ Head(s) \in Ours /\ Head(s) \in 1..N
         /\ Head(s) \in some \cup Theirs =>
              Tail(s) \in Seq(1..N) /\ Listing(Tail(s), some \cup {Head(s)}, list)
         /\ Head(s) \notin some \cup Theirs =>
              /\ Tail(s) \o parents[Head(s)] \in Seq(1..N) /\ Append(list, Head(s)) \in Seq(1..N)
              /\ Listing(Tail(s) \o parents[Head(s)], some \cup {Head(s)}, Append(list, Head(s)))
<1>1. /\ Tail(s) \in Seq(1..N) /\ Head(s) \in 1..N /\ H!ToSet(s) = H!ToSet(Tail(s)) \cup {Head(s)}
  BY Shifted
<1>2. Head(s) \in Ours
  BY <1>1 DEF Listing
<1>3. ASSUME Head(s) \in some \cup Theirs  PROVE Listing(Tail(s), some \cup {Head(s)}, list)
  <2>1. (some \cup {Head(s)}) \cup H!ToSet(Tail(s)) = some \cup H!ToSet(s)
    BY <1>1
  <2>2. (some \cup {Head(s)}) \ Theirs = some \ Theirs
    BY <1>3
  <2> QED  BY <2>1, <2>2 DEF Listing
<1>4. ASSUME Head(s) \notin some \cup Theirs
      PROVE  /\ Tail(s) \o parents[Head(s)] \in Seq(1..N) /\ Append(list, Head(s)) \in Seq(1..N)
             /\ Listing(Tail(s) \o parents[Head(s)], some \cup {Head(s)}, Append(list, Head(s)))
  <2> DEFINE next == Tail(s) \o parents[Head(s)]
             longer == Append(list, Head(s))
  <2>1. parents[Head(s)] \in Seq(1..N) /\ H!ToSet(parents[Head(s)]) = Elders(Head(s))
    BY <1>1, ParentsTyped
  <2>2. next \in Seq(1..N) /\ H!ToSet(next) = H!ToSet(Tail(s)) \cup Elders(Head(s))
    <3> DEFINE rest == Tail(s)
               more == parents[Head(s)]
    <3>1. rest \in Seq(1..N) /\ more \in Seq(1..N) /\ H!ToSet(more) = Elders(Head(s))
      BY <1>1, <2>1
    <3>2. next = rest \o more /\ H!ToSet(Tail(s)) = H!ToSet(rest)
      BY DEF next
    <3> HIDE DEF rest, more
    <3>3. rest \o more \in Seq(1..N) /\ H!ToSet(rest \o more) = H!ToSet(rest) \cup H!ToSet(more)
      BY <3>1, Joined
    <3> QED  BY <3>1, <3>2, <3>3
  <2>3. /\ longer \in Seq(1..N) /\ Len(longer) = Len(list) + 1 /\ Len(list) \in Nat
        /\ longer[Len(list) + 1] = Head(s) /\ \A n \in 1..Len(list) : longer[n] = list[n]
        /\ DOMAIN longer = 1..Len(list) + 1 /\ DOMAIN list = 1..Len(list)
    BY <1>1
  <2> HIDE DEF next, longer
  <2>4. \A n \in 1..Len(list) + 1 : n \in 1..Len(list) \/ n = Len(list) + 1
    BY <2>3
  <2>5. H!ToSet(longer) = H!ToSet(list) \cup {Head(s)}
    <3>1. 1..Len(list) \subseteq 1..Len(list) + 1 /\ Len(list) + 1 \in 1..Len(list) + 1
      BY <2>3
    <3>2. ASSUME NEW x \in H!ToSet(longer)  PROVE x \in H!ToSet(list) \cup {Head(s)}
      BY <2>3, <2>4 DEF H!ToSet
    <3>3. ASSUME NEW x \in H!ToSet(list) \cup {Head(s)}  PROVE x \in H!ToSet(longer)
      BY <2>3, <3>1 DEF H!ToSet
    <3> QED  BY <3>2, <3>3
  <2>6. H!ToSet(list) = some \ Theirs /\ H!IsInjective(list)
    BY DEF Listing
  <2>7. H!IsInjective(longer)
    <3>1. \A n \in 1..Len(list) : list[n] # Head(s)
      BY <1>4, <2>3, <2>6 DEF H!ToSet
    <3>2. \A m, n \in 1..Len(list) : list[m] = list[n] => m = n
      BY <2>3, <2>6 DEF H!IsInjective
    <3>3. ASSUME NEW m \in 1..Len(list) + 1, NEW n \in 1..Len(list) + 1, longer[m] = longer[n]
          PROVE  m = n
      BY <2>3, <2>4, <3>1, <3>2, <3>3
    <3> QED  BY <2>3, <3>3 DEF H!IsInjective
  <2>8. H!ToSet(longer) = (some \cup {Head(s)}) \ Theirs
    BY <1>4, <2>5, <2>6
  <2>9. some \cup H!ToSet(s) \subseteq (some \cup {Head(s)}) \cup H!ToSet(next)
    BY <1>1, <2>2
  <2>10. (some \cup {Head(s)}) \cup H!ToSet(next) \subseteq Ours
    <3>1. Elders(Head(s)) \subseteq Ours
      BY <1>2, HistoryClosed DEF Ours
    <3> QED  BY <1>1, <1>2, <2>2, <3>1 DEF Listing
  <2>11. \A c \in (some \cup {Head(s)}) \ Theirs : Elders(c) \subseteq (some \cup {Head(s)}) \cup H!ToSet(next)
    BY <2>2, <2>9 DEF Listing
  <2>12. source \in (some \cup {Head(s)}) \cup H!ToSet(next)
    BY <2>9 DEF Listing
  <2>13. Listing(next, some \cup {Head(s)}, longer)
    BY <2>7, <2>8, <2>10, <2>11, <2>12 DEF Listing
  <2> QED  BY <2>2, <2>3, <2>13 DEF next, longer
<1> QED  BY <1>1, <1>2, <1>3, <1>4

LEMMA Lists ==
  ASSUME HistoryInv, H!List \/ H!Listed
  PROVE  HistoryInv'
<1>1. /\ HistoryTyped /\ target \in 1..N /\ source \in 1..N /\ stack \in Seq(1..N)
      /\ ancestors \subseteq 1..N /\ reached \in SUBSET (1..N) /\ commits \in Seq(1..N)
      /\ Listing(stack, reached, commits) /\ loop = "list" /\ ancestors = Theirs
      /\ common = 0 /\ common \in 0..N
  BY DEF HistoryInv, LoopTyped, LoopInv, H!List, H!Listed
<1>2. CASE H!List
  <2> DEFINE next == IF Head(stack) \in reached \cup ancestors THEN Tail(stack)
                     ELSE Tail(stack) \o parents[Head(stack)]
             longer == IF Head(stack) \in reached \cup ancestors THEN commits
                       ELSE Append(commits, Head(stack))
             more == reached \cup {Head(stack)}
  <2>1. stack # << >>  BY <1>2 DEF H!List
  <2>2. /\ Head(stack) \in Ours /\ Head(stack) \in 1..N
        /\ Listing(next, more, longer) /\ next \in Seq(1..N) /\ longer \in Seq(1..N)
    <3>1. CASE Head(stack) \in reached \cup ancestors
      BY <1>1, <2>1, <3>1, ListedNext
    <3>2. CASE Head(stack) \notin reached \cup ancestors
      BY <1>1, <2>1, <3>2, ListedNext
    <3> QED  BY <3>1, <3>2
  <2>3. CASE Head(stack) \notin reached \cup ancestors /\ Head(stack) \in missing
    <3>1. H!Fails  BY <1>2, <2>3 DEF H!List
    <3>2. missing \cap (Ours \cup Theirs) # {}
      BY <2>2, <2>3
    <3> QED  BY <3>1, <3>2, WalkFails
  <2>4. CASE ~(Head(stack) \notin reached \cup ancestors /\ Head(stack) \in missing)
    <3>1. /\ reached' = more /\ stack' = next /\ commits' = longer
          /\ UNCHANGED <<H!input, loop, ancestors, common>>
      BY <1>2, <2>4 DEF H!List
    <3> HIDE DEF next, longer, more
    <3>2. LoopTyped'
      <4>1. reached' \subseteq 1..N  BY <1>1, <2>2, <3>1 DEF more
      <4>2. stack' \in Seq(1..N) /\ ancestors' \subseteq 1..N /\ common' \in 0..N
            /\ commits' \in Seq(1..N) /\ loop' = "list"
        BY <1>1, <2>2, <3>1
      <4> QED  BY <3>1, <4>1, <4>2, LoopKept DEF HistoryInv
    <3>3. source' = source  BY <3>1 DEF H!input
    <3>4. Listing(stack, reached, commits)'
      BY <2>2, <3>1, <3>3, HistorySame DEF Listing
    <3>5. ancestors' = Theirs' /\ common' = 0 /\ loop' = "list"
      BY <1>1, <3>1, HistorySame
    <3>6. LoopInv'
      BY <3>4, <3>5 DEF LoopInv
    <3> QED  BY <3>2, <3>6 DEF HistoryInv
  <2> QED  BY <2>3, <2>4
<1>3. CASE H!Listed
  <2>1. /\ stack = << >> /\ loop' = "listed"
        /\ UNCHANGED <<H!input, stack, ancestors, reached, commits, common>>
    BY <1>3 DEF H!Listed
  <2>2. H!ToSet(stack) = {}  BY <2>1, Nothing
  <2> DEFINE all == reached \cup Theirs
  <2>3. source \in all /\ \A c \in all \cap (1..N) : Elders(c) \subseteq all
    <3>1. \A c \in reached \ Theirs : Elders(c) \subseteq all
      BY <1>1, <2>2 DEF Listing
    <3>2. \A c \in Theirs : Elders(c) \subseteq all
      BY <1>1, HistoryClosed DEF Theirs
    <3> QED  BY <1>1, <2>2, <3>1, <3>2 DEF Listing
  <2> HIDE DEF all
  <2>4. Ours \subseteq all
    BY <1>1, <2>3, HistoryLeast DEF Ours
  <2>5. H!ToSet(commits) = Ours \ Theirs /\ H!IsInjective(commits)
    BY <1>1, <2>4 DEF Listing, all
  <2>6. LoopTyped'
    BY <1>1, <2>1, LoopKept DEF HistoryInv, H!Ended
  <2>7. LoopInv'
    BY <1>1, <2>1, <2>5, HistorySame DEF LoopInv
  <2> QED  BY <2>6, <2>7 DEF HistoryInv
<1> QED  BY <1>2, <1>3

LEMMA HistoryStep == HistoryInv /\ [H!Next]_H!vars => HistoryInv'
<1> SUFFICES ASSUME HistoryInv, [H!Next]_H!vars  PROVE HistoryInv'
  OBVIOUS
<1>1. CASE UNCHANGED H!vars
  <2>1. UNCHANGED <<H!input, loop, stack, ancestors, reached, commits, common>>
    BY <1>1 DEF H!vars
  <2>2. UNCHANGED <<parents, touched, missing, target, source, goal>>
    BY <2>1 DEF H!input
  <2>3. LoopTyped'
    BY <2>1, LoopKept DEF HistoryInv, LoopTyped
  <2>4. IsBase(common)' <=> IsBase(common)
    BY <2>1, HistorySame DEF IsBase
  <2>5. /\ Reaching(stack, ancestors, target)' <=> Reaching(stack, ancestors, target)
        /\ Reaching(stack, reached, source)' <=> Reaching(stack, reached, source)
    BY <2>1, <2>2, HistorySame DEF Reaching
  <2>6. Listing(stack, reached, commits)' <=> Listing(stack, reached, commits)
    BY <2>1, <2>2, HistorySame DEF Listing
  <2>7. LoopInv'
    <3>1. /\ Ours' = Ours /\ Theirs' = Theirs /\ H!Linear' = H!Linear /\ H!Content' = H!Content
      BY <2>1, HistorySame
    <3>2. LoopInv
      BY DEF HistoryInv
    <3>3. H!ToSet(commits)' = H!ToSet(commits) /\ (H!IsInjective(commits)' <=> H!IsInjective(commits))
      BY <2>1 DEF H!ToSet, H!IsInjective
    <3>4. /\ H!Content[common]' = H!Content[common] /\ H!Content[target]' = H!Content[target]
          /\ Len(stack)' = Len(stack)
      BY <2>1, <2>2, <3>1
    <3> QED  BY <2>1, <2>2, <2>4, <2>5, <2>6, <3>1, <3>2, <3>3, <3>4 DEF LoopInv
  <2> QED  BY <2>3, <2>7 DEF HistoryInv
<1> QED  BY <1>1, Marks, Finds, Compares, Lists DEF H!Next

LEMMA HistoryStarts == H!Init => HistoryInv
<1> SUFFICES ASSUME H!Init  PROVE HistoryInv
  OBVIOUS
<1>1. /\ parents \in [1..N -> H!ParentLists(N)] /\ \A c \in 1..N : parents[c] \in H!ParentLists(c)
  BY DEF H!Init, H!Commit
<1>2. ASSUME NEW c \in 1..N, NEW list \in H!ParentLists(c)
      PROVE  list \in Seq(1..N) /\ H!ToSet(list) \subseteq 1..(c - 1)
  <2>1. N \in Nat /\ 1..(c - 1) \subseteq 1..N
    BY WebAssumption DEF WebBounds
  <2>2. CASE list = << >>
    BY <2>2, Nothing
  <2>3. ASSUME NEW q \in 1..(c - 1), list = <<q>>
        PROVE  list \in Seq(1..N) /\ H!ToSet(list) \subseteq 1..(c - 1)
    <3>1. q \in 1..N  BY <2>1
    <3> QED  BY <2>3, <3>1, Nothing
  <2>4. ASSUME NEW pq \in (1..(c - 1)) \X (1..(c - 1)), list = pq
        PROVE  list \in Seq(1..N) /\ H!ToSet(list) \subseteq 1..(c - 1)
    <3>1. PICK a \in 1..(c - 1), b \in 1..(c - 1) : list = <<a, b>>
      BY <2>4
    <3>2. a \in 1..N /\ b \in 1..N  BY <2>1
    <3>3. list \in Seq(1..N)  BY <3>1, <3>2
    <3>4. H!ToSet(list) \subseteq {a, b}
      BY <3>1 DEF H!ToSet
    <3> QED  BY <3>3, <3>4
  <2> QED  BY <1>2, <2>2, <2>3, <2>4 DEF H!ParentLists
<1>3. HistoryTyped
  <2>1. \A c \in 1..N : parents[c] \in Seq(1..N) /\ Elders(c) \subseteq 1..(c - 1)
    BY <1>1, <1>2 DEF Elders
  <2> QED  BY <1>1, <2>1 DEF HistoryTyped
<1>4. /\ target \in 1..N /\ source \in 1..N /\ goal \in {"merge", "range"}
      /\ loop = (IF goal = "range" /\ source = target THEN "listed" ELSE "mark")
      /\ stack = <<target>> /\ ancestors = {} /\ reached = {} /\ commits = << >> /\ common = 0
  BY DEF H!Init, H!Commit, H!NoCommit
<1>5. touched \subseteq 1..N /\ missing \subseteq 1..N
  BY DEF H!Init, H!Commit
<1>6. 0 \in 0..N  BY WebAssumption DEF WebBounds
<1>7. H!ToSet(<< >>) = {} /\ H!IsInjective(<< >>) /\ H!ToSet(<<target>>) = {target}
  BY Nothing DEF H!IsInjective
<1>8. LoopTyped
  <2>1. loop \in {"mark", "find", "list", "compare"} \cup H!Ended
    BY <1>4 DEF H!Ended
  <2>2. stack \in Seq(1..N) /\ commits \in Seq(1..N)  BY <1>4
  <2> QED  BY <1>3, <1>4, <1>5, <1>6, <2>1, <2>2 DEF LoopTyped
<1>9. Reaching(stack, ancestors, target)
  <2>1. target \in Theirs  BY <1>3, <1>4, HistoryTypes DEF Theirs
  <2> QED  BY <1>4, <1>7, <2>1 DEF Reaching, Theirs
<1>10. loop = "listed" => Ours = Theirs
  BY <1>4 DEF Ours, Theirs
<1>11. LoopInv
  BY <1>4, <1>7, <1>9, <1>10 DEF LoopInv
<1> QED  BY <1>8, <1>11 DEF HistoryInv

\* What the run asks of the walks.
LEMMA HistoryShows ==
  HistoryInv => H!TypeOK /\ H!RangeIsDifference /\ H!BaseIsCommon /\ H!LinearBaseIsLast
<1> SUFFICES ASSUME HistoryInv
             PROVE  H!TypeOK /\ H!RangeIsDifference /\ H!BaseIsCommon /\ H!LinearBaseIsLast
  OBVIOUS
<1>1. H!TypeOK
  <2>1. common \in (1..N) \cup {0}
    BY WebAssumption DEF HistoryInv, LoopTyped, WebBounds
  <2> QED  BY <2>1 DEF HistoryInv, LoopTyped, HistoryTyped, H!TypeOK, H!Commit, H!NoCommit
<1>2. common # 0 => IsBase(common)
  BY DEF HistoryInv, LoopInv
<1>3. H!RangeIsDifference
  BY DEF HistoryInv, LoopInv, H!RangeIsDifference, Ours, Theirs
<1>4. H!BaseIsCommon
  BY <1>2 DEF HistoryInv, LoopInv, H!BaseIsCommon, H!NoCommit, IsBase, Ours, Theirs
<1>5. ASSUME H!Linear, loop = "conflict"  PROVE target \notin Ours
  <2> SUFFICES ASSUME target \in Ours  PROVE FALSE
    OBVIOUS
  <2>1. /\ IsBase(common) /\ H!Content[common] # H!Content[target] /\ HistoryTyped /\ target \in 1..N
    BY <1>5 DEF HistoryInv, LoopTyped, LoopInv
  <2>2. target \in Theirs
    BY <2>1, HistoryTypes DEF Theirs
  <2>3. target \in H!History[common] /\ common \in H!History[target]
    BY <1>5, <2>1, <2>2 DEF IsBase, Theirs
  <2>4. common \in 1..N
    BY <2>1, <2>3, HistoryClosed
  <2>5. target \in 1..common /\ common \in 1..target
    BY <2>1, <2>3, <2>4, HistoryTypes
  <2>6. target = common
    BY <2>1, <2>4, <2>5
  <2> QED  BY <2>1, <2>6
<1>6. H!LinearBaseIsLast
  BY <1>2, <1>5 DEF H!LinearBaseIsLast, H!NoCommit, IsBase, Ours, Theirs
<1> QED  BY <1>1, <1>3, <1>4, <1>6

-----------------------------------------------------------------------------
\* Times are bounded, so there is a last one.
Times == 0..MaxChanges + 1

LEMMA LastTime ==
  ASSUME NEW Some \in SUBSET Times, Some # {}
  PROVE  E!Max(Some) \in Some /\ \A x \in Some : x <= E!Max(Some)
<1> DEFINE Bounds == {n \in Nat : \A x \in Some : x <= n}
<1>1. MaxChanges \in Nat /\ Some \subseteq Nat
  BY WebAssumption DEF WebBounds, Times
<1>2. MaxChanges + 1 \in Bounds
  BY <1>1 DEF Times
<1>3. PICK m \in Bounds : \A k \in Bounds : m <= k
  <2>1. Bounds \in SUBSET Nat /\ Bounds # {}
    BY <1>2
  <2> HIDE DEF Bounds
  <2> QED  BY <2>1, LeastNumber
<1>4. m \in Nat /\ \A x \in Some : x <= m
  OBVIOUS
<1>5. m \in Some
  <2> SUFFICES ASSUME m \notin Some  PROVE FALSE
    OBVIOUS
  <2>1. PICK y \in Some : TRUE
    OBVIOUS
  <2>2. m # 0
    BY <1>1, <1>4, <2>1
  <2>3. m - 1 \in Nat /\ \A x \in Some : x <= m - 1
    BY <1>1, <1>4, <2>2
  <2>4. m <= m - 1
    <3>1. m - 1 \in Bounds  BY <2>3
    <3> HIDE DEF Bounds
    <3> QED  BY <3>1, <1>3
  <2> QED  BY <1>4, <2>4
<1> HIDE DEF Bounds
<1>6. E!Max(Some) \in Some /\ \A y \in Some : E!Max(Some) >= y
  <2>1. \E x \in Some : \A y \in Some : x >= y
    <3>1. \A y \in Some : m >= y  BY <1>1, <1>4
    <3> QED  BY <1>5, <3>1
  <2> QED  BY <2>1 DEF E!Max
<1> QED  BY <1>1, <1>6

(***************************************************************************)
(* The page. As long as nothing is missed, what the page shows or is about *)
(* to show is the repository, or an event is on its way, or the next poll  *)
(* sees that a file is younger than the last, or that there are fewer.     *)
(***************************************************************************)
OldFiles == {w \in Watched : 0 < files[w] /\ files[w] <= last[1]}
Due == (\E w \in Watched : files[w] > last[1]) \/ Cardinality(OldFiles) < last[2]

Readings == [Watched -> Times] \X Times

PageTyped ==
  /\ files \in [Watched -> Times] /\ other \in Times
  /\ last \in Times \X (0..Cardinality(Watched))
  /\ greeted \in BOOLEAN /\ connected \in BOOLEAN /\ missed \in BOOLEAN
  /\ queue \in Seq({"git", "whoami"}) /\ Len(queue) <= Capacity /\ (queue # << >> => connected)
  /\ refresh \in {"none", "asked", "read"} /\ refused \in 0..MaxRefused
  /\ reading \in Readings /\ shown \in Readings

\* The user is greeted once.
GreetedOnce ==
  /\ \A m, n \in 1..Len(queue) : queue[m] = "whoami" /\ queue[n] = "whoami" => m = n
  /\ E!Contains(queue, "whoami") => greeted

WillSee == ~missed /\ refresh # "asked" /\ reading # <<files, other>> => E!Contains(queue, "git") \/ Due

PageInv ==
  /\ PageTyped /\ GreetedOnce /\ Cardinality(OldFiles) <= last[2]
  /\ (refresh = "none" => reading = shown) /\ WillSee

LEMMA SameCardinality == \A s : E!Cardinality(s) = Cardinality(s)
BY DEF E!Cardinality, Cardinality

LEMMA PageTypes == PageTyped => E!TypeOK
<1> SUFFICES ASSUME PageTyped  PROVE E!TypeOK
  OBVIOUS
<1>1. queue \in E!BoundedSeq({"git", "whoami"}, Capacity)
  <2>1. queue \in [1..Len(queue) -> {"git", "whoami"}] /\ Len(queue) \in 0..Capacity
    BY WebAssumption DEF PageTyped, WebBounds
  <2> QED  BY <2>1 DEF E!BoundedSeq, E!SeqOf
<1> QED  BY <1>1, SameCardinality DEF PageTyped, E!TypeOK, Times

LEMMA OldTypes ==
  ASSUME NEW w \in SUBSET Watched
  PROVE  IsFiniteSet(w) /\ Cardinality(w) \in 0..Cardinality(Watched) /\ Cardinality(Watched) \in Nat
<1>1. IsFiniteSet(Watched)
  BY WebAssumption DEF WebBounds
<1>2. IsFiniteSet(w) /\ Cardinality(w) <= Cardinality(Watched)
  BY <1>1, FS_Subset
<1> QED  BY <1>1, <1>2, FS_CardinalityType

\* The fingerprint at a poll.
LEMMA Fingerprint ==
  ASSUME files \in [Watched -> Times]
  PROVE  LET there == {w \in Watched : files[w] # 0} IN
         /\ E!webPathFingerprint[1] \in Times /\ E!webPathFingerprint[2] = Cardinality(there)
         /\ E!webPathFingerprint \in Times \X (0..Cardinality(Watched))
         /\ \A w \in Watched : files[w] <= E!webPathFingerprint[1]
<1> DEFINE times == {files[w] : w \in Watched} \cup {0}
           there == {w \in Watched : files[w] # 0}
<1>1. times \in SUBSET Times /\ times # {}
  BY WebAssumption DEF Times, WebBounds
<1>2. E!Max(times) \in Times /\ \A w \in Watched : files[w] <= E!Max(times)
  <2> HIDE DEF times
  <2>1. E!Max(times) \in times /\ \A x \in times : x <= E!Max(times)
    BY <1>1, LastTime
  <2>2. \A w \in Watched : files[w] \in times  BY DEF times
  <2> QED  BY <1>1, <2>1, <2>2
<1>3. E!webPathFingerprint = <<E!Max(times), Cardinality(there)>>
  BY SameCardinality DEF E!webPathFingerprint
<1>4. there \in SUBSET Watched  OBVIOUS
<1> HIDE DEF times, there
<1>5. Cardinality(there) \in 0..Cardinality(Watched)
  BY <1>4, OldTypes
<1>6. /\ E!webPathFingerprint[1] \in Times /\ E!webPathFingerprint[2] = Cardinality(there)
      /\ E!webPathFingerprint \in Times \X (0..Cardinality(Watched))
      /\ \A w \in Watched : files[w] <= E!webPathFingerprint[1]
  BY <1>2, <1>3, <1>5
<1> QED  BY <1>6 DEF there

\* A page that nothing is on its way to, and that has missed nothing.
LEMMA PageFollows == PageInv => E!PageIsCurrent
<1> SUFFICES ASSUME PageInv, E!Quiet, ~missed  PROVE shown = E!repository
  BY DEF E!PageIsCurrent
<1>1. /\ files \in [Watched -> Times] /\ last \in Times \X (0..Cardinality(Watched))
      /\ refresh = "none" /\ reading = shown /\ ~E!Contains(queue, "git")
      /\ E!webPathFingerprint = last
  BY DEF PageInv, PageTyped, E!Quiet
<1> DEFINE there == {w \in Watched : files[w] # 0}
<1>2. last[2] = Cardinality(there) /\ \A w \in Watched : files[w] <= last[1]
  BY <1>1, Fingerprint
<1>3. OldFiles = there
  BY <1>1, <1>2 DEF OldFiles, Times
<1>4. Cardinality(there) \in Nat
  <2>1. there \in SUBSET Watched  OBVIOUS
  <2> HIDE DEF there
  <2>2. Cardinality(there) \in 0..Cardinality(Watched) /\ Cardinality(Watched) \in Nat
    BY <2>1, OldTypes
  <2> QED  BY <2>2
<1> HIDE DEF there
<1>5. ~(Cardinality(OldFiles) < last[2])
  BY <1>2, <1>3, <1>4
<1>6. ~\E w \in Watched : files[w] > last[1]
  BY <1>1, <1>2 DEF Times
<1>7. ~Due  BY <1>5, <1>6 DEF Due
<1> QED  BY <1>1, <1>7 DEF PageInv, WillSee, E!repository

\* What changes now is younger than the last poll.
LEMMA NowIsLater ==
  ASSUME PageTyped
  PROVE  E!Now \in Nat /\ last[1] < E!Now
<1> DEFINE times == {files[w] : w \in Watched} \cup {other, last[1], reading[2], shown[2]}
<1>1. times \in SUBSET Times /\ times # {} /\ last[1] \in times
  BY DEF PageTyped, Readings
<1>2. E!Changes = E!Max(times)
  BY DEF E!Changes
<1> HIDE DEF times
<1>3. E!Changes \in Times /\ last[1] <= E!Changes
  <2>1. E!Max(times) \in times /\ \A x \in times : x <= E!Max(times)
    BY <1>1, LastTime
  <2> QED  BY <1>1, <1>2, <2>1
<1>4. Times \subseteq Nat /\ last[1] \in Nat
  <2>1. Times \subseteq Nat  BY WebAssumption DEF Times, WebBounds
  <2> QED  BY <1>1, <2>1
<1> QED  BY <1>3, <1>4 DEF E!Now

\* Old files are lost, and at most one takes the place of another.
LEMMA FewerOld ==
  ASSUME PageInv, last' = last, NEW w \in OldFiles, NEW v \in Watched
  PROVE  /\ OldFiles' \subseteq OldFiles \ {w} => Cardinality(OldFiles') < last[2]
         /\ OldFiles' \subseteq (OldFiles \ {w}) \cup {v} => Cardinality(OldFiles') <= last[2]
<1>1. /\ IsFiniteSet(OldFiles) /\ Cardinality(OldFiles) \in Nat /\ last[2] \in Nat
      /\ Cardinality(OldFiles) <= last[2]
  <2>1. OldFiles \in SUBSET Watched  BY DEF OldFiles
  <2>2. /\ IsFiniteSet(OldFiles) /\ Cardinality(OldFiles) \in 0..Cardinality(Watched)
        /\ Cardinality(Watched) \in Nat
    BY <2>1, OldTypes
  <2> QED  BY <2>2 DEF PageInv, PageTyped
<1>2. IsFiniteSet(OldFiles \ {w}) /\ Cardinality(OldFiles \ {w}) = Cardinality(OldFiles) - 1
  BY <1>1, FS_RemoveElement
<1>3. /\ IsFiniteSet((OldFiles \ {w}) \cup {v})
      /\ Cardinality((OldFiles \ {w}) \cup {v}) <= Cardinality(OldFiles)
  <2>1. /\ IsFiniteSet((OldFiles \ {w}) \cup {v})
        /\ \/ Cardinality((OldFiles \ {w}) \cup {v}) = Cardinality(OldFiles \ {w})
           \/ Cardinality((OldFiles \ {w}) \cup {v}) = Cardinality(OldFiles \ {w}) + 1
    BY <1>2, FS_AddElement
  <2> QED  BY <1>1, <1>2, <2>1
<1>4. ASSUME NEW some, IsFiniteSet(some), OldFiles' \subseteq some
      PROVE  Cardinality(OldFiles') <= Cardinality(some) /\ Cardinality(OldFiles') \in Nat
             /\ Cardinality(some) \in Nat
  BY <1>4, FS_Subset, FS_CardinalityType
<1>5. ASSUME OldFiles' \subseteq OldFiles \ {w}  PROVE Cardinality(OldFiles') < last[2]
  <2>1. Cardinality(OldFiles') <= Cardinality(OldFiles \ {w}) /\ Cardinality(OldFiles') \in Nat
    BY <1>2, <1>4, <1>5
  <2> QED  BY <1>1, <1>2, <2>1
<1>6. ASSUME OldFiles' \subseteq (OldFiles \ {w}) \cup {v}  PROVE Cardinality(OldFiles') <= last[2]
  <2>1. Cardinality(OldFiles') <= Cardinality((OldFiles \ {w}) \cup {v}) /\ Cardinality(OldFiles') \in Nat
        /\ Cardinality((OldFiles \ {w}) \cup {v}) \in Nat
    BY <1>3, <1>4, <1>6
  <2> QED  BY <1>1, <1>3, <2>1
<1> QED  BY <1>5, <1>6

LEMMA NoMoreOld ==
  ASSUME PageInv, last' = last, OldFiles' \subseteq OldFiles
  PROVE  Cardinality(OldFiles') <= last[2]
<1>1. OldFiles \in SUBSET Watched  BY DEF OldFiles
<1>2. /\ IsFiniteSet(OldFiles) /\ Cardinality(OldFiles) \in 0..Cardinality(Watched)
      /\ Cardinality(Watched) \in Nat
  BY <1>1, OldTypes
<1>3. Cardinality(OldFiles') <= Cardinality(OldFiles) /\ Cardinality(OldFiles') \in Nat
  BY <1>2, FS_Subset, FS_CardinalityType
<1>4. last[2] \in Nat
  BY <1>2 DEF PageInv, PageTyped
<1> QED  BY <1>2, <1>3, <1>4 DEF PageInv

\* The repository changes: it is missed, or the next poll will see it.
LEMMA ChangesAreSeen ==
  ASSUME PageInv, E!Change
  PROVE  PageInv'
<1>1. /\ UNCHANGED <<last, greeted, connected, queue, refresh, reading, shown, refused>>
      /\ E!Now <= MaxChanges + 1
  BY DEF E!Change
<1>2. /\ files \in [Watched -> Times] /\ other \in Times /\ missed \in BOOLEAN
      /\ last \in Times \X (0..Cardinality(Watched)) /\ last' = last
      /\ E!Now \in Times /\ last[1] < E!Now /\ MaxChanges \in Nat
  BY <1>1, NowIsLater, WebAssumption DEF PageInv, PageTyped, Times, WebBounds
<1>3. SUFFICES /\ files' \in [Watched -> Times] /\ other' \in Times /\ missed' \in BOOLEAN
               /\ Cardinality(OldFiles') <= last[2]
               /\ ~missed' /\ refresh # "asked" => (~missed /\ <<files, other>>' = <<files, other>>) \/ Due'
  <2>1. PageTyped'
    BY <1>1, <1>3 DEF PageInv, PageTyped
  <2>2. GreetedOnce'
    BY <1>1 DEF PageInv, GreetedOnce, E!Contains
  <2>3. WillSee'
    <3>1. CASE <<files, other>>' = <<files, other>> /\ ~missed
      <4>1. Due' <=> Due
        BY <1>1, <3>1 DEF Due, OldFiles
      <4> QED  BY <1>1, <3>1, <4>1 DEF PageInv, WillSee, E!Contains
    <3>2. CASE ~(<<files, other>>' = <<files, other>> /\ ~missed)
      BY <1>1, <1>3, <3>2 DEF WillSee
    <3> QED  BY <3>1, <3>2
  <2> QED  BY <1>1, <1>3, <2>1, <2>2, <2>3 DEF PageInv
<1>4. CASE E!Unwatched
  <2>1. files' = files /\ other' = E!Now /\ missed' = (refresh' # "asked" /\ (missed \/ TRUE))
    BY <1>4 DEF E!Unwatched, E!Miss
  <2>2. OldFiles' = OldFiles  BY <1>1, <2>1 DEF OldFiles
  <2> QED  BY <1>1, <1>2, <2>1, <2>2 DEF PageInv
<1>5. ASSUME NEW w \in Watched, E!Write(w)
      PROVE  /\ files' \in [Watched -> Times] /\ other' \in Times /\ missed' \in BOOLEAN
             /\ Cardinality(OldFiles') <= last[2]
             /\ ~missed' /\ refresh # "asked" => (~missed /\ <<files, other>>' = <<files, other>>) \/ Due'
  <2>1. files' = [files EXCEPT ![w] = E!Now] /\ other' = other /\ missed' = missed
    BY <1>5 DEF E!Write
  <2>2. OldFiles' \subseteq OldFiles
    BY <1>2, <2>1 DEF OldFiles, Times
  <2>3. Cardinality(OldFiles') <= last[2]
    BY <1>2, <2>2, NoMoreOld
  <2>4. files'[w] > last'[1]
    BY <1>2, <2>1 DEF Times
  <2>5. Due'  BY <2>4 DEF Due
  <2> QED  BY <1>2, <2>1, <2>3, <2>5
<1>6. ASSUME NEW w \in Watched, E!Delete(w)
      PROVE  /\ files' \in [Watched -> Times] /\ other' \in Times /\ missed' \in BOOLEAN
             /\ Cardinality(OldFiles') <= last[2]
             /\ ~missed' /\ refresh # "asked" => (~missed /\ <<files, other>>' = <<files, other>>) \/ Due'
  <2>1. /\ files[w] # 0 /\ files' = [files EXCEPT ![w] = 0] /\ other' = other
        /\ missed' = (refresh' # "asked" /\ (missed \/ files[w] > last[1]))
    BY <1>6 DEF E!Delete, E!Miss
  <2>2. OldFiles' \subseteq OldFiles \ {w}
    BY <1>2, <2>1 DEF OldFiles, Times
  <2>3. files' \in [Watched -> Times]
    BY <1>2, <2>1 DEF Times
  <2>4. CASE files[w] > last[1]
    BY <1>1, <1>2, <2>1, <2>2, <2>3, <2>4, NoMoreOld
  <2>5. CASE ~(files[w] > last[1])
    <3>1. w \in OldFiles
      BY <1>2, <2>1, <2>5 DEF OldFiles, Times
    <3>2. Cardinality(OldFiles') < last[2]
      BY <1>2, <2>2, <3>1, FewerOld
    <3>3. OldFiles' \subseteq OldFiles  BY <2>2
    <3>4. Cardinality(OldFiles') <= last[2]
      BY <1>2, <3>3, NoMoreOld
    <3>5. Due'  BY <1>2, <3>2 DEF Due
    <3> QED  BY <1>2, <2>1, <2>3, <3>4, <3>5
  <2> QED  BY <2>4, <2>5
<1>7. ASSUME NEW w \in Watched, NEW v \in Watched, E!Rename(w, v)
      PROVE  /\ files' \in [Watched -> Times] /\ other' \in Times /\ missed' \in BOOLEAN
             /\ Cardinality(OldFiles') <= last[2]
             /\ ~missed' /\ refresh # "asked" => (~missed /\ <<files, other>>' = <<files, other>>) \/ Due'
  <2>1. /\ w # v /\ files[w] # 0 /\ files' = [files EXCEPT ![v] = files[w], ![w] = 0] /\ other' = other
        /\ missed' = (refresh' # "asked" /\ (missed \/ (files[v] = 0 \/ files[v] > last[1])))
    BY <1>7 DEF E!Rename, E!Miss
  <2>2. files' \in [Watched -> Times] /\ missed' \in BOOLEAN /\ other' \in Times
    BY <1>2, <2>1 DEF Times
  <2>3. /\ files'[v] = files[w] /\ files'[w] = 0
        /\ \A u \in Watched \ {v, w} : files'[u] = files[u]
    BY <1>2, <2>1
  <2>4. CASE files[w] > last[1]
    <3>1. OldFiles' \subseteq OldFiles
      BY <1>2, <2>3, <2>4 DEF OldFiles, Times
    <3>2. Due'
      BY <1>2, <2>3, <2>4 DEF Due
    <3>3. Cardinality(OldFiles') <= last[2]
      BY <1>2, <3>1, NoMoreOld
    <3> QED  BY <2>2, <3>2, <3>3
  <2>5. CASE ~(files[w] > last[1])
    <3>1. w \in OldFiles
      BY <1>2, <2>1, <2>5 DEF OldFiles, Times
    <3>2. OldFiles' \subseteq (OldFiles \ {w}) \cup {v}
      BY <1>2, <2>3 DEF OldFiles, Times
    <3>3. Cardinality(OldFiles') <= last[2]
      BY <1>2, <3>1, <3>2, FewerOld
    <3>4. CASE files[v] = 0 \/ files[v] > last[1]
      BY <1>1, <2>1, <2>2, <3>3, <3>4
    <3>5. CASE ~(files[v] = 0 \/ files[v] > last[1])
      <4>1. v \in OldFiles
        BY <1>2, <3>5 DEF OldFiles, Times
      <4>2. OldFiles' \subseteq OldFiles \ {w}
        BY <2>1, <2>3, <3>2, <4>1 DEF OldFiles
      <4>3. Cardinality(OldFiles') < last[2]
        BY <1>2, <3>1, <4>2, FewerOld
      <4>4. Due'  BY <1>2, <4>3 DEF Due
      <4> QED  BY <2>2, <3>3, <4>4
    <3> QED  BY <3>4, <3>5
  <2> QED  BY <2>4, <2>5
<1>8. \/ E!Unwatched \/ \E w \in Watched : E!Write(w) \/ E!Delete(w) \/ \E v \in Watched : E!Rename(w, v)
  BY DEF E!Change
<1> QED  BY <1>4, <1>5, <1>6, <1>7, <1>8

\* An event is put into the channel, or finds it full.
LEMMA BroadcastTyped ==
  ASSUME PageInv, NEW event \in {"git", "whoami"}, event = "whoami" => ~greeted, E!Broadcast(event)
  PROVE  /\ queue' \in Seq({"git", "whoami"}) /\ Len(queue') <= Capacity /\ (queue' # << >> => connected)
         /\ \A m, n \in 1..Len(queue') : queue'[m] = "whoami" /\ queue'[n] = "whoami" => m = n
         /\ E!Contains(queue', "whoami") => greeted \/ event = "whoami"
         /\ E!Contains(queue, "git") => E!Contains(queue', "git")
         /\ event = "git" /\ connected => E!Contains(queue', "git")
<1>1. /\ queue \in Seq({"git", "whoami"}) /\ Len(queue) <= Capacity /\ (queue # << >> => connected)
      /\ \A m, n \in 1..Len(queue) : queue[m] = "whoami" /\ queue[n] = "whoami" => m = n
      /\ \A m \in 1..Len(queue) : queue[m] = "whoami" => greeted
      /\ Capacity \in Nat /\ Capacity >= 2 /\ Len(queue) \in Nat
  BY WebAssumption DEF PageInv, PageTyped, GreetedOnce, E!Contains, WebBounds
<1>2. CASE connected /\ Len(queue) < Capacity
  <2>1. queue' = Append(queue, event)
    BY <1>2 DEF E!Broadcast
  <2>2. /\ Len(queue') = Len(queue) + 1 /\ queue'[Len(queue) + 1] = event
        /\ \A n \in 1..Len(queue) : queue'[n] = queue[n]
        /\ queue' \in Seq({"git", "whoami"})
    BY <1>1, <2>1
  <2>3. \A n \in 1..Len(queue') : n \in 1..Len(queue) \/ n = Len(queue) + 1
    BY <1>1, <2>2
  <2>4. \A n \in 1..Len(queue') : queue'[n] = "whoami" => greeted \/ event = "whoami"
    BY <1>1, <2>2, <2>3
  <2>5. ASSUME NEW m \in 1..Len(queue'), NEW n \in 1..Len(queue'),
               queue'[m] = "whoami", queue'[n] = "whoami"
        PROVE  m = n
    BY <1>1, <2>2, <2>3, <2>5
  <2>6. E!Contains(queue, "git") => E!Contains(queue', "git")
    BY <1>1, <2>2 DEF E!Contains
  <2>7. event = "git" => E!Contains(queue', "git")
    <3>1. Len(queue) + 1 \in 1..Len(queue')  BY <1>1, <2>2
    <3> QED  BY <2>2, <3>1 DEF E!Contains
  <2>8. Len(queue') <= Capacity
    BY <1>1, <1>2, <2>2
  <2> QED  BY <1>2, <2>2, <2>4, <2>5, <2>6, <2>7, <2>8 DEF E!Contains
<1>3. CASE ~(connected /\ Len(queue) < Capacity)
  <2>1. queue' = queue
    BY <1>3 DEF E!Broadcast
  <2>2. event = "git" /\ connected => E!Contains(queue, "git")
    <3> SUFFICES ASSUME connected  PROVE E!Contains(queue, "git")
      OBVIOUS
    <3>1. 1 \in 1..Len(queue) /\ 2 \in 1..Len(queue)
      BY <1>1, <1>3
    <3>2. queue[1] # "whoami" \/ queue[2] # "whoami"
      BY <1>1, <3>1
    <3>3. queue[1] \in {"git", "whoami"} /\ queue[2] \in {"git", "whoami"}
      BY <1>1, <3>1
    <3> QED  BY <3>1, <3>2, <3>3 DEF E!Contains
  <2> QED  BY <1>1, <2>1, <2>2 DEF E!Contains
<1> QED  BY <1>2, <1>3

LEMMA PollIsSeen ==
  ASSUME PageInv, E!monitorWebPath
  PROVE  PageInv'
<1>1. /\ UNCHANGED <<files, other, greeted, connected, refresh, reading, shown, refused>>
      /\ last' = E!webPathFingerprint /\ E!Broadcast("git")
      /\ missed' = (refresh' # "asked" /\ (missed \/ ~connected))
  BY DEF E!monitorWebPath, E!Miss, E!repository
<1>2. /\ queue' \in Seq({"git", "whoami"}) /\ Len(queue') <= Capacity /\ (queue' # << >> => connected)
      /\ \A m, n \in 1..Len(queue') : queue'[m] = "whoami" /\ queue'[n] = "whoami" => m = n
      /\ E!Contains(queue', "whoami") => greeted
      /\ connected => E!Contains(queue', "git")
  BY <1>1, BroadcastTyped
<1>3. files \in [Watched -> Times] /\ missed \in BOOLEAN
  BY DEF PageInv, PageTyped
<1> DEFINE there == {w \in Watched : files[w] # 0}
<1>4. /\ last' \in Times \X (0..Cardinality(Watched)) /\ last'[2] = Cardinality(there)
      /\ \A w \in Watched : files[w] <= last'[1]
  BY <1>1, <1>3, Fingerprint
<1>5. OldFiles' = there
  BY <1>1, <1>3, <1>4 DEF OldFiles, Times
<1>6. Cardinality(there) <= Cardinality(there)
  <2>1. there \in SUBSET Watched  OBVIOUS
  <2> HIDE DEF there
  <2>2. Cardinality(there) \in 0..Cardinality(Watched) /\ Cardinality(Watched) \in Nat
    BY <2>1, OldTypes
  <2> QED  BY <2>2
<1> HIDE DEF there
<1>7. PageTyped'
  BY <1>1, <1>2, <1>3, <1>4 DEF PageInv, PageTyped
<1>8. GreetedOnce'
  BY <1>1, <1>2 DEF GreetedOnce, E!Contains
<1>9. WillSee'
  BY <1>1, <1>2 DEF WillSee, E!Contains
<1>10. Cardinality(OldFiles') <= last'[2]
  BY <1>4, <1>5, <1>6
<1> QED  BY <1>1, <1>7, <1>8, <1>9, <1>10 DEF PageInv

\* Steps that leave the repository and the fingerprint alone.
LEMMA PageKept ==
  ASSUME PageInv, UNCHANGED <<files, other, last>>, PageTyped', GreetedOnce',
         refresh' = "none" => reading' = shown',
         ~missed' /\ refresh' # "asked" =>
           \/ reading' = <<files, other>>
           \/ /\ ~missed /\ refresh # "asked" /\ reading' = reading
              /\ E!Contains(queue, "git") => E!Contains(queue', "git")
  PROVE  PageInv'
<1>1. OldFiles' = OldFiles
  BY DEF OldFiles
<1>2. Due' <=> Due
  BY <1>1 DEF Due
<1>3. WillSee'
  BY <1>2 DEF PageInv, WillSee, E!Contains
<1> QED  BY <1>1, <1>3 DEF PageInv

LEMMA EventIsTaken ==
  ASSUME PageInv, E!connectBgitEvents
  PROVE  PageInv'
<1>1. /\ queue # << >> /\ queue' = Tail(queue)
      /\ UNCHANGED <<files, other, last, greeted, connected, reading, shown, refused>>
      /\ \/ /\ Head(queue) = "git" /\ refresh' = (IF refresh = "none" THEN "asked" ELSE refresh)
            /\ missed' = (refresh' # "asked" /\ (missed \/ refresh = "read"))
         \/ Head(queue) # "git" /\ UNCHANGED <<refresh, missed>>
  BY DEF E!connectBgitEvents, E!repository, E!refreshRemoteState, E!Miss
<1>2. /\ queue \in Seq({"git", "whoami"}) /\ Len(queue) <= Capacity /\ (queue # << >> => connected)
      /\ \A m, n \in 1..Len(queue) : queue[m] = "whoami" /\ queue[n] = "whoami" => m = n
      /\ \A m \in 1..Len(queue) : queue[m] = "whoami" => greeted
      /\ Capacity \in Nat /\ Len(queue) \in Nat /\ refresh \in {"none", "asked", "read"}
      /\ missed \in BOOLEAN
  BY WebAssumption DEF PageInv, PageTyped, GreetedOnce, E!Contains, WebBounds
<1>3. /\ Len(queue) >= 1 /\ queue' \in Seq({"git", "whoami"}) /\ Len(queue') = Len(queue) - 1
      /\ \A n \in 1..Len(queue') : queue'[n] = queue[n + 1]
      /\ Head(queue) = queue[1]
  BY <1>1, <1>2, EmptySeq, HeadTailProperties
<1>4. \A n \in 1..Len(queue') : n + 1 \in 1..Len(queue)
  BY <1>2, <1>3
<1>5. PageTyped'
  <2>1. missed' \in BOOLEAN  BY <1>1, <1>2
  <2>2. refresh' \in {"none", "asked", "read"}  BY <1>1, <1>2
  <2>3. Len(queue') <= Capacity /\ connected  BY <1>1, <1>2, <1>3
  <2> QED  BY <1>1, <1>3, <2>1, <2>2, <2>3 DEF PageInv, PageTyped
<1>6. GreetedOnce'
  <2>1. ASSUME NEW m \in 1..Len(queue'), NEW n \in 1..Len(queue'),
               queue'[m] = "whoami", queue'[n] = "whoami"
        PROVE  m = n
    <3>1. m + 1 = n + 1  BY <1>2, <1>3, <1>4, <2>1
    <3> QED  BY <1>2, <1>3, <3>1
  <2>2. \A n \in 1..Len(queue') : queue'[n] = "whoami" => greeted'
    BY <1>1, <1>2, <1>3, <1>4
  <2> QED  BY <2>1, <2>2 DEF GreetedOnce, E!Contains
<1>7. Head(queue) # "git" /\ E!Contains(queue, "git") => E!Contains(queue', "git")
  <2> SUFFICES ASSUME NEW n \in 1..Len(queue), queue[n] = "git", Head(queue) # "git"
               PROVE  \E m \in 1..Len(queue') : queue'[m] = "git"
    BY DEF E!Contains
  <2>1. n # 1 /\ n - 1 \in 1..Len(queue')
    BY <1>2, <1>3
  <2>2. queue'[n - 1] = queue[n]
    BY <1>3, <2>1
  <2> QED  BY <2>1, <2>2
<1>8. refresh' = "none" => refresh = "none" /\ Head(queue) # "git"
  BY <1>1
<1> QED  BY <1>1, <1>2, <1>5, <1>6, <1>7, <1>8, PageKept DEF PageInv

LEMMA PageStep == PageInv /\ [E!Next]_E!vars => PageInv'
<1> SUFFICES ASSUME PageInv, [E!Next]_E!vars  PROVE PageInv'
  OBVIOUS
<1>1. PageTyped /\ GreetedOnce /\ (refresh = "none" => reading = shown)
  BY DEF PageInv
<1>2. CASE UNCHANGED E!vars
  <2>1. PageTyped' /\ GreetedOnce' /\ UNCHANGED <<files, other, last, queue, refresh, reading, shown, missed>>
    BY <1>1, <1>2 DEF E!vars, PageTyped, GreetedOnce, E!Contains
  <2> QED  BY <1>1, <2>1, PageKept
<1>3. CASE E!refreshWhoamiForWeb
  <2>1. /\ ~greeted /\ greeted' /\ E!Broadcast("whoami")
        /\ UNCHANGED <<files, other, last, connected, refresh, reading, shown, refused, missed>>
    BY <1>3 DEF E!refreshWhoamiForWeb, E!repository
  <2>2. /\ queue' \in Seq({"git", "whoami"}) /\ Len(queue') <= Capacity /\ (queue' # << >> => connected)
        /\ \A m, n \in 1..Len(queue') : queue'[m] = "whoami" /\ queue'[n] = "whoami" => m = n
        /\ E!Contains(queue, "git") => E!Contains(queue', "git")
    BY <2>1, BroadcastTyped
  <2>3. greeted' \in BOOLEAN  BY <1>3 DEF E!refreshWhoamiForWeb
  <2>4. PageTyped'
    BY <1>1, <2>1, <2>2, <2>3 DEF PageTyped
  <2>5. GreetedOnce'
    BY <2>1, <2>2 DEF GreetedOnce
  <2> QED  BY <1>1, <2>1, <2>2, <2>4, <2>5, PageKept
<1>4. CASE E!Read
  <2>1. /\ refresh' = "read" /\ reading' = <<files, other>> /\ missed' = FALSE
        /\ UNCHANGED <<files, other, last, greeted, connected, queue, shown, refused>>
    BY <1>4 DEF E!Read, E!repository
  <2>2. PageTyped'
    BY <1>1, <2>1 DEF PageTyped, Readings
  <2>3. GreetedOnce'
    BY <1>1, <2>1 DEF GreetedOnce, E!Contains
  <2> QED  BY <2>1, <2>2, <2>3, PageKept
<1>5. CASE E!handleEvents
  <2>1. /\ connected' = TRUE
        /\ UNCHANGED <<files, other, last, greeted, queue, refresh, reading, shown, refused, missed>>
    BY <1>5 DEF E!handleEvents, E!repository
  <2>2. PageTyped'
    BY <1>1, <2>1 DEF PageTyped
  <2>3. GreetedOnce'
    BY <1>1, <2>1 DEF GreetedOnce, E!Contains
  <2> QED  BY <1>1, <2>1, <2>2, <2>3, PageKept
<1>6. CASE E!Unsubscribe
  <2>1. /\ connected' = FALSE /\ queue' = << >> /\ refused < MaxRefused /\ refused' = refused + 1
        /\ UNCHANGED <<files, other, last, greeted, refresh, reading, shown>>
        /\ missed' = (refresh' # "asked" /\ (missed \/ E!Contains(queue, "git")))
    BY <1>6 DEF E!Unsubscribe, E!repository, E!Miss
  <2>2. PageTyped'
    <3>1. missed' \in BOOLEAN  BY <2>1
    <3>2. Len(queue') <= Capacity /\ queue' \in Seq({"git", "whoami"})
      BY <2>1, WebAssumption DEF WebBounds
    <3>3. refused' \in 0..MaxRefused
      BY <1>1, <2>1, WebAssumption DEF PageTyped, WebBounds
    <3> QED  BY <1>1, <2>1, <3>1, <3>2, <3>3 DEF PageTyped
  <2>3. GreetedOnce'
    BY <2>1 DEF GreetedOnce, E!Contains
  <2> QED  BY <1>1, <2>1, <2>2, <2>3, PageKept
<1>7. CASE E!Interval
  <2>1. /\ refresh' = "asked" /\ missed' = FALSE
        /\ UNCHANGED <<files, other, last, greeted, connected, queue, reading, shown, refused>>
    BY <1>7 DEF E!Interval, E!refreshRemoteState, E!repository, E!Miss
  <2>2. PageTyped'
    BY <1>1, <2>1 DEF PageTyped
  <2>3. GreetedOnce'
    BY <1>1, <2>1 DEF GreetedOnce, E!Contains
  <2> QED  BY <2>1, <2>2, <2>3, PageKept
<1>8. CASE E!applyRepositoryState
  <2>1. /\ refresh = "read" /\ refresh' = "none" /\ shown' = reading
        /\ UNCHANGED <<files, other, last, greeted, connected, queue, reading, refused, missed>>
    BY <1>8 DEF E!applyRepositoryState, E!repository
  <2>2. PageTyped'
    BY <1>1, <2>1 DEF PageTyped
  <2>3. GreetedOnce'
    BY <1>1, <2>1 DEF GreetedOnce, E!Contains
  <2> QED  BY <2>1, <2>2, <2>3, PageKept
<1>9. CASE E!Fail
  <2>1. /\ refresh' = "none" /\ refused < MaxRefused /\ refused' = refused + 1
        /\ missed' = TRUE /\ reading' = shown
        /\ UNCHANGED <<files, other, last, greeted, connected, queue, shown>>
    BY <1>9 DEF E!Fail, E!repository
  <2>2. PageTyped'
    BY <1>1, <2>1, WebAssumption DEF PageTyped, WebBounds
  <2>3. GreetedOnce'
    BY <1>1, <2>1 DEF GreetedOnce, E!Contains
  <2> QED  BY <2>1, <2>2, <2>3, PageKept
<1> QED  BY <1>2, <1>3, <1>4, <1>5, <1>6, <1>7, <1>8, <1>9, ChangesAreSeen, PollIsSeen, EventIsTaken
         DEF E!Next

LEMMA PageStarts == E!Init => PageInv
<1> SUFFICES ASSUME E!Init  PROVE PageInv
  OBVIOUS
<1>1. 0 \in Times /\ 1 \in Times /\ MaxRefused \in Nat /\ Capacity \in Nat
  BY WebAssumption DEF WebBounds, Times
<1>2. files \in [Watched -> Times] /\ other \in Times /\ last = E!webPathFingerprint
  BY <1>1 DEF E!Init
<1> DEFINE there == {w \in Watched : files[w] # 0}
<1>3. /\ last \in Times \X (0..Cardinality(Watched)) /\ last[2] = Cardinality(there)
      /\ \A w \in Watched : files[w] <= last[1]
  BY <1>2, Fingerprint
<1>4. OldFiles = there
  BY <1>2, <1>3 DEF OldFiles, Times
<1>5. Cardinality(there) <= Cardinality(there)
  <2>1. there \in SUBSET Watched  OBVIOUS
  <2> HIDE DEF there
  <2>2. Cardinality(there) \in 0..Cardinality(Watched) /\ Cardinality(Watched) \in Nat
    BY <2>1, OldTypes
  <2> QED  BY <2>2
<1> HIDE DEF there
<1>6. PageTyped
  <2>1. reading \in Readings /\ shown \in Readings
    BY <1>2 DEF E!Init, E!repository, Readings
  <2>2. queue \in Seq({"git", "whoami"}) /\ Len(queue) <= Capacity /\ queue = << >>
    BY <1>1 DEF E!Init
  <2>3. /\ greeted \in BOOLEAN /\ connected \in BOOLEAN /\ missed \in BOOLEAN
        /\ refresh \in {"none", "asked", "read"} /\ refused \in 0..MaxRefused
    <3>1. greeted = FALSE /\ connected = FALSE /\ missed = FALSE /\ refresh = "asked" /\ refused = 0
      BY Zenon DEF E!Init
    <3>2. refused \in 0..MaxRefused  BY <1>1, <3>1
    <3> QED  BY <3>1, <3>2
  <2> QED  BY <1>1, <1>2, <1>3, <2>1, <2>2, <2>3 DEF PageTyped
<1>7. GreetedOnce
  BY DEF E!Init, GreetedOnce, E!Contains
<1>8. WillSee /\ (refresh = "none" => reading = shown)
  BY DEF E!Init, WillSee
<1>9. Cardinality(OldFiles) <= last[2]
  BY <1>3, <1>4, <1>5
<1> QED  BY <1>6, <1>7, <1>8, <1>9 DEF PageInv

(***************************************************************************)
(* The parts together. Pages and caches start as their modules say in      *)
(* every part that is explored; histories only where they are the part.    *)
(***************************************************************************)
WebInv == CacheInv /\ PageInv /\ (part = "history" => HistoryInv)

LEMMA WebStarts == ToolsInit => WebInv
<1> SUFFICES ASSUME ToolsInit  PROVE WebInv
  OBVIOUS
<1>1. C!Init /\ E!Init /\ (part = "history" => H!Init)
  BY DEF ToolsInit
<1> QED  BY <1>1, CacheStarts, PageStarts, HistoryStarts DEF WebInv

\* A step of the tools is one of each of these three parts, or leaves it alone.
LEMMA WebSteps ==
  [ToolsNext]_ToolsVars =>
    /\ [C!Next]_C!vars /\ [E!Next]_E!vars /\ part' = part
    /\ part = "history" => [H!Next]_H!vars
<1> DEFINE CacheStays == UNCHANGED cacheVars
           PageStays == UNCHANGED pageVars
           HistoryStays == UNCHANGED historyVars
<1> SUFFICES ASSUME [ToolsNext]_ToolsVars
             PROVE  /\ part' = part
                    /\ CacheStays \/ C!Next
                    /\ PageStays \/ E!Next
                    /\ part # "history" \/ HistoryStays \/ H!Next
  <2>1. CacheStays => UNCHANGED C!vars  BY DEF cacheVars, C!vars, C!brokerVars
  <2>2. PageStays => UNCHANGED E!vars  BY DEF pageVars, E!vars
  <2>3. HistoryStays => UNCHANGED H!vars  BY DEF historyVars, H!vars, H!input
  <2> QED  BY <2>1, <2>2, <2>3
<1> HIDE DEF CacheStays, PageStays, HistoryStays
<1>1. CASE UNCHANGED ToolsVars
  <2>1. part' = part /\ CacheStays /\ PageStays /\ HistoryStays
    BY <1>1, Zenon DEF ToolsVars, CacheStays, PageStays, HistoryStays
  <2> QED  BY <2>1
<1>2. CASE part = "cache" /\ C!Next /\ UNCHANGED <<part, historyVars, pageVars>>
  BY <1>2, Zenon DEF PageStays, HistoryStays
<1>3. CASE part = "history" /\ H!Next /\ UNCHANGED <<part, cacheVars, pageVars>>
  BY <1>3, Zenon DEF CacheStays, PageStays
<1>4. CASE part = "page" /\ E!Next /\ UNCHANGED <<part, cacheVars, historyVars>>
  BY <1>4, Zenon DEF CacheStays, HistoryStays
<1>5. CASE UNCHANGED <<part, cacheVars, historyVars, pageVars>>
  BY <1>5, Zenon DEF CacheStays, PageStays, HistoryStays
<1> QED  BY <1>1, <1>2, <1>3, <1>4, <1>5 DEF ToolsNext

LEMMA WebKept == WebInv /\ [ToolsNext]_ToolsVars => WebInv'
<1> SUFFICES ASSUME WebInv, [ToolsNext]_ToolsVars  PROVE WebInv'
  OBVIOUS
<1>1. CacheInv' /\ PageInv'
  BY WebSteps, CacheStep, PageStep DEF WebInv
<1>2. (part = "history" => HistoryInv)'
  BY WebSteps, HistoryStep DEF WebInv
<1> QED  BY <1>1, <1>2 DEF WebInv

\* One refresh that nothing disturbs makes a cache of pull requests or of settings what the
\* broker has; the commits of a pull request are those that its target lacks, and it is judged
\* from a commit both sides reach, the last one on a line; and a connected page that no event
\* is on its way to shows the repository: for any number of requests at once, any acyclic
\* history, any files the monitor watches and any channel of two events or more
\* (refreshPullRequestCache, settingsInfo, mergeBase, commitRange, monitorWebPath in web.go).
THEOREM WebIsRight == ToolsSpec => WebHolds
<1>1. WebInv => C!TypeOK /\ (part = "page" => E!TypeOK /\ E!PageIsCurrent)
  BY PageTypes, PageFollows DEF WebInv, CacheInv, CacheTyped, PageInv
<1>2. WebInv /\ part = "history" =>
        H!TypeOK /\ H!RangeIsDifference /\ H!BaseIsCommon /\ H!LinearBaseIsLast
  BY HistoryShows DEF WebInv
<1>3. WebInv /\ [ToolsNext]_ToolsVars => [Repairs]_C!vars
  BY WebSteps, CacheRepairs DEF WebInv
<1>4. C!RefreshRepairs <=> [][Repairs]_C!vars
  BY DEF C!RefreshRepairs, Repairs
<1>5. ToolsSpec => []WebInv
  BY WebStarts, WebKept, PTL DEF ToolsSpec
<1>6. ToolsSpec => [](part = "cache" => C!TypeOK)
  BY <1>1, <1>5, PTL
<1>7. ToolsSpec =>
        [](part = "history" => H!TypeOK /\ H!RangeIsDifference /\ H!BaseIsCommon /\ H!LinearBaseIsLast)
  BY <1>2, <1>5, PTL
<1>8. ToolsSpec => [](part = "page" => E!TypeOK /\ E!PageIsCurrent)
  BY <1>1, <1>5, PTL
<1>9. ToolsSpec => [][Repairs]_C!vars
  BY <1>3, <1>5, PTL DEF ToolsSpec
<1> QED  BY <1>4, <1>6, <1>7, <1>8, <1>9 DEF WebHolds
=============================================================================
