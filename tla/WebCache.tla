------------------------------ MODULE WebCache ------------------------------
(***************************************************************************)
(* What the local web server (web.go) keeps of a broker in two files under *)
(* .git/bucketgit/cache: the pull requests, by number, each with the       *)
(* version the broker gave it, and the settings, which it asks for in      *)
(* parts. Every request of the browser runs in a goroutine of its own: it  *)
(* reads a file, talks to the broker and writes the file, and nothing      *)
(* excludes the others.                                                    *)
(*                                                                         *)
(* No version is given twice (bumpPRVersion adds random bytes).            *)
(* os.WriteFile truncates before it writes, so a file may be empty or hold *)
(* the text of two.                                                        *)
(*                                                                         *)
(* The two files have nothing to do with each other: a behaviour is about  *)
(* one of them.                                                            *)
(***************************************************************************)
EXTENDS Naturals

CONSTANTS
  Handler,         \* requests of the browser that are in flight
  Id,              \* numbers of pull requests
  Part,            \* what settingsInfo asks the broker for, one request each
  MaxVersion,      \* bound: versions the broker gives
  NoFile, Mixed    \* a file that is missing or empty, and one that two have written

Absent == 0                                      \* no record, or nothing known of a part
Listing == [Id -> 0..MaxVersion]
Settings == [Part -> 0..MaxVersion]
Empty == [i \in Id |-> Absent]
Unknown == [p \in Part |-> Absent]

VARIABLES
  about,      \* "prs" or "settings"
  prs,        \* the broker's pull requests
  given,      \* versions given so far
  syncs,      \* the broker knows /prs/sync
  settings,   \* the broker's settings
  file,       \* prs.json
  stored,     \* settings.json
  pc,         \* what each request does next
  base,       \* the pull requests a refresh has read from the cache
  got,        \* what a request will write
  asked,      \* the parts a request has asked for
  alone       \* the refresh that nothing has disturbed since it began

brokerVars == <<about, prs, given, syncs, settings>>
vars == <<brokerVars, file, stored, pc, base, got, asked, alone>>

States == {"idle", "upsert", "sync", "write", "finish", "ask", "save", "saved"}

TypeOK ==
  /\ about \in {"prs", "settings"} /\ prs \in Listing /\ given \in 0..MaxVersion /\ syncs \in BOOLEAN /\ settings \in Settings
  /\ file \in Listing \cup {NoFile, Mixed} /\ stored \in Settings \cup {NoFile, Mixed}
  /\ pc \in [Handler -> States] /\ base \in [Handler -> Listing]
  /\ got \in [Handler -> Listing \cup Settings] /\ asked \in [Handler -> SUBSET Part]
  /\ alone \subseteq Handler

Init ==
  /\ about \in {"prs", "settings"} /\ syncs \in BOOLEAN
  /\ prs = Empty /\ given = 0 /\ settings = Unknown
  /\ file = NoFile /\ stored = NoFile
  /\ pc = [h \in Handler |-> "idle"]
  /\ base = [h \in Handler |-> Empty] /\ got = base /\ asked = [h \in Handler |-> {}]
  /\ alone = {}

\* A request takes a step; the refresh of another is no longer alone.
Step(h, from, to) ==
  pc[h] = from /\ pc' = [pc EXCEPT ![h] = to] /\ alone' = IF to = "idle" THEN {} ELSE alone \cap {h}
Put(h, value) == got' = [got EXCEPT ![h] = value]

(***************************************************************************)
(* The broker: a pull request is created, with the next number, or         *)
(* changed; the repository is deleted and created again; its settings      *)
(* change.                                                                 *)
(***************************************************************************)
Fresh == given + 1
bumpPRVersion(i) ==
  /\ given < MaxVersion /\ (prs[i] = Absent => \A j \in Id : j < i => prs[j] # Absent)
  /\ given' = Fresh /\ prs' = [prs EXCEPT ![i] = Fresh] /\ UNCHANGED <<syncs, settings>>

Elsewhere ==
  /\ \/ about = "prs" /\ \E i \in Id : bumpPRVersion(i)
     \/ prs # Empty /\ prs' = Empty /\ UNCHANGED <<given, syncs, settings>>
     \/ \E p \in Part : /\ about = "settings" /\ given < MaxVersion /\ given' = Fresh
                        /\ settings' = [settings EXCEPT ![p] = Fresh] /\ UNCHANGED <<prs, syncs>>
  /\ alone' = {} /\ UNCHANGED <<about, file, stored, pc, base, got, asked>>

\* syncPRRecords: the records whose version the caller does not know, and the numbers it
\* knows that are gone.
syncPRRecords(known) ==
  [prs |-> {i \in Id : prs[i] \notin {Absent, known[i]}},
   deleted |-> {i \in Id : known[i] # Absent /\ prs[i] = Absent}]
listPRs == [prs |-> {i \in Id : prs[i] # Absent}, deleted |-> {}]

(***************************************************************************)
(* The cache of pull requests                                              *)
(***************************************************************************)
\* A file that is missing or cannot be decoded counts as one without records.
readPullRequestCache == IF file \in {NoFile, Mixed} THEN Empty ELSE file

\* An action on a pull request: the broker answers with the record it has made ...
handleAPIActionPullRequest(h, i) ==
  /\ about = "prs" /\ Step(h, "idle", "upsert") /\ bumpPRVersion(i)
  /\ Put(h, [Empty EXCEPT ![i] = Fresh])
  /\ UNCHANGED <<about, file, stored, base, asked>>

\* ... which replaces the one of its number in what the cache holds by then.
upsertPullRequestCache(h) ==
  /\ Step(h, "upsert", "write")
  /\ Put(h, [i \in Id |-> IF got[h][i] # Absent THEN got[h][i] ELSE readPullRequestCache[i]])
  /\ UNCHANGED <<brokerVars, file, stored, base, asked>>

\* A listing, or a pull request that the cache lacks, is asked of the broker.
refreshPullRequestCache(h) ==
  /\ about = "prs" /\ pc[h] = "idle" /\ pc' = [pc EXCEPT ![h] = "sync"] /\ alone' = {h}
  /\ base' = [base EXCEPT ![h] = readPullRequestCache]
  /\ UNCHANGED <<brokerVars, file, stored, got, asked>>

\* Mutated: what the broker has deleted stays in the cache.
mergePullRequestCache_Kept(cached, answer) ==
  [i \in Id |-> IF i \in answer.prs THEN prs[i] ELSE cached[i]]

mergePullRequestCache(cached, answer) ==
  [i \in Id |-> IF i \in answer.prs THEN prs[i]
                ELSE IF i \in answer.deleted THEN Absent ELSE cached[i]]

\* The answer goes into the cache as it was before the request.
Merge(h) ==
  /\ Step(h, "sync", "write")
  /\ Put(h, mergePullRequestCache(base[h], IF syncs THEN syncPRRecords(base[h]) ELSE listPRs))
  /\ base' = [base EXCEPT ![h] = Empty] /\ UNCHANGED <<brokerVars, file, stored, asked>>

\* The request fails, and the browser gets what the cache holds.
Fail(h) ==
  /\ Step(h, "sync", "idle") /\ base' = [base EXCEPT ![h] = Empty]
  /\ UNCHANGED <<brokerVars, file, stored, got, asked>>

\* writePullRequestCache: the file stays when it is the same to the byte, its time included.
Keep(h) ==
  /\ file = got[h] /\ Step(h, "write", "idle") /\ Put(h, Empty)
  /\ UNCHANGED <<brokerVars, file, stored, base, asked>>
Truncate(h) ==
  /\ Step(h, "write", "finish") /\ file' = NoFile
  /\ UNCHANGED <<brokerVars, stored, base, got, asked>>
\* What another has written since is overwritten from its start, and its end may remain.
Finish(h) ==
  /\ Step(h, "finish", "idle")
  /\ file' \in {got[h]} \cup (IF file = NoFile THEN {} ELSE {Mixed})
  /\ Put(h, Empty) /\ UNCHANGED <<brokerVars, stored, base, asked>>

(***************************************************************************)
(* The cache of settings: settingsInfo asks for one part after the other   *)
(* and leaves out what it does not get; whatever it has then replaces the  *)
(* file.                                                                   *)
(***************************************************************************)
cachedSettingsInfo(h) ==
  /\ about = "settings" /\ pc[h] = "idle" /\ pc' = [pc EXCEPT ![h] = "ask"] /\ alone' = {h}
  /\ Put(h, Unknown) /\ UNCHANGED <<brokerVars, file, stored, base, asked>>

settingsInfo(h, p) ==
  /\ p \notin asked[h] /\ asked' = [asked EXCEPT ![h] = @ \cup {p}]
  /\ Step(h, "ask", IF asked'[h] = Part THEN "save" ELSE "ask")
  /\ UNCHANGED <<brokerVars, file, stored, base>>
  /\ Put(h, [got[h] EXCEPT ![p] = settings[p]])

PartFails(h, p) ==
  /\ p \notin asked[h] /\ asked' = [asked EXCEPT ![h] = @ \cup {p}]
  /\ pc[h] = "ask" /\ pc' = [pc EXCEPT ![h] = IF asked'[h] = Part THEN "save" ELSE "ask"]
  /\ alone' = {} /\ UNCHANGED <<brokerVars, file, stored, base, got>>

writeSettingsCache(h) ==
  \/ /\ stored = got[h] /\ Step(h, "save", "idle") /\ Put(h, Empty)
     /\ asked' = [asked EXCEPT ![h] = {}] /\ UNCHANGED <<brokerVars, file, stored, base>>
  \/ /\ Step(h, "save", "saved") /\ stored' = NoFile
     /\ UNCHANGED <<brokerVars, file, base, got, asked>>
  \/ /\ Step(h, "saved", "idle")
     /\ stored' \in {got[h]} \cup (IF stored = NoFile THEN {} ELSE {Mixed})
     /\ Put(h, Empty) /\ asked' = [asked EXCEPT ![h] = {}]
     /\ UNCHANGED <<brokerVars, file, base>>

Next ==
  \/ Elsewhere
  \/ \E h \in Handler :
       \/ \E i \in Id : handleAPIActionPullRequest(h, i)
       \/ upsertPullRequestCache(h)
       \/ refreshPullRequestCache(h) \/ Merge(h) \/ Fail(h)
       \/ Keep(h) \/ Truncate(h) \/ Finish(h)
       \/ cachedSettingsInfo(h) \/ (\E p \in Part : settingsInfo(h, p) \/ PartFails(h, p))
       \/ writeSettingsCache(h)

Spec == Init /\ [][Next]_vars

(***************************************************************************)
(* Properties                                                              *)
(***************************************************************************)
\* Whatever lost updates, old answers and mixed writes have left in a cache, one refresh that
\* nothing disturbs makes it what the broker has; of the pull requests only where the broker
\* answers /prs/sync, since a plain listing says nothing of those that are gone.
RefreshRepairs ==
  [][\A h \in Handler : h \in alone /\ pc'[h] = "idle" /\ pc[h] # "sync" =>
       IF pc[h] \in {"save", "saved"} THEN stored' = settings ELSE syncs => file' = prs]_vars
=============================================================================
