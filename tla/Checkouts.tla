------------------------------ MODULE Checkouts ------------------------------
(***************************************************************************)
(* "bgit init" and "bgit clone" (broker_commands.go): a work tree is tied  *)
(* to a repository of a broker by the keys of its Git config. With the     *)
(* local broker, which runs inside the command, they write the global      *)
(* config, import the owner, and create the repository unless it is there; *)
(* a cloud broker must have it. Several commands may run at the same time, *)
(* each may stop anywhere, and they share the files of the local broker    *)
(* without its mutex, which is one of a process.                           *)
(*                                                                         *)
(* One logical name. Choosing profile, team and name is left out           *)
(* (ProfileDialogs), and a list of the broker is read and replaced at once *)
(* (Admin has the retries).                                                *)
(***************************************************************************)
EXTENDS FiniteSets, Naturals

CONSTANTS
  Process,       \* commands that run at the same time
  Dir,           \* directories of work trees
  File, Bucket,  \* where a repository can be kept: below the broker's directory, in buckets
  None,
  MaxStarts      \* bound: commands that are started

Storage == {File} \cup Bucket

VARIABLES
  records,   \* where there is a repo.json for the name
  index,     \* where repos.json says that it is
  hosted,    \* the cloud broker has a repository of the name
  global,    \* the global config: profiles that it has, "local" or of a bucket
  tree,      \* the directories
  pc, me,    \* what each command does next, and its variables
  starts,
  \* History: a creation was interrupted or overlapped another; the repositories that were
  \* tied to a directory, and whether the last command for it ended well.
  torn, tied, done

vars == <<records, index, hosted, global, tree, pc, me, starts, torn, tied, done>>

\* A directory: the broker that its config names, the bucket, the keys that say how to reach
\* a bucket without a cloud broker, the remote, and the files of the branch.
Tree == [git : BOOLEAN, broker : {None, "local", "cloud"}, bucket : Storage \cup {None},
         storage : Bucket \cup {None}, origin : BOOLEAN, files : BOOLEAN]
NoTree == [git |-> FALSE, broker |-> None, bucket |-> None, storage |-> None, origin |-> FALSE, files |-> FALSE]

\* A command: its directory, the storage asked for (None: whichever there is), the broker, and
\* the global config that it has read; then what the broker has answered.
CommandLine == [clone : BOOLEAN, dir : Dir, want : Storage \cup {None}, broker : {"local", "cloud"},
            config : SUBSET ({"local"} \cup Bucket), repo : Storage \cup {None}]

Places == {"idle", "global", "identity", "import", "create", "record", "index", "get", "require",
           "vacant", "git", "broker", "bucket", "storage", "origin", "fetch"}

TypeOK ==
  /\ records \subseteq Storage /\ index \in Storage \cup {None} /\ hosted \in BOOLEAN
  /\ global \subseteq {"local"} \cup Bucket /\ tree \in [Dir -> Tree]
  /\ pc \in [Process -> Places] /\ me \in [Process -> CommandLine \cup {None}]
  /\ \A p \in Process : me[p] = None <=> pc[p] = "idle"
  /\ starts \in 0..MaxStarts /\ torn \in BOOLEAN
  /\ tied \in [Dir -> SUBSET (Storage \cup {"cloud"})] /\ done \in [Dir -> BOOLEAN]

Init ==
  /\ records = {} /\ index = None /\ hosted \in BOOLEAN /\ global = {}
  /\ tree = [d \in Dir |-> NoTree]
  /\ pc = [p \in Process |-> "idle"] /\ me = [p \in Process |-> None] /\ starts = 0
  /\ torn = FALSE /\ tied = [d \in Dir |-> {}] /\ done = [d \in Dir |-> FALSE]

Goto(p, l) == pc' = [pc EXCEPT ![p] = l]
Broker == <<records, index, hosted, torn>>
Trees == <<tree, tied, done>>

\* brokerInitCommand, brokerCloneCommand: the global config is read first.
Start(p, clone, d, want, broker) ==
  /\ pc[p] = "idle" /\ starts < MaxStarts /\ starts' = starts + 1
  /\ IF broker = "cloud" THEN want = None ELSE want = None => clone
  /\ me' = [me EXCEPT ![p] = [clone |-> clone, dir |-> d, want |-> want, broker |-> broker,
                              config |-> global, repo |-> None]]
  /\ Goto(p, IF broker = "local" THEN "global" ELSE IF clone THEN "vacant" ELSE "require")
  /\ UNCHANGED <<Broker, global, Trees>>

\* The command ends, well or with an error.
End(p, d, well) ==
  /\ Goto(p, "idle") /\ me' = [me EXCEPT ![p] = None]
  /\ done' = IF pc[p] \in {"broker", "bucket", "storage", "origin", "fetch"}
             THEN [done EXCEPT ![d] = well] ELSE done

Fail(p) ==
  /\ pc[p] # "idle" /\ End(p, me[p].dir, FALSE)
  /\ torn' = (torn \/ pc[p] = "index")
  /\ UNCHANGED <<records, index, hosted, global, tree, tied, starts>>

(***************************************************************************)
(* The local broker: brokerInitWithLocalProfile,                           *)
(* brokerCloneWithEphemeralLocalBroker and brokerCloneWithLocalProfile.    *)
(***************************************************************************)
writeGlobalConfig(p, config, to) ==
  /\ global' = config /\ Goto(p, to) /\ UNCHANGED <<Broker, Trees, me, starts>>

ensureManagedLocalBroker(p) ==
  /\ pc[p] = "global"
  /\ writeGlobalConfig(p, me[p].config \cup {"local"},
                       CASE me[p].want = None -> "get"
                         [] me[p].want = File -> "create"
                         [] OTHER -> "identity")

\* The name of a bucket holds the account, which the global config may know; it is read again.
localBrokerCloudIdentity(p) ==
  /\ pc[p] = "identity" /\ me' = [me EXCEPT ![p].config = global]
  /\ Goto(p, IF me[p].want \in global THEN "create" ELSE "import")
  /\ UNCHANGED <<Broker, global, Trees, starts>>
localBrokerImportCloudIdentity(p) ==
  pc[p] = "import" /\ writeGlobalConfig(p, me[p].config \cup {me[p].want}, "create")

\* prepareLocalBrokerRepository: a repository is created unless one is where it was asked
\* for or listed under its name.
Exists(want) == want \in records \/ index # None
prepareLocalBrokerRepository(p) ==
  /\ pc[p] = "create" /\ Goto(p, IF Exists(me[p].want) THEN "get" ELSE "record")
  /\ torn' = (torn \/ (~Exists(me[p].want) /\ \E q \in Process \ {p} : pc[q] \in {"record", "index"}))
  /\ UNCHANGED <<records, index, hosted, global, Trees, me, starts>>

CreateRecord(p) ==
  /\ pc[p] = "record" /\ me[p].want \notin records
  /\ records' = records \cup {me[p].want} /\ Goto(p, "index")
  /\ UNCHANGED <<index, hosted, torn, global, Trees, me, starts>>

\* What was found, or made, is tied to the directory.
Found(p, where) ==
  /\ me' = [me EXCEPT ![p].repo = where]
  /\ Goto(p, IF me[p].clone THEN "vacant" ELSE "git")

CreateEntry(p) ==
  /\ pc[p] = "index" /\ index' = me[p].want /\ Found(p, me[p].want)
  /\ UNCHANGED <<records, hosted, torn, global, Trees, starts>>

\* An existing repository is taken if it is kept in the way that was asked for.
localBrokerStorageCompatible(want, existing) == want \in {None, existing}
GetRepository(p) ==
  /\ pc[p] = "get"
  /\ \E where \in IF index # None THEN {index} ELSE records \cap {IF me[p].want = None THEN File ELSE me[p].want} :
       localBrokerStorageCompatible(me[p].want, where) /\ Found(p, where)
  /\ UNCHANGED <<Broker, global, Trees, starts>>

\* The cloud broker has the repository, or the command ends.
brokerRequireExistingLogicalRepo(p) ==
  /\ pc[p] = "require" /\ hosted /\ Goto(p, "git") /\ UNCHANGED <<Broker, global, Trees, me, starts>>

(***************************************************************************)
(* The work tree: initBrokerWorktreeWithLocalRepo, one "git config" after  *)
(* the other.                                                              *)
(***************************************************************************)
ensureCloneDestinationAvailable(p) ==
  /\ pc[p] = "vacant" /\ tree[me[p].dir] = NoTree
  /\ Goto(p, IF me[p].broker = "cloud" THEN "require" ELSE "git")
  /\ UNCHANGED <<Broker, global, Trees, me, starts>>

Write(p, at, to, became) ==
  /\ pc[p] = at /\ tree' = [tree EXCEPT ![me[p].dir] = became] /\ Goto(p, to)
  /\ UNCHANGED <<Broker, global, me, starts>>

GitInit(p) ==
  /\ Write(p, "git", "broker", [tree[me[p].dir] EXCEPT !.git = TRUE])
  /\ tied' = [tied EXCEPT ![me[p].dir] = @ \cup {IF me[p].broker = "cloud" THEN "cloud" ELSE me[p].repo}]
  /\ done' = [done EXCEPT ![me[p].dir] = FALSE]

ConfigBroker(p) ==
  /\ Write(p, "broker", "bucket", [tree[me[p].dir] EXCEPT !.broker = me[p].broker])
  /\ UNCHANGED <<tied, done>>
ConfigBucket(p) ==
  /\ Write(p, "bucket", IF me[p].repo \in Bucket THEN "storage" ELSE "origin",
           [tree[me[p].dir] EXCEPT !.bucket = me[p].repo])
  /\ UNCHANGED <<tied, done>>
\* Only a bucket of the local broker has these keys; nothing takes them away.
ConfigStorage(p) ==
  /\ Write(p, "storage", "origin", [tree[me[p].dir] EXCEPT !.storage = me[p].repo])
  /\ UNCHANGED <<tied, done>>

setGitOrigin(p) ==
  /\ pc[p] = "origin" /\ tree' = [tree EXCEPT ![me[p].dir].origin = TRUE]
  /\ IF me[p].clone THEN Goto(p, "fetch") /\ UNCHANGED <<me, done>>
     ELSE End(p, me[p].dir, TRUE)
  /\ UNCHANGED <<Broker, global, tied, starts>>

Fetch(p) ==
  /\ pc[p] = "fetch" /\ tree' = [tree EXCEPT ![me[p].dir].files = TRUE]
  /\ End(p, me[p].dir, TRUE) /\ UNCHANGED <<Broker, global, tied, starts>>

Next ==
  \E p \in Process :
       \/ \E clone \in BOOLEAN, d \in Dir, want \in Storage \cup {None}, broker \in {"local", "cloud"} :
            Start(p, clone, d, want, broker)
       \/ Fail(p)
       \/ ensureManagedLocalBroker(p) \/ localBrokerCloudIdentity(p) \/ localBrokerImportCloudIdentity(p)
       \/ prepareLocalBrokerRepository(p) \/ CreateRecord(p) \/ CreateEntry(p) \/ GetRepository(p)
       \/ brokerRequireExistingLogicalRepo(p) \/ ensureCloneDestinationAvailable(p)
       \/ GitInit(p) \/ ConfigBroker(p) \/ ConfigBucket(p) \/ ConfigStorage(p)
       \/ setGitOrigin(p) \/ Fetch(p)

Spec == Init /\ [][Next]_vars

(***************************************************************************)
(* Properties                                                              *)
(***************************************************************************)
\* Whatever fails, no work tree names a place without a repository, and all of them name one
\* place unless creations overlapped or one was interrupted.
OneRepository ==
  \A d \in Dir : /\ tree[d].bucket \in records \cup {None}
                 /\ ~torn => \/ tree[d].bucket \in {index, None}
                              \/ \E p \in Process : pc[p] = "index" /\ me[p].want = tree[d].bucket

\* A command that ends well in a directory that was only ever tied to one repository leaves all
\* of its config there and nothing else, also when others have failed there before.
ConfigIsWhole ==
  \A d \in Dir : done[d] /\ Cardinality(tied[d]) = 1 =>
    LET t == tree[d] IN
    /\ t.git /\ t.origin
    /\ IF t.broker = "cloud" THEN t.bucket = None /\ t.storage = None /\ hosted
       ELSE t.bucket \in tied[d] /\ t.storage = IF t.bucket = File THEN None ELSE t.bucket
=============================================================================
