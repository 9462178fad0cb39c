---------------------------- MODULE ConfigCommit ----------------------------
(***************************************************************************)
(* The two copies of the configuration: the one in the store, which is     *)
(* authoritative, and config.toml, which an operator may edit; and what    *)
(* the runs that were recorded under it rely on.  The requests of          *)
(* handle_inner, what a pass reads and writes of all that, and the first   *)
(* commands of `config apply' (main.rs), over commit_config in             *)
(* src/src/manager.rs, with failures and crashes between its two writes.   *)
(*                                                                         *)
(* The requests are handled one at a time, so that a manager and a client  *)
(* without one look alike here.  In a pool's configuration `auth' stands   *)
(* for its profile and its scope, which change under the same rule, and    *)
(* `image' for all that a generation of its runs has in common.            *)
(***************************************************************************)
EXTENDS Integers, FiniteSets, Functions

CONSTANTS
  Pools,
  Profiles,
  Images,
  Drafts,       \* bound: the configurations that an operator writes
  MaxReplicas,  \* bound on the replicas of a pool
  MaxRunners,   \* max_runners
  MaxRevision   \* bound on the number of commits
ASSUME BoundsAssumption == MaxReplicas \in Nat /\ MaxRunners \in Nat /\ MaxRevision \in Nat \ {0}

\* config::Pool and Config.
Settings == [replicas : 0..MaxReplicas, auth : Profiles, image : Images]
Configs == [auth : SUBSET Profiles, pools : UNION {[P -> Settings] : P \in SUBSET Pools}]
ASSUME DraftsAssumption == Drafts \subseteq Configs

Capacity(pools) ==
  SumFunctionOnSet([p \in DOMAIN pools |-> pools[p].replicas], DOMAIN pools)

\* Config::validate, of which two rules relate the parts of a configuration.
Valid(config) ==
  /\ \A p \in DOMAIN config.pools : config.pools[p].auth \in config.auth
  /\ Capacity(config.pools) <= MaxRunners

\* A file is as toml writes the configuration, or as an operator does. Two
\* files with one meaning have two hashes; a text stands for its hash.
Texts == [config : Configs, by : {"toml", "operator"}]

ToToml(config) == [config |-> config, by |-> "toml"]

NoText == [by |-> "nobody"]
NoTask == NoText

VARIABLES
  file,      \* config.toml
  disk,      \* the store
  mem,       \* Engine.state
  pc,        \* what commit_config is about to do, "down" without an engine
  task,      \* the configuration it commits, and for whom
  pass,      \* the pool of a pass, and what reconcile read of it
  client,    \* `config apply': the revision it was told, the text it read
  shown,     \* history: the configuration that went with that revision
  edit,      \* history: an edit of the operator that was not applied yet
  torn       \* history: the store was written and the file was not

vars == <<file, disk, mem, pc, task, pass, client, shown, edit, torn>>

Generations == 1..MaxRevision  \* each begins with a commit

PoolState == [intent : {"running", "stopped", "deleting"}, gen : Generations]
PoolStates == UNION {[P -> PoolState] : P \in SUBSET Pools}

\* What Run keeps of the configuration. Runs alike in it are one here.
Runs == [pool : Pools, auth : Profiles, image : Images, gen : Generations]

States == [config : {c \in Configs : Valid(c)}, revision : 1..MaxRevision,
           file_hash : Texts, pools : PoolStates, runs : SUBSET Runs]

NewPool == [intent |-> "stopped", gen |-> 1]

\* State::new, and what the store holds after the first start.
NewState(text) ==
  [config |-> text.config, revision |-> 1, file_hash |-> text,
   pools |-> [p \in DOMAIN text.config.pools |-> NewPool], runs |-> {}]

RunsOf(p) == {run \in mem.runs : run.pool = p}

NoPass == [pool |-> "none"]
NoClient == [pc |-> "none"]

-----------------------------------------------------------------------------
(* A commit.                                                               *)

\* Mutant: the file is overwritten whatever it says.
AnyFile == TRUE

CleanFile == file = mem.file_hash

\* Mutant: nobody validates.
AnyConfig(config) == mem.revision < MaxRevision

Validated(config) == Valid(config) /\ mem.revision < MaxRevision

\* Mutant: the pass goes on after a request.
Continued == UNCHANGED pass

\* handle_local moves the epoch, and what the pass goes on to do is void.
Voided == pass' = NoPass

\* A handler gets as far as commit_config, with the pools it has set.
Commits(config, pools, by) ==
  /\ Validated(config)
  /\ mem' = [mem EXCEPT !.pools = pools]
  /\ task' = [config |-> config, by |-> by]
  /\ pc' = "save" /\ Voided
  /\ UNCHANGED <<file, disk, shown, edit, torn>>

\* Mutant: the same number for two configurations.
SameRevision(r) == r

NextRevision(r) == r + 1

Committed ==
  [mem EXCEPT !.config = task.config, !.revision = NextRevision(@),
              !.file_hash = ToToml(task.config)]

\* The store is written first.
Stored ==
  /\ pc = "save" /\ pc' = "write"
  /\ disk' = Committed /\ mem' = Committed
  /\ edit' = IF task.by = "apply" THEN NoText ELSE edit
  /\ torn' = TRUE
  /\ UNCHANGED <<file, task, pass, client, shown>>

\* atomic_write, and the second save of the handler, which adds nothing here.
Written ==
  /\ pc = "write" /\ pc' = "idle"
  /\ file' = ToToml(task.config) /\ torn' = FALSE /\ task' = NoTask
  /\ UNCHANGED <<disk, mem, pass, client, shown, edit>>

\* Mutant: what a failed request has set stays.
NoReload == UNCHANGED mem

Reload == mem' = disk

\* One of the writes fails; the rename may have taken effect. A request is
\* answered with the error after a reload; a failed deletion finds no pool to
\* record its failure for, which ends the manager.
Fails ==
  /\ pc \in {"save", "write"}
  /\ \/ UNCHANGED <<file, torn>>
     \/ pc = "write" /\ file' = ToToml(task.config) /\ torn' = FALSE
  /\ pc' = IF task.by = "pass" THEN "down" ELSE "idle"
  /\ Reload
  /\ task' = NoTask
  /\ UNCHANGED <<disk, pass, client, shown, edit>>

Crash ==
  /\ pc # "down" /\ pc' = "down"
  /\ mem' = disk /\ task' = NoTask /\ pass' = NoPass  \* what is in memory is lost
  /\ UNCHANGED <<file, disk, client, shown, edit, torn>>

Restart ==
  /\ pc = "down" /\ pc' = "idle" /\ Reload
  /\ UNCHANGED <<file, disk, task, pass, client, shown, edit, torn>>

-----------------------------------------------------------------------------
(* The requests.                                                           *)

\* A handler that ends in one save.
Saves(s) ==
  /\ mem' = s /\ disk' = s /\ Voided
  /\ UNCHANGED <<file, pc, task, client, shown, edit, torn>>

\* Mutant: a deletion under way is overlooked.
KeptIfAny(p) == p \in DOMAIN mem.pools

\* What the handlers of one pool ask for.
Kept(p) == p \in DOMAIN mem.pools /\ mem.pools[p].intent # "deleting"

\* With --all, for every pool.
Targets == {{p} : p \in DOMAIN mem.pools} \cup {DOMAIN mem.pools}

WithIntent(targets, intent) ==
  [mem EXCEPT !.pools = [p \in DOMAIN @ |-> IF p \in targets THEN [@[p] EXCEPT !.intent = intent]
                                                             ELSE @[p]]]

Start ==
  /\ pc = "idle"
  /\ \E targets \in Targets : /\ \A p \in targets : Kept(p)
                              /\ Saves(WithIntent(targets, "running"))

\* A pool that is being deleted stays so.
Stop ==
  /\ pc = "idle"
  /\ \E targets \in Targets : Saves(WithIntent({p \in targets : Kept(p)}, "stopped"))

\* Nothing of the configuration changes yet, nor the revision.
Remove(p) ==
  /\ pc = "idle" /\ p \in DOMAIN mem.pools
  /\ Saves(WithIntent({p}, "deleting"))

Scale(p, n) ==
  /\ pc = "idle" /\ CleanFile /\ Kept(p)
  /\ Commits([mem.config EXCEPT !.pools[p].replicas = n], mem.pools, "request")
  /\ UNCHANGED client

\* Mutant: old and new runs share a generation.
SameGeneration(state) == state

NextGeneration(state) == [state EXCEPT !.gen = @ + 1]

Upgrade(p, image) ==
  /\ pc = "idle" /\ CleanFile /\ Kept(p)
  /\ Commits([mem.config EXCEPT !.pools[p].image = image],
             [mem.pools EXCEPT ![p] = NextGeneration(@)], "request")
  /\ UNCHANGED client

Add(p, settings) ==
  /\ pc = "idle" /\ CleanFile
  /\ p \notin DOMAIN mem.pools
  /\ Commits([mem.config EXCEPT !.pools = [q \in DOMAIN @ \cup {p} |->
                                             IF q = p THEN settings ELSE @[q]]],
             [q \in DOMAIN mem.pools \cup {p} |-> IF q = p THEN NewPool ELSE mem.pools[q]],
             "request")
  /\ UNCHANGED client

\* A profile is added, or gets another secret.
Auth(profile) ==
  /\ pc = "idle" /\ CleanFile
  /\ Commits([mem.config EXCEPT !.auth = @ \cup {profile}], mem.pools, "request")
  /\ UNCHANGED client

\* A pool changes its scope or profile only when nothing of it is left there.
MayBecome(p, settings) ==
  settings.auth = mem.config.pools[p].auth
    \/ (mem.pools[p].intent = "stopped" /\ RunsOf(p) = {})

\* What the handler asks of the text itself.
Applicable(text) ==
  /\ Valid(text.config)
  /\ DOMAIN mem.config.pools \subseteq DOMAIN text.config.pools
  /\ \A p \in DOMAIN mem.config.pools : Kept(p) /\ MayBecome(p, text.config.pools[p])
  /\ \A run \in mem.runs : run.auth \in text.config.auth

\* The pools of the file; a changed one begins a generation.
Known(config) ==
  [p \in DOMAIN config.pools |->
     IF p \notin DOMAIN mem.pools THEN NewPool
     ELSE IF config.pools[p].image = mem.config.pools[p].image THEN mem.pools[p]
     ELSE NextGeneration(mem.pools[p])]

Apply ==
  /\ pc = "idle" /\ client.pc = "sent" /\ client' = NoClient
  /\ client.revision = mem.revision /\ file = client.text
  /\ Applicable(client.text)
  /\ Commits(client.text.config, Known(client.text.config), "apply")

\* Refused, or given up by its operator.
ApplyFails ==
  /\ client.pc # "none" /\ client' = NoClient
  /\ UNCHANGED <<file, disk, mem, pc, task, pass, shown, edit, torn>>

-----------------------------------------------------------------------------
(* The pass.                                                               *)

PassBegins(p) ==
  /\ pc = "idle" /\ pass = NoPass /\ p \in DOMAIN mem.pools
  /\ pass' = [pool |-> p, settings |-> mem.config.pools[p], ps |-> mem.pools[p]]
  /\ UNCHANGED <<file, disk, mem, pc, task, client, shown, edit, torn>>

\* Its end, a failure, or a request that changes nothing but the epoch.
PassEnds ==
  /\ pass # NoPass /\ pass' = NoPass
  /\ UNCHANGED <<file, disk, mem, pc, task, client, shown, edit, torn>>

\* The last run of its kind is forgotten.
ForgetsRun(run) ==
  /\ pc = "idle" /\ run.pool = pass.pool
  /\ mem' = [mem EXCEPT !.runs = @ \ {run}] /\ disk' = mem'
  /\ UNCHANGED <<file, pc, task, pass, client, shown, edit, torn>>

\* The end of a pass that finds room, after its last command. Of the runs
\* that are alike at least one counts.
RecordsRun ==
  /\ pc = "idle" /\ pass # NoPass /\ pass.ps.intent = "running"
  /\ Cardinality(RunsOf(pass.pool)) < pass.settings.replicas
  /\ Cardinality(mem.runs) < MaxRunners
  /\ Saves([mem EXCEPT !.runs = @ \cup {[pool |-> pass.pool, auth |-> pass.settings.auth,
                                        image |-> pass.settings.image, gen |-> pass.ps.gen]}])

Without(f, p) == [q \in DOMAIN f \ {p} |-> f[q]]

\* The pass finds that a deleting pool has no runner left.
Delete ==
  /\ pc = "idle" /\ CleanFile
  /\ pass # NoPass /\ pass.ps.intent = "deleting" /\ RunsOf(pass.pool) = {}
  /\ Commits([mem.config EXCEPT !.pools = Without(@, pass.pool)],
             Without(mem.pools, pass.pool), "pass")
  /\ UNCHANGED client

-----------------------------------------------------------------------------
(* The operator.                                                           *)

\* A new content of the file. In the middle of a commit the file may be
\* replaced at once, which no check can prevent.
Edit(text) ==
  /\ text # file /\ file' = text
  /\ edit' = IF pc \in {"idle", "down"} /\ text # disk.file_hash THEN text ELSE NoText
  /\ torn' = (torn /\ text # disk.file_hash)
  /\ UNCHANGED <<disk, mem, pc, task, pass, client, shown>>

AskRevision ==
  /\ pc = "idle" /\ client.pc = "none"
  /\ client' = [pc |-> "told", revision |-> mem.revision]
  /\ shown' = mem.config
  /\ UNCHANGED <<file, disk, mem, pc, task, pass, edit, torn>>

ReadFile ==
  /\ client.pc = "told"
  /\ client' = [pc |-> "sent", revision |-> client.revision, text |-> file]
  /\ UNCHANGED <<file, disk, mem, pc, task, pass, shown, edit, torn>>

-----------------------------------------------------------------------------
Init ==
  /\ file \in {text \in Texts : text.config \in Drafts /\ Valid(text.config)}
  /\ disk = NewState(file) /\ mem = disk
  /\ pc = "idle" /\ task = NoTask /\ pass = NoPass
  /\ client = NoClient /\ shown = disk.config
  /\ edit = NoText /\ torn = FALSE

Requested ==
  \/ Start \/ Stop
  \/ \E p \in Pools : \/ Remove(p)
                      \/ \E n \in 0..MaxReplicas : Scale(p, n)
                      \/ \E image \in Images : Upgrade(p, image)
                      \/ \E settings \in Settings : Add(p, settings)
  \/ \E profile \in Profiles : Auth(profile)
  \/ Apply \/ ApplyFails

Passed ==
  \/ \E p \in Pools : PassBegins(p)
  \/ \E run \in mem.runs : ForgetsRun(run)
  \/ RecordsRun \/ Delete \/ PassEnds

Operated ==
  \/ AskRevision \/ ReadFile
  \/ \E config \in Drafts, by \in {"toml", "operator"} : Edit([config |-> config, by |-> by])

Next == Requested \/ Passed \/ Stored \/ Written \/ Fails \/ Crash \/ Restart \/ Operated

Spec == Init /\ [][Next]_vars

-----------------------------------------------------------------------------
TypeOK ==
  /\ file \in Texts
  /\ disk \in States /\ mem \in States
  /\ pc \in {"idle", "save", "write", "down"}
  /\ pc \in {"save", "write"} =>
       task \in [config : Configs, by : {"request", "pass", "apply"}]
  /\ pass \in [pool : Pools, settings : Settings, ps : PoolState] \cup {NoPass}
  /\ client.pc \in {"none", "told", "sent"}
  /\ shown \in Configs /\ edit \in Texts \cup {NoText} /\ torn \in BOOLEAN

\* manager.rs:194, 353: the engine indexes the pools' states with the names of the
\* configuration, which is safe only if the two agree whenever a request is
\* taken up: on the disk, and in memory after every failure.
SamePools(s) == DOMAIN s.config.pools = DOMAIN s.pools
PoolsMatch == SamePools(disk) /\ (pc = "idle" => SamePools(mem) /\ mem = disk)

\* operations.md:13, manager.rs:110: `Other configuration edits are rejected
\* while unapplied file changes exist', `startup never silently overwrites
\* user-edited TOML': an edit made while nothing is being written stays in
\* the file until it is applied or edited again.
EditsSurvive == edit # NoText => file = edit

\* manager.rs:333: what an apply replaces is what its operator was shown,
\* whatever was committed, failed or restarted in between.
ApplyReplacesWhatWasShown ==
  [][disk' # disk /\ pc = "save" /\ task.by = "apply" => shown = disk.config]_vars

\* manager.rs:665, 675: a pass looks for the registration of a run, and removes
\* it, with the scope and the profile of the pool as they are then. They are
\* those that the run was recorded with, whatever was applied since.
ScopesHold ==
  \A run \in disk.runs : /\ run.pool \in DOMAIN disk.config.pools
                         /\ run.auth = disk.config.pools[run.pool].auth

\* manager.rs:418: runs are told from outdated ones by their generation alone.
\* No edit, failed commit or pass under way gives two kinds of runs the same.
GenerationsTell ==
  \A run \in disk.runs :
     run.gen = disk.pools[run.pool].gen => run.image = disk.config.pools[run.pool].image

\* operations.md:13, manager.rs:110: `after an interrupted write, compare [...],
\* then explicitly apply the desired file': there is a file that can be applied.
ApplyRecovers == torn /\ pc = "idle" => \E text \in Texts : Applicable(text)

\* manager.rs:110: without a deletion under way there is one, and it is the
\* configuration of the store.
StoreCanBeApplied ==
  torn /\ pc = "idle" /\ (\A p \in DOMAIN mem.pools : Kept(p)) =>
     \A text \in Texts : text.config = mem.config => Applicable(text)

-----------------------------------------------------------------------------
(* The pools, seen from outside: module PoolLife.                          *)

PoolSeen(s, p) ==
  IF p \in DOMAIN s.pools
  THEN [intent |-> s.pools[p].intent, gen |-> s.pools[p].gen,
        replicas |-> s.config.pools[p].replicas,
        runs |-> Cardinality({run \in s.runs : run.pool = p})]
  ELSE [intent |-> "absent", gen |-> 0, replicas |-> 0, runs |-> 0]

Outside == INSTANCE PoolLife WITH life <- [p \in Pools |-> PoolSeen(disk, p)]

\* One write of the store is one step of a pool's life, whatever fails or ends
\* the manager between the writes of a commit (manager.rs:110, 194).
PoolsLiveAsPromised == Outside!Spec
=============================================================================
