------------------------------- MODULE Engine -------------------------------
(***************************************************************************)
(* The runner manager of src/src/manager.rs: the engine's state, its       *)
(* SQLite copy, the requests it accepts and the reconciliation pass that   *)
(* moves Docker containers and GitHub registrations towards that state.    *)
(*                                                                         *)
(* A pass is a sequence of external commands (Docker, GitHub).  While one  *)
(* is in flight the engine keeps accepting requests (`external`), so `pc'  *)
(* names the command in flight and each action below is what happens when  *)
(* its answer arrives, up to the point where the next command is issued.   *)
(***************************************************************************)
EXTENDS Integers, FiniteSets, Functions

CONSTANTS
  Pools,        \* pool names
  RunIds,       \* run ids; their order is the order (created_at, id) of mark_retiring
  NoPool,       \* "no pool"
  NoId,         \* "no run id"
  MaxRunners,   \* [manager] max_runners
  MaxGen,       \* bound on the generation of a pool
  MaxBoots,     \* bound on the number of boots of the Docker host
  Commands,     \* the request kinds the operators issue
  Events        \* what else happens: "crash", "late" (commands carried out after
                \* their timeout), "register" (runners register and complete jobs)

ASSUME RunIdsAssumption == RunIds \subseteq Nat /\ NoId \notin RunIds /\ IsFiniteSet(RunIds)
ASSUME PoolsAssumption == NoPool \notin Pools
ASSUME BoundsAssumption == MaxRunners \in Nat /\ MaxGen \in Nat \ {0} /\ MaxBoots \in Nat \ {0}

VARIABLES
  mem,        \* Engine.state: pools and runs in memory
  disk,       \* the SQLite row
  pc,         \* "down", "idle", the external command in flight, or a local loop head
  pass,       \* the locals of tick and reconcile
  bootKnown,  \* Engine.boot_time: the boot the engine has read, 0 for None
  docker,     \* container of each run: "none", "created", "running", "exited"
  startEra,   \* the boot in which the run's container last started, 0 if it never did
  late,       \* a timed-out command the Docker daemon may still carry out
  hostBoot,   \* the current boot of the Docker host
  registered, \* runs registered as runners at GitHub
  marker,     \* runs whose job-completed hook wrote runs/<id>/completed
  owed,       \* history: pools with an unexpected exit that no backoff answered yet
  spared      \* history: runs the engine recognised as stopped by a reboot

host == <<docker, startEra, late, hostBoot>>
env == <<docker, startEra, late, hostBoot, registered, marker>>
ghosts == <<owed, spared>>
vars == <<mem, disk, pc, pass, bootKnown, docker, startEra, late, hostBoot,
          registered, marker, owed, spared>>

-----------------------------------------------------------------------------
(* The engine's state.                                                     *)

Backoffs == {"none", "observation", "provisioning"}
Phases == {"none", "creating", "live", "cleanup"}

\* `backoff' is retry_at > now together with retry_scope.
PoolRec == [exists : BOOLEAN, running : BOOLEAN, deleting : BOOLEAN,
            replicas : 0 .. MaxRunners, gen : Nat, backoff : Backoffs]

\* Phase "live" stands for starting, idle, busy and unknown: they are
\* reported by status and never read by a decision of the engine.
RunRec == [pool : Pools \cup {NoPool}, gen : Nat, phase : Phases, retiring : BOOLEAN,
           force : BOOLEAN, completed : BOOLEAN, logSaved : BOOLEAN]

States == [pool : [Pools -> PoolRec], run : [RunIds -> RunRec]]

Absent == [exists |-> FALSE, running |-> FALSE, deleting |-> FALSE,
           replicas |-> 0, gen |-> 0, backoff |-> "none"]
NewPool(n) == [Absent EXCEPT !.exists = TRUE, !.replicas = n, !.gen = 1]

NoRun == [pool |-> NoPool, gen |-> 0, phase |-> "none", retiring |-> FALSE,
          force |-> FALSE, completed |-> FALSE, logSaved |-> FALSE]
\* Mutant: a phase no reader of the store knows.
PendingRun(p, g) == [NoRun EXCEPT !.pool = p, !.gen = g, !.phase = "pending"]
NewRun(p, g) == [NoRun EXCEPT !.pool = p, !.gen = g, !.phase = "creating"]

Existing(s) == {p \in Pools : s.pool[p].exists}
Recorded(s) == {i \in RunIds : s.run[i].phase # "none"}
RunsOf(s, p) == {i \in Recorded(s) : s.run[i].pool = p}

\* The runs of a pool that take work.
Serving(s, p) == {i \in RunsOf(s, p) : ~s.run[i].retiring}

\* keep: how many runners the pool may have that take new work.
Wanted(ps) == IF ps.running /\ ~ps.deleting THEN ps.replicas ELSE 0

\* The runs sorted before run i: a newer generation first, then the newer run.
Before(s, i) ==
  {j \in RunsOf(s, s.run[i].pool) :
     \/ s.run[j].gen > s.run[i].gen
     \/ s.run[j].gen = s.run[i].gen /\ j > i}

\* Mutant: one run too many stays.
SurplusButOne(s, i) ==
  LET ps == s.pool[s.run[i].pool]
  IN  Cardinality(Before(s, i)) > Wanted(ps) \/ s.run[i].gen # ps.gen

Surplus(s, i) ==
  LET ps == s.pool[s.run[i].pool]
  IN  Cardinality(Before(s, i)) >= Wanted(ps) \/ s.run[i].gen # ps.gen

MarkRetiring(s, P) ==
  [s EXCEPT !.run = [i \in RunIds |->
     IF i \in Recorded(s) /\ s.run[i].pool \in P /\ Surplus(s, i)
     THEN [s.run[i] EXCEPT !.retiring = TRUE] ELSE s.run[i]]]

\* Mutant: a run without a container yet is forgotten by the request.
RetireLive(s, P, force) ==
  [s EXCEPT !.run = [i \in RunIds |->
     IF s.run[i].phase \in {"live", "cleanup"} /\ s.run[i].pool \in P
     THEN [s.run[i] EXCEPT !.retiring = TRUE, !.force = @ \/ force] ELSE s.run[i]]]

\* Stop and Remove: every run of the pools drains, or is terminated.
Retire(s, P, force) ==
  [s EXCEPT !.run = [i \in RunIds |->
     IF i \in Recorded(s) /\ s.run[i].pool \in P
     THEN [s.run[i] EXCEPT !.retiring = TRUE, !.force = @ \/ force] ELSE s.run[i]]]

WithPools(s, new) ==
  [s EXCEPT !.pool = [p \in Pools |-> IF p \in DOMAIN new THEN new[p] ELSE s.pool[p]]]

\* Config::validate: the replicas of all pools fit in max_runners.
ReplicasFit(s) ==
  SumFunctionOnSet([p \in Pools |-> s.pool[p].replicas], Existing(s)) <= MaxRunners

-----------------------------------------------------------------------------
(* The locals of a pass.                                                   *)

Statuses == {"none", "created", "running", "exited"}

NoPass == [pool |-> NoPool, ps |-> Absent, snap |-> [i \in RunIds |-> "none"],
           unknown |-> 0, todo |-> {}, cur |-> NoId, allow |-> FALSE,
           clone |-> [i \in RunIds |-> NoRun], exits |-> {}, failed |-> FALSE, rebooted |-> FALSE, moved |-> FALSE]

PassRec == [pool : Pools \cup {NoPool}, ps : PoolRec, snap : [RunIds -> Statuses],
            unknown : Nat, todo : SUBSET RunIds, cur : RunIds \cup {NoId},
            allow : BOOLEAN, clone : [RunIds -> RunRec], exits : SUBSET RunIds,
            failed : BOOLEAN, rebooted : BOOLEAN, moved : BOOLEAN]

\* Commands whose error reconcile returns at once (`?').
Fatal == {"list", "forceArchive", "forceRemove", "relist", "remotes",
          "prepare", "create", "start", "image"}
\* Commands whose error it collects, to go on with the next run.
Collected == {"archive", "remove", "fresh", "unregister", "repair"}
InFlight == Fatal \cup Collected \cup {"boot"}
PCs == InFlight \cup {"down", "idle", "force", "visit"}

Owns(p) == p \in Existing(mem)
Retrying(p) == mem.pool[p].backoff # "none"

\* Mutant: the answer is used whatever was accepted meanwhile.
Oblivious == TRUE

\* The epoch checks of `external': no accepted request moved the epoch.
Undisturbed == ~pass.moved

Observe(s) == mem' = s /\ UNCHANGED disk
Save(s) == mem' = s /\ disk' = s
Keep == UNCHANGED <<mem, disk>>

Arm(s, p, scope) == [s EXCEPT !.pool[p].backoff = scope]

\* tick after reconcile returns: an interrupted report is dropped, an error
\* backs off observation, unexpected exits back off provisioning.
Concluded(s, ok) ==
  LET p == pass.pool
  IN  IF pass.moved THEN s
      ELSE IF ~ok THEN Arm(s, p, "observation")
      ELSE IF pass.exits # {} THEN Arm(s, p, "provisioning")
      ELSE IF pass.allow THEN Arm(s, p, "none")
      ELSE s

PassEnds(s, ok) ==
  /\ Save(Concluded(s, ok))
  /\ pc' = "idle" /\ pass' = NoPass
  /\ owed' = IF ~pass.moved /\ (~ok \/ pass.exits # {}) THEN owed \ {pass.pool} ELSE owed

Goto(next) == pc' = next /\ UNCHANGED pass
\* Between two runs of the loop there is no run in hand.
Loose == [pass EXCEPT !.cur = NoId, !.rebooted = FALSE, !.clone = NoPass.clone]
SkipRun == pc' = "visit" /\ pass' = [Loose EXCEPT !.failed = TRUE]
\* Take run i in hand: reconcile works on a clone of the record.
Take(i, run) == [pass EXCEPT !.todo = @ \ {i}, !.cur = i, !.clone[i] = run]
Passed(i) == [pass EXCEPT !.todo = @ \ {i}]

\* Mutant: a log that cannot be archived does not hold up the removal.
ErrorsButArchive ==
  \/ pc \in Fatal /\ PassEnds(mem, FALSE)
  \/ pc \in Collected \ {"archive"} /\ SkipRun /\ Keep /\ UNCHANGED owed
  \/ pc = "archive" /\ pc' = "remove" /\ UNCHANGED <<pass, owed>> /\ Keep

\* Mutant: a container that cannot be removed does not hold up the rest.
ErrorsButRemove ==
  \/ pc \in Fatal /\ PassEnds(mem, FALSE)
  \/ pc \in Collected \ {"remove"} /\ SkipRun /\ Keep /\ UNCHANGED owed
  \/ pc = "remove" /\ pc' = "fresh" /\ UNCHANGED <<pass, owed>> /\ Keep

\* What reconcile does with the error of the command in flight.
Errors ==
  \/ pc \in Fatal /\ PassEnds(mem, FALSE)
  \/ pc \in Collected /\ SkipRun /\ Keep /\ UNCHANGED owed

-----------------------------------------------------------------------------
(* The pass, command by command.                                           *)

Tick(p) ==
  /\ pc = "idle" /\ Owns(p)
  /\ mem.pool[p].backoff # "observation"
  /\ pc' = "list"
  /\ pass' = [NoPass EXCEPT !.pool = p, !.ps = mem.pool[p], !.allow = ~Retrying(p)]
  /\ Keep /\ UNCHANGED <<bootKnown, env, ghosts>>

\* The command in flight fails or times out without effect, or succeeds
\* without effect after the epoch moved.
CommandFails ==
  /\ Errors
  /\ UNCHANGED <<bootKnown, env, spared>>

\* remove the pool: clean_file, then commit_config.  An unapplied edit of
\* config.toml fails the pass; a failed write makes record_failure miss the
\* pool, which ends the manager before or after the pool left the store.
DeletePool ==
  LET p == pass.pool
      gone == [mem EXCEPT !.pool[p] = Absent]
  IN  \/ /\ pass.exits = {}
         /\ Save(gone) /\ pc' = "idle" /\ pass' = NoPass /\ owed' = owed \ {p}
         /\ UNCHANGED bootKnown
      \/ PassEnds(mem, FALSE) /\ UNCHANGED bootKnown
      \/ \E s \in {disk, gone} :
           /\ Save(s) /\ pc' = "down" /\ pass' = NoPass /\ bootKnown' = 0
           /\ owed' = IF s = gone THEN owed \ {p} ELSE owed

\* Mutants: no container is left; the last one went in this very pass.
NoContainer(p) == \A i \in RunsOf(mem, p) : docker[i] = "none"
EmptiedNow(p) == RunsOf(mem, p) = {} /\ pass.snap # NoPass.snap

Emptied(p) == RunsOf(mem, p) = {}

\* The containers found by their labels for the runs of the pool (Docker::owned).
Snapshot == [i \in RunIds |-> IF i \in RunsOf(mem, pass.pool) THEN docker[i] ELSE "none"]

\* Mutant: force has to wait for the loop over all runs.
NoForcedRuns(p) == {}

ForcedRuns(p) == {i \in RunsOf(mem, p) : mem.run[i].force /\ docker[i] # "none"}

List ==
  LET p == pass.pool
      forced == ForcedRuns(p)
  IN  /\ pc = "list" /\ Undisturbed
      /\ IF Emptied(p) /\ ~pass.ps.running
         THEN IF pass.ps.deleting THEN DeletePool
              ELSE PassEnds(mem, TRUE) /\ UNCHANGED bootKnown
         ELSE /\ pc' = "force"
              /\ pass' = [pass EXCEPT !.snap = Snapshot, !.todo = forced,
                     !.clone = [i \in RunIds |-> IF i \in forced THEN mem.run[i] ELSE NoRun],
                     !.unknown = Cardinality({i \in RunIds \ Recorded(mem) : docker[i] # "none"})]
              /\ Keep /\ UNCHANGED <<bootKnown, owed>>
      /\ UNCHANGED <<env, spared>>

\* The loop over the forced runs: one run, or on to the second listing.
ForceNext(i) ==
  LET run == [pass.clone[i] EXCEPT !.phase = "cleanup"]
  IN  /\ Save([mem EXCEPT !.run[i] = run])
      /\ pass' = Take(i, run)
      /\ pc' = IF run.logSaved THEN "forceRemove" ELSE "forceArchive"

ForceDone ==
  /\ pass.todo = {}
  /\ pc' \in {"relist", "remotes"}
  /\ pc' = "relist" <=> \E i \in RunsOf(mem, pass.pool) : mem.run[i].force
  /\ Keep /\ UNCHANGED pass

ForceLoop ==
  /\ pc = "force"
  /\ ForceDone \/ \E i \in pass.todo : ForceNext(i)
  /\ UNCHANGED <<bootKnown, env, ghosts>>

\* Mutant: the archive is noted in memory only.
ArchivedUnsaved(next) ==
  LET i == pass.cur
      run == [pass.clone[i] EXCEPT !.logSaved = TRUE]
  IN  /\ Undisturbed
      /\ Observe([mem EXCEPT !.run[i] = run])
      /\ pc' = next /\ pass' = [pass EXCEPT !.clone[i] = run]
      /\ UNCHANGED <<bootKnown, env, ghosts>>

Archived(next) ==
  LET i == pass.cur
      run == [pass.clone[i] EXCEPT !.logSaved = TRUE]
  IN  /\ Undisturbed
      /\ Save([mem EXCEPT !.run[i] = run])
      /\ pc' = next /\ pass' = [pass EXCEPT !.clone[i] = run]
      /\ UNCHANGED <<bootKnown, env, ghosts>>

ForceArchive == pc = "forceArchive" /\ Archived("forceRemove")

Vanishes(i) ==
  /\ docker' = [docker EXCEPT ![i] = "none"]
  /\ UNCHANGED <<startEra, late, hostBoot, registered, marker>>

\* docker rm --force: done and heard, or done and the answer lost or too late.
ForceRemove ==
  LET i == pass.cur
  IN  /\ pc = "forceRemove" /\ late[i] = "none" /\ docker[i] # "none"
      /\ Vanishes(i)
      /\ \/ /\ Undisturbed
            /\ pc' = "force" /\ pass' = [pass EXCEPT !.cur = NoId, !.clone[i] = NoRun]
            /\ Keep /\ UNCHANGED owed
         \/ Errors
      /\ UNCHANGED <<bootKnown, spared>>

Relist ==
  /\ pc = "relist" /\ Undisturbed
  /\ pc' = "remotes" /\ pass' = [pass EXCEPT !.snap = Snapshot]
  /\ Keep /\ UNCHANGED <<bootKnown, env, ghosts>>

\* GitHub's list, possibly cached, then mark_retiring and save.
Remotes ==
  /\ pc = "remotes" /\ Undisturbed
  /\ Save(MarkRetiring(mem, {pass.pool}))
  /\ pc' = "visit" /\ pass' = [pass EXCEPT !.todo = RunsOf(mem, pass.pool)]
  /\ UNCHANGED <<bootKnown, env, ghosts>>

NeedsStart(i) ==
  /\ ~mem.run[i].retiring
  /\ \/ pass.snap[i] = "created"
     \/ pass.snap[i] = "none" /\ mem.run[i].phase = "creating"

\* unexpected_exit
Unexpected(run) == ~run.completed /\ ~run.retiring /\ ~run.force

\* Mutants: the phase is left alone; the job's completion is lost.
CleanupUnmarked(run) == run
CleanupForgets(run) == [run EXCEPT !.phase = "cleanup", !.completed = FALSE]

\* Record that the container is being removed before removing it.
Cleanup(run) == [run EXCEPT !.phase = "cleanup"]

BeginCleanup(i, run, rebooted) ==
  /\ Save([mem EXCEPT !.run[i] = Cleanup(run)])
  /\ spared' = IF rebooted THEN spared \cup {i} ELSE spared
  /\ UNCHANGED owed
  /\ IF pass.moved
     THEN pc' = "visit" /\ pass' = [Passed(i) EXCEPT !.failed = TRUE]
     ELSE /\ pc' = IF run.logSaved THEN "remove" ELSE "archive"
          /\ pass' = [Take(i, Cleanup(run)) EXCEPT !.rebooted = rebooted]

\* started_before_boot, on the boot the engine knows
StoppedBefore(i, boot) == startEra[i] # 0 /\ startEra[i] < boot

\* One run of the loop, up to its first command.  Before that command is
\* issued `external' checks the epoch.
VisitRunning(i) ==
  /\ pass.snap[i] = "running"
  /\ Observe([mem EXCEPT !.run[i].phase = "live"])
  /\ pc' = "visit" /\ pass' = Passed(i)
  /\ UNCHANGED ghosts

\* A pool that backs off provisioning starts nothing.
VisitStart(i) ==
  /\ NeedsStart(i)
  /\ IF ~pass.allow THEN Keep /\ pc' = "visit" /\ pass' = Passed(i) /\ UNCHANGED ghosts
     ELSE IF Undisturbed
     THEN Keep /\ pc' = "prepare" /\ pass' = Take(i, mem.run[i]) /\ UNCHANGED ghosts
     ELSE PassEnds(mem, FALSE) /\ UNCHANGED spared

VisitStopped(i) ==
  LET run == [mem.run[i] EXCEPT !.completed = i \in marker]
      known == StoppedBefore(i, bootKnown)
      asks == Unexpected(run) /\ startEra[i] # 0 /\ ~known
  IN  /\ pass.snap[i] \in {"created", "exited"} /\ ~NeedsStart(i)
      /\ \/ ~asks /\ BeginCleanup(i, run, Unexpected(run) /\ known)
         \/ /\ asks /\ Undisturbed /\ Keep
            /\ pc' = "boot" /\ pass' = Take(i, run)
            /\ UNCHANGED ghosts
         \/ asks /\ ~Undisturbed /\ PassEnds(mem, FALSE) /\ UNCHANGED spared

VisitGone(i) ==
  /\ pass.snap[i] = "none" /\ ~NeedsStart(i)
  /\ Keep /\ UNCHANGED ghosts
  /\ IF Undisturbed
     THEN pc' = "fresh" /\ pass' = Take(i, mem.run[i])
     ELSE pc' = "visit" /\ pass' = [Passed(i) EXCEPT !.failed = TRUE]

\* Mutants: only the pool's own runs are counted; one too few may run.
HasRoomInPool == Cardinality(RunsOf(mem, pass.pool)) + pass.unknown < MaxRunners
HasRoomForTwo == Cardinality(Recorded(mem)) + pass.unknown + 1 < MaxRunners

\* Draining runs and containers of unrecorded runs use up room too.
HasRoom == Cardinality(Recorded(mem)) + pass.unknown < MaxRunners

\* Mutant: a backoff for provisioning is forgotten at the end of the pass.
ReplenishesAlways == pass.exits = {}

Replenishes == pass.allow /\ pass.exits = {}

\* After the loop: the collected error, the removal of a deleting pool, one
\* new run if the pool is short of runners, or the end of the pass.
LoopEnds ==
  LET p == pass.pool
  IN  IF pass.failed THEN PassEnds(mem, FALSE) /\ UNCHANGED bootKnown
      ELSE IF pass.ps.deleting /\ Emptied(p) THEN DeletePool
      ELSE IF /\ Replenishes
              /\ Cardinality(RunsOf(mem, p)) < Wanted(pass.ps) /\ HasRoom
           THEN Goto("image") /\ Keep /\ UNCHANGED <<bootKnown, owed>>
      ELSE \E ok \in BOOLEAN : PassEnds(mem, ok) /\ UNCHANGED bootKnown  \* expire_logs

Visit ==
  /\ pc = "visit"
  /\ IF pass.todo = {}
     THEN LoopEnds /\ UNCHANGED spared
     ELSE /\ \E i \in pass.todo :
               VisitRunning(i) \/ VisitStart(i) \/ VisitStopped(i) \/ VisitGone(i)
          /\ UNCHANGED bootKnown
  /\ UNCHANGED env

\* stopped_by_reboot: an interruption ends the pass, any other error leaves
\* the boot time as it is.
ReadBoot ==
  /\ pc = "boot"
  /\ IF Undisturbed
     THEN \E boot \in {bootKnown, hostBoot} :
            /\ bootKnown' = boot
            /\ BeginCleanup(pass.cur, pass.clone[pass.cur], StoppedBefore(pass.cur, boot))
     ELSE PassEnds(mem, FALSE) /\ UNCHANGED <<bootKnown, spared>>
  /\ UNCHANGED env

\* The image check and the registration token.
Prepare ==
  /\ pc = "prepare" /\ Undisturbed
  /\ Goto(IF pass.snap[pass.cur] = "created" THEN "start" ELSE "create")
  /\ Keep /\ UNCHANGED <<bootKnown, env, ghosts>>

CreateContainer ==
  LET i == pass.cur
  IN  /\ pc = "create" /\ late[i] = "none" /\ docker[i] = "none"
      /\ docker' = [docker EXCEPT ![i] = "created"]
      /\ UNCHANGED <<startEra, late, hostBoot, registered, marker>>
      /\ \/ Undisturbed /\ Goto("start") /\ Keep /\ UNCHANGED owed
         \/ Errors
      /\ UNCHANGED <<bootKnown, spared>>

Starts(i) ==
  /\ docker' = [docker EXCEPT ![i] = "running"]
  /\ startEra' = [startEra EXCEPT ![i] = IF docker[i] = "running" THEN @ ELSE hostBoot]

StartContainer ==
  LET i == pass.cur
  IN  /\ pc = "start" /\ late[i] = "none" /\ docker[i] # "none"
      /\ Starts(i) /\ UNCHANGED <<late, hostBoot, registered, marker>>
      /\ \/ /\ Undisturbed /\ UNCHANGED owed
            /\ Save([mem EXCEPT !.run[i] = [pass.clone[i] EXCEPT !.phase = "live"]])
            /\ pc' = "visit" /\ pass' = Loose
         \/ Errors
      /\ UNCHANGED <<bootKnown, spared>>

\* The client is killed at its timeout, or with the manager; the daemon may
\* still create the container, or start it for the first time.
Lingers ==
  /\ "late" \in Events /\ pc \in {"create", "start"}
  /\ late[pass.cur] = "none"
  /\ pc = "start" => docker[pass.cur] = "created"

CommandTimesOut ==
  /\ Lingers
  /\ Errors
  /\ late' = [late EXCEPT ![pass.cur] = pc]
  /\ UNCHANGED <<bootKnown, docker, startEra, hostBoot, registered, marker, spared>>

Archive == pc = "archive" /\ Archived("remove")

\* Mutant: docker rm --force.
RemovableAlways(i) == docker[i] # "none"

\* Without --force Docker refuses to remove a running container.
Removable(i) == docker[i] \in {"created", "exited"}

RemoveContainer ==
  LET i == pass.cur
  IN  /\ pc = "remove" /\ late[i] = "none" /\ Removable(i)
      /\ Vanishes(i)
      /\ \/ Undisturbed /\ Goto("fresh") /\ Keep /\ UNCHANGED owed
         \/ Errors
      /\ UNCHANGED <<bootKnown, spared>>

\* The run is forgotten and its exit reported.
FinishRun(i) ==
  LET counts == Unexpected(pass.clone[i]) /\ ~pass.rebooted
  IN  /\ Save([mem EXCEPT !.run[i] = NoRun])
      /\ marker' = marker \ {i}
      /\ startEra' = [startEra EXCEPT ![i] = 0]
      /\ pc' = "visit"
      /\ pass' = [Loose EXCEPT !.exits = IF counts THEN @ \cup {i} ELSE @]
      /\ owed' = IF counts THEN owed \cup {pass.pool} ELSE owed

\* remove_dir_all of the run's directory: done, failed, or failed on files of
\* a job with Docker access, whose owner a container then changes.
RemoveDirectory ==
  \/ FinishRun(pass.cur)
  \/ SkipRun /\ Keep /\ UNCHANGED <<startEra, marker, owed>>
  \/ Goto("repair") /\ Keep /\ UNCHANGED <<startEra, marker, owed>>

\* Mutant: after a completed job the ephemeral registration is taken as gone.
SeesUnlessCompleted(i) == i \in registered /\ ~pass.clone[i].completed

SeesRegistration(i) == i \in registered

\* A fresh list of GitHub's runners: no worker is left to register again.
FreshList ==
  /\ pc = "fresh" /\ Undisturbed
  /\ IF SeesRegistration(pass.cur)
     THEN Goto("unregister") /\ Keep /\ UNCHANGED <<startEra, marker, owed>>
     ELSE RemoveDirectory
  /\ UNCHANGED <<bootKnown, docker, late, hostBoot, registered, spared>>

Unregister ==
  /\ pc = "unregister"
  /\ registered' = registered \ {pass.cur}
  /\ \/ Undisturbed /\ RemoveDirectory
     \/ Errors /\ UNCHANGED <<startEra, marker>>
  /\ UNCHANGED <<bootKnown, docker, late, hostBoot, spared>>

Repair ==
  /\ pc = "repair" /\ Undisturbed
  /\ FinishRun(pass.cur)
  /\ UNCHANGED <<bootKnown, docker, late, hostBoot, registered, spared>>

Unused(i) == /\ i \notin Recorded(mem) /\ i \notin Recorded(disk)
             /\ docker[i] = "none" /\ late[i] = "none" /\ i \notin registered

\* The image is present: record a new run.  Its container is created by the
\* next pass, so that a crash in between finds the id in the store.
Replenish ==
  /\ pc = "image" /\ Undisturbed
  /\ \E i \in RunIds, ok \in BOOLEAN :
       /\ Unused(i)
       /\ PassEnds([mem EXCEPT !.run[i] = NewRun(pass.pool, pass.ps.gen)], ok)
       /\ spared' = spared \ {i}
  /\ UNCHANGED <<bootKnown, env>>

-----------------------------------------------------------------------------
(* Requests.  They are handled between ticks, while a command of the pass  *)
(* is in flight, and by the command line itself while no manager runs.     *)

Accepting == pc \in InFlight \cup {"idle", "down"}
Targets == {{p} : p \in Existing(mem)} \cup {Existing(mem)}
Forces == IF "force" \in Commands THEN BOOLEAN ELSE {FALSE}

\* A mutating request moves the epoch, also when it is refused.
MoveEpoch == pass' = IF pc \in InFlight THEN [pass EXCEPT !.moved = TRUE] ELSE pass

Handled(kind, s) ==
  /\ kind \in Commands /\ Accepting
  /\ Save(s) /\ MoveEpoch
  /\ UNCHANGED <<pc, bootKnown, env, spared>>

\* commit_config, then what the handler does after it.  A failed write of
\* config.toml leaves the committed configuration and reloads it.
Configured(kind, s, t) ==
  /\ kind \in Commands /\ Accepting /\ ReplicasFit(s)
  /\ \E written \in BOOLEAN : Handled(kind, IF written THEN t ELSE s)

Start(P) ==
  LET up == [p \in P |-> [mem.pool[p] EXCEPT !.running = TRUE, !.backoff = "none"]]
  IN  /\ \A p \in P : ~mem.pool[p].deleting
      /\ Handled("start", WithPools(mem, up))
      /\ owed' = owed \ P

\* retry_at of a pool whose runs a request touches: force retries at once.
Retry(p, force) == IF force THEN "none" ELSE mem.pool[p].backoff

Stop(P, force) ==
  LET down == [p \in P |-> [mem.pool[p] EXCEPT !.running = FALSE, !.backoff = Retry(p, force)]]
  IN  /\ Handled("stop", Retire(WithPools(mem, down), P, force))
      /\ UNCHANGED owed

Remove(p, force) ==
  LET dropped == [mem.pool[p] EXCEPT !.running = FALSE, !.deleting = TRUE,
                                     !.backoff = Retry(p, force)]
  IN  /\ Owns(p)
      /\ Handled("remove", Retire([mem EXCEPT !.pool[p] = dropped], {p}, force))
      /\ UNCHANGED owed

Add(p, n) ==
  LET s == [mem EXCEPT !.pool[p] = NewPool(n)]
  IN  ~Owns(p) /\ Configured("add", s, s) /\ UNCHANGED owed

Scale(p, n) ==
  LET s == [mem EXCEPT !.pool[p].replicas = n]
  IN  /\ Owns(p) /\ ~mem.pool[p].deleting
      /\ Configured("scale", s, MarkRetiring(s, {p}))
      /\ UNCHANGED owed

Upgrade(p) ==
  LET s == [mem EXCEPT !.pool[p].gen = @ + 1]
  IN  /\ Owns(p) /\ ~mem.pool[p].deleting /\ mem.pool[p].gen < MaxGen
      /\ Configured("upgrade", s, MarkRetiring(s, {p}))
      /\ UNCHANGED owed

\* A new credential clears the backoff of the pools P that use its profile.
Auth(P) ==
  LET cleared == [p \in P |-> [mem.pool[p] EXCEPT !.backoff = "none"]]
  IN  \E written \in BOOLEAN :
        /\ Handled("auth", IF written THEN WithPools(mem, cleared) ELSE mem)
        /\ owed' = IF written THEN owed \ P ELSE owed

\* The edited config.toml: new replicas, new pools, a new generation for the
\* pools whose runners would differ.  A pool cannot be dropped or edited
\* while it is being deleted.
Apply(replicas, added, changed) ==
  LET s == [mem EXCEPT !.pool = [p \in Pools |->
              IF p \in added THEN NewPool(replicas[p])
              ELSE IF p \in Existing(mem)
              THEN [mem.pool[p] EXCEPT !.replicas = replicas[p],
                                       !.gen = IF p \in changed THEN @ + 1 ELSE @]
              ELSE mem.pool[p]]]
  IN  /\ \A p \in Existing(mem) : ~mem.pool[p].deleting
      /\ \A p \in changed : mem.pool[p].gen < MaxGen
      /\ Configured("apply", s, MarkRetiring(s, Existing(s)))
      /\ UNCHANGED owed

\* A refused mutation reloads the store, and still moves the epoch.
Refused == Handled("refused", disk) /\ UNCHANGED owed

\* A status request for an unknown pool reloads the store under the pass.
RefusedStatus ==
  /\ "status" \in Commands /\ Accepting /\ mem # disk
  /\ mem' = disk
  /\ UNCHANGED <<disk, pc, pass, bootKnown, env, ghosts>>

Request ==
  \/ \E P \in Targets : Start(P) \/ \E force \in Forces : Stop(P, force)
  \/ \E p \in Pools : \/ \E force \in Forces : Remove(p, force)
                      \/ \E n \in 0 .. MaxRunners : Add(p, n) \/ Scale(p, n)
                      \/ Upgrade(p)
  \/ \E P \in SUBSET Existing(mem) : Auth(P)
  \/ \E replicas \in [Pools -> 0 .. MaxRunners],
        added \in SUBSET (Pools \ Existing(mem)),
        changed \in SUBSET Existing(mem) : Apply(replicas, added, changed)
  \/ Refused
  \/ RefusedStatus

-----------------------------------------------------------------------------
(* The manager process, the clock, Docker and GitHub.                      *)

\* The manager is killed, or a save of tick fails and ends it.  What it asked
\* of Docker may still be carried out.  (A save that fails inside reconcile does
\* not end it: the pass fails, and the save at the end of tick decides.)
Crash ==
  /\ "crash" \in Events /\ pc # "down"
  /\ pc' = "down" /\ pass' = NoPass /\ mem' = disk /\ bootKnown' = 0
  /\ \/ late' = late
     \/ Lingers /\ late' = [late EXCEPT ![pass.cur] = pc]
  /\ UNCHANGED <<disk, docker, startEra, hostBoot, registered, marker, ghosts>>

Restart ==
  /\ pc = "down" /\ pc' = "idle"
  /\ UNCHANGED <<mem, disk, pass, bootKnown, env, ghosts>>

\* retry_at passes.
BackoffExpires(p) ==
  /\ mem.pool[p].backoff # "none" \/ disk.pool[p].backoff # "none"
  /\ mem' = Arm(mem, p, "none") /\ disk' = Arm(disk, p, "none")
  /\ UNCHANGED <<pc, pass, bootKnown, env, ghosts>>

\* The daemon carries out a command whose client gave up, or drops it.  It
\* serialises the commands on one container.
LateLands(i) ==
  /\ late[i] # "none"
  /\ late' = [late EXCEPT ![i] = "none"]
  /\ \/ late[i] = "create" /\ docker[i] = "none"
        /\ docker' = [docker EXCEPT ![i] = "created"] /\ UNCHANGED startEra
     \/ late[i] = "start" /\ docker[i] # "none" /\ Starts(i)
     \/ UNCHANGED <<docker, startEra>>
  /\ UNCHANGED <<mem, disk, pc, pass, bootKnown, hostBoot, registered, marker, ghosts>>

Registers(i) ==
  /\ "register" \in Events
  /\ docker[i] = "running" /\ i \notin marker /\ i \notin registered
  /\ registered' = registered \cup {i}
  /\ UNCHANGED <<mem, disk, pc, pass, bootKnown, host, marker, ghosts>>

\* job-completed.sh runs in the container before it exits.
JobCompletes(i) ==
  /\ docker[i] = "running" /\ i \in registered /\ i \notin marker
  /\ marker' = marker \cup {i}
  /\ UNCHANGED <<mem, disk, pc, pass, bootKnown, host, registered, ghosts>>

\* An ephemeral runner is dropped by GitHub after its job or when it is gone.
GitHubForgets(i) ==
  /\ i \in registered /\ (i \in marker \/ docker[i] # "running")
  /\ registered' = registered \ {i}
  /\ UNCHANGED <<mem, disk, pc, pass, bootKnown, host, marker, ghosts>>

ContainerExits(i) ==
  /\ docker[i] = "running"
  /\ docker' = [docker EXCEPT ![i] = "exited"]
  /\ UNCHANGED <<mem, disk, pc, pass, bootKnown, startEra, late, hostBoot, registered,
                 marker, ghosts>>

HostReboots ==
  /\ hostBoot < MaxBoots /\ hostBoot' = hostBoot + 1
  /\ docker' = [i \in RunIds |-> IF docker[i] = "running" THEN "exited" ELSE docker[i]]
  /\ late' = [i \in RunIds |-> "none"]
  /\ UNCHANGED <<mem, disk, pc, pass, bootKnown, startEra, registered, marker, ghosts>>

-----------------------------------------------------------------------------
Init ==
  /\ mem \in [pool : [Pools -> {Absent} \cup {NewPool(n) : n \in 0 .. MaxRunners}],
              run : {[i \in RunIds |-> NoRun]}]
  /\ ReplicasFit(mem)
  /\ disk = mem
  /\ pc = "idle" /\ pass = NoPass /\ bootKnown = 0
  /\ docker = [i \in RunIds |-> "none"] /\ late = [i \in RunIds |-> "none"]
  /\ startEra = [i \in RunIds |-> 0] /\ hostBoot = 1
  /\ registered = {} /\ marker = {}
  /\ owed = {} /\ spared = {}

Pass ==
  \/ \E p \in Pools : Tick(p)
  \/ CommandFails \/ CommandTimesOut
  \/ List \/ ForceLoop \/ ForceArchive \/ ForceRemove \/ Relist \/ Remotes
  \/ Visit \/ ReadBoot \/ Prepare \/ CreateContainer \/ StartContainer
  \/ Archive \/ RemoveContainer \/ FreshList \/ Unregister \/ Repair \/ Replenish

Environment ==
  \/ \E p \in Pools : BackoffExpires(p)
  \/ \E i \in RunIds : \/ LateLands(i) \/ Registers(i) \/ JobCompletes(i)
                       \/ GitHubForgets(i) \/ ContainerExits(i)
  \/ HostReboots

Next == Pass \/ Request \/ Crash \/ Restart \/ Environment

Spec == Init /\ [][Next]_vars

-----------------------------------------------------------------------------
(* Fairness: the manager process runs and is restarted by its service      *)
(* manager, the cursor of tick reaches every pool, and backoffs pass.      *)

Fairness ==
  /\ WF_vars(Pass) /\ WF_vars(Restart)
  /\ \A p \in Pools : SF_vars(Tick(p)) /\ WF_vars(BackoffExpires(p))

FairSpec == Spec /\ Fairness

\* Every runner takes a last job and exits: a premise of the properties that
\* wait for a drain, not of the specification.
Drains == \A i \in RunIds : WF_vars(ContainerExits(i))

\* A step on which one of the commands C, or the work after it, goes wrong.
Failure(C) ==
  /\ pc \in C /\ pass # NoPass /\ ~pass.moved /\ ~pass.failed
  /\ \/ pass'.failed \/ pc' = "down"
     \/ pc' = "idle" /\ mem'.pool[pass.pool].backoff = "observation"

Upset(C) == Request \/ Crash \/ HostReboots \/ Failure(C)

GitHubCommands == {"remotes", "prepare", "fresh", "unregister"}

\* From some point on no operator, crash or failure intervenes any more.
Quiet == <>[][~Upset(PCs)]_vars
\* The same, while GitHub may go on failing.
QuietButGitHub == <>[][~Upset(PCs \ GitHubCommands)]_vars

TypeOK ==
  /\ mem \in States /\ disk \in States
  /\ pc \in PCs
  /\ pass \in PassRec
  /\ bootKnown \in Nat /\ hostBoot \in Nat
  /\ docker \in [RunIds -> Statuses] /\ startEra \in [RunIds -> Nat]
  /\ late \in [RunIds -> {"none", "create", "start"}]
  /\ registered \subseteq RunIds /\ marker \subseteq RunIds
  /\ owed \subseteq Pools /\ spared \subseteq RunIds

\* manager.rs:732, 758: a run is recorded before anything is created for it,
\* and draining runs count, so the limit holds in memory and in the store.
CapacityRespected ==
  Cardinality(Recorded(mem)) <= MaxRunners /\ Cardinality(Recorded(disk)) <= MaxRunners

\* manager.rs:712: a run is forgotten only when its container is gone, so no
\* running container is without a record that a restarted manager finds.
RunnersRecorded == \A i \in RunIds : docker[i] = "running" => i \in Recorded(disk)

\* manager.rs:665: no registration outlives its run, whenever it appeared and
\* whatever failed, was interrupted or was restarted in between.
NoLeakedRegistration == registered \subseteq Recorded(disk)

\* No run survives its pool: the runs of a removed pool are gone first.
RunsHaveAPool ==
  \A s \in {mem, disk} : \A i \in Recorded(s) : s.run[i].pool \in Existing(s)

\* docs/operations.md: a stopped or deleting pool disables replacements: no
\* pass that was under way when the request came leaves a run that takes work.
StoppedPoolDrains ==
  \A s \in {mem, disk} : \A i \in Recorded(s) :
     LET ps == s.pool[s.run[i].pool]
     IN  (~ps.running \/ ps.deleting) => s.run[i].retiring

\* Outside a pass the store holds everything; under a pass only the observed
\* phase of a run may be missing from it (manager.rs:602).
CrashLosesNothing ==
  \/ mem = disk
  \/ /\ pc \notin {"idle", "down"}
     /\ mem.pool = disk.pool
     /\ \A i \in RunIds : mem.run[i] = disk.run[i]
                          \/ mem.run[i] = [disk.run[i] EXCEPT !.phase = "live"]

\* A run is recorded only for a pool that exists, runs, is not being deleted
\* and is short of runners at that moment, and for its current generation.
ProvisionIsWanted ==
  [][\A i \in Recorded(disk') \ Recorded(disk) :
       LET p == disk'.run[i].pool
       IN  /\ p \in Existing(mem)
           /\ Cardinality(RunsOf(mem, p)) < Wanted(mem.pool[p])
           /\ disk'.run[i].gen = mem.pool[p].gen]_vars

\* manager.rs:437, 605, 733: no container is created or started, and no run recorded,
\* while the pool backs off provisioning.
BackoffHolds ==
  [][(\/ pc # "prepare" /\ pc' = "prepare"
      \/ Recorded(disk') \ Recorded(disk) # {})
     => mem.pool[pass.pool].backoff = "none"]_vars

\* A container is created or started only for a run that takes work, of the
\* current generation, in a pool that has no more such runs than it wants:
\* what mark_retiring (manager.rs:581) drained is never started any more.
StartIsWanted ==
  [][pc' \in {"create", "start"} /\ pc' # pc
     => LET run == mem.run[pass.cur]
            ps == mem.pool[run.pool]
        IN  /\ ~run.retiring /\ run.gen = ps.gen
            /\ Cardinality(Serving(mem, run.pool)) <= Wanted(ps)]_vars

\* A drain or a force, once accepted, is never undone while the run exists:
\* the clones a pass works on do not write back over a request.
DrainIsFinal ==
  [][\A i \in Recorded(mem) \cap Recorded(mem') :
       /\ mem.run[i].retiring => mem'.run[i].retiring
       /\ mem.run[i].force => mem'.run[i].force]_vars

\* docs/operations.md: only --force terminates work.
OnlyForceKills ==
  [][\A i \in RunIds :
       docker[i] = "running" /\ docker'[i] = "none" => disk.run[i].force]_vars

\* A container is removed only after its logs were archived.
LogsBeforeRemoval ==
  [][\A i \in RunIds :
       docker[i] # "none" /\ docker'[i] = "none" => disk.run[i].logSaved]_vars

\* manager.rs:627: the recovery of a lost create never runs a second
\* container for a run whose first one has run.
NeverRecreated ==
  [][\A i \in RunIds :
       docker[i] = "none" /\ docker'[i] # "none" => startEra[i] = 0]_vars

\* A run whose job completed is never reported as an unexpected exit, also
\* when its removal takes several passes and a restart.
CompletedIsExpected ==
  [][pass'.exits \cap marker = pass.exits \cap marker]_vars

\* manager.rs:895: a host reboot is not evidence of a broken image.
RebootIsExpected == pass.exits \cap spared = {}

\* docs/operations.md: unexpected exits pause provisioning.
ExitsPauseProvisioning ==
  [][\A i \in Recorded(disk') \ Recorded(disk) : disk'.run[i].pool \notin owed]_vars

\* manager.rs:533: force terminates the container although every GitHub
\* command fails, as with a revoked credential.
ForceStopsRunners ==
  QuietButGitHub => \A i \in RunIds : mem.run[i].force ~> docker[i] = "none"

\* A removed pool disappears once its runners have drained.
RemovalCompletes ==
  Quiet /\ Drains => \A p \in Pools : mem.pool[p].deleting ~> ~mem.pool[p].exists

\* A pool that should have runners gets one that takes work, whatever was
\* interrupted, lost, drained or backed off before.
PoolServes ==
  Quiet /\ Drains => \A p \in Pools :
     Wanted(mem.pool[p]) > 0
     ~> \/ Wanted(mem.pool[p]) = 0
        \/ \E i \in RunsOf(mem, p) : docker[i] = "running" /\ ~mem.run[i].retiring

-----------------------------------------------------------------------------
(* The runners, seen from outside: module Runners.                         *)

Entry(run) ==
  IF run.phase = "none" THEN "none"
  ELSE IF run.force THEN "forced" ELSE IF run.retiring THEN "draining" ELSE "serving"

Life(i) == [record |-> Entry(disk.run[i]), box |-> docker[i], ran |-> startEra[i] # 0,
            saved |-> i \in Recorded(disk) /\ disk.run[i].logSaved,
            worker |-> i \in registered]

Outside == INSTANCE Runners WITH life <- [i \in RunIds |-> Life(i)]

\* What the store, Docker and GitHub hold for a run only ever moves as a
\* runner's life does, one step at a time, although every command of a pass
\* may be lost, carried out late, or answered to a manager that is gone.
LivesAsPromised == Outside!Spec

-----------------------------------------------------------------------------
(* The pools, seen from outside: module PoolLife.                          *)

Intent(ps) ==
  IF ~ps.exists THEN "absent" ELSE IF ps.deleting THEN "deleting"
  ELSE IF ps.running THEN "running" ELSE "stopped"

PoolSeen(s, p) ==
  LET ps == s.pool[p]
  IN  [intent |-> Intent(ps), gen |-> IF ps.exists THEN ps.gen ELSE 0,
       replicas |-> IF ps.exists THEN ps.replicas ELSE 0,
       runs |-> Cardinality(RunsOf(s, p))]

PoolOutside == INSTANCE PoolLife WITH life <- [p \in Pools |-> PoolSeen(disk, p)]

\* What the store holds for a pool moves by one request or one run at a time,
\* whatever a pass read of it, and it goes after its last run (manager.rs:724).
PoolsLiveAsPromised == PoolOutside!Spec
=============================================================================
