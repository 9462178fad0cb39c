---------------------------- MODULE WorldProofs ----------------------------
(***************************************************************************)
(* World is an invariant of Engine, for every set of pools and runs, every *)
(* limit and every number of boots, and what follows from it.              *)
(***************************************************************************)
EXTENDS AccordProofs, WorldInvariant

-----------------------------------------------------------------------------
(* What a step leaves of the records of the runs.                          *)

\* The record stays that of the same run, and what was noted of it is kept.
KeepsRun(r, t) ==
  /\ t.phase = "none" <=> r.phase = "none"
  /\ t.pool = r.pool
  /\ r.phase = "cleanup" => t.phase = "cleanup"
  /\ t.logSaved = r.logSaved
  /\ r.force => t.force
  /\ Unexpected(t) => Unexpected(r)

KeepsRuns == \A i \in RunIds : KeepsRun(mem.run[i], mem'.run[i])

\* What the store holds after a request: a reload or the new memory.
SamePhases == \A i \in RunIds : mem'.run[i].phase = mem.run[i].phase
Stored == (mem' = disk /\ disk' = disk) \/ (disk' = mem' /\ SamePhases)

\* What only a request may change of them: then the epoch has moved.
SameDuty(r, t) == t.gen = r.gen /\ t.retiring = r.retiring
Calm ==
  /\ \A p \in Pools : /\ mem'.pool[p].gen = mem.pool[p].gen
                      /\ mem'.pool[p].backoff \in {mem.pool[p].backoff, "none"}
  /\ \A i \in RunIds : SameDuty(mem.run[i], mem'.run[i])

LEMMA KeptSets ==
  ASSUME KeepsRuns
  PROVE  Recorded(mem') = Recorded(mem) /\ \A p : RunsOf(mem', p) = RunsOf(mem, p)
BY DEF KeepsRuns, KeepsRun, Recorded, RunsOf

LEMMA KeptReload ==
  ASSUME TypeOK, Synced, mem' = disk
  PROVE  KeepsRuns /\ Calm
<1>1. mem \in States /\ disk \in States /\ mem.pool = disk.pool
  BY DEF TypeOK, Synced
<1>2. ASSUME NEW i \in RunIds
      PROVE  KeepsRun(mem.run[i], disk.run[i]) /\ SameDuty(mem.run[i], disk.run[i])
  <2>1. disk.run[i] \in RunRec
    BY <1>1 DEF States
  <2>2. CASE mem.run[i] = disk.run[i]
    BY <2>2 DEF KeepsRun, SameDuty
  <2>3. CASE i \in Recorded(disk) /\ mem.run[i] = [disk.run[i] EXCEPT !.phase = "live"]
    BY <2>1, <2>3 DEF KeepsRun, SameDuty, RunRec, Recorded, Unexpected
  <2> QED BY <2>2, <2>3 DEF Synced
<1> QED BY <1>1, <1>2 DEF KeepsRuns, Calm

LEMMA KeptRun ==
  ASSUME TypeOK, NEW i \in RunIds, NEW force \in BOOLEAN
  PROVE  /\ KeepsRun(mem.run[i], mem.run[i])
         /\ KeepsRun(mem.run[i], [mem.run[i] EXCEPT !.retiring = TRUE])
         /\ KeepsRun(mem.run[i], [mem.run[i] EXCEPT !.retiring = TRUE, !.force = @ \/ force])
         /\ [mem.run[i] EXCEPT !.retiring = TRUE].phase = mem.run[i].phase
         /\ [mem.run[i] EXCEPT !.retiring = TRUE, !.force = @ \/ force].phase = mem.run[i].phase
<1>1. mem.run[i] \in RunRec
  BY DEF TypeOK, States
<1> QED BY <1>1 DEF KeepsRun, RunRec, Unexpected

LEMMA KeptMark ==
  ASSUME TypeOK, NEW s \in States, s.run = mem.run, NEW P, mem' = MarkRetiring(s, P)
  PROVE  KeepsRuns /\ SamePhases
<1>1. \A i \in RunIds : \/ mem'.run[i] = mem.run[i]
                        \/ mem'.run[i] = [mem.run[i] EXCEPT !.retiring = TRUE]
  BY DEF MarkRetiring, States
<1>2. SamePhases
  BY <1>1, KeptRun DEF SamePhases
<1> QED BY <1>1, <1>2, KeptRun DEF KeepsRuns

LEMMA KeptRetire ==
  ASSUME TypeOK, NEW s \in States, s.run = mem.run, NEW P, NEW force \in BOOLEAN,
         mem' = Retire(s, P, force)
  PROVE  KeepsRuns /\ SamePhases
<1>1. \A i \in RunIds : \/ mem'.run[i] = mem.run[i]
                        \/ mem'.run[i] = [mem.run[i] EXCEPT !.retiring = TRUE, !.force = @ \/ force]
  BY DEF Retire, States
<1>2. SamePhases
  BY <1>1, KeptRun DEF SamePhases
<1> QED BY <1>1, <1>2, KeptRun DEF KeepsRuns

LEMMA KeptPools ==
  ASSUME TypeOK, mem'.run = mem.run
  PROVE  KeepsRuns /\ SamePhases
BY KeptRun DEF KeepsRuns, SamePhases

\* A request: the runs are kept, and unless the epoch moves the rest as well.
LEMMA KeptRequest ==
  ASSUME TInv, Accord, Request
  PROVE  KeepsRuns /\ UNCHANGED <<pc, env>> /\ (RefusedStatus \/ MoveEpoch) /\ Stored
<1>0. /\ TypeOK /\ mem \in States /\ disk \in States /\ Synced
      /\ \A p \in Pools : mem.pool[p] \in PoolRec
  BY DEF TInv, TypeOK, States, Accord
<1> DEFINE Claim == KeepsRuns /\ UNCHANGED <<pc, env>> /\ (RefusedStatus \/ MoveEpoch) /\ Stored
<1>a. ASSUME NEW kind, NEW s, Handled(kind, s), KeepsRuns, SamePhases PROVE Claim
  BY <1>a DEF Handled, Save, Stored
<1>b. ASSUME NEW kind, NEW s \in States, Handled(kind, s), s.run = mem.run PROVE Claim
  BY <1>0, <1>a, <1>b, KeptPools DEF Handled, Save
<1>c. ASSUME NEW kind, NEW s \in States, NEW P, s.run = mem.run,
             Configured(kind, s, s) \/ Configured(kind, s, MarkRetiring(s, P))
      PROVE  Claim
  <2>1. Handled(kind, s) \/ Handled(kind, MarkRetiring(s, P))
    BY <1>c DEF Configured
  <2>2. ASSUME Handled(kind, MarkRetiring(s, P)) PROVE Claim
    <3>1. KeepsRuns /\ SamePhases
      BY <1>0, <1>c, <2>2, KeptMark DEF Handled, Save
    <3> QED BY <1>a, <2>2, <3>1
  <2> QED BY <1>b, <1>c, <2>1, <2>2
<1>d. ASSUME NEW kind, NEW s \in States, NEW P, NEW force \in BOOLEAN, s.run = mem.run,
             Handled(kind, Retire(s, P, force))
      PROVE  Claim
  <2>1. KeepsRuns /\ SamePhases
    BY <1>0, <1>d, KeptRetire DEF Handled, Save
  <2> QED BY <1>a, <1>d, <2>1
<1>e. ASSUME NEW P \in SUBSET Pools, NEW new \in [P -> PoolRec]
      PROVE  WithPools(mem, new) \in States /\ WithPools(mem, new).run = mem.run
  BY <1>0, WithPoolsType DEF WithPools, States
<1>f. ASSUME NEW p \in Pools, NEW ps \in PoolRec
      PROVE  [mem EXCEPT !.pool[p] = ps] \in States /\ [mem EXCEPT !.pool[p] = ps].run = mem.run
  BY <1>0, SetPoolType DEF States
<1>1. ASSUME NEW P \in Targets, Start(P) PROVE Claim
  <2> DEFINE up == [p \in P |-> [mem.pool[p] EXCEPT !.running = TRUE, !.backoff = "none"]]
  <2>1. P \in SUBSET Pools
    BY <1>0, TargetsType
  <2>2. up \in [P -> PoolRec]
    BY <1>0, <2>1, PoolUpdateType
  <2>3. Handled("start", WithPools(mem, up))
    BY <1>1 DEF Start
  <2> HIDE DEF up
  <2> QED BY <1>b, <1>e, <2>1, <2>2, <2>3
<1>2. ASSUME NEW P \in Targets, NEW force \in Forces, Stop(P, force) PROVE Claim
  <2> DEFINE down == [p \in P |-> [mem.pool[p] EXCEPT !.running = FALSE,
                                                      !.backoff = Retry(p, force)]]
  <2>1. P \in SUBSET Pools /\ force \in BOOLEAN
    BY <1>0, TargetsType DEF Forces
  <2>2. down \in [P -> PoolRec]
    BY <1>0, <2>1, PoolUpdateType, RetryType
  <2>3. Handled("stop", Retire(WithPools(mem, down), P, force))
    BY <1>2 DEF Stop
  <2> HIDE DEF down
  <2> QED BY <1>d, <1>e, <2>1, <2>2, <2>3
<1>3. ASSUME NEW p \in Pools, NEW force \in Forces, Remove(p, force) PROVE Claim
  <2> DEFINE dropped == [mem.pool[p] EXCEPT !.running = FALSE, !.deleting = TRUE,
                                            !.backoff = Retry(p, force)]
  <2>1. force \in BOOLEAN
    BY DEF Forces
  <2>2. dropped \in PoolRec
    BY <1>0, <2>1, PoolUpdateType, RetryType
  <2>3. Handled("remove", Retire([mem EXCEPT !.pool[p] = dropped], {p}, force))
    BY <1>3 DEF Remove
  <2> HIDE DEF dropped
  <2> QED BY <1>d, <1>f, <2>1, <2>2, <2>3
<1>4. ASSUME NEW p \in Pools, NEW n \in 0 .. MaxRunners, Add(p, n) PROVE Claim
  BY <1>4, <1>c, <1>f, ConstantTypes DEF Add
<1>5. ASSUME NEW p \in Pools, NEW n \in 0 .. MaxRunners, Scale(p, n) PROVE Claim
  <2> DEFINE s == [mem EXCEPT !.pool[p].replicas = n]
  <2>1. s = [mem EXCEPT !.pool[p] = [mem.pool[p] EXCEPT !.replicas = n]]
    BY <1>0 DEF States
  <2>2. s \in States /\ s.run = mem.run
    BY <1>0, <1>f, <2>1, PoolUpdateType
  <2>3. Configured("scale", s, MarkRetiring(s, {p}))
    BY <1>5 DEF Scale
  <2> HIDE DEF s
  <2> QED BY <1>c, <2>2, <2>3
<1>6. ASSUME NEW p \in Pools, Upgrade(p) PROVE Claim
  <2> DEFINE s == [mem EXCEPT !.pool[p].gen = @ + 1]
  <2>1. s = [mem EXCEPT !.pool[p] = [mem.pool[p] EXCEPT !.gen = @ + 1]]
    BY <1>0 DEF States
  <2>2. s \in States /\ s.run = mem.run
    BY <1>0, <1>f, <2>1, PoolUpdateType
  <2>3. Configured("upgrade", s, MarkRetiring(s, {p}))
    BY <1>6 DEF Upgrade
  <2> HIDE DEF s
  <2> QED BY <1>c, <2>2, <2>3
<1>7. ASSUME NEW P \in SUBSET Existing(mem), Auth(P) PROVE Claim
  <2> DEFINE cleared == [p \in P |-> [mem.pool[p] EXCEPT !.backoff = "none"]]
  <2>1. P \in SUBSET Pools
    BY DEF Existing
  <2>2. cleared \in [P -> PoolRec]
    BY <1>0, <2>1, PoolUpdateType
  <2>3. Handled("auth", WithPools(mem, cleared)) \/ Handled("auth", mem)
    BY <1>7 DEF Auth
  <2> HIDE DEF cleared
  <2> QED BY <1>0, <1>b, <1>e, <2>1, <2>2, <2>3
<1>8. ASSUME NEW replicas \in [Pools -> 0 .. MaxRunners],
             NEW added \in SUBSET (Pools \ Existing(mem)),
             NEW changed \in SUBSET Existing(mem), Apply(replicas, added, changed)
      PROVE  Claim
  <2> DEFINE new(p) == IF p \in added THEN NewPool(replicas[p])
                       ELSE IF p \in Existing(mem)
                       THEN [mem.pool[p] EXCEPT !.replicas = replicas[p],
                               !.gen = IF p \in changed THEN @ + 1 ELSE @]
                       ELSE mem.pool[p]
             s == [mem EXCEPT !.pool = [p \in Pools |-> new(p)]]
  <2>1. ASSUME NEW p \in Pools PROVE new(p) \in PoolRec
    <3>1. replicas[p] \in 0 .. MaxRunners /\ mem.pool[p] \in PoolRec
      BY <1>0
    <3>2. [mem.pool[p] EXCEPT !.replicas = replicas[p],
             !.gen = IF p \in changed THEN @ + 1 ELSE @] \in PoolRec
      <4>1. mem.pool[p].gen \in Nat /\ mem.pool[p].gen + 1 \in Nat
        BY <3>1 DEF PoolRec
      <4> QED BY <3>1, <4>1, PoolUpdateType
    <3> QED BY <3>1, <3>2, ConstantTypes
  <2>2. s \in States /\ s.run = mem.run
    BY <1>0, <2>1 DEF States
  <2>3. Configured("apply", s, MarkRetiring(s, Existing(s)))
    BY <1>8 DEF Apply
  <2> HIDE DEF s
  <2> QED BY <1>c, <2>2, <2>3
<1>9. CASE Refused
  BY <1>0, <1>9, KeptReload DEF Refused, Handled, Save, Stored
<1>10. CASE RefusedStatus
  BY <1>0, <1>10, KeptReload DEF RefusedStatus, Stored
<1> QED
  BY <1>1, <1>2, <1>3, <1>4, <1>5, <1>6, <1>7, <1>8, <1>9, <1>10 DEF Request

-----------------------------------------------------------------------------
(* Steps that leave the pass where it is.                                  *)

\* What is in flight stays, but its answer may have become void.
Onward == pass' = pass \/ pass' = [pass EXCEPT !.moved = TRUE]

LEMMA OnwardFields ==
  ASSUME TypeOK, Onward
  PROVE  /\ pass'.pool = pass.pool /\ pass'.snap = pass.snap /\ pass'.todo = pass.todo
         /\ pass'.cur = pass.cur /\ pass'.clone = pass.clone /\ pass'.allow = pass.allow
         /\ ~pass'.moved => ~pass.moved
BY DEF TypeOK, Onward, PassRec

LEMMA ContainersKept ==
  ASSUME Containers, KeepsRuns, UNCHANGED <<docker, startEra, late, registered>>
  PROVE  Containers'
BY KeptSets DEF Containers, Gone, KeepsRuns, KeepsRun

LEMMA ListingKept ==
  ASSUME TypeOK, TypeOK', Listing, KeepsRuns, UNCHANGED <<docker, startEra, late, registered, pc>>, Onward
  PROVE  Listing'
<1>1. /\ pass'.pool = pass.pool /\ pass'.snap = pass.snap /\ pass'.todo = pass.todo
      /\ \A p : RunsOf(mem', p) = RunsOf(mem, p)
      /\ \A i \in RunsOf(mem, pass.pool) : i \in RunIds
  BY KeptSets, OnwardFields DEF RunsOf, Recorded
<1> QED BY <1>1 DEF Listing, SeenGone, SeenThere, Gone, KeepsRuns, KeepsRun

LEMMA InFlightKept ==
  ASSUME TypeOK, Shape, InFlightHeld, KeepsRuns,
         UNCHANGED <<docker, startEra, late, registered, pc>>, Onward
  PROVE  InFlightHeld'
<1>1. /\ pass'.cur = pass.cur /\ pass'.snap = pass.snap /\ pass'.todo = pass.todo
      /\ pass'.clone = pass.clone /\ Recorded(mem') = Recorded(mem)
      /\ pc \in Holding => pass.cur \in RunIds
      /\ pass.todo \subseteq RunIds
  BY KeptSets, OnwardFields DEF Shape, TypeOK, PassRec
<1>2. Removing \subseteq Holding
  BY DEF Removing, Holding, Collected
<1>3. \A i \in RunIds : /\ mem.run[i].force => mem'.run[i].force
                        /\ mem.run[i].phase = "cleanup" => mem'.run[i].phase = "cleanup"
                        /\ mem.run[i].logSaved => mem'.run[i].logSaved
  BY DEF KeepsRuns, KeepsRun
<1> QED BY <1>1, <1>2, <1>3 DEF InFlightHeld, Gone, Holding, Collected

LEMMA StartsKept ==
  ASSUME TypeOK, Shape, StartsHeld, UNCHANGED pc, KeepsRuns, Onward, pass'.moved \/ Calm
  PROVE  StartsHeld'
<1>0. /\ pass'.pool = pass.pool /\ pass'.cur = pass.cur /\ pass'.todo = pass.todo
      /\ pass'.allow = pass.allow /\ (~pass'.moved => ~pass.moved)
      /\ \A p : RunsOf(mem', p) = RunsOf(mem, p)
      /\ \A i \in RunsOf(mem, pass.pool) : i \in RunIds
  BY KeptSets, OnwardFields DEF RunsOf, Recorded
<1>1. ASSUME ~pass'.moved, pc \notin {"idle", "down"}
      PROVE  StartsHeld'
  <2>1. /\ mem'.pool[pass.pool].gen = mem.pool[pass.pool].gen
        /\ mem'.pool[pass.pool].backoff \in {mem.pool[pass.pool].backoff, "none"}
        /\ \A i \in RunIds : SameDuty(mem.run[i], mem'.run[i]) /\ mem'.run[i].pool = mem.run[i].pool
    BY <1>1 DEF Calm, Shape, KeepsRuns, KeepsRun
  <2>2. pc \in {"prepare", "create", "start"} => pass.cur \in RunIds
    BY DEF Shape, Holding
  <2> QED BY <1>0, <1>1, <2>1, <2>2 DEF StartsHeld, Current, SameDuty
<1>2. CASE pc \in {"idle", "down"}
  BY <1>2 DEF StartsHeld, Looping, Collected
<1>3. CASE pass'.moved
  BY <1>0, <1>3 DEF StartsHeld
<1> QED BY <1>1, <1>2, <1>3

LEMMA WorldKept ==
  ASSUME TInv, TInv', World, KeepsRuns, UNCHANGED <<pc, env>>, Onward, pass'.moved \/ Calm
  PROVE  World'
<1>1. TypeOK /\ TypeOK' /\ Shape /\ UNCHANGED <<docker, startEra, late, registered>>
  BY DEF TInv, env
<1> QED BY <1>1, ContainersKept, ListingKept, InFlightKept, StartsKept DEF World

LEMMA WorldRequest ==
  ASSUME TInv, TInv', Accord, World, Request
  PROVE  World'
<1>1. KeepsRuns /\ UNCHANGED <<pc, env>> /\ (RefusedStatus \/ MoveEpoch)
  BY KeptRequest
<1>2. CASE RefusedStatus
  <2>1. Calm /\ Onward
    BY <1>2, KeptReload DEF RefusedStatus, Onward, TInv, Accord
  <2> QED BY <1>1, <2>1, WorldKept
<1>3. CASE MoveEpoch /\ pc \in InFlight
  <2>1. Onward /\ pass'.moved
    BY <1>3 DEF MoveEpoch, Onward, TInv, TypeOK, PassRec
  <2> QED BY <1>1, <2>1, WorldKept
<1>4. CASE MoveEpoch /\ pc \notin InFlight
  <2>1. Request => Accepting
    BY DEF Request, Start, Stop, Remove, Add, Scale, Upgrade, Auth, Apply, Refused,
           RefusedStatus, Configured, Handled
  <2>2. pc \in {"idle", "down"} /\ pc' = pc
    BY <1>1, <1>4, <2>1 DEF Accepting
  <2>3. Containers'
    BY <1>1, ContainersKept DEF World, env
  <2> QED BY <2>2, <2>3 DEF World, Listing, InFlightHeld, StartsHeld, Forcing, Looping,
             Collected, Holding, Removing
<1> QED BY <1>1, <1>2, <1>3, <1>4

LEMMA WorldBackoff ==
  ASSUME TInv, TInv', World, NEW p \in Pools, BackoffExpires(p)
  PROVE  World'
<1>1. /\ mem \in States /\ mem' = Arm(mem, p, "none") /\ UNCHANGED <<pc, pass, env>>
  BY DEF TInv, TypeOK, BackoffExpires
<1>2. /\ mem'.run = mem.run
      /\ \A q \in Pools : /\ mem'.pool[q].gen = mem.pool[q].gen
                          /\ mem'.pool[q].backoff \in {mem.pool[q].backoff, "none"}
  BY <1>1 DEF Arm, States, PoolRec
<1>3. KeepsRuns /\ Calm /\ Onward
  BY <1>1, <1>2, KeptPools DEF TInv, Calm, SameDuty, Onward
<1> QED BY <1>1, <1>3, WorldKept

-----------------------------------------------------------------------------
(* What happens around the manager.                                        *)

\* A step of the world that takes no container away and starts none that was gone.
Settles ==
  \A i \in RunIds :
    /\ docker[i] # "none" => docker'[i] # "none"
    /\ docker[i] = "none" /\ docker'[i] # "none" => late[i] = "create" /\ docker'[i] = "created"
    /\ late'[i] \in {late[i], "none"}
    /\ docker'[i] = "created" => docker[i] \in {"none", "created"}
    /\ docker'[i] = "running" => docker[i] = "running" \/ (late[i] = "start" /\ late'[i] = "none")
    /\ docker'[i] = "exited" => docker[i] \in {"running", "exited"}
    /\ late[i] = "start" /\ docker'[i] # "created" => late'[i] = "none"
    /\ late[i] = "create" /\ docker'[i] # docker[i] => late'[i] = "none"
    /\ startEra'[i] # startEra[i] => late[i] = "start" /\ docker'[i] = "running"
    /\ i \in registered' /\ i \notin registered => docker[i] = "running"

LEMMA SettlesStep ==
  ASSUME TInv, Containers, NEW i \in RunIds,
         \/ LateLands(i) \/ Registers(i) \/ JobCompletes(i) \/ GitHubForgets(i)
         \/ ContainerExits(i) \/ HostReboots
  PROVE  Settles /\ UNCHANGED <<mem, disk, pc, pass>>
<1>0. /\ docker \in [RunIds -> Statuses] /\ startEra \in [RunIds -> Nat]
      /\ late \in [RunIds -> {"none", "create", "start"}]
      /\ \A j \in RunIds : late[j] = "start" => docker[j] = "created"
      /\ \A j \in RunIds : late[j] = "create" => docker[j] \in {"none", "created"}
  BY DEF TInv, TypeOK, Containers
<1>1. CASE LateLands(i)
  BY <1>0, <1>1 DEF LateLands, Starts, Settles, Statuses
<1>2. CASE Registers(i) \/ JobCompletes(i) \/ GitHubForgets(i)
  BY <1>0, <1>2 DEF Registers, JobCompletes, GitHubForgets, Settles, Statuses, host
<1>3. CASE ContainerExits(i)
  BY <1>0, <1>3 DEF ContainerExits, Settles, Statuses
<1>4. CASE HostReboots
  BY <1>0, <1>4 DEF HostReboots, Settles, Statuses
<1> QED BY <1>1, <1>2, <1>3, <1>4

LEMMA WorldSettles ==
  ASSUME TInv, TInv', Accord, World, Settles, UNCHANGED <<mem, disk, pc, pass>>
  PROVE  World'
<1>0. /\ docker \in [RunIds -> Statuses] /\ docker' \in [RunIds -> Statuses]
      /\ startEra \in [RunIds -> Nat] /\ registered' \subseteq RunIds
      /\ late \in [RunIds -> {"none", "create", "start"}]
      /\ pc \in Holding => pass.cur \in RunIds
      /\ pass.todo \subseteq RunIds
      /\ \A i \in RunsOf(mem, pass.pool) : i \in RunIds
  BY DEF TInv, TypeOK, Shape, PassRec, RunsOf, Recorded
<1>1. ASSUME NEW i \in RunIds, Gone(i)
      PROVE  Gone(i)' /\ startEra'[i] = startEra[i] /\ (i \in registered' => i \in registered)
  BY <1>0, <1>1 DEF Gone, Settles, Statuses
<1>2. Containers'
  <2>1. Recorded(mem') = Recorded(mem)
    OBVIOUS
  <2> QED BY <1>0, <1>1, <2>1 DEF Containers, World, Settles, Statuses, Gone
<1>3. Listing'
  BY <1>0, <1>1 DEF Listing, World, SeenGone, SeenThere, Settles
<1>4. InFlightHeld'
  BY <1>0, <1>1 DEF InFlightHeld, World, Holding, Collected
<1>5. StartsHeld'
  BY DEF StartsHeld, World, Current
<1> QED BY <1>2, <1>3, <1>4, <1>5 DEF World

LEMMA WorldEnvironment ==
  ASSUME TInv, TInv', Accord, World, Environment
  PROVE  World'
<1>1. ASSUME NEW i \in RunIds,
             \/ LateLands(i) \/ Registers(i) \/ JobCompletes(i) \/ GitHubForgets(i)
             \/ ContainerExits(i) \/ HostReboots
      PROVE  World'
  BY <1>1, SettlesStep, WorldSettles DEF World
<1>2. CASE HostReboots
  <2>1. CASE RunIds = {}
    <3>1. Settles /\ UNCHANGED <<mem, disk, pc, pass>>
      BY <1>2, <2>1 DEF Settles, HostReboots
    <3> QED BY <3>1, WorldSettles
  <2> QED BY <1>1, <1>2, <2>1
<1> QED BY <1>1, <1>2, WorldBackoff DEF Environment

-----------------------------------------------------------------------------
(* The pass is over, or goes back to the head of its loop.                 *)

LEMMA WorldOver ==
  ASSUME pc' \in {"idle", "down"}, Containers'
  PROVE  World'
BY DEF World, Listing, InFlightHeld, StartsHeld, Forcing, Looping, Collected, Holding, Removing

\* Every action leaves a container of a run that is gone as it is, unless it
\* is the run in hand.
LEMMA LoopOn ==
  ASSUME TInv, TInv', Accord, World, pc \in Looping, pc' \in Looping,
         pass'.pool = pass.pool, pass'.snap = pass.snap, pass'.allow = pass.allow,
         pass'.moved = pass.moved, pass'.todo \subseteq pass.todo,
         mem'.pool = mem.pool,
         \A i \in Recorded(mem') : /\ i \in Recorded(mem) /\ mem'.run[i].pool = mem.run[i].pool
                                   /\ SameDuty(mem.run[i], mem'.run[i]),
         \A i \in pass'.todo : /\ docker'[i] = docker[i]
                               /\ late'[i] = late[i],
         pc' = "prepare" => pass.allow,
         pc' \in {"prepare", "create", "start"} /\ ~pass.moved =>
           mem'.run[pass'.cur].pool = pass.pool /\ ~mem'.run[pass'.cur].retiring
  PROVE  Listing' /\ StartsHeld'
<1>1. Listing'
  BY DEF Listing, World, SeenGone, SeenThere, Gone, Forcing, Looping, Collected
<1>2. \A i \in RunsOf(mem', pass.pool) : i \in RunsOf(mem, pass.pool) /\ SameDuty(mem.run[i], mem'.run[i])
  BY DEF RunsOf
<1>3. pc \notin {"idle", "down"} /\ pc' # "image"
  BY DEF Looping, Collected
<1>4. StartsHeld'
  BY <1>2, <1>3 DEF StartsHeld, World, Current, SameDuty
<1> QED BY <1>1, <1>4

LEMMA RunsSame ==
  ASSUME TypeOK, mem'.run = mem.run
  PROVE  /\ Recorded(mem') = Recorded(mem)
         /\ \A i \in RunIds : KeepsRun(mem.run[i], mem'.run[i])
         /\ \A i \in Recorded(mem') : /\ i \in Recorded(mem) /\ mem'.run[i].pool = mem.run[i].pool
                                      /\ SameDuty(mem.run[i], mem'.run[i])
BY KeptPools DEF KeepsRuns, Recorded, SameDuty

LEMMA EndsKeep ==
  ASSUME TInv, pass.pool \in Pools, NEW s \in States, NEW ok, PassEnds(s, ok)
  PROVE  mem'.run = s.run /\ pc' = "idle" /\ pass' = NoPass
BY DEF PassEnds, Save, Concluded, Arm, States

LEMMA ErrorsKeep ==
  ASSUME TInv, Errors
  PROVE  /\ mem'.run = mem.run
         /\ \/ pc' = "idle"
            \/ pc \in Collected /\ SkipRun /\ Keep
BY EndsKeep DEF Errors, TInv, TypeOK, Shape, Fatal, Collected, Keep

\* An error, whatever its command did to the run in hand.
LEMMA WorldErrors ==
  ASSUME TInv, TInv', Accord, World, Errors, Containers',
         \A i \in RunIds \ {pass.cur} : docker'[i] = docker[i] /\ late'[i] = late[i]
  PROVE  World'
<1>1. CASE pc' = "idle"
  BY <1>1, WorldOver
<1>2. CASE pc \in Collected /\ SkipRun /\ Keep
  <2>1. pass \in PassRec /\ TypeOK
    BY DEF TInv, TypeOK
  <2>2. /\ pass'.pool = pass.pool /\ pass'.snap = pass.snap /\ pass'.allow = pass.allow
        /\ pass'.moved = pass.moved /\ pass'.todo = pass.todo /\ pc' = "visit"
        /\ mem' = mem
    BY <1>2, <2>1 DEF SkipRun, Loose, PassRec, Keep
  <2>3. pass.todo \subseteq RunIds \ {pass.cur}
    BY <1>2, <2>1 DEF Accord, TodoHeld, Looping, PassRec, Collected
  <2>4. Listing' /\ StartsHeld'
    BY <1>2, <2>1, <2>2, <2>3, LoopOn, RunsSame DEF Looping
  <2>5. InFlightHeld'
    BY <2>2 DEF InFlightHeld, Holding, Removing, Collected
  <2> QED BY <2>4, <2>5 DEF World
<1> QED BY <1>1, <1>2, ErrorsKeep

LEMMA WorldFails ==
  ASSUME TInv, TInv', Accord, World, CommandFails
  PROVE  World'
<1>1. Errors /\ UNCHANGED <<docker, late, startEra, registered>>
  BY DEF CommandFails, env
<1>2. Containers'
  BY <1>1, ErrorsKeep, KeptPools, ContainersKept DEF TInv, World
<1> QED BY <1>1, <1>2, WorldErrors

\* The run in hand is the one whose command may still be carried out.
LEMMA LateContainers ==
  ASSUME TInv, World, Lingers, KeepsRuns, late' = [late EXCEPT ![pass.cur] = pc],
         UNCHANGED <<docker, startEra, registered>>
  PROVE  Containers'
<1>0. /\ pass.cur \in RunIds /\ pc \in {"create", "start"} /\ pass.cur \in Recorded(mem)
      /\ late \in [RunIds -> {"none", "create", "start"}]
      /\ Recorded(mem') = Recorded(mem)
  BY KeptSets DEF Lingers, TInv, TypeOK, Shape, World, InFlightHeld, Holding
<1>1. CASE pc = "create"
  <2>1. Gone(pass.cur) /\ startEra[pass.cur] = 0
    BY <1>1 DEF World, InFlightHeld
  <2> QED BY <1>0, <1>1, <2>1 DEF Containers, World, Gone, KeepsRuns, KeepsRun
<1>2. CASE pc = "start"
  <2>1. docker[pass.cur] = "created"
    BY <1>2 DEF Lingers
  <2> QED BY <1>0, <1>2, <2>1 DEF Containers, World, Gone, KeepsRuns, KeepsRun
<1> QED BY <1>0, <1>1, <1>2

LEMMA WorldTimesOut ==
  ASSUME TInv, TInv', Accord, World, CommandTimesOut
  PROVE  World'
<1>1. /\ Lingers /\ Errors /\ late' = [late EXCEPT ![pass.cur] = pc]
      /\ UNCHANGED <<docker, startEra, registered>>
      /\ late \in [RunIds -> {"none", "create", "start"}]
  BY DEF CommandTimesOut, TInv, TypeOK
<1>2. Containers'
  BY <1>1, LateContainers, ErrorsKeep, KeptPools DEF TInv
<1> QED BY <1>1, <1>2, WorldErrors

LEMMA WorldEnds ==
  ASSUME TInv, TInv', World, pass.pool \in Pools, NEW s \in States, s.run = mem.run, NEW ok,
         PassEnds(s, ok), UNCHANGED env
  PROVE  World'
<1>1. mem'.run = mem.run /\ pc' = "idle"
  BY EndsKeep
<1>2. Containers'
  BY <1>1, KeptPools, ContainersKept DEF TInv, World, env
<1> QED BY <1>1, <1>2, WorldOver

LEMMA WorldDeletePool ==
  ASSUME TInv, TInv', Accord, World, pass.pool \in Pools, DeletePool, UNCHANGED env
  PROVE  World'
<1> DEFINE gone == [mem EXCEPT !.pool[pass.pool] = Absent]
<1>0. mem \in States /\ TypeOK
  BY DEF TInv, TypeOK
<1>1. gone.run = mem.run
  BY <1>0 DEF States
<1>2. CASE PassEnds(mem, FALSE)
  BY <1>0, <1>2, WorldEnds
<1>3. CASE mem' \in {disk, gone} /\ pc' \in {"idle", "down"}
  <2>1. KeepsRuns
    BY <1>0, <1>1, <1>3, KeptPools, KeptReload DEF Accord
  <2>2. Containers'
    BY <2>1, ContainersKept DEF World, env
  <2> QED BY <1>3, <2>2, WorldOver
<1> QED BY <1>2, <1>3 DEF DeletePool, Save

LEMMA WorldTick ==
  ASSUME TInv, TInv', World, NEW p \in Pools, Tick(p)
  PROVE  World'
<1>1. /\ pc' = "list" /\ mem' = mem /\ UNCHANGED <<docker, late, startEra, registered>>
      /\ pass' = [NoPass EXCEPT !.pool = p, !.ps = mem.pool[p], !.allow = ~Retrying(p)]
  BY DEF Tick, Keep, env
<1>2. pass'.pool = p /\ pass'.allow = ~Retrying(p)
  BY <1>1 DEF NoPass
<1>3. Containers'
  BY <1>1, ContainersKept, KeptPools DEF TInv, World
<1> QED BY <1>1, <1>2, <1>3 DEF World, Listing, InFlightHeld, StartsHeld, Retrying,
           Forcing, Looping, Collected, Holding, Removing

LEMMA WorldCrash ==
  ASSUME TInv, TInv', Accord, World, Crash
  PROVE  World'
<1>1. /\ pc' = "down" /\ mem' = disk /\ UNCHANGED <<docker, startEra, registered>>
      /\ late' = late \/ (Lingers /\ late' = [late EXCEPT ![pass.cur] = pc])
  BY DEF Crash
<1>2. KeepsRuns
  BY <1>1, KeptReload DEF TInv, Accord
<1>3. Containers'
  BY <1>1, <1>2, ContainersKept, LateContainers DEF World
<1> QED BY <1>1, <1>3, WorldOver

LEMMA WorldRestart ==
  ASSUME TInv, World, Restart
  PROVE  World'
<1>1. pc' = "idle" /\ mem' = mem /\ UNCHANGED <<docker, startEra, late, registered>>
  BY DEF Restart, env
<1>2. Containers'
  BY <1>1, ContainersKept, KeptPools DEF TInv, World
<1> QED BY <1>1, <1>2, WorldOver

-----------------------------------------------------------------------------
(* The listing, and the loop over the forced runs.                         *)

LEMMA ContainersSame ==
  ASSUME TypeOK, World, mem'.run = mem.run, UNCHANGED <<docker, startEra, late, registered>>
  PROVE  Containers'
BY ContainersKept, KeptPools DEF World

\* A snapshot tells which containers there are.
LEMMA SnapshotSees ==
  ASSUME TypeOK, World, pass.pool \in Pools, NEW i \in RunsOf(mem, pass.pool)
  PROVE  /\ Snapshot[i] = "none" => Gone(i)
         /\ Snapshot[i] # "none" => docker[i] # "none"
<1>1. i \in RunIds /\ Snapshot[i] = docker[i]
  BY DEF RunsOf, Recorded, Snapshot
<1> QED BY <1>1 DEF World, Containers, Gone

LEMMA WorldList ==
  ASSUME TInv, TInv', Accord, World, List
  PROVE  World'
<1>0. /\ pc = "list" /\ pass.pool \in Pools /\ ~pass.moved /\ TypeOK /\ UNCHANGED env
      /\ mem \in States /\ pass \in PassRec
  BY DEF List, Undisturbed, TInv, TypeOK, Shape
<1>1. CASE DeletePool
  BY <1>0, <1>1, WorldDeletePool
<1>2. CASE PassEnds(mem, TRUE)
  BY <1>0, <1>2, WorldEnds
<1>3. CASE ~(Emptied(pass.pool) /\ ~pass.ps.running)
  <2> DEFINE forced == ForcedRuns(pass.pool)
  <2>1. /\ pc' = "force" /\ mem' = mem
        /\ pass' = [pass EXCEPT !.snap = Snapshot, !.todo = forced,
               !.clone = [i \in RunIds |-> IF i \in forced THEN mem.run[i] ELSE NoRun],
               !.unknown = Cardinality({i \in RunIds \ Recorded(mem) : docker[i] # "none"})]
    BY <1>3 DEF List, Keep
  <2>2. /\ pass'.pool = pass.pool /\ pass'.allow = pass.allow /\ pass'.moved = pass.moved
        /\ pass'.todo = forced /\ pass'.snap = Snapshot
    BY <1>0, <2>1 DEF PassRec
  <2>3. Containers'
    BY <1>0, <2>1, ContainersSame DEF env
  <2>4. Listing'
    <3>1. \A i \in RunsOf(mem, pass.pool) : (SeenGone(i) /\ SeenThere(i))'
      BY <1>0, <2>1, <2>2, SnapshotSees DEF SeenGone, SeenThere, Gone, env
    <3> QED BY <2>1, <2>2, <3>1 DEF Listing, Looping, Collected
  <2>5. InFlightHeld'
    BY <2>1, <2>2 DEF InFlightHeld, Holding, Removing, Collected, ForcedRuns
  <2>6. StartsHeld'
    BY <1>0, <2>1, <2>2 DEF StartsHeld, World, Looping, Collected
  <2> QED BY <2>3, <2>4, <2>5, <2>6 DEF World
<1> QED BY <1>0, <1>1, <1>2, <1>3 DEF List

LEMMA WorldRelist ==
  ASSUME TInv, TInv', Accord, World, Relist
  PROVE  World'
<1>0. /\ pc = "relist" /\ pc' = "remotes" /\ pass.pool \in Pools /\ TypeOK /\ UNCHANGED env
      /\ mem' = mem /\ pass \in PassRec /\ pass' = [pass EXCEPT !.snap = Snapshot]
  BY DEF Relist, Keep, TInv, TypeOK, Shape
<1>1. /\ pass'.pool = pass.pool /\ pass'.allow = pass.allow /\ pass'.moved = pass.moved
      /\ pass'.snap = Snapshot
  BY <1>0 DEF PassRec
<1>2. Containers'
  BY <1>0, ContainersSame DEF env
<1>3. Listing'
  <2>1. \A i \in RunsOf(mem, pass.pool) : (SeenGone(i) /\ SeenThere(i))'
    BY <1>0, <1>1, SnapshotSees DEF SeenGone, SeenThere, Gone, env
  <2> QED BY <1>0, <1>1, <2>1 DEF Listing, Looping, Collected, Forcing
<1>4. InFlightHeld' /\ StartsHeld'
  BY <1>0, <1>1 DEF InFlightHeld, StartsHeld, World, Holding, Removing, Collected, Looping
<1> QED BY <1>2, <1>3, <1>4 DEF World

LEMMA WorldRemotes ==
  ASSUME TInv, TInv', Accord, World, Remotes
  PROVE  World'
<1>0. /\ pc = "remotes" /\ pc' = "visit" /\ pass.pool \in Pools /\ TypeOK /\ UNCHANGED env
      /\ ~pass.moved /\ mem \in States /\ pass \in PassRec
      /\ mem' = MarkRetiring(mem, {pass.pool})
      /\ pass' = [pass EXCEPT !.todo = RunsOf(mem, pass.pool)]
  BY DEF Remotes, Save, Undisturbed, TInv, TypeOK, Shape
<1>1. /\ pass'.pool = pass.pool /\ pass'.allow = pass.allow /\ pass'.moved = pass.moved
      /\ pass'.snap = pass.snap /\ pass'.todo = RunsOf(mem, pass.pool)
  BY <1>0 DEF PassRec
<1>2. KeepsRuns
  BY <1>0, KeptMark
<1>3. Containers'
  BY <1>0, <1>2, ContainersKept DEF World, env
<1>4. Listing'
  BY <1>0, <1>1 DEF Listing, World, SeenGone, SeenThere, Gone, env, Forcing
<1>5. InFlightHeld'
  BY <1>0 DEF InFlightHeld, Holding, Removing, Collected
<1>6. StartsHeld'
  <2>1. mem'.pool = mem.pool /\ RunsOf(mem', pass.pool) = RunsOf(mem, pass.pool)
    BY <1>0, <1>2, KeptSets DEF MarkRetiring, States
  <2>2. ASSUME NEW i \in RunsOf(mem, pass.pool) PROVE Current(i)'
    <3>1. i \in RunIds /\ i \in Recorded(mem) /\ mem.run[i].pool = pass.pool /\ mem.run[i] \in RunRec
      BY <1>0 DEF RunsOf, Recorded, States
    <3>2. mem'.run[i] = IF Surplus(mem, i) THEN [mem.run[i] EXCEPT !.retiring = TRUE] ELSE mem.run[i]
      BY <1>0, <3>1 DEF MarkRetiring, States
    <3>3. CASE Surplus(mem, i)
      BY <3>1, <3>2, <3>3 DEF RunRec, Current
    <3>4. CASE ~Surplus(mem, i)
      BY <1>1, <2>1, <3>1, <3>2, <3>4 DEF Surplus, Current
    <3> QED BY <3>3, <3>4
  <2> QED BY <1>0, <1>1, <2>1, <2>2 DEF StartsHeld, World
<1> QED BY <1>3, <1>4, <1>5, <1>6 DEF World

\* One record is written back to phase "cleanup".
LEMMA CleanedContainers ==
  ASSUME TypeOK, World, NEW i \in Recorded(mem), NEW r \in RunRec, r.phase = "cleanup",
         mem'.run = [mem.run EXCEPT ![i] = r],
         UNCHANGED <<docker, startEra, late, registered>>
  PROVE  Containers' /\ Recorded(mem') = Recorded(mem)
<1>1. i \in RunIds /\ mem.run \in [RunIds -> RunRec]
  BY DEF Recorded, TypeOK, States
<1>2. Recorded(mem') = Recorded(mem)
  BY <1>1 DEF Recorded
<1> QED BY <1>1, <1>2 DEF World, Containers, Gone

LEMMA WorldForceLoop ==
  ASSUME TInv, TInv', Accord, World, ForceLoop
  PROVE  World'
<1>0. /\ pc = "force" /\ pass.pool \in Pools /\ TypeOK /\ UNCHANGED env /\ ~pass.moved
      /\ mem \in States /\ pass \in PassRec /\ Cloned = pass.todo
      /\ \A j \in Cloned : Agrees(pass.clone[j], mem.run[j])
      /\ \A j \in pass.todo : mem.run[j].force /\ j \in RunIds
      /\ \A j \in RunsOf(mem, pass.pool) : SeenGone(j) /\ (SeenThere(j) \/ mem.run[j].force)
  BY DEF ForceLoop, TInv, TypeOK, Shape, Accord, ClonesHeld, World, InFlightHeld, Listing, Forcing, PassRec
<1>1. CASE ForceDone
  <2>1. /\ mem' = mem /\ pass' = pass /\ pc' \in {"relist", "remotes"}
        /\ pc' = "remotes" => \A i \in RunsOf(mem, pass.pool) : ~mem.run[i].force
    BY <1>1 DEF ForceDone, Keep
  <2>2. Containers'
    BY <1>0, <2>1, ContainersSame DEF env
  <2>3. Listing'
    BY <1>0, <2>1 DEF Listing, SeenGone, SeenThere, Gone, env, Forcing, Looping, Collected
  <2>4. InFlightHeld' /\ StartsHeld'
    BY <1>0, <2>1 DEF InFlightHeld, StartsHeld, World, Holding, Removing, Collected, Looping
  <2> QED BY <2>2, <2>3, <2>4 DEF World
<1>2. ASSUME NEW i \in pass.todo, ForceNext(i) PROVE World'
  <2> DEFINE run == [pass.clone[i] EXCEPT !.phase = "cleanup"]
  <2>1. /\ i \in RunIds /\ pass.clone[i] \in RunRec /\ Agrees(pass.clone[i], mem.run[i])
        /\ i \in Recorded(mem)
    BY <1>0 DEF PassRec, Cloned, Agrees, Recorded
  <2>2. /\ run \in RunRec /\ run.phase = "cleanup" /\ run.force = mem.run[i].force
        /\ run.pool = mem.run[i].pool /\ SameDuty(mem.run[i], run)
        /\ run.logSaved = pass.clone[i].logSaved
    BY <2>1, RunUpdateType DEF RunRec, Agrees, SameDuty
  <2>3. /\ mem' = [mem EXCEPT !.run[i] = run] /\ pass' = Take(i, run)
        /\ pc' = IF run.logSaved THEN "forceRemove" ELSE "forceArchive"
    BY <1>2 DEF ForceNext, Save
  <2>4. /\ mem'.run = [mem.run EXCEPT ![i] = run] /\ mem'.pool = mem.pool
        /\ mem'.run[i] = run /\ \A j \in RunIds : j # i => mem'.run[j] = mem.run[j]
    BY <1>0, <2>1, <2>3 DEF States
  <2>5. /\ pass'.pool = pass.pool /\ pass'.allow = pass.allow /\ pass'.moved = pass.moved
        /\ pass'.snap = pass.snap /\ pass'.todo = pass.todo \ {i} /\ pass'.cur = i
        /\ pass'.clone[i] = run
    BY <1>0, <2>1, <2>3 DEF Take, PassRec
  <2> HIDE DEF run
  <2>6. Containers' /\ Recorded(mem') = Recorded(mem)
    BY <1>0, <2>1, <2>2, <2>4, CleanedContainers DEF env
  <2>7. \A j \in RunIds : mem'.run[j].force = mem.run[j].force /\ mem'.run[j].pool = mem.run[j].pool
    BY <2>2, <2>4
  <2>8. RunsOf(mem', pass.pool) = RunsOf(mem, pass.pool)
    BY <2>6, <2>7 DEF RunsOf, Recorded
  <2>9. Listing'
    BY <1>0, <2>3, <2>5, <2>7, <2>8
       DEF Listing, SeenGone, SeenThere, Gone, env, Forcing, Looping, Collected, RunsOf, Recorded
  <2>10. InFlightHeld'
    BY <1>0, <2>1, <2>2, <2>3, <2>4, <2>5, <2>6, <2>7 DEF InFlightHeld
  <2>11. StartsHeld'
    BY <1>0, <2>3, <2>4, <2>5 DEF StartsHeld, World, Looping, Collected
  <2> QED BY <2>6, <2>9, <2>10, <2>11 DEF World
<1> QED BY <1>1, <1>2 DEF ForceLoop

\* Both archives: the run in hand is written back with its log saved.
LEMMA ArchivedFacts ==
  ASSUME TInv, Accord, World, pc \in {"archive", "forceArchive"}, NEW next, Archived(next)
  PROVE  LET i == pass.cur
             r == [pass.clone[i] EXCEPT !.logSaved = TRUE]
         IN  /\ i \in Recorded(mem) /\ r \in RunRec /\ r.phase = "cleanup" /\ r.logSaved
             /\ r.pool = mem.run[i].pool /\ r.force = mem.run[i].force
             /\ SameDuty(mem.run[i], r) /\ pc' = next /\ ~pass.moved /\ UNCHANGED env
             /\ mem'.run = [mem.run EXCEPT ![i] = r] /\ mem'.pool = mem.pool
             /\ pass'.pool = pass.pool /\ pass'.allow = pass.allow /\ pass'.moved = pass.moved
             /\ pass'.snap = pass.snap /\ pass'.todo = pass.todo /\ pass'.cur = i
             /\ pass'.clone[i] = r
<1> DEFINE i == pass.cur
           r == [pass.clone[i] EXCEPT !.logSaved = TRUE]
<1>0. /\ ~pass.moved /\ UNCHANGED env /\ mem \in States /\ pass \in PassRec
      /\ mem' = [mem EXCEPT !.run[i] = r] /\ pass' = [pass EXCEPT !.clone[i] = r] /\ pc' = next
  BY DEF Archived, Undisturbed, Save, TInv, TypeOK
<1>1. /\ i \in Recorded(mem) /\ i \in RunIds /\ pass.clone[i].phase = "cleanup"
      /\ Agrees(pass.clone[i], mem.run[i]) /\ pass.clone[i] \in RunRec
  BY <1>0 DEF World, InFlightHeld, Removing, Holding, Collected, Accord, ClonesHeld, Cloned, PassRec
<1>2. /\ r \in RunRec /\ r.phase = "cleanup" /\ r.logSaved
      /\ r.pool = mem.run[i].pool /\ r.force = mem.run[i].force /\ SameDuty(mem.run[i], r)
  BY <1>1 DEF RunRec, Agrees, SameDuty
<1>3. mem'.run = [mem.run EXCEPT ![i] = r] /\ mem'.pool = mem.pool
  BY <1>0 DEF States
<1>4. /\ pass'.pool = pass.pool /\ pass'.allow = pass.allow /\ pass'.moved = pass.moved
      /\ pass'.snap = pass.snap /\ pass'.todo = pass.todo /\ pass'.cur = i
      /\ pass'.clone[i] = r
  BY <1>0, <1>1 DEF PassRec
<1> QED BY <1>0, <1>1, <1>2, <1>3, <1>4

LEMMA WorldForceArchive ==
  ASSUME TInv, TInv', Accord, World, ForceArchive
  PROVE  World'
<1> DEFINE i == pass.cur
           r == [pass.clone[i] EXCEPT !.logSaved = TRUE]
<1>0. /\ i \in Recorded(mem) /\ r \in RunRec /\ r.phase = "cleanup" /\ r.logSaved
      /\ r.pool = mem.run[i].pool /\ r.force = mem.run[i].force
      /\ SameDuty(mem.run[i], r) /\ pc' = "forceRemove" /\ ~pass.moved /\ UNCHANGED env
      /\ mem'.run = [mem.run EXCEPT ![i] = r] /\ mem'.pool = mem.pool
      /\ pass'.pool = pass.pool /\ pass'.allow = pass.allow /\ pass'.moved = pass.moved
      /\ pass'.snap = pass.snap /\ pass'.todo = pass.todo /\ pass'.cur = i
      /\ pass'.clone[i] = r
  BY ArchivedFacts DEF ForceArchive
<1> HIDE DEF r
<1>1. /\ pc = "forceArchive" /\ TypeOK /\ mem \in States /\ i \in RunIds
      /\ pass.todo \subseteq RunIds /\ i \notin pass.todo
  BY <1>0 DEF ForceArchive, TInv, TypeOK, PassRec, Recorded, Accord, ClonesHeld, Forcing
<1>2. mem'.run[i] = r /\ \A j \in RunIds : j # i => mem'.run[j] = mem.run[j]
  BY <1>0, <1>1 DEF States
<1>3. Containers' /\ Recorded(mem') = Recorded(mem)
  BY <1>0, <1>1, CleanedContainers DEF env
<1>4. \A j \in RunIds : mem'.run[j].force = mem.run[j].force /\ mem'.run[j].pool = mem.run[j].pool
  BY <1>0, <1>2
<1>5. RunsOf(mem', pass.pool) = RunsOf(mem, pass.pool)
  BY <1>3, <1>4 DEF RunsOf, Recorded
<1>6. Listing'
  BY <1>0, <1>1, <1>4, <1>5
     DEF Listing, World, SeenGone, SeenThere, Gone, env, Forcing, Looping, Collected, RunsOf, Recorded
<1>7. InFlightHeld'
  <2>1. mem.run[i].force /\ \A j \in pass.todo : mem.run[j].force
    BY <1>1 DEF World, InFlightHeld
  <2> QED BY <1>0, <1>1, <1>2, <1>3, <1>4, <2>1 DEF InFlightHeld
<1>8. StartsHeld'
  BY <1>0, <1>1 DEF StartsHeld, World, Looping, Collected
<1> QED BY <1>3, <1>6, <1>7, <1>8 DEF World

\* The container of the run in hand is taken away.
LEMMA VanishedContainers ==
  ASSUME TypeOK, World, NEW i \in Recorded(mem), Vanishes(i), late[i] = "none",
         mem.run[i].phase = "cleanup", mem'.run = mem.run
  PROVE  /\ Containers' /\ docker'[i] = "none" /\ late'[i] = "none"
         /\ Recorded(mem') = Recorded(mem)
         /\ \A j \in RunIds \ {i} : docker'[j] = docker[j] /\ late'[j] = late[j]
         /\ \A j \in RunIds : Gone(j) => Gone(j)'
<1>1. /\ i \in RunIds /\ docker \in [RunIds -> Statuses] /\ docker' = [docker EXCEPT ![i] = "none"]
      /\ UNCHANGED <<startEra, late, registered>> /\ Recorded(mem') = Recorded(mem)
  BY DEF Recorded, TypeOK, Vanishes
<1> QED BY <1>1 DEF World, Containers, Gone

LEMMA WorldForceRemove ==
  ASSUME TInv, TInv', Accord, World, ForceRemove
  PROVE  World'
<1> DEFINE i == pass.cur
<1>0. /\ pc = "forceRemove" /\ late[i] = "none" /\ Vanishes(i) /\ TypeOK
      /\ i \in Recorded(mem) /\ i \in RunIds /\ mem.run[i].phase = "cleanup" /\ mem.run[i].force
      /\ \A j \in pass.todo : mem.run[j].force
      /\ pass \in PassRec
  BY DEF ForceRemove, TInv, TypeOK, World, InFlightHeld, Holding, Removing, Recorded
<1>1. CASE Errors
  <2>1. mem'.run = mem.run
    BY <1>1, ErrorsKeep
  <2>2. Containers' /\ \A j \in RunIds \ {i} : docker'[j] = docker[j] /\ late'[j] = late[j]
    BY <1>0, <2>1, VanishedContainers
  <2> QED BY <1>1, <2>2, WorldErrors
<1>2. CASE ~Errors
  <2>1. /\ pc' = "force" /\ mem' = mem /\ ~pass.moved
        /\ pass' = [pass EXCEPT !.cur = NoId, !.clone[i] = NoRun]
    BY <1>2 DEF ForceRemove, Undisturbed, Keep
  <2>2. /\ pass'.pool = pass.pool /\ pass'.allow = pass.allow /\ pass'.moved = pass.moved
        /\ pass'.snap = pass.snap /\ pass'.todo = pass.todo
    BY <1>0, <2>1 DEF PassRec
  <2>3. /\ Containers' /\ \A j \in RunIds \ {i} : docker'[j] = docker[j] /\ late'[j] = late[j]
        /\ \A j \in RunIds : Gone(j) => Gone(j)'
    BY <1>0, <2>1, VanishedContainers
  <2>4. Listing'
    <3>1. \A j \in RunsOf(mem, pass.pool) :
            j \in RunIds /\ SeenGone(j) /\ (SeenThere(j) \/ mem.run[j].force)
      BY <1>0 DEF World, Listing, Forcing, RunsOf, Recorded
    <3>2. ASSUME NEW j \in RunsOf(mem, pass.pool)
          PROVE  (SeenGone(j) /\ (SeenThere(j) \/ mem.run[j].force))'
      BY <1>0, <2>1, <2>2, <2>3, <3>1 DEF SeenGone, SeenThere
    <3> QED BY <2>1, <2>2, <3>2 DEF Listing, Forcing, Looping, Collected
  <2>5. InFlightHeld'
    BY <1>0, <2>1, <2>2 DEF InFlightHeld, Holding, Removing, Collected
  <2>6. StartsHeld'
    BY <1>0, <2>1, <2>2 DEF StartsHeld, World, Looping, Collected
  <2> QED BY <2>3, <2>4, <2>5, <2>6 DEF World
<1> QED BY <1>1, <1>2

-----------------------------------------------------------------------------
(* The loop over the runs of the pool.                                     *)

\* A run enters its clean-up: its record says so before anything is removed.
LEMMA WorldBeginCleanup ==
  ASSUME TInv, TInv', Accord, World, pc \in {"visit", "boot"}, UNCHANGED env,
         NEW i \in Recorded(mem), pc = "visit" => i \in pass.todo, pc = "boot" => i = pass.cur,
         NEW r \in RunRec, Agrees(r, mem.run[i]), NEW rebooted \in BOOLEAN,
         BeginCleanup(i, r, rebooted)
  PROVE  World'
<1> DEFINE c == Cleanup(r)
<1>0. /\ TypeOK /\ mem \in States /\ pass \in PassRec /\ i \in RunIds /\ pc \in Looping
      /\ pass.todo \subseteq RunIds
  BY DEF TInv, TypeOK, Recorded, Looping, Collected, PassRec
<1>1. /\ c \in RunRec /\ c.phase = "cleanup" /\ c.pool = mem.run[i].pool /\ c.logSaved = r.logSaved
      /\ SameDuty(mem.run[i], c)
  BY DEF Cleanup, RunRec, Phases, Agrees, SameDuty
<1>2. mem' = [mem EXCEPT !.run[i] = c]
  BY DEF BeginCleanup, Save
<1> HIDE DEF c
<1>3. /\ mem'.run = [mem.run EXCEPT ![i] = c] /\ mem'.pool = mem.pool /\ mem'.run[i] = c
      /\ \A j \in RunIds : j # i => mem'.run[j] = mem.run[j]
  BY <1>0, <1>2 DEF States
<1>4. Containers' /\ Recorded(mem') = Recorded(mem)
  BY <1>0, <1>1, <1>3, CleanedContainers DEF env
<1>5. \A j \in Recorded(mem') : /\ j \in Recorded(mem) /\ mem'.run[j].pool = mem.run[j].pool
                                /\ SameDuty(mem.run[j], mem'.run[j])
  BY <1>1, <1>3, <1>4 DEF SameDuty, Recorded
<1>6. /\ pass'.pool = pass.pool /\ pass'.snap = pass.snap /\ pass'.allow = pass.allow
      /\ pass'.moved = pass.moved /\ pass'.todo \subseteq pass.todo
      /\ \/ pc' = "visit"
         \/ /\ pc' = IF r.logSaved THEN "remove" ELSE "archive"
            /\ pass'.cur = i /\ pass'.clone[i] = c
  <2>1. CASE pass.moved
    <3>1. pc' = "visit" /\ pass' = [Passed(i) EXCEPT !.failed = TRUE]
      BY <2>1 DEF BeginCleanup
    <3> QED BY <1>0, <3>1 DEF Passed, PassRec
  <2>2. CASE ~pass.moved
    <3>1. /\ pc' = IF r.logSaved THEN "remove" ELSE "archive"
          /\ pass' = [Take(i, c) EXCEPT !.rebooted = rebooted]
      BY <2>2 DEF BeginCleanup, c
    <3> QED BY <1>0, <3>1 DEF Take, PassRec
  <2> QED BY <2>1, <2>2
<1>7. Listing' /\ StartsHeld'
  <2>1. pc' \in Looping \ {"prepare", "create", "start"}
    BY <1>6 DEF Looping, Collected
  <2>2. \A j \in pass'.todo : docker'[j] = docker[j] /\ late'[j] = late[j]
    BY DEF env
  <2> QED BY <1>0, <1>3, <1>5, <1>6, <2>1, <2>2, LoopOn
<1>8. InFlightHeld'
  BY <1>1, <1>3, <1>4, <1>6 DEF InFlightHeld, Holding, Removing, Collected
<1> QED BY <1>4, <1>7, <1>8 DEF World

\* The loop goes on to the next run.
LEMMA WorldPassed ==
  ASSUME TInv, TInv', Accord, World, pc = "visit", pc' = "visit", UNCHANGED env,
         pass'.pool = pass.pool, pass'.snap = pass.snap, pass'.allow = pass.allow,
         pass'.moved = pass.moved, pass'.todo \subseteq pass.todo, mem' = mem
  PROVE  World'
<1>1. Containers'
  BY ContainersSame DEF TInv, env
<1>2. Listing' /\ StartsHeld'
  BY LoopOn, RunsSame DEF TInv, Looping, env
<1>3. InFlightHeld'
  BY DEF InFlightHeld, Holding, Removing, Collected
<1> QED BY <1>1, <1>2, <1>3 DEF World

LEMMA WorldLoopEnds ==
  ASSUME TInv, TInv', Accord, World, pc = "visit", LoopEnds, UNCHANGED env
  PROVE  World'
<1>0. pass.pool \in Pools /\ mem \in States /\ TypeOK
  BY DEF TInv, TypeOK, Shape
<1>1. CASE \E ok \in BOOLEAN : PassEnds(mem, ok)
  BY <1>0, <1>1, WorldEnds
<1>2. CASE DeletePool
  BY <1>0, <1>2, WorldDeletePool
<1>3. CASE Replenishes /\ Goto("image") /\ Keep
  <2>1. pc' = "image" /\ pass' = pass /\ mem' = mem /\ pass.allow
    BY <1>3 DEF Goto, Keep, Replenishes
  <2>2. Containers'
    BY <1>0, <2>1, ContainersSame DEF env
  <2> QED BY <2>1, <2>2 DEF World, Listing, InFlightHeld, StartsHeld, Forcing, Looping, Collected,
             Holding, Removing
<1> QED BY <1>1, <1>2, <1>3 DEF LoopEnds

LEMMA WorldVisit ==
  ASSUME TInv, TInv', Accord, World, Visit
  PROVE  World'
<1>0. /\ pc = "visit" /\ pc \in Looping /\ pass.pool \in Pools /\ TypeOK /\ UNCHANGED env
      /\ mem \in States /\ pass \in PassRec /\ pass.todo \subseteq RunsOf(mem, pass.pool)
      /\ \A i \in pass.todo : SeenGone(i) /\ SeenThere(i)
  BY DEF Visit, TInv, TypeOK, Shape, Accord, TodoHeld, World, Listing, Looping
<1>1. CASE pass.todo = {}
  BY <1>0, <1>1, WorldLoopEnds DEF Visit
<1>2. ASSUME NEW i \in pass.todo,
             VisitRunning(i) \/ VisitStart(i) \/ VisitStopped(i) \/ VisitGone(i)
      PROVE  World'
  <2>0. /\ i \in RunIds /\ i \in Recorded(mem) /\ mem.run[i] \in RunRec /\ mem.run[i].pool = pass.pool
        /\ Agrees(mem.run[i], mem.run[i]) /\ mem.run[i].phase # "none"
    BY <1>0 DEF RunsOf, Recorded, States, Agrees
  <2>1. ASSUME pass' = Passed(i) \/ pass' = [Passed(i) EXCEPT !.failed = TRUE]
        PROVE  /\ pass'.pool = pass.pool /\ pass'.snap = pass.snap /\ pass'.allow = pass.allow
               /\ pass'.moved = pass.moved /\ pass'.todo \subseteq pass.todo
    BY <1>0, <2>1 DEF Passed, PassRec
  <2>2. ASSUME NEW r \in RunRec, pass' = Take(i, r)
        PROVE  /\ pass'.pool = pass.pool /\ pass'.snap = pass.snap /\ pass'.allow = pass.allow
               /\ pass'.moved = pass.moved /\ pass'.todo \subseteq pass.todo
               /\ pass'.cur = i /\ pass'.clone[i] = r
    BY <1>0, <2>0, <2>2 DEF Take, PassRec
  <2>3. CASE PassEnds(mem, FALSE)
    BY <1>0, <2>3, WorldEnds
  <2>4. CASE mem' = mem /\ pc' = "visit"
             /\ (pass' = Passed(i) \/ pass' = [Passed(i) EXCEPT !.failed = TRUE])
    BY <1>0, <2>1, <2>4, WorldPassed
  <2>5. ASSUME NEW r \in RunRec, pass' = Take(i, r), mem' = mem,
               pc' \in {"prepare", "boot", "fresh"}, pc' = "prepare" => pass.allow /\ NeedsStart(i),
               pc' = "fresh" => pass.snap[i] = "none"
        PROVE  World'
    <3>0. /\ pass'.pool = pass.pool /\ pass'.snap = pass.snap /\ pass'.allow = pass.allow
          /\ pass'.moved = pass.moved /\ pass'.todo \subseteq pass.todo
          /\ pass'.cur = i /\ pass'.clone[i] = r
      BY <2>2, <2>5
    <3>1. Containers'
      BY <1>0, <2>5, ContainersSame DEF env
    <3>2. Listing' /\ StartsHeld'
      <4>1. pc' \in Looping
        BY <2>5 DEF Looping, Collected
      <4>2. pc' = "prepare" => ~mem'.run[pass'.cur].retiring
        BY <2>5, <3>0 DEF NeedsStart
      <4> QED BY <1>0, <2>0, <2>5, <3>0, <4>1, <4>2, LoopOn, RunsSame DEF env
    <3>3. InFlightHeld'
      <4>1. pc' \notin Removing \cup {"force", "forceArchive", "forceRemove", "remove", "unregister", "repair", "create"}
        BY <2>5 DEF Removing
      <4>2. ASSUME pass.snap[i] = "none" PROVE Gone(i)
        BY <1>0, <4>2 DEF SeenGone
      <4>3. ASSUME pass.snap[i] = "none", mem.run[i].phase # "cleanup" PROVE startEra[i] = 0
        BY <2>0, <4>2, <4>3 DEF Gone, World, Containers
      <4>4. pc' = "prepare" => /\ pass.snap[i] \in {"none", "created"}
                               /\ pass.snap[i] = "none" => mem.run[i].phase = "creating"
        BY <2>5 DEF NeedsStart
      <4> QED BY <1>0, <2>0, <2>5, <3>0, <4>1, <4>2, <4>3, <4>4 DEF InFlightHeld, Gone, env
    <3> QED BY <3>1, <3>2, <3>3 DEF World
  <2>6. CASE VisitRunning(i)
    <3>1. /\ mem' = [mem EXCEPT !.run[i].phase = "live"] /\ pc' = "visit" /\ pass' = Passed(i)
          /\ pass.snap[i] = "running"
      BY <2>6 DEF VisitRunning, Observe
    <3>2. /\ mem'.pool = mem.pool /\ mem'.run[i] = [mem.run[i] EXCEPT !.phase = "live"]
          /\ \A j \in RunIds : j # i => mem'.run[j] = mem.run[j]
      BY <1>0, <2>0, <3>1 DEF States
    <3>3. /\ mem'.run[i].phase = "live" /\ mem'.run[i].pool = mem.run[i].pool
          /\ SameDuty(mem.run[i], mem'.run[i])
      BY <2>0, <3>2 DEF RunRec, SameDuty
    <3>4. Recorded(mem') = Recorded(mem)
      BY <2>0, <3>2, <3>3 DEF Recorded
    <3>5. docker[i] # "none"
      BY <1>0, <3>1 DEF SeenThere
    <3>6. Containers'
      BY <1>0, <2>0, <3>2, <3>4, <3>5 DEF World, Containers, Gone, env
    <3>7. \A j \in Recorded(mem') : /\ j \in Recorded(mem) /\ mem'.run[j].pool = mem.run[j].pool
                                    /\ SameDuty(mem.run[j], mem'.run[j])
      BY <3>2, <3>3, <3>4 DEF SameDuty, Recorded
    <3>8. Listing' /\ StartsHeld'
      BY <1>0, <2>1, <3>1, <3>2, <3>7, LoopOn DEF Looping, env
    <3>9. InFlightHeld'
      BY <3>1 DEF InFlightHeld, Holding, Removing, Collected
    <3> QED BY <3>6, <3>8, <3>9 DEF World
  <2>7. CASE VisitStart(i)
    <3>1. CASE pass.allow /\ Keep /\ pc' = "prepare" /\ pass' = Take(i, mem.run[i])
      BY <2>0, <2>5, <2>7, <3>1 DEF VisitStart, Keep
    <3> QED BY <2>3, <2>4, <2>7, <3>1 DEF VisitStart, Keep
  <2>8. CASE VisitStopped(i)
    <3> DEFINE run == [mem.run[i] EXCEPT !.completed = i \in marker]
               known == StoppedBefore(i, bootKnown)
    <3>0. (i \in marker) \in BOOLEAN /\ (Unexpected(run) /\ known) \in BOOLEAN
      BY DEF Unexpected
    <3>1. run \in RunRec /\ Agrees(run, mem.run[i])
      BY <2>0, <3>0, CompletedType DEF RunRec, Agrees
    <3>2. CASE BeginCleanup(i, run, Unexpected(run) /\ known)
      BY <1>0, <2>0, <3>0, <3>1, <3>2, WorldBeginCleanup
    <3>3. CASE Keep /\ pc' = "boot" /\ pass' = Take(i, run)
      BY <2>5, <3>1, <3>3 DEF Keep
    <3> QED BY <2>3, <2>8, <3>2, <3>3 DEF VisitStopped
  <2>9. CASE VisitGone(i)
    <3>1. CASE Keep /\ pc' = "fresh" /\ pass' = Take(i, mem.run[i])
      BY <2>0, <2>5, <2>9, <3>1 DEF VisitGone, Keep
    <3> QED BY <2>4, <2>9, <3>1 DEF VisitGone, Keep
  <2> QED BY <1>2, <2>6, <2>7, <2>8, <2>9
<1> QED BY <1>1, <1>2 DEF Visit

LEMMA WorldReadBoot ==
  ASSUME TInv, TInv', Accord, World, ReadBoot
  PROVE  World'
<1>0. /\ pc = "boot" /\ pass.pool \in Pools /\ pass.cur \in Recorded(mem) /\ UNCHANGED env
      /\ mem \in States /\ pass.clone[pass.cur] \in RunRec /\ pass.cur \in RunIds
  BY DEF ReadBoot, TInv, TypeOK, Shape, PassRec, World, InFlightHeld, Holding
<1>1. CASE Undisturbed
  <2>1. PICK boot \in {bootKnown, hostBoot} :
          BeginCleanup(pass.cur, pass.clone[pass.cur], StoppedBefore(pass.cur, boot))
    BY <1>0, <1>1 DEF ReadBoot
  <2>2. Agrees(pass.clone[pass.cur], mem.run[pass.cur])
    BY <1>0, <1>1 DEF Undisturbed, Accord, ClonesHeld, Holding
  <2>3. StoppedBefore(pass.cur, boot) \in BOOLEAN
    BY DEF StoppedBefore
  <2> QED BY <1>0, <2>1, <2>2, <2>3, WorldBeginCleanup
<1>2. CASE ~Undisturbed
  BY <1>0, <1>2, WorldEnds DEF ReadBoot
<1> QED BY <1>1, <1>2

-----------------------------------------------------------------------------
(* The commands on the run in hand.                                        *)

\* What holds of the run in hand before the answer arrives.
LEMMA HandFacts ==
  ASSUME TInv, Accord, World, pc \in Looping \ {"visit"}
  PROVE  /\ pass.cur \in RunIds /\ pass.cur \in Recorded(mem) /\ pass.cur \notin pass.todo
         /\ pass.todo \subseteq RunIds /\ TypeOK /\ mem \in States /\ pass \in PassRec
         /\ pass.clone[pass.cur] \in RunRec
         /\ ~pass.moved => Agrees(pass.clone[pass.cur], mem.run[pass.cur])
BY DEF TInv, TypeOK, Shape, Accord, TodoHeld, ClonesHeld, Looping, Holding, Collected, World,
       InFlightHeld, PassRec

\* The next command is issued for the run in hand.
LEMMA WorldGoesOn ==
  ASSUME TInv, TInv', Accord, World, pc \in Looping \ {"visit"},
         pc' \in Looping \ {"visit", "prepare"}, pass' = pass, mem' = mem, ~pass.moved, Containers',
         \A j \in RunIds \ {pass.cur} : docker'[j] = docker[j] /\ late'[j] = late[j],
         pc' \in {"create", "start"} => pc \in {"prepare", "create"}
  PROVE  Listing' /\ StartsHeld'
<1>1. pc' \in {"create", "start"} =>
        mem.run[pass.cur].pool = pass.pool /\ ~mem.run[pass.cur].retiring
  BY DEF World, StartsHeld
<1> QED BY <1>1, HandFacts, LoopOn, RunsSame

LEMMA WorldPrepare ==
  ASSUME TInv, TInv', Accord, World, Prepare
  PROVE  World'
<1>1. /\ pc = "prepare" /\ ~pass.moved /\ pass' = pass /\ mem' = mem /\ UNCHANGED env
      /\ pc' = IF pass.snap[pass.cur] = "created" THEN "start" ELSE "create"
  BY DEF Prepare, Undisturbed, Goto, Keep
<1>2. Containers'
  BY <1>1, ContainersSame DEF TInv, env
<1>3. Listing' /\ StartsHeld'
  BY <1>1, <1>2, WorldGoesOn DEF Looping, env
<1>4. InFlightHeld'
  BY <1>1, HandFacts DEF InFlightHeld, World, Holding, Removing, Collected, Looping, Gone, env
<1> QED BY <1>2, <1>3, <1>4 DEF World

LEMMA WorldCreateContainer ==
  ASSUME TInv, TInv', Accord, World, CreateContainer
  PROVE  World'
<1> DEFINE i == pass.cur
<1>0. /\ pc = "create" /\ i \in RunIds /\ i \in Recorded(mem) /\ TypeOK
      /\ late[i] = "none" /\ docker' = [docker EXCEPT ![i] = "created"]
      /\ UNCHANGED <<startEra, late, registered>> /\ startEra[i] = 0
  BY HandFacts DEF CreateContainer, Looping, World, InFlightHeld
<1>1. ASSUME mem'.run = mem.run
      PROVE  Containers' /\ \A j \in RunIds \ {i} : docker'[j] = docker[j] /\ late'[j] = late[j]
  <2>1. Recorded(mem') = Recorded(mem) /\ docker \in [RunIds -> Statuses]
    BY <1>0, <1>1, RunsSame DEF TypeOK
  <2> QED BY <1>0, <1>1, <2>1 DEF World, Containers, Gone
<1>2. CASE Errors
  BY <1>1, <1>2, ErrorsKeep, WorldErrors
<1>3. CASE Undisturbed /\ Goto("start") /\ Keep
  <2>1. pc' = "start" /\ pass' = pass /\ mem' = mem /\ ~pass.moved
    BY <1>3 DEF Undisturbed, Goto, Keep
  <2>2. Listing' /\ StartsHeld'
    BY <1>0, <1>1, <2>1, WorldGoesOn DEF Looping
  <2>3. InFlightHeld'
    BY <1>0, <2>1 DEF InFlightHeld, Removing
  <2> QED BY <1>1, <2>1, <2>2, <2>3 DEF World
<1> QED BY <1>2, <1>3 DEF CreateContainer

LEMMA WorldStartContainer ==
  ASSUME TInv, TInv', Accord, World, StartContainer
  PROVE  World'
<1> DEFINE i == pass.cur
           run == [pass.clone[i] EXCEPT !.phase = "live"]
<1>0. /\ pc = "start" /\ i \in RunIds /\ i \in Recorded(mem) /\ TypeOK /\ i \notin pass.todo
      /\ mem \in States /\ pass \in PassRec /\ pass.todo \subseteq RunIds
      /\ late[i] = "none" /\ docker' = [docker EXCEPT ![i] = "running"]
      /\ \A j \in RunIds : j # i => startEra'[j] = startEra[j]
      /\ UNCHANGED <<late, registered>>
  BY HandFacts DEF StartContainer, Starts, Looping, TInv, TypeOK
<1>1. ASSUME Recorded(mem') = Recorded(mem),
             \A j \in RunIds : j # i => mem'.run[j] = mem.run[j]
      PROVE  Containers' /\ \A j \in RunIds \ {i} : docker'[j] = docker[j] /\ late'[j] = late[j]
  <2>1. docker \in [RunIds -> Statuses]
    BY <1>0 DEF TypeOK
  <2> QED BY <1>0, <1>1, <2>1 DEF World, Containers, Gone
<1>2. CASE Errors
  BY <1>0, <1>1, <1>2, ErrorsKeep, RunsSame, WorldErrors
<1>3. CASE ~Errors
  <2>1. /\ pc' = "visit" /\ ~pass.moved /\ pass' = Loose /\ mem' = [mem EXCEPT !.run[i] = run]
    BY <1>3 DEF StartContainer, Undisturbed, Save
  <2>2. /\ run \in RunRec /\ run.phase = "live" /\ run.pool = mem.run[i].pool
        /\ SameDuty(mem.run[i], run)
    BY <1>0, <2>1, HandFacts, RunUpdateType DEF Looping, RunRec, Agrees, SameDuty
  <2>3. /\ mem'.run[i] = run /\ mem'.pool = mem.pool
        /\ \A j \in RunIds : j # i => mem'.run[j] = mem.run[j]
    BY <1>0, <2>1 DEF States
  <2> HIDE DEF run
  <2>4. Recorded(mem') = Recorded(mem)
    BY <1>0, <2>2, <2>3 DEF Recorded
  <2>5. Containers' /\ \A j \in RunIds \ {i} : docker'[j] = docker[j] /\ late'[j] = late[j]
    BY <1>1, <2>3, <2>4
  <2>6. /\ pass'.pool = pass.pool /\ pass'.snap = pass.snap /\ pass'.allow = pass.allow
        /\ pass'.moved = pass.moved /\ pass'.todo = pass.todo
    BY <1>0, <2>1 DEF Loose, PassRec
  <2>7. \A j \in Recorded(mem') : /\ j \in Recorded(mem) /\ mem'.run[j].pool = mem.run[j].pool
                                  /\ SameDuty(mem.run[j], mem'.run[j])
    BY <2>2, <2>3, <2>4 DEF SameDuty, Recorded
  <2>8. Listing' /\ StartsHeld'
    BY <1>0, <2>1, <2>3, <2>5, <2>6, <2>7, LoopOn DEF Looping
  <2>9. InFlightHeld'
    BY <2>1 DEF InFlightHeld, Holding, Removing, Collected
  <2> QED BY <2>5, <2>8, <2>9 DEF World
<1> QED BY <1>2, <1>3

LEMMA WorldArchive ==
  ASSUME TInv, TInv', Accord, World, Archive
  PROVE  World'
<1> DEFINE i == pass.cur
           r == [pass.clone[i] EXCEPT !.logSaved = TRUE]
<1>0. /\ i \in Recorded(mem) /\ r \in RunRec /\ r.phase = "cleanup" /\ r.logSaved
      /\ r.pool = mem.run[i].pool
      /\ SameDuty(mem.run[i], r) /\ pc' = "remove" /\ ~pass.moved /\ UNCHANGED env
      /\ mem'.run = [mem.run EXCEPT ![i] = r] /\ mem'.pool = mem.pool
      /\ pass'.pool = pass.pool /\ pass'.allow = pass.allow /\ pass'.moved = pass.moved
      /\ pass'.snap = pass.snap /\ pass'.todo = pass.todo /\ pass'.cur = i
      /\ pass'.clone[i] = r
  BY ArchivedFacts DEF Archive
<1> HIDE DEF r
<1>1. pc = "archive" /\ TypeOK /\ mem \in States /\ i \in RunIds /\ pc \in Looping
  BY <1>0 DEF Archive, TInv, TypeOK, Recorded, Looping, Collected
<1>2. mem'.run[i] = r /\ \A j \in RunIds : j # i => mem'.run[j] = mem.run[j]
  BY <1>0, <1>1 DEF States
<1>3. Containers' /\ Recorded(mem') = Recorded(mem)
  BY <1>0, <1>1, CleanedContainers DEF env
<1>4. \A j \in Recorded(mem') : /\ j \in Recorded(mem) /\ mem'.run[j].pool = mem.run[j].pool
                                /\ SameDuty(mem.run[j], mem'.run[j])
  BY <1>0, <1>2, <1>3 DEF SameDuty, Recorded
<1>5. Listing' /\ StartsHeld'
  <2>1. pc' \in Looping \ {"prepare", "create", "start"}
    BY <1>0 DEF Looping, Collected
  <2>2. \A j \in pass'.todo : docker'[j] = docker[j] /\ late'[j] = late[j]
    BY <1>0 DEF env
  <2> QED BY <1>0, <1>1, <1>4, <2>1, <2>2, LoopOn
<1>6. InFlightHeld'
  BY <1>0, <1>2, <1>3 DEF InFlightHeld, Holding, Removing, Collected
<1> QED BY <1>3, <1>5, <1>6 DEF World

LEMMA WorldRemoveContainer ==
  ASSUME TInv, TInv', Accord, World, RemoveContainer
  PROVE  World'
<1> DEFINE i == pass.cur
<1>0. /\ pc = "remove" /\ i \in RunIds /\ i \in Recorded(mem) /\ TypeOK
      /\ late[i] = "none" /\ Vanishes(i) /\ mem.run[i].phase = "cleanup"
  BY HandFacts DEF RemoveContainer, Looping, Collected, World, InFlightHeld, Removing
<1>1. ASSUME mem'.run = mem.run
      PROVE  /\ Containers' /\ docker'[i] = "none" /\ late'[i] = "none"
             /\ Recorded(mem') = Recorded(mem)
             /\ \A j \in RunIds \ {i} : docker'[j] = docker[j] /\ late'[j] = late[j]
  BY <1>0, <1>1, VanishedContainers
<1>2. CASE Errors
  <2>1. mem'.run = mem.run
    BY <1>2, ErrorsKeep
  <2> QED BY <1>1, <1>2, <2>1, WorldErrors
<1>3. CASE Undisturbed /\ Goto("fresh") /\ Keep
  <2>1. pc' = "fresh" /\ pass' = pass /\ mem' = mem /\ ~pass.moved
    BY <1>3 DEF Undisturbed, Goto, Keep
  <2>2. Listing' /\ StartsHeld'
    BY <1>0, <1>1, <2>1, WorldGoesOn DEF Looping, Collected
  <2>3. InFlightHeld'
    BY <1>0, <1>1, <2>1 DEF InFlightHeld, Removing, Gone
  <2> QED BY <1>1, <2>1, <2>2, <2>3 DEF World
<1> QED BY <1>2, <1>3 DEF RemoveContainer

\* A run is forgotten: nothing of it is left.
LEMMA WorldFinishRun ==
  ASSUME TInv, TInv', Accord, World, pc \in {"fresh", "unregister", "repair"},
         FinishRun(pass.cur), registered' \subseteq registered, pass.cur \notin registered',
         UNCHANGED <<docker, late>>
  PROVE  World'
<1> DEFINE i == pass.cur
<1>0. /\ pc \in Looping \ {"visit"} /\ i \in RunIds /\ i \in Recorded(mem) /\ TypeOK
      /\ mem \in States /\ pass \in PassRec /\ pass.todo \subseteq RunIds
      /\ startEra \in [RunIds -> Nat] /\ Gone(i)
  BY HandFacts DEF Looping, Collected, TypeOK, World, InFlightHeld
<1>1. /\ mem' = [mem EXCEPT !.run[i] = NoRun] /\ pc' = "visit"
      /\ startEra' = [startEra EXCEPT ![i] = 0]
      /\ pass'.pool = pass.pool /\ pass'.snap = pass.snap /\ pass'.allow = pass.allow
      /\ pass'.moved = pass.moved /\ pass'.todo = pass.todo
  BY <1>0 DEF FinishRun, Save, Loose, PassRec
<1>2. /\ mem'.pool = mem.pool /\ Recorded(mem') = Recorded(mem) \ {i}
      /\ \A j \in RunIds : j # i => mem'.run[j] = mem.run[j]
  BY <1>0, <1>1 DEF States, Recorded, NoRun
<1>3. Containers'
  <2>1. ASSUME NEW j \in RunIds
        PROVE  /\ j \notin Recorded(mem') => Gone(j)' /\ j \notin registered'
               /\ late'[j] = "start" => docker'[j] = "created"
               /\ late'[j] = "create" => docker'[j] \in {"none", "created"}
               /\ docker'[j] = "created" \/ late'[j] = "create" => startEra'[j] = 0
               /\ docker'[j] = "none" /\ startEra'[j] # 0 => mem'.run[j].phase = "cleanup"
    <3>1. CASE j = i
      BY <1>0, <1>1, <3>1 DEF World, Containers, Gone
    <3>2. CASE j # i
      BY <1>0, <1>1, <1>2, <3>2 DEF World, Containers, Gone
    <3> QED BY <3>1, <3>2
  <2> QED BY <2>1 DEF Containers
<1>4. \A j \in Recorded(mem') : /\ j \in Recorded(mem) /\ mem'.run[j].pool = mem.run[j].pool
                                /\ SameDuty(mem.run[j], mem'.run[j])
  BY <1>2 DEF SameDuty, Recorded
<1>5. Listing' /\ StartsHeld'
  BY <1>0, <1>1, <1>2, <1>4, LoopOn DEF Looping
<1>6. InFlightHeld'
  BY <1>1 DEF InFlightHeld, Holding, Removing, Collected
<1> QED BY <1>3, <1>5, <1>6 DEF World

LEMMA WorldRemoveDirectory ==
  ASSUME TInv, TInv', Accord, World, pc \in {"fresh", "unregister"}, ~pass.moved,
         RemoveDirectory, registered' \subseteq registered, pass.cur \notin registered',
         UNCHANGED <<docker, late>>
  PROVE  World'
<1>1. CASE FinishRun(pass.cur)
  BY <1>1, WorldFinishRun
<1>2. CASE SkipRun /\ Keep /\ UNCHANGED startEra
  <2>1. Errors \/ (pc \in Collected /\ SkipRun /\ Keep)
    BY <1>2 DEF Collected
  <2>2. pass \in PassRec /\ TypeOK /\ Recorded(mem') = Recorded(mem)
    BY <1>2 DEF TInv, TypeOK, Keep
  <2>3. /\ pass'.pool = pass.pool /\ pass'.snap = pass.snap /\ pass'.allow = pass.allow
        /\ pass'.moved = pass.moved /\ pass'.todo = pass.todo /\ pc' = "visit"
        /\ mem' = mem
    BY <1>2, <2>2 DEF SkipRun, Loose, PassRec, Keep
  <2>4. Containers'
    BY <1>2, <2>2, <2>3 DEF World, Containers, Gone
  <2>5. Listing' /\ StartsHeld'
    BY <2>2, <2>3, LoopOn, RunsSame DEF Looping, Collected
  <2>6. InFlightHeld'
    BY <2>3 DEF InFlightHeld, Holding, Removing, Collected
  <2> QED BY <2>4, <2>5, <2>6 DEF World
<1>3. CASE Goto("repair") /\ Keep /\ UNCHANGED startEra
  <2>1. pc' = "repair" /\ pass' = pass /\ mem' = mem /\ Recorded(mem') = Recorded(mem)
    BY <1>3 DEF Goto, Keep
  <2>2. Containers'
    BY <1>3, <2>1 DEF World, Containers, Gone
  <2>3. Listing' /\ StartsHeld'
    BY <2>1, <2>2, WorldGoesOn DEF Looping, Collected
  <2>4. InFlightHeld'
    <3>1. Gone(pass.cur) /\ pass.cur \in Recorded(mem)
      BY HandFacts DEF World, InFlightHeld, Looping, Collected
    <3> QED BY <2>1, <3>1 DEF InFlightHeld, Removing, Gone
  <2> QED BY <2>2, <2>3, <2>4 DEF World
<1> QED BY <1>1, <1>2, <1>3 DEF RemoveDirectory

LEMMA WorldFreshList ==
  ASSUME TInv, TInv', Accord, World, FreshList
  PROVE  World'
<1>0. pc = "fresh" /\ ~pass.moved /\ UNCHANGED <<docker, late, registered>>
  BY DEF FreshList, Undisturbed
<1>1. CASE pass.cur \notin registered
  BY <1>0, <1>1, WorldRemoveDirectory DEF FreshList, SeesRegistration
<1>2. CASE pass.cur \in registered
  <2>1. pc' = "unregister" /\ pass' = pass /\ mem' = mem /\ UNCHANGED startEra
    BY <1>2 DEF FreshList, SeesRegistration, Goto, Keep
  <2>2. Containers'
    BY <1>0, <2>1, ContainersSame DEF TInv
  <2>3. Listing' /\ StartsHeld'
    BY <1>0, <2>1, <2>2, WorldGoesOn DEF Looping, Collected
  <2>4. InFlightHeld'
    <3>1. Gone(pass.cur) /\ pass.cur \in Recorded(mem)
      BY <1>0, HandFacts DEF World, InFlightHeld, Looping, Collected
    <3> QED BY <1>0, <2>1, <3>1 DEF InFlightHeld, Removing, Gone
  <2> QED BY <2>2, <2>3, <2>4 DEF World
<1> QED BY <1>1, <1>2

LEMMA WorldUnregister ==
  ASSUME TInv, TInv', Accord, World, Unregister
  PROVE  World'
<1>0. /\ pc = "unregister" /\ UNCHANGED <<docker, late>>
      /\ registered' \subseteq registered /\ pass.cur \notin registered'
  BY DEF Unregister
<1>1. CASE Undisturbed /\ RemoveDirectory
  BY <1>0, <1>1, WorldRemoveDirectory DEF Undisturbed
<1>2. CASE Errors /\ UNCHANGED startEra
  <2>1. Recorded(mem') = Recorded(mem) /\ mem'.run = mem.run
    BY <1>2, ErrorsKeep, RunsSame DEF TInv
  <2>2. Containers'
    BY <1>0, <1>2, <2>1 DEF World, Containers, Gone
  <2> QED BY <1>0, <1>2, <2>2, WorldErrors
<1> QED BY <1>1, <1>2 DEF Unregister

LEMMA WorldRepair ==
  ASSUME TInv, TInv', Accord, World, Repair
  PROVE  World'
<1>1. pc = "repair" /\ UNCHANGED <<docker, late, registered>> /\ FinishRun(pass.cur)
  BY DEF Repair
<1>2. pass.cur \notin registered
  BY <1>1 DEF World, InFlightHeld
<1> QED BY <1>1, <1>2, WorldFinishRun

LEMMA WorldReplenish ==
  ASSUME TInv, TInv', Accord, World, Replenish
  PROVE  World'
<1>0. mem \in States /\ pass.pool \in Pools /\ UNCHANGED env /\ pass.ps \in PoolRec
  BY DEF Replenish, TInv, TypeOK, Shape, PassRec
<1>1. PICK i \in RunIds, ok \in BOOLEAN :
        /\ Unused(i)
        /\ PassEnds([mem EXCEPT !.run[i] = NewRun(pass.pool, pass.ps.gen)], ok)
  BY DEF Replenish
<1> DEFINE s == [mem EXCEPT !.run[i] = NewRun(pass.pool, pass.ps.gen)]
<1>2. /\ s \in States /\ s.run[i].phase = "creating"
      /\ \A j \in RunIds : j # i => s.run[j] = mem.run[j]
  BY <1>0, ConstantTypes, SetRunType DEF States, PoolRec, NewRun, NoRun
<1>3. PassEnds(s, ok)
  BY <1>1
<1> HIDE DEF s
<1>4. mem'.run = s.run /\ pc' = "idle"
  BY <1>0, <1>2, <1>3, EndsKeep
<1>5. Recorded(mem') = Recorded(mem) \cup {i}
  BY <1>2, <1>4 DEF Recorded
<1>6. Containers'
  <2>1. docker[i] = "none" /\ late[i] = "none" /\ i \notin Recorded(mem) /\ mem.run[i].phase = "none"
    BY <1>1 DEF Unused, Recorded
  <2>2. startEra[i] = 0
    BY <1>0, <2>1 DEF World, Containers, TInv, TypeOK
  <2> QED BY <1>0, <1>2, <1>4, <1>5, <2>1, <2>2 DEF World, Containers, Gone, env
<1> QED BY <1>4, <1>6, WorldOver

-----------------------------------------------------------------------------
(* Every step.                                                             *)

LEMMA WorldPass ==
  ASSUME TInv, TInv', Accord, World, Pass
  PROVE  World'
BY WorldTick, WorldFails, WorldTimesOut, WorldList, WorldForceLoop, WorldForceArchive,
   WorldForceRemove, WorldRelist, WorldRemotes, WorldVisit, WorldReadBoot, WorldPrepare,
   WorldCreateContainer, WorldStartContainer, WorldArchive, WorldRemoveContainer,
   WorldFreshList, WorldUnregister, WorldRepair, WorldReplenish DEF Pass

LEMMA WorldStep ==
  ASSUME TInv, TInv', Accord, World, [Next]_vars
  PROVE  World'
<1>1. CASE UNCHANGED vars
  <2>1. /\ UNCHANGED <<pc, env, mem, pass>> /\ KeepsRuns /\ Onward /\ Calm
    BY <1>1, KeptPools DEF vars, env, TInv, Onward, Calm, SameDuty
  <2> QED BY <2>1, WorldKept
<1> QED BY <1>1, WorldPass, WorldRequest, WorldCrash, WorldRestart, WorldEnvironment DEF Next

LEMMA WorldInit ==
  ASSUME Init
  PROVE  World
<1>1. Recorded(mem) = {} /\ pc = "idle"
  BY DEF Init, Recorded, NoRun
<1>2. \A i \in RunIds : docker[i] = "none" /\ late[i] = "none" /\ startEra[i] = 0 /\ i \notin registered
  BY DEF Init
<1>3. Containers
  BY <1>1, <1>2 DEF Containers, Gone
<1> QED BY <1>1, <1>3 DEF World, Listing, InFlightHeld, StartsHeld, Forcing, Looping, Collected,
           Holding, Removing

-----------------------------------------------------------------------------
(* Which steps touch the containers, start a run or record one.            *)

LEMMA Untouched ==
  ASSUME Next
  PROVE  \/ UNCHANGED docker
         \/ ForceRemove \/ RemoveContainer \/ CreateContainer \/ StartContainer
         \/ \E i \in RunIds : LateLands(i) \/ ContainerExits(i)
         \/ HostReboots
<1>1. Crash \/ Restart => UNCHANGED docker
  BY DEF Crash, Restart, env
<1>2. ASSUME NEW p \in Pools, Tick(p) \/ BackoffExpires(p) PROVE UNCHANGED docker
  BY <1>2 DEF Tick, BackoffExpires, env
<1>3. CommandFails \/ CommandTimesOut \/ List \/ ForceLoop \/ Relist \/ Remotes => UNCHANGED docker
  BY DEF CommandFails, CommandTimesOut, List, ForceLoop, Relist, Remotes, env
<1>4. ForceArchive \/ Archive => UNCHANGED docker
  BY DEF ForceArchive, Archive, Archived, env
<1>5. Visit \/ ReadBoot \/ Prepare \/ FreshList \/ Unregister \/ Repair \/ Replenish
      => UNCHANGED docker
  BY DEF Visit, ReadBoot, Prepare, FreshList, Unregister, Repair, Replenish, env
<1>6. ASSUME NEW i \in RunIds, Registers(i) \/ JobCompletes(i) \/ GitHubForgets(i)
      PROVE  UNCHANGED docker
  BY <1>6 DEF Registers, JobCompletes, GitHubForgets, host
<1>7. Request => UNCHANGED docker
  BY DEF Request, Start, Stop, Remove, Add, Scale, Upgrade, Auth, Apply, Refused,
         RefusedStatus, Configured, Handled, env
<1> QED BY <1>1, <1>2, <1>3, <1>4, <1>5, <1>6, <1>7 DEF Next, Pass, Environment

\* A container is removed by one of two commands, for the run in hand.
LEMMA RemovalSteps ==
  ASSUME TInv, World, [Next]_vars, NEW i \in RunIds, docker[i] # "none", docker'[i] = "none"
  PROVE  i = pass.cur /\ (ForceRemove \/ (RemoveContainer /\ docker[i] # "running"))
<1>0. docker \in [RunIds -> Statuses] /\ \A j \in RunIds : late[j] = "start" => docker[j] = "created"
  BY DEF TInv, TypeOK, World, Containers
<1>1. CASE ForceRemove \/ RemoveContainer
  BY <1>0, <1>1 DEF ForceRemove, RemoveContainer, Vanishes, Removable
<1>2. ~CreateContainer /\ ~StartContainer
  BY <1>0 DEF CreateContainer, StartContainer, Starts
<1>3. ~HostReboots /\ \A j \in RunIds : ~LateLands(j) /\ ~ContainerExits(j)
  BY <1>0 DEF HostReboots, LateLands, Starts, ContainerExits
<1> QED BY <1>1, <1>2, <1>3, Untouched DEF vars

\* A container is created by the command or, late, by the daemon.
LEMMA CreationSteps ==
  ASSUME TInv, World, [Next]_vars, NEW i \in RunIds, docker[i] = "none", docker'[i] # "none"
  PROVE  startEra[i] = 0
<1>0. /\ docker \in [RunIds -> Statuses] /\ \A j \in RunIds : late[j] = "start" => docker[j] = "created"
      /\ late[i] = "create" => startEra[i] = 0
  BY DEF TInv, TypeOK, World, Containers
<1>1. CASE CreateContainer
  BY <1>0, <1>1 DEF CreateContainer, World, InFlightHeld
<1>2. ~ForceRemove /\ ~RemoveContainer
  BY <1>0 DEF ForceRemove, RemoveContainer, Vanishes
<1>3. ~StartContainer
  BY <1>0 DEF StartContainer, Starts
<1>4. ASSUME NEW j \in RunIds, LateLands(j) \/ ContainerExits(j) PROVE startEra[i] = 0
  BY <1>0, <1>4 DEF LateLands, Starts, ContainerExits
<1>5. ~HostReboots
  BY <1>0 DEF HostReboots
<1> QED BY <1>1, <1>2, <1>3, <1>4, <1>5, Untouched DEF vars

\* What memory says of a run in clean-up, the store says too.
LEMMA StoredCleanup ==
  ASSUME TInv, Accord, NEW i \in RunIds, mem.run[i].phase = "cleanup"
  PROVE  disk.run[i] = mem.run[i]
<1>1. disk.run[i] \in RunRec
  BY DEF TInv, TypeOK, States
<1>2. \/ mem.run[i] = disk.run[i]
      \/ mem.run[i] = [disk.run[i] EXCEPT !.phase = "live"]
  BY DEF Accord, Synced
<1> QED BY <1>1, <1>2 DEF RunRec

\* The run in hand of a removal.
LEMMA RemovalFacts ==
  ASSUME TInv, Accord, World, ForceRemove \/ RemoveContainer, pass.cur \in RunIds
  PROVE  disk.run[pass.cur].logSaved /\ (ForceRemove => disk.run[pass.cur].force)
<1>1. /\ mem.run[pass.cur].phase = "cleanup" /\ mem.run[pass.cur].logSaved
      /\ ForceRemove => mem.run[pass.cur].force
  BY DEF ForceRemove, RemoveContainer, World, InFlightHeld, Removing
<1> QED BY <1>1, StoredCleanup

\* Which steps issue a command that starts something.
LEMMA PrepareSteps ==
  ASSUME TInv, [Next]_vars, pc' # pc, pc' \in {"prepare", "create", "start"}
  PROVE  \/ pc' = "prepare" /\ pc = "visit" /\ pass.allow /\ ~pass.moved
         \/ pc' # "prepare" /\ pc \in {"prepare", "create"} /\ ~pass.moved /\ pass' = pass
                            /\ mem' = mem
<1>0. TypeOK /\ (Errors => pc' \in {"idle", "visit"})
  BY DEF TInv, Errors, PassEnds, SkipRun
<1>1. /\ ~CommandFails /\ ~CommandTimesOut /\ ~ForceRemove /\ ~StartContainer
      /\ ~RemoveContainer /\ ~Unregister
  BY <1>0 DEF CommandFails, CommandTimesOut, ForceRemove, StartContainer, RemoveContainer,
          Unregister, Goto, RemoveDirectory, FinishRun, SkipRun
<1>2. CASE Prepare \/ CreateContainer
  BY <1>0, <1>2 DEF Prepare, CreateContainer, Goto, Keep, Undisturbed
<1>3. ~DeletePool /\ \A s, ok : ~PassEnds(s, ok)
  BY DEF DeletePool, PassEnds
<1>4. CASE Visit
  <2>1. ~LoopEnds
    BY <1>3 DEF LoopEnds, Goto
  <2>2. PICK i \in pass.todo : VisitRunning(i) \/ VisitStart(i) \/ VisitStopped(i) \/ VisitGone(i)
    BY <1>4, <2>1 DEF Visit
  <2>3. ~VisitRunning(i) /\ ~VisitStopped(i) /\ ~VisitGone(i)
    BY <1>3 DEF VisitRunning, VisitStopped, VisitGone, BeginCleanup
  <2> QED BY <1>3, <1>4, <2>2, <2>3 DEF Visit, VisitStart, Undisturbed
<1>5. ~List /\ ~ForceLoop /\ ~ForceArchive /\ ~Relist /\ ~Remotes
  BY <1>3 DEF List, ForceLoop, ForceDone, ForceNext, ForceArchive, Archived, Relist, Remotes
<1>6. ~ReadBoot /\ ~Archive /\ ~FreshList /\ ~Repair /\ ~Replenish
  BY <1>3 DEF ReadBoot, BeginCleanup, Archive, Archived, FreshList, Goto, RemoveDirectory, FinishRun,
              SkipRun, Repair, Replenish
<1>7. ~Crash /\ ~Restart /\ ~HostReboots
  BY DEF Crash, Restart, HostReboots
<1>8. \A p \in Pools : ~Tick(p) /\ ~BackoffExpires(p)
  BY DEF Tick, BackoffExpires
<1>9. \A i \in RunIds : /\ ~LateLands(i) /\ ~Registers(i) /\ ~JobCompletes(i)
                        /\ ~GitHubForgets(i) /\ ~ContainerExits(i)
  BY DEF LateLands, Registers, JobCompletes, GitHubForgets, ContainerExits
<1>10. ~Request
  BY DEF Request, Start, Stop, Remove, Add, Scale, Upgrade, Auth, Apply, Refused,
         RefusedStatus, Configured, Handled
<1> QED BY <1>1, <1>2, <1>4, <1>5, <1>6, <1>7, <1>8, <1>9, <1>10 DEF Next, Pass, Environment, vars

-----------------------------------------------------------------------------
(* The theorems.                                                           *)

\* What Docker and GitHub hold for a run, and what the pass saw of it, agree
\* with its record, whatever is lost, late or restarted in between.
THEOREM WorldHolds == Spec => [](TInv /\ Accord /\ World)
<1>1. Init => World
  BY WorldInit
<1>2. TInv /\ Accord /\ (TInv /\ Accord)' /\ World /\ [Next]_vars => World'
  BY WorldStep
<1> QED BY <1>1, <1>2, AccordHolds, PTL DEF Spec

LEMMA StoredRuns ==
  ASSUME TInv, Accord
  PROVE  Recorded(disk) = Recorded(mem)
BY LikeDisk, LikeSame DEF TInv, TypeOK, Accord

\* A run is forgotten only when no container of it runs or may start again
\* (manager.rs:712): a restarted manager finds every running container.
THEOREM RunnersAreRecorded == Spec => []RunnersRecorded
<1>1. TInv /\ Accord /\ World => RunnersRecorded
  BY StoredRuns DEF World, Containers, Gone, RunnersRecorded
<1> QED BY <1>1, WorldHolds, PTL

\* A run is forgotten only when it is no longer registered at GitHub: the
\* fresh list is taken when no worker is left that could register again.
THEOREM NoRegistrationLeaks == Spec => []NoLeakedRegistration
<1>1. TInv /\ Accord /\ World => NoLeakedRegistration
  BY StoredRuns DEF World, Containers, NoLeakedRegistration, TInv, TypeOK
<1> QED BY <1>1, WorldHolds, PTL

\* Only a stored --force ends a running container (docs/operations.md).
THEOREM WorkSurvives == Spec => OnlyForceKills
<1>1. TInv /\ Accord /\ World /\ [Next]_vars
      => [\A i \in RunIds : docker[i] = "running" /\ docker'[i] = "none" => disk.run[i].force]_vars
  BY RemovalSteps, RemovalFacts
<1> QED BY <1>1, WorldHolds, PTL DEF Spec, OnlyForceKills

\* A container is removed only when the store says that its log is archived.
THEOREM LogsAreSaved == Spec => LogsBeforeRemoval
<1>1. TInv /\ Accord /\ World /\ [Next]_vars
      => [\A i \in RunIds : docker[i] # "none" /\ docker'[i] = "none" => disk.run[i].logSaved]_vars
  BY RemovalSteps, RemovalFacts
<1> QED BY <1>1, WorldHolds, PTL DEF Spec, LogsBeforeRemoval

\* No second container is created for a run whose first one has run, neither
\* by the recovery of a lost create (manager.rs:627) nor by a late command.
THEOREM NoRunIsRecreated == Spec => NeverRecreated
<1>1. TInv /\ Accord /\ World /\ [Next]_vars
      => [\A i \in RunIds : docker[i] = "none" /\ docker'[i] # "none" => startEra[i] = 0]_vars
  BY CreationSteps
<1> QED BY <1>1, WorldHolds, PTL DEF Spec, NeverRecreated

\* Nothing is started and no run recorded while the pool backs off, although
\* the backoff was read at the start of the pass (manager.rs:437).
THEOREM BackoffsHold == Spec => BackoffHolds
<1>1. ASSUME TInv, Accord, World, TInv', Accord', [Next]_vars,
             \/ pc # "prepare" /\ pc' = "prepare"
             \/ Recorded(disk') \ Recorded(disk) # {}
      PROVE  mem.pool[pass.pool].backoff = "none"
  <2>1. CASE pc # "prepare" /\ pc' = "prepare"
    <3>1. pc = "visit" /\ pass.allow /\ ~pass.moved
      BY <1>1, <2>1, PrepareSteps
    <3> QED BY <1>1, <3>1 DEF World, StartsHeld
  <2>2. CASE Recorded(disk') \ Recorded(disk) # {}
    <3>1. Recorded(disk) = Recorded(mem)
      BY <1>1, StoredRuns
    <3>2. Recorded(disk') = Recorded(mem')
      <4>1. TypeOK' /\ Synced' /\ mem' \in States /\ disk' \in States
        BY <1>1 DEF TInv, TypeOK, Accord
      <4>2. Like(mem', disk')
        BY <4>1, LikeObserved DEF Synced
      <4> QED BY <4>1, <4>2, LikeSame
    <3>3. Replenish
      BY <1>1, <2>2, <3>1, <3>2, StepGood
    <3>4. pc = "image" /\ ~pass.moved
      BY <3>3 DEF Replenish, Undisturbed
    <3> QED BY <1>1, <3>4 DEF World, StartsHeld
  <2> QED BY <1>1, <2>1, <2>2
<1>2. TInv /\ Accord /\ World /\ (TInv /\ Accord)' /\ [Next]_vars
      => [(\/ pc # "prepare" /\ pc' = "prepare"
           \/ Recorded(disk') \ Recorded(disk) # {})
          => mem.pool[pass.pool].backoff = "none"]_vars
  BY <1>1
<1> QED BY <1>2, WorldHolds, AccordHolds, PTL DEF Spec, BackoffHolds

\* manager.rs:581, 605: nothing is created or started for a run that drains or
\* is outdated at that moment, nor in a pool with a runner too many, whatever
\* was requested since the pool was marked and the run taken in hand.
THEOREM StartsAreWanted == Spec => StartIsWanted
<1>1. ASSUME TInv, Accord, World, Trimmed, [Next]_vars, pc' \in {"create", "start"}, pc' # pc
      PROVE  LET run == mem.run[pass.cur]
                 ps == mem.pool[run.pool]
             IN  /\ ~run.retiring /\ run.gen = ps.gen
                 /\ Cardinality(Serving(mem, run.pool)) <= Wanted(ps)
  <2>1. pc \in {"prepare", "create"} /\ ~pass.moved
    BY <1>1, PrepareSteps
  <2>2. /\ mem.run[pass.cur].pool = pass.pool /\ ~mem.run[pass.cur].retiring
        /\ pass.cur \in Recorded(mem) /\ \A i \in RunsOf(mem, pass.pool) : Current(i)
    BY <1>1, <2>1 DEF World, StartsHeld, InFlightHeld, Holding, Looping
  <2>3. Cardinality(Serving(mem, pass.pool)) <= Wanted(mem.pool[pass.pool])
    BY <1>1, <2>1 DEF Trimmed, Trim, Looping
  <2> QED BY <2>2, <2>3 DEF RunsOf, Current
<1>2. TInv /\ Accord /\ World /\ Trimmed /\ [Next]_vars
      => [pc' \in {"create", "start"} /\ pc' # pc
          => LET run == mem.run[pass.cur]
                 ps == mem.pool[run.pool]
             IN  /\ ~run.retiring /\ run.gen = ps.gen
                 /\ Cardinality(Serving(mem, run.pool)) <= Wanted(ps)]_vars
  BY <1>1
<1> QED BY <1>2, WorldHolds, MarkedPoolsAreTrimmed, PTL DEF Spec, StartIsWanted

-----------------------------------------------------------------------------
(* What the store notes of a log is never lost again.                      *)

NoteKept == \A i \in RunIds : /\ mem'.run[i].logSaved = mem.run[i].logSaved
                              /\ mem'.run[i].phase = "none" <=> mem.run[i].phase = "none"

LEMMA NotesClear ==
  ASSUME pass'.clone = NoPass.clone
  PROVE  Notes'
BY DEF Notes, Cloned, NoPass, NoRun

LEMMA NotesSame ==
  ASSUME Notes, NoteKept, pass'.clone = pass.clone
  PROVE  Notes'
BY DEF Notes, NoteKept, Cloned

LEMMA NotesTake ==
  ASSUME TypeOK, Notes, NoteKept, NEW i \in RunIds, NEW r \in RunRec,
         r.logSaved = mem.run[i].logSaved, pass'.clone = [pass.clone EXCEPT ![i] = r]
  PROVE  Notes'
<1>1. pass.clone \in [RunIds -> RunRec]
  BY DEF TypeOK, PassRec
<1> QED BY <1>1 DEF Notes, NoteKept, Cloned

LEMMA NoteRuns == ASSUME mem'.run = mem.run PROVE NoteKept
BY DEF NoteKept

LEMMA NoteUpdate ==
  ASSUME mem \in States, NEW i \in RunIds, NEW r, r.logSaved = mem.run[i].logSaved,
         r.phase # "none", i \in Recorded(mem), mem' = [mem EXCEPT !.run[i] = r]
  PROVE  NoteKept
BY DEF NoteKept, States, Recorded

LEMMA NotesErrors ==
  ASSUME TInv, Errors
  PROVE  NoteKept /\ Notes'
<1>1. pass'.clone = NoPass.clone
  BY DEF Errors, PassEnds, SkipRun, Loose, NoPass, TInv, TypeOK, PassRec
<1> QED BY <1>1, ErrorsKeep, NoteRuns, NotesClear

LEMMA NotesEnds ==
  ASSUME TInv, pass.pool \in Pools, NEW s \in States, s.run = mem.run, NEW ok, PassEnds(s, ok)
  PROVE  NoteKept /\ Notes'
BY EndsKeep, NoteRuns, NotesClear

LEMMA NotesDeletePool ==
  ASSUME TInv, Accord, pass.pool \in Pools, DeletePool
  PROVE  NoteKept /\ Notes'
<1> DEFINE gone == [mem EXCEPT !.pool[pass.pool] = Absent]
<1>1. mem \in States /\ gone.run = mem.run /\ TypeOK /\ Synced
  BY DEF TInv, TypeOK, States, Accord
<1>2. CASE PassEnds(mem, FALSE)
  BY <1>1, <1>2, NotesEnds
<1>3. CASE mem' \in {disk, gone} /\ pass' = NoPass
  <2>1. NoteKept
    BY <1>1, <1>3, KeptReload, NoteRuns DEF KeepsRuns, KeepsRun, NoteKept
  <2> QED BY <1>3, <2>1, NotesClear
<1> QED BY <1>2, <1>3 DEF DeletePool, Save

LEMMA NotesBeginCleanup ==
  ASSUME TInv, Accord, Notes, NEW i \in Recorded(mem), NEW r \in RunRec,
         r.logSaved = mem.run[i].logSaved, NEW rebooted \in BOOLEAN, BeginCleanup(i, r, rebooted)
  PROVE  NoteKept /\ Notes'
<1>0. mem \in States /\ pass \in PassRec /\ TypeOK /\ i \in RunIds
  BY DEF TInv, TypeOK, Recorded
<1>1. /\ Cleanup(r) \in RunRec /\ Cleanup(r).logSaved = mem.run[i].logSaved
      /\ Cleanup(r).phase = "cleanup"
  BY DEF Cleanup, RunRec, Phases
<1>2. NoteKept
  BY <1>0, <1>1, NoteUpdate DEF BeginCleanup, Save
<1>3. CASE pass.moved
  <2>1. pass'.clone = pass.clone
    BY <1>0, <1>3 DEF BeginCleanup, Passed, PassRec
  <2> QED BY <1>2, <2>1, NotesSame
<1>4. CASE ~pass.moved
  <2>1. pass'.clone = [pass.clone EXCEPT ![i] = Cleanup(r)]
    BY <1>0, <1>4 DEF BeginCleanup, Take, PassRec
  <2> QED BY <1>0, <1>1, <1>2, <2>1, NotesTake
<1> QED BY <1>3, <1>4

LEMMA NotesVisit ==
  ASSUME TInv, Accord, Notes, Visit
  PROVE  NoteKept /\ Notes'
<1>0. /\ pc = "visit" /\ pass.pool \in Pools /\ mem \in States /\ pass \in PassRec /\ TypeOK
      /\ pass.todo \subseteq Recorded(mem)
  BY DEF Visit, TInv, TypeOK, Shape, Accord, TodoHeld, Looping, RunsOf
<1>1. CASE PassEnds(mem, FALSE) \/ \E ok \in BOOLEAN : PassEnds(mem, ok)
  BY <1>0, <1>1, NotesEnds
<1>2. CASE DeletePool
  BY <1>0, <1>2, NotesDeletePool
<1>3. CASE mem' = mem /\ pass' = pass
  BY <1>3, NotesSame, NoteRuns
<1>4. CASE pass.todo = {}
  BY <1>1, <1>2, <1>3, <1>4 DEF Visit, LoopEnds, Goto, Keep
<1>5. ASSUME NEW i \in pass.todo,
             VisitRunning(i) \/ VisitStart(i) \/ VisitStopped(i) \/ VisitGone(i)
      PROVE  NoteKept /\ Notes'
  <2>0. i \in RunIds /\ mem.run[i] \in RunRec /\ i \in Recorded(mem)
    BY <1>0 DEF States, Recorded
  <2>1. CASE mem' = mem /\ (pass' = Passed(i) \/ pass' = [Passed(i) EXCEPT !.failed = TRUE])
    <3>1. pass'.clone = pass.clone
      BY <1>0, <2>1 DEF Passed, PassRec
    <3> QED BY <2>1, <3>1, NotesSame, NoteRuns
  <2>2. ASSUME NEW r \in RunRec, r.logSaved = mem.run[i].logSaved, mem' = mem, pass' = Take(i, r)
        PROVE  NoteKept /\ Notes'
    <3>1. pass'.clone = [pass.clone EXCEPT ![i] = r]
      BY <1>0, <2>2 DEF Take, PassRec
    <3> QED BY <1>0, <2>0, <2>2, <3>1, NotesTake, NoteRuns
  <2>3. CASE VisitRunning(i)
    <3> DEFINE run == [mem.run[i] EXCEPT !.phase = "live"]
    <3>1. /\ mem' = [mem EXCEPT !.run[i] = run] /\ run.logSaved = mem.run[i].logSaved
          /\ run.phase = "live"
      BY <1>0, <2>0, <2>3 DEF VisitRunning, Observe, States, RunRec
    <3>2. pass'.clone = pass.clone
      BY <1>0, <2>3 DEF VisitRunning, Passed, PassRec
    <3> HIDE DEF run
    <3> QED BY <1>0, <2>0, <3>1, <3>2, NoteUpdate, NotesSame
  <2>4. CASE VisitStart(i)
    BY <1>1, <2>0, <2>1, <2>2, <2>4 DEF VisitStart, Keep
  <2>5. CASE VisitGone(i)
    BY <2>0, <2>1, <2>2, <2>5 DEF VisitGone, Keep
  <2>6. CASE VisitStopped(i)
    <3> DEFINE run == [mem.run[i] EXCEPT !.completed = i \in marker]
               known == StoppedBefore(i, bootKnown)
    <3>0. (i \in marker) \in BOOLEAN /\ (Unexpected(run) /\ known) \in BOOLEAN
      BY DEF Unexpected
    <3>1. run \in RunRec /\ run.logSaved = mem.run[i].logSaved
      BY <2>0, <3>0, CompletedType DEF RunRec
    <3>2. CASE BeginCleanup(i, run, Unexpected(run) /\ known)
      BY <2>0, <3>0, <3>1, <3>2, NotesBeginCleanup
    <3>3. CASE Keep /\ pass' = Take(i, run)
      BY <2>2, <3>1, <3>3 DEF Keep
    <3> QED BY <1>1, <2>6, <3>2, <3>3 DEF VisitStopped
  <2> QED BY <1>5, <2>3, <2>4, <2>5, <2>6
<1> QED BY <1>4, <1>5 DEF Visit

LEMMA NotesForceLoop ==
  ASSUME TInv, Accord, Notes, ForceLoop
  PROVE  NoteKept /\ Notes'
<1>0. /\ pc = "force" /\ mem \in States /\ pass \in PassRec /\ TypeOK /\ Cloned = pass.todo
  BY DEF ForceLoop, TInv, TypeOK, Accord, ClonesHeld
<1>1. CASE ForceDone
  BY <1>1, NotesSame, NoteRuns DEF ForceDone, Keep
<1>2. ASSUME NEW i \in pass.todo, ForceNext(i) PROVE NoteKept /\ Notes'
  <2> DEFINE run == [pass.clone[i] EXCEPT !.phase = "cleanup"]
  <2>1. /\ i \in RunIds /\ pass.clone[i] \in RunRec /\ pass.clone[i].logSaved = mem.run[i].logSaved
        /\ i \in Recorded(mem)
    BY <1>0 DEF PassRec, Notes, Accord, ClonesHeld, Agrees, Recorded
  <2>2. run \in RunRec /\ run.logSaved = mem.run[i].logSaved /\ run.phase = "cleanup"
    BY <2>1, RunUpdateType DEF RunRec
  <2>3. /\ mem' = [mem EXCEPT !.run[i] = run]
        /\ pass'.clone = [pass.clone EXCEPT ![i] = run]
    BY <1>0, <1>2 DEF ForceNext, Save, Take, PassRec
  <2> HIDE DEF run
  <2> QED BY <1>0, <2>1, <2>2, <2>3, NoteUpdate, NotesTake
<1> QED BY <1>1, <1>2 DEF ForceLoop

LEMMA NotesList ==
  ASSUME TInv, Accord, Notes, List
  PROVE  NoteKept /\ Notes'
<1>0. pass.pool \in Pools /\ mem \in States /\ pass \in PassRec
  BY DEF List, TInv, TypeOK, Shape
<1>1. CASE DeletePool
  BY <1>0, <1>1, NotesDeletePool
<1>2. CASE PassEnds(mem, TRUE)
  BY <1>0, <1>2, NotesEnds
<1>3. CASE ~(Emptied(pass.pool) /\ ~pass.ps.running)
  <2> DEFINE forced == ForcedRuns(pass.pool)
  <2>1. /\ mem' = mem
        /\ pass' = [pass EXCEPT !.snap = Snapshot, !.todo = forced,
               !.clone = [i \in RunIds |-> IF i \in forced THEN mem.run[i] ELSE NoRun],
               !.unknown = Cardinality({i \in RunIds \ Recorded(mem) : docker[i] # "none"})]
    BY <1>3 DEF List, Keep
  <2>2. pass'.clone = [i \in RunIds |-> IF i \in forced THEN mem.run[i] ELSE NoRun]
    BY <1>0, <2>1 DEF PassRec
  <2>3. \A i \in RunIds : pass'.clone[i] = IF i \in forced THEN mem.run[i] ELSE NoRun
    BY <2>2
  <2>4. Cloned' \subseteq forced /\ Cloned' \subseteq RunIds
    BY <2>3 DEF Cloned, NoRun
  <2> HIDE DEF forced
  <2>5. Notes'
    BY <2>1, <2>3, <2>4 DEF Notes
  <2> QED BY <2>1, <2>5, NoteRuns
<1> QED BY <1>1, <1>2, <1>3 DEF List

\* Both archives note it in the clone as well.
LEMMA NotesArchived ==
  ASSUME TInv, Accord, World, Notes, Archive \/ ForceArchive
  PROVE  Notes'
<1> DEFINE i == pass.cur
           r == [pass.clone[i] EXCEPT !.logSaved = TRUE]
<1>0. /\ mem \in States /\ pass \in PassRec /\ i \in RunIds /\ pass.clone[i] \in RunRec
      /\ mem' = [mem EXCEPT !.run[i] = r] /\ pass' = [pass EXCEPT !.clone[i] = r]
  BY DEF Archive, ForceArchive, Archived, Save, TInv, TypeOK, Shape, Holding, Collected, PassRec
<1>1. r.logSaved
  BY <1>0 DEF RunRec
<1>2. /\ mem'.run[i] = r /\ \A j \in RunIds : j # i => mem'.run[j] = mem.run[j]
      /\ pass'.clone[i] = r /\ \A j \in RunIds : j # i => pass'.clone[j] = pass.clone[j]
  BY <1>0 DEF States, PassRec
<1> QED BY <1>2 DEF Notes, Cloned

LEMMA NotesStart ==
  ASSUME TInv, Accord, World, Notes, StartContainer
  PROVE  NoteKept /\ Notes'
<1> DEFINE i == pass.cur
           run == [pass.clone[i] EXCEPT !.phase = "live"]
<1>1. CASE Errors
  BY <1>1, NotesErrors
<1>2. CASE ~Errors
  <2>1. /\ pc = "start" /\ pass' = Loose /\ mem' = [mem EXCEPT !.run[i] = run]
    BY <1>2 DEF StartContainer, Save
  <2>2. /\ mem \in States /\ pass \in PassRec /\ i \in RunIds /\ pass.clone[i] \in RunRec
        /\ i \in Cloned /\ i \in Recorded(mem)
    BY <2>1, HandFacts DEF TInv, TypeOK, Shape, Holding, Looping, Accord, ClonesHeld
  <2>3. run.logSaved = mem.run[i].logSaved /\ run.phase = "live"
    BY <2>2 DEF Notes, RunRec
  <2>4. pass'.clone = NoPass.clone
    BY <2>1, <2>2 DEF Loose, PassRec
  <2> HIDE DEF run
  <2> QED BY <2>1, <2>2, <2>3, <2>4, NoteUpdate, NotesClear
<1> QED BY <1>1, <1>2

\* A run is forgotten with what was noted of it.
LEMMA NotesRemoveDirectory ==
  ASSUME TInv, Notes, RemoveDirectory \/ FinishRun(pass.cur)
  PROVE  Notes' /\ (NoteKept \/ FinishRun(pass.cur))
<1>0. pass \in PassRec
  BY DEF TInv, TypeOK
<1>1. CASE FinishRun(pass.cur)
  <2>1. pass'.clone = NoPass.clone
    BY <1>0, <1>1 DEF FinishRun, Loose, PassRec
  <2> QED BY <1>1, <2>1, NotesClear
<1>2. CASE SkipRun /\ Keep
  <2>1. pass'.clone = NoPass.clone /\ mem' = mem
    BY <1>0, <1>2 DEF SkipRun, Loose, PassRec, Keep
  <2> QED BY <2>1, NotesClear, NoteRuns
<1>3. CASE Goto("repair") /\ Keep
  BY <1>3, NotesSame, NoteRuns DEF Goto, Keep
<1> QED BY <1>1, <1>2, <1>3 DEF RemoveDirectory

\* The steps whose effect on the notes is more than none.
Noting == Archive \/ ForceArchive \/ FinishRun(pass.cur) \/ Replenish

LEMMA NotesRequest ==
  ASSUME TInv, Accord, Notes, Request
  PROVE  NoteKept /\ Notes'
<1>1. KeepsRuns /\ (RefusedStatus \/ MoveEpoch)
  BY KeptRequest
<1>2. NoteKept
  BY <1>1 DEF KeepsRuns, KeepsRun, NoteKept, Recorded
<1>3. pass'.clone = pass.clone
  BY <1>1 DEF RefusedStatus, MoveEpoch, TInv, TypeOK, PassRec
<1> QED BY <1>2, <1>3, NotesSame

LEMMA NotesReadBoot ==
  ASSUME TInv, Accord, World, Notes, ReadBoot
  PROVE  NoteKept /\ Notes'
<1>0. /\ pc = "boot" /\ pass.cur \in Recorded(mem) /\ pass.cur \in RunIds /\ pass \in PassRec /\ mem \in States
      /\ pass.pool \in Pools /\ pass.cur \in Cloned /\ startEra \in [RunIds -> Nat]
      /\ hostBoot \in Nat /\ bootKnown \in Nat
  BY HandFacts DEF ReadBoot, TInv, TypeOK, Shape, Holding, Looping, Accord, ClonesHeld
<1>1. pass.clone[pass.cur] \in RunRec /\ pass.clone[pass.cur].logSaved = mem.run[pass.cur].logSaved
  BY <1>0 DEF PassRec, Notes
<1>2. CASE PassEnds(mem, FALSE)
  BY <1>0, <1>2, NotesEnds
<1>3. ASSUME NEW boot \in {bootKnown, hostBoot},
             BeginCleanup(pass.cur, pass.clone[pass.cur], StoppedBefore(pass.cur, boot))
      PROVE  NoteKept /\ Notes'
  <2>1. StoppedBefore(pass.cur, boot) \in BOOLEAN
    BY DEF StoppedBefore
  <2> QED BY <1>0, <1>1, <1>3, <2>1, NotesBeginCleanup
<1> QED BY <1>2, <1>3 DEF ReadBoot

LEMMA NotesCommand ==
  ASSUME TInv, Accord, World, Notes,
         ForceRemove \/ RemoveContainer \/ CreateContainer \/ Relist \/ Remotes \/ Prepare
  PROVE  NoteKept /\ Notes'
<1>0. pass \in PassRec /\ mem \in States /\ TypeOK
  BY DEF TInv, TypeOK
<1>1. CASE Errors
  BY <1>1, NotesErrors
<1>2. CASE ForceRemove /\ ~Errors
  <2>1. mem' = mem /\ pass.cur \in RunIds /\ pass' = [pass EXCEPT !.cur = NoId, !.clone[pass.cur] = NoRun]
    BY <1>2 DEF ForceRemove, Keep, TInv, Shape, Holding
  <2>2. pass'.clone = [pass.clone EXCEPT ![pass.cur] = NoRun]
    BY <1>0, <2>1 DEF PassRec
  <2>3. \A i \in RunIds : pass'.clone[i] = pass.clone[i] \/ pass'.clone[i].phase = "none"
    BY <1>0, <2>2 DEF NoRun, PassRec
  <2> QED BY <2>1, <2>3, NoteRuns DEF Notes, Cloned
<1>3. CASE Relist
  BY <1>0, <1>3, NotesSame, NoteRuns DEF Relist, Keep, PassRec
<1>4. CASE Remotes
  <2>1. KeepsRuns
    BY <1>0, <1>4, KeptMark DEF Remotes, Save
  <2>2. NoteKept
    BY <2>1 DEF KeepsRuns, KeepsRun, NoteKept, Recorded
  <2>3. pass'.clone = pass.clone
    BY <1>0, <1>4 DEF Remotes, PassRec
  <2> QED BY <2>2, <2>3, NotesSame
<1>5. CASE (RemoveContainer \/ CreateContainer \/ Prepare) /\ ~Errors
  BY <1>5, NotesSame, NoteRuns DEF RemoveContainer, CreateContainer, Prepare, Goto, Keep
<1> QED BY <1>1, <1>2, <1>3, <1>4, <1>5

LEMMA NotesForget ==
  ASSUME TInv, Accord, World, Notes, FreshList \/ Unregister \/ Repair
  PROVE  Notes' /\ (NoteKept \/ FinishRun(pass.cur))
<1>0. pass \in PassRec
  BY DEF TInv, TypeOK
<1>1. CASE RemoveDirectory \/ FinishRun(pass.cur)
  BY <1>1, NotesRemoveDirectory
<1>2. CASE Errors
  BY <1>2, NotesErrors
<1>3. CASE Goto("unregister") /\ Keep
  BY <1>3, NotesSame, NoteRuns DEF Goto, Keep
<1> QED BY <1>1, <1>2, <1>3 DEF FreshList, Unregister, Repair

LEMMA NotesElse ==
  ASSUME TInv, Accord, World, Notes,
         \/ \E p \in Pools : Tick(p) \/ BackoffExpires(p)
         \/ CommandFails \/ CommandTimesOut \/ Crash \/ Restart \/ Environment
  PROVE  NoteKept /\ Notes'
<1>0. TypeOK /\ Synced /\ mem \in States
  BY DEF TInv, TypeOK, Accord
<1>1. ASSUME NEW p \in Pools, Tick(p) PROVE NoteKept /\ Notes'
  <2>1. pass'.clone = NoPass.clone
    BY <1>1 DEF Tick, NoPass
  <2> QED BY <1>1, <2>1, NotesClear, NoteRuns DEF Tick, Keep
<1>2. ASSUME NEW p \in Pools, BackoffExpires(p) PROVE NoteKept /\ Notes'
  BY <1>0, <1>2, NotesSame, NoteRuns DEF BackoffExpires, Arm, States
<1>3. CASE Errors
  BY <1>3, NotesErrors
<1>4. CASE Crash
  <2>1. NoteKept
    BY <1>0, <1>4, KeptReload DEF KeepsRuns, KeepsRun, NoteKept, Recorded, Crash
  <2> QED BY <1>4, <2>1, NotesClear DEF Crash
<1>5. CASE UNCHANGED <<mem, pass>>
  BY <1>5, NotesSame, NoteRuns
<1>6. Restart => UNCHANGED <<mem, pass>>
  BY DEF Restart
<1>7. ASSUME NEW i \in RunIds,
             \/ LateLands(i) \/ Registers(i) \/ JobCompletes(i) \/ GitHubForgets(i)
             \/ ContainerExits(i) \/ HostReboots
      PROVE  UNCHANGED <<mem, pass>>
  BY <1>7 DEF LateLands, Registers, JobCompletes, GitHubForgets, ContainerExits, HostReboots
<1>8. HostReboots => UNCHANGED <<mem, pass>>
  BY DEF HostReboots
<1> QED BY <1>1, <1>2, <1>3, <1>4, <1>5, <1>6, <1>7, <1>8
        DEF CommandFails, CommandTimesOut, Environment

\* The step, action by action.
LEMMA NotesStep ==
  ASSUME TInv, Accord, World, Notes, [Next]_vars
  PROVE  Notes' /\ (NoteKept \/ Noting)
<1>1. CASE UNCHANGED vars
  BY <1>1, NotesSame, NoteRuns DEF vars
<1>2. CASE Archive \/ ForceArchive
  BY <1>2, NotesArchived DEF Noting
<1>3. CASE Replenish
  <2>1. pass' = NoPass
    BY <1>3 DEF Replenish, PassEnds
  <2> QED BY <1>3, <2>1, NotesClear DEF Noting
<1>4. CASE FreshList \/ Unregister \/ Repair
  BY <1>4, NotesForget DEF Noting
<1> QED BY <1>1, <1>2, <1>3, <1>4, NotesElse, NotesRequest, NotesReadBoot, NotesCommand, NotesVisit,
           NotesForceLoop, NotesList, NotesStart DEF Next, Pass, Environment

-----------------------------------------------------------------------------
(* The runners as module Runners sees them.                                *)

\* What a life shows, as the memory tells it.
Seen(i) == [record |-> Entry(mem.run[i]), box |-> docker[i], ran |-> startEra[i] # 0,
            saved |-> mem.run[i].phase # "none" /\ mem.run[i].logSaved,
            worker |-> i \in registered]

Moves(i) == Seen(i)' = Seen(i) \/ Outside!Step(Seen(i), Seen(i)')

\* The host of the containers has booted before.
Booted == hostBoot # 0

LEMMA LikeRecord ==
  ASSUME NEW r \in RunRec, NEW t \in RunRec,
         r = t \/ (t.phase # "none" /\ r = [t EXCEPT !.phase = "live"])
  PROVE  /\ Entry(t) = Entry(r) /\ t.logSaved = r.logSaved
         /\ t.phase = "none" <=> r.phase = "none"
<1>1. CASE t.phase # "none" /\ r = [t EXCEPT !.phase = "live"]
  BY <1>1 DEF Entry, RunRec
<1> QED BY <1>1

LEMMA LifeIsSeen ==
  ASSUME TInv, Accord, NEW i \in RunIds
  PROVE  Life(i) = Seen(i)
<1>1. mem.run[i] \in RunRec /\ disk.run[i] \in RunRec
  BY DEF TInv, TypeOK, States
<1>2. \/ mem.run[i] = disk.run[i]
      \/ disk.run[i].phase # "none" /\ mem.run[i] = [disk.run[i] EXCEPT !.phase = "live"]
  BY DEF Accord, Synced, Recorded
<1> QED BY <1>1, <1>2, LikeRecord DEF Life, Seen, Recorded

LEMMA LifeIsSeenNext ==
  ASSUME TInv', Accord', NEW i \in RunIds
  PROVE  Life(i)' = Seen(i)'
<1>1. mem'.run[i] \in RunRec /\ disk'.run[i] \in RunRec
  BY DEF TInv, TypeOK, States
<1>2. \/ mem'.run[i] = disk'.run[i]
      \/ disk'.run[i].phase # "none" /\ mem'.run[i] = [disk'.run[i] EXCEPT !.phase = "live"]
  BY DEF Accord, Synced, Recorded
<1> QED BY <1>1, <1>2, LikeRecord DEF Life, Seen, Recorded

LEMMA SeenType ==
  ASSUME TInv, TInv', NEW i \in RunIds
  PROVE  Seen(i) \in Outside!Lives /\ Seen(i)' \in Outside!Lives
<1>1. /\ mem.run[i] \in RunRec /\ docker[i] \in Statuses
      /\ mem'.run[i] \in RunRec /\ docker'[i] \in Statuses
  BY DEF TInv, TypeOK, States
<1> QED BY <1>1 DEF Seen, Entry, Outside!Lives, Statuses, RunRec

\* Nothing but the store changes, and it forgets no log.
LEMMA StoreMoves ==
  ASSUME TInv, TInv', Good, NoteKept,
         UNCHANGED <<docker, startEra, registered>>, NEW i \in RunIds
  PROVE  Moves(i)
<1>1. /\ mem.run[i] \in RunRec /\ mem'.run[i] \in RunRec
      /\ mem'.run[i].logSaved = mem.run[i].logSaved
      /\ mem'.run[i].phase = "none" <=> mem.run[i].phase = "none"
  BY DEF TInv, TypeOK, States, NoteKept, Recorded
<1>2. mem.run[i].phase # "none" => /\ mem.run[i].retiring => mem'.run[i].retiring
                                   /\ mem.run[i].force => mem'.run[i].force
  BY <1>1 DEF Good, Forward, Recorded
<1>3. /\ Seen(i)'.box = Seen(i).box /\ Seen(i)'.ran = Seen(i).ran
      /\ Seen(i)'.saved = Seen(i).saved /\ Seen(i)'.worker = Seen(i).worker
  BY <1>1 DEF Seen
<1>4. \/ Seen(i)'.record = Seen(i).record
      \/ Seen(i).record = "serving" /\ Seen(i)'.record = "draining"
      \/ Seen(i).record \in {"serving", "draining"} /\ Seen(i)'.record = "forced"
  BY <1>1, <1>2 DEF Seen, Entry, RunRec
<1>5. Seen(i) \in Outside!Lives /\ Seen(i)' \in Outside!Lives
  BY SeenType
<1> HIDE DEF Seen
<1> QED BY <1>3, <1>4, <1>5
        DEF Moves, Outside!Step, Outside!Drain, Outside!Force, Outside!Lives

\* The store keeps what it says of the runs.
LEMMA RecordStays ==
  ASSUME TInv, mem'.run = mem.run, NEW i \in RunIds
  PROVE  Seen(i)'.record = Seen(i).record /\ Seen(i)'.saved = Seen(i).saved
BY DEF Seen

\* A step of the container or the registration of run i, or of none.
LEMMA HostMoves ==
  ASSUME TInv, TInv', World, mem'.run = mem.run, NEW i \in RunIds,
         \/ /\ docker'[i] = docker[i] /\ (startEra'[i] = 0 <=> startEra[i] = 0)
         \/ /\ docker[i] = "none" /\ docker'[i] = "created"
            /\ startEra[i] = 0 /\ startEra'[i] = startEra[i]
            /\ i \in registered' <=> i \in registered
         \/ /\ docker[i] \in {"created", "exited"} /\ docker'[i] = "running" /\ startEra'[i] # 0
            /\ mem.run[i].phase # "none" /\ (i \in registered' <=> i \in registered)
         \/ /\ docker[i] = "running" /\ docker'[i] = "exited" /\ startEra'[i] = startEra[i]
            /\ i \in registered' <=> i \in registered
         \/ /\ docker[i] # "none" /\ docker'[i] = "none" /\ startEra'[i] = startEra[i]
            /\ mem.run[i].logSaved /\ mem.run[i].phase # "none"
            /\ docker[i] = "running" => mem.run[i].force
            /\ i \in registered' <=> i \in registered,
         i \in registered' /\ i \notin registered => docker[i] = "running"
  PROVE  Moves(i)
<1>1. Seen(i) \in Outside!Lives /\ Seen(i)' \in Outside!Lives
  BY SeenType
<1>a. /\ Seen(i)'.record = Seen(i).record /\ Seen(i)'.saved = Seen(i).saved
      /\ Seen(i).box = docker[i] /\ Seen(i)'.box = docker'[i]
      /\ Seen(i).ran = (startEra[i] # 0) /\ Seen(i)'.ran = (startEra'[i] # 0)
      /\ Seen(i).worker = (i \in registered) /\ Seen(i)'.worker = (i \in registered')
  BY RecordStays DEF Seen
<1>3. /\ mem.run[i].phase # "none" => Seen(i).record # "none"
      /\ mem.run[i].phase # "none" /\ mem.run[i].force => Seen(i).record = "forced"
      /\ mem.run[i].phase # "none" /\ mem.run[i].logSaved => Seen(i).saved
  BY DEF Seen, Entry
<1> HIDE DEF Seen
<1>b. /\ startEra'[i] # 0 => Seen(i)'.ran = TRUE
      /\ startEra[i] = 0 => Seen(i).ran = FALSE
      /\ (startEra'[i] = 0 <=> startEra[i] = 0) => Seen(i)'.ran = Seen(i).ran
  BY <1>a
<1>c. /\ (i \in registered' <=> i \in registered) => Seen(i)'.worker = Seen(i).worker
      /\ i \in registered' => Seen(i)'.worker = TRUE
      /\ i \notin registered' => Seen(i)'.worker = FALSE
  <2> DEFINE here == i \in registered
             next == i \in registered'
  <2>1. /\ Seen(i).worker = here /\ Seen(i)'.worker = next
        /\ here \in BOOLEAN /\ next \in BOOLEAN
    BY <1>a
  <2>2. /\ (next <=> here) => Seen(i)'.worker = Seen(i).worker
        /\ next => Seen(i)'.worker = TRUE
        /\ ~next => Seen(i)'.worker = FALSE
    <3> HIDE DEF here, next
    <3> QED BY <2>1
  <2> QED BY <2>2
<1>2. /\ Seen(i)'.record = Seen(i).record /\ Seen(i)'.saved = Seen(i).saved
      /\ Seen(i).box = docker[i] /\ Seen(i)'.box = docker'[i]
  BY <1>a
<1> USE DEF Moves, Outside!Step, Outside!Lives
<1>4. CASE docker'[i] = docker[i] /\ (startEra'[i] = 0 <=> startEra[i] = 0)
  BY <1>1, <1>2, <1>b, <1>c, <1>4 DEF Outside!Register, Outside!Unregister
<1>5. CASE docker[i] = "none" /\ docker'[i] = "created"
  BY <1>1, <1>2, <1>b, <1>c, <1>5 DEF Outside!Create
<1>6. CASE docker[i] \in {"created", "exited"} /\ docker'[i] = "running"
  <2>1. mem.run[i].phase # "none" /\ startEra'[i] # 0 /\ (i \in registered' <=> i \in registered)
    BY <1>6
  <2>2. Seen(i)' = [Seen(i) EXCEPT !.box = "running", !.ran = TRUE]
    BY <1>1, <1>2, <1>b, <1>c, <1>6, <2>1
  <2>3. Seen(i).record # "none" /\ Seen(i).box \in {"created", "exited"}
    BY <1>2, <1>3, <1>6, <2>1
  <2> QED BY <2>2, <2>3 DEF Outside!StartBox
<1>7. CASE docker[i] = "running" /\ docker'[i] = "exited"
  BY <1>1, <1>2, <1>b, <1>c, <1>7 DEF Outside!ExitBox
<1>8. CASE docker[i] # "none" /\ docker'[i] = "none"
  BY <1>1, <1>2, <1>3, <1>b, <1>c, <1>8 DEF Outside!RemoveBox
<1> QED BY <1>4, <1>5, <1>6, <1>7, <1>8

\* A run whose record, container and registration are left alone.
LEMMA Stays ==
  ASSUME NEW i \in RunIds, mem'.run[i] = mem.run[i], docker'[i] = docker[i],
         startEra'[i] = startEra[i], i \in registered' <=> i \in registered
  PROVE  Moves(i)
<1>1. (i \in registered') = (i \in registered)
  OBVIOUS
<1> QED BY <1>1 DEF Moves, Seen

\* FinishRun: the record goes, with all that is known of the run.
LEMMA FinishMoves ==
  ASSUME TInv, TInv', Accord, World, pc \in {"fresh", "unregister", "repair"}, FinishRun(pass.cur),
         pass.cur \notin registered', \A j \in RunIds : j # pass.cur => (j \in registered' <=> j \in registered),
         UNCHANGED docker, NEW i \in RunIds
  PROVE  Moves(i)
<1>0. /\ pass.cur \in RunIds /\ mem \in States /\ startEra \in [RunIds -> Nat]
      /\ mem' = [mem EXCEPT !.run[pass.cur] = NoRun] /\ startEra' = [startEra EXCEPT ![pass.cur] = 0]
      /\ Gone(pass.cur) /\ (docker[pass.cur] = "created" => startEra[pass.cur] = 0)
  BY HandFacts DEF FinishRun, Save, Looping, Collected, TInv, TypeOK, World, InFlightHeld, Containers
<1>1. CASE i # pass.cur
  BY <1>0, <1>1, Stays DEF States
<1>2. CASE i = pass.cur
  <2>1. /\ mem'.run[i] = NoRun /\ startEra'[i] = 0 /\ docker'[i] = docker[i]
        /\ ~(i \in registered')
    BY <1>0, <1>2 DEF States
  <2>2. Seen(i)' = [record |-> "none", box |-> docker[i], ran |-> FALSE, saved |-> FALSE,
                    worker |-> FALSE]
    <3>1. Entry(NoRun) = "none" /\ NoRun.phase = "none"
      BY DEF Entry, NoRun
    <3>2. /\ (startEra'[i] # 0) = FALSE /\ (i \in registered') = FALSE
          /\ (mem'.run[i].phase # "none" /\ mem'.run[i].logSaved) = FALSE
      BY <2>1, <3>1
    <3> QED BY <2>1, <3>1, <3>2 DEF Seen
  <2>3. Seen(i).box = docker[i] /\ (startEra[i] = 0 => ~Seen(i).ran)
    BY DEF Seen
  <2>4. Seen(i).box = "none" \/ (Seen(i).box = "created" /\ ~Seen(i).ran)
    BY <1>0, <1>2, <2>3 DEF Gone
  <2>5. Seen(i)' = [Outside!Unborn EXCEPT !.box = Seen(i).box]
    <3>1. /\ Seen(i)' \in Outside!Lives /\ Outside!Unborn \in Outside!Lives
          /\ Seen(i)'.record = Outside!Unborn.record /\ Seen(i)'.ran = Outside!Unborn.ran
          /\ Seen(i)'.saved = Outside!Unborn.saved /\ Seen(i)'.worker = Outside!Unborn.worker
          /\ Seen(i)'.box = Seen(i).box
      BY <2>2, <2>3, SeenType DEF Outside!Unborn, Outside!Lives
    <3> QED BY <3>1 DEF Outside!Lives
  <2>6. \A r, s : Outside!Forget(r, s) => Outside!Step(r, s)
    BY DEF Outside!Step
  <2> QED BY <2>4, <2>5, <2>6 DEF Moves, Outside!Forget
<1> QED BY <1>1, <1>2

\* Both archives.
LEMMA ArchiveMoves ==
  ASSUME TInv, TInv', Accord, World, Archive \/ ForceArchive, NEW i \in RunIds
  PROVE  Moves(i)
<1> DEFINE r == [pass.clone[pass.cur] EXCEPT !.logSaved = TRUE]
<1>1. /\ pass.cur \in Recorded(mem) /\ r \in RunRec /\ r.phase = "cleanup" /\ r.logSaved
      /\ r.force = mem.run[pass.cur].force /\ r.retiring = mem.run[pass.cur].retiring
      /\ UNCHANGED env /\ mem'.run = [mem.run EXCEPT ![pass.cur] = r]
  BY ArchivedFacts DEF Archive, ForceArchive, SameDuty
<1> HIDE DEF r
<1>2. UNCHANGED <<docker, startEra, registered>> /\ mem \in States
  BY <1>1 DEF env, TInv, TypeOK
<1>3. CASE i # pass.cur
  BY <1>1, <1>2, <1>3, Stays DEF States
<1>4. CASE i = pass.cur
  <2>1. mem'.run[i] = r /\ mem.run[i].phase # "none" /\ mem.run[i] \in RunRec
    BY <1>1, <1>2, <1>4 DEF States, Recorded
  <2>2. /\ Seen(i)'.record = Seen(i).record /\ Seen(i)'.box = Seen(i).box
        /\ Seen(i)'.ran = Seen(i).ran /\ Seen(i)'.worker = Seen(i).worker
    BY <1>1, <1>2, <1>4, <2>1 DEF Seen, Entry
  <2>3. Seen(i)'.saved = TRUE /\ Seen(i).record # "none"
    BY <1>1, <2>1 DEF Seen, Entry
  <2>4. Seen(i) \in Outside!Lives /\ Seen(i)' \in Outside!Lives
    BY SeenType
  <2> HIDE DEF Seen
  <2>5. Seen(i)' = [Seen(i) EXCEPT !.saved = TRUE]
    BY <2>2, <2>3, <2>4 DEF Outside!Lives
  <2> QED BY <2>3, <2>5 DEF Moves, Outside!Step, Outside!Archive
<1> QED BY <1>3, <1>4

\* A new record.
LEMMA ReplenishMoves ==
  ASSUME TInv, TInv', Accord, World, Replenish, NEW i \in RunIds
  PROVE  Moves(i)
<1>0. mem \in States /\ pass.pool \in Pools /\ UNCHANGED env /\ pass.ps \in PoolRec
  BY DEF Replenish, TInv, TypeOK, Shape, PassRec
<1>1. PICK j \in RunIds, ok \in BOOLEAN :
        /\ Unused(j)
        /\ PassEnds([mem EXCEPT !.run[j] = NewRun(pass.pool, pass.ps.gen)], ok)
  BY DEF Replenish
<1> DEFINE s == [mem EXCEPT !.run[j] = NewRun(pass.pool, pass.ps.gen)]
<1>2. s \in States /\ s.run = [mem.run EXCEPT ![j] = NewRun(pass.pool, pass.ps.gen)]
  BY <1>0, ConstantTypes, SetRunType DEF States, PoolRec
<1>3. PassEnds(s, ok)
  BY <1>1
<1> HIDE DEF s
<1>4. mem'.run = [mem.run EXCEPT ![j] = NewRun(pass.pool, pass.ps.gen)]
  BY <1>0, <1>2, <1>3, EndsKeep
<1>5. UNCHANGED <<docker, startEra, registered>>
  BY <1>0 DEF env
<1>6. CASE i # j
  BY <1>0, <1>4, <1>5, <1>6, Stays DEF States
<1>7. CASE i = j
  <2>1. mem'.run[i] = NewRun(pass.pool, pass.ps.gen)
    BY <1>0, <1>4, <1>7 DEF States
  <2>2. /\ docker[i] = "none" /\ mem.run[i].phase = "none" /\ ~(i \in registered)
        /\ startEra[i] = 0
    BY <1>1, <1>7 DEF Unused, Recorded, World, Containers, TInv, TypeOK
  <2>3. /\ (startEra[i] # 0) = FALSE /\ (i \in registered) = FALSE
        /\ (mem.run[i].phase # "none" /\ mem.run[i].logSaved) = FALSE
    BY <2>2
  <2>4. /\ Entry(mem'.run[i]) = "serving"
        /\ (mem'.run[i].phase # "none" /\ mem'.run[i].logSaved) = FALSE
    BY <2>1 DEF Entry, NewRun, NoRun
  <2>5. Seen(i) = Outside!Unborn
    BY <2>2, <2>3 DEF Seen, Entry, Outside!Unborn
  <2>6. Seen(i)' = [record |-> "serving", box |-> "none", ran |-> FALSE, saved |-> FALSE,
                    worker |-> FALSE]
    BY <1>5, <2>2, <2>3, <2>4 DEF Seen
  <2>7. Seen(i)' = [Seen(i) EXCEPT !.record = "serving"]
    <3>1. /\ Seen(i)' \in Outside!Lives /\ Seen(i) \in Outside!Lives
          /\ Seen(i)'.record = "serving" /\ Seen(i)'.ran = Seen(i).ran
          /\ Seen(i)'.saved = Seen(i).saved /\ Seen(i)'.worker = Seen(i).worker
          /\ Seen(i)'.box = Seen(i).box
      <4>1. /\ Seen(i).ran = FALSE /\ Seen(i).saved = FALSE /\ Seen(i).worker = FALSE
            /\ Seen(i).box = "none"
        BY <2>5 DEF Outside!Unborn
      <4>2. /\ Seen(i)'.ran = FALSE /\ Seen(i)'.saved = FALSE /\ Seen(i)'.worker = FALSE
            /\ Seen(i)'.box = "none" /\ Seen(i)'.record = "serving"
        BY <2>6
      <4> QED BY <4>1, <4>2, SeenType
    <3> QED BY <3>1 DEF Outside!Lives
  <2>8. \A r, t : Outside!Record(r, t) => Outside!Step(r, t)
    BY DEF Outside!Step
  <2> QED BY <2>5, <2>7, <2>8 DEF Moves, Outside!Record
<1> QED BY <1>6, <1>7

\* StartContainer, heard or not.
LEMMA StartMoves ==
  ASSUME TInv, TInv', Accord, World, Notes, Booted, StartContainer, NEW i \in RunIds
  PROVE  Moves(i)
<1> DEFINE run == [pass.clone[pass.cur] EXCEPT !.phase = "live"]
<1>0. /\ pc = "start" /\ pass.cur \in RunIds /\ pass.cur \in Recorded(mem)
      /\ mem \in States /\ docker \in [RunIds -> Statuses] /\ startEra \in [RunIds -> Nat]
      /\ docker[pass.cur] # "none" /\ docker' = [docker EXCEPT ![pass.cur] = "running"]
      /\ startEra' = [startEra EXCEPT ![pass.cur] =
                        IF docker[pass.cur] = "running" THEN @ ELSE hostBoot]
      /\ UNCHANGED registered /\ hostBoot # 0 /\ pass.clone[pass.cur] \in RunRec
  BY HandFacts DEF StartContainer, Starts, Looping, TInv, TypeOK, Booted
<1>1. /\ \A j \in RunIds : /\ Entry(mem'.run[j]) = Entry(mem.run[j])
                           /\ mem'.run[j].logSaved = mem.run[j].logSaved
                           /\ mem'.run[j].phase = "none" <=> mem.run[j].phase = "none"
  <2>1. CASE Errors
    BY <2>1, ErrorsKeep
  <2>2. CASE ~Errors
    <3>1. mem' = [mem EXCEPT !.run[pass.cur] = run] /\ ~pass.moved /\ pass.cur \in Cloned
      BY <1>0, <2>2 DEF StartContainer, Undisturbed, Save, Accord, ClonesHeld, Holding
    <3>2. Agrees(pass.clone[pass.cur], mem.run[pass.cur])
          /\ pass.clone[pass.cur].logSaved = mem.run[pass.cur].logSaved
      BY <3>1 DEF Accord, ClonesHeld, Notes
    <3>3. /\ run.phase = "live" /\ run.logSaved = mem.run[pass.cur].logSaved
          /\ run.force = mem.run[pass.cur].force /\ run.retiring = mem.run[pass.cur].retiring
          /\ mem.run[pass.cur].phase # "none"
      BY <1>0, <3>2 DEF RunRec, Agrees, Recorded
    <3> HIDE DEF run
    <3>4. mem'.run[pass.cur] = run /\ \A j \in RunIds : j # pass.cur => mem'.run[j] = mem.run[j]
      BY <1>0, <3>1 DEF States
    <3>5. Entry(run) = Entry(mem.run[pass.cur])
      BY <3>3 DEF Entry
    <3> QED BY <3>3, <3>4, <3>5
  <2> QED BY <2>1, <2>2
<1>2. /\ Seen(i)'.record = Seen(i).record /\ Seen(i)'.saved = Seen(i).saved
      /\ Seen(i)'.worker = Seen(i).worker /\ Seen(i).box = docker[i] /\ Seen(i)'.box = docker'[i]
  BY <1>0, <1>1 DEF Seen
<1>3. Seen(i) \in Outside!Lives /\ Seen(i)' \in Outside!Lives
  BY SeenType
<1>4. CASE i # pass.cur \/ docker[i] = "running"
  <2>1. docker'[i] = docker[i] /\ startEra'[i] = startEra[i]
    BY <1>0, <1>4
  <2>2. Seen(i)'.ran = Seen(i).ran
    BY <2>1 DEF Seen
  <2> HIDE DEF Seen
  <2> QED BY <1>2, <1>3, <2>1, <2>2 DEF Moves, Outside!Lives
<1>5. CASE i = pass.cur /\ docker[i] # "running"
  <2>1. docker[i] \in {"created", "exited"} /\ docker'[i] = "running" /\ startEra'[i] # 0
    BY <1>0, <1>5 DEF Statuses
  <2>2. Seen(i)'.ran = TRUE /\ Seen(i).record # "none"
    BY <1>0, <1>5, <2>1 DEF Seen, Entry, Recorded
  <2> HIDE DEF Seen
  <2>3. Seen(i)' = [Seen(i) EXCEPT !.box = "running", !.ran = TRUE]
    BY <1>2, <1>3, <2>1, <2>2 DEF Outside!Lives
  <2> QED BY <1>2, <2>1, <2>2, <2>3 DEF Moves, Outside!Step, Outside!StartBox
<1> QED BY <1>4, <1>5

\* The other commands on a container.
LEMMA BoxMoves ==
  ASSUME TInv, TInv', Accord, World, ForceRemove \/ RemoveContainer \/ CreateContainer,
         NEW i \in RunIds
  PROVE  Moves(i)
<1>0. /\ mem \in States /\ docker \in [RunIds -> Statuses] /\ UNCHANGED <<startEra, registered>>
      /\ pc \in {"forceRemove", "remove", "create"}
  BY DEF TInv, TypeOK, ForceRemove, RemoveContainer, CreateContainer, Vanishes
<1>1. mem'.run = mem.run
  BY ErrorsKeep DEF ForceRemove, RemoveContainer, CreateContainer, Keep
<1>2. pass.cur \in RunIds /\ mem.run[pass.cur].phase # "none"
  BY <1>0 DEF World, InFlightHeld, Holding, Collected, Recorded
<1>3. CASE ForceRemove \/ RemoveContainer
  <2>1. /\ docker' = [docker EXCEPT ![pass.cur] = "none"] /\ docker[pass.cur] # "none"
        /\ mem.run[pass.cur].logSaved
        /\ docker[pass.cur] = "running" => mem.run[pass.cur].force
    BY <1>3 DEF ForceRemove, RemoveContainer, Vanishes, Removable, World, InFlightHeld
  <2> QED BY <1>0, <1>1, <1>2, <2>1, HostMoves
<1>4. CASE CreateContainer
  <2>1. docker' = [docker EXCEPT ![pass.cur] = "created"] /\ docker[pass.cur] = "none"
    BY <1>4 DEF CreateContainer
  <2>2. startEra[pass.cur] = 0
    BY <1>2, <1>4, <2>1 DEF CreateContainer, World, InFlightHeld
  <2> QED BY <1>0, <1>1, <1>2, <2>1, <2>2, HostMoves
<1> QED BY <1>3, <1>4

\* The host, Docker and GitHub by themselves.
LEMMA EnvironmentMoves ==
  ASSUME TInv, TInv', Accord, World, Booted, NEW j \in RunIds,
         \/ LateLands(j) \/ Registers(j) \/ JobCompletes(j) \/ GitHubForgets(j)
         \/ ContainerExits(j) \/ HostReboots,
         NEW i \in RunIds
  PROVE  Moves(i)
<1>0. /\ mem \in States /\ docker \in [RunIds -> Statuses] /\ startEra \in [RunIds -> Nat]
      /\ registered \subseteq RunIds /\ late \in [RunIds -> {"none", "create", "start"}]
  BY DEF TInv, TypeOK
<1>1. mem'.run = mem.run
  BY DEF LateLands, Registers, JobCompletes, GitHubForgets, ContainerExits, HostReboots
<1>2. CASE LateLands(j)
  <2>1. /\ late[j] = "start" => docker[j] = "created" /\ mem.run[j].phase # "none"
        /\ late[j] = "create" => startEra[j] = 0
    BY <1>0 DEF World, Containers, Gone, Recorded
  <2> QED BY <1>0, <1>1, <1>2, <2>1, HostMoves DEF LateLands, Starts, Booted
<1>3. CASE Registers(j) \/ JobCompletes(j) \/ GitHubForgets(j)
  <2>1. UNCHANGED <<docker, startEra>> /\ (i \in registered' /\ i \notin registered => docker[i] = "running")
    BY <1>3 DEF Registers, JobCompletes, GitHubForgets, host
  <2> QED BY <1>1, <2>1, HostMoves
<1>4. CASE ContainerExits(j)
  BY <1>0, <1>1, <1>4, HostMoves DEF ContainerExits
<1>5. CASE HostReboots
  BY <1>0, <1>1, <1>5, HostMoves DEF HostReboots
<1> QED BY <1>2, <1>3, <1>4, <1>5

\* FreshList, Unregister and Repair, whether the run is forgotten or not.
LEMMA ForgetMoves ==
  ASSUME TInv, TInv', Accord, World, Notes, Good, FreshList \/ Unregister \/ Repair,
         NEW i \in RunIds
  PROVE  Moves(i)
<1>0. /\ pc \in {"fresh", "unregister", "repair"} /\ UNCHANGED docker
      /\ registered' = registered \/ (Unregister /\ registered' = registered \ {pass.cur})
  BY DEF FreshList, Unregister, Repair
<1>1. CASE FinishRun(pass.cur)
  <2>1. /\ pass.cur \notin registered'
        /\ \A j \in RunIds : j # pass.cur => (j \in registered' <=> j \in registered)
    <3>1. CASE FreshList
      BY <1>1, <3>1 DEF FreshList, SeesRegistration, FinishRun, Goto
    <3>2. CASE Unregister
      BY <3>2 DEF Unregister
    <3>3. CASE Repair
      BY <3>3 DEF Repair, World, InFlightHeld
    <3> QED BY <3>1, <3>2, <3>3
  <2> QED BY <1>0, <1>1, <2>1, FinishMoves
<1>2. CASE ~FinishRun(pass.cur)
  <2>1. mem'.run = mem.run /\ UNCHANGED startEra
    BY <1>2, ErrorsKeep DEF FreshList, Unregister, Repair, RemoveDirectory, Keep
  <2> QED BY <1>0, <2>1, HostMoves
<1> QED BY <1>1, <1>2

\* The steps that change neither Docker nor GitHub, nor what is noted.
LEMMA QuietMoves ==
  ASSUME TInv, TInv', Accord, World, Notes, Good,
         \/ UNCHANGED vars \/ Crash \/ Restart \/ Request
         \/ \E p \in Pools : Tick(p) \/ BackoffExpires(p)
         \/ CommandFails \/ CommandTimesOut \/ List \/ ForceLoop \/ Relist \/ Remotes
         \/ Visit \/ ReadBoot \/ Prepare,
         NEW i \in RunIds
  PROVE  Moves(i)
<1>1. NoteKept
  BY NotesElse, NotesRequest, NotesReadBoot, NotesCommand, NotesVisit, NotesForceLoop, NotesList,
     NoteRuns DEF vars
<1>2. UNCHANGED <<docker, startEra, registered>>
  <2>1. Request => UNCHANGED <<docker, startEra, registered>>
    BY KeptRequest DEF env
  <2> QED BY <2>1 DEF vars, Crash, Restart, Tick, BackoffExpires, CommandFails, CommandTimesOut,
                      List, ForceLoop, Relist, Remotes, Visit, ReadBoot, Prepare, env
<1> QED BY <1>1, <1>2, StoreMoves

LEMMA StepMoves ==
  ASSUME TInv, TInv', Accord, World, Notes, Booted, [Next]_vars, NEW i \in RunIds
  PROVE  Moves(i)
<1>1. Good
  BY StepGood
<1>2. CASE Archive \/ ForceArchive
  BY <1>2, ArchiveMoves
<1>3. CASE Replenish
  BY <1>3, ReplenishMoves
<1>4. CASE StartContainer
  BY <1>4, StartMoves
<1>5. CASE ForceRemove \/ RemoveContainer \/ CreateContainer
  BY <1>5, BoxMoves
<1>6. CASE FreshList \/ Unregister \/ Repair
  BY <1>1, <1>6, ForgetMoves
<1>7. ASSUME NEW j \in RunIds,
             \/ LateLands(j) \/ Registers(j) \/ JobCompletes(j) \/ GitHubForgets(j)
             \/ ContainerExits(j) \/ HostReboots
      PROVE  Moves(i)
  BY <1>7, EnvironmentMoves
<1>8. CASE \/ UNCHANGED vars \/ Crash \/ Restart \/ Request
           \/ \E p \in Pools : Tick(p) \/ BackoffExpires(p)
           \/ CommandFails \/ CommandTimesOut \/ List \/ ForceLoop \/ Relist \/ Remotes
           \/ Visit \/ ReadBoot \/ Prepare
  BY <1>1, <1>8, QuietMoves
<1> QED BY <1>2, <1>3, <1>4, <1>5, <1>6, <1>7, <1>8 DEF Next, Pass, Environment

\* The host never goes back to its state before the first boot.
LEMMA StaysBooted ==
  ASSUME TInv, Accord, Booted, [Next]_vars
  PROVE  Booted'
<1>1. CASE HostReboots
  BY <1>1 DEF HostReboots, Booted, TInv, TypeOK
<1>2. Request => UNCHANGED hostBoot
  BY KeptRequest DEF env
<1>3. ASSUME NEW i \in RunIds,
             \/ LateLands(i) \/ Registers(i) \/ JobCompletes(i) \/ GitHubForgets(i)
             \/ ContainerExits(i)
      PROVE  UNCHANGED hostBoot
  BY <1>3 DEF LateLands, Registers, JobCompletes, GitHubForgets, ContainerExits, host
<1>4. ASSUME NEW p \in Pools, Tick(p) \/ BackoffExpires(p) PROVE UNCHANGED hostBoot
  BY <1>4 DEF Tick, BackoffExpires, env
<1>5. \/ Crash \/ Restart \/ CommandFails \/ CommandTimesOut \/ List \/ ForceLoop \/ Relist
      \/ Remotes \/ Visit \/ ReadBoot \/ Prepare \/ ForceArchive \/ Archive \/ Replenish
      => UNCHANGED hostBoot
  BY DEF Crash, Restart, CommandFails, CommandTimesOut, List, ForceLoop, Relist, Remotes, Visit,
         ReadBoot, Prepare, ForceArchive, Archive, Archived, Replenish, env
<1>6. \/ ForceRemove \/ RemoveContainer \/ CreateContainer \/ StartContainer
      \/ FreshList \/ Unregister \/ Repair
      => UNCHANGED hostBoot
  BY DEF ForceRemove, RemoveContainer, CreateContainer, StartContainer, FreshList, Unregister,
         Repair, Vanishes
<1> QED BY <1>1, <1>2, <1>3, <1>4, <1>5, <1>6 DEF Next, Pass, Environment, Booted, vars

-----------------------------------------------------------------------------
(* The refinement: a step of the engine is, for every run, one of module    *)
(* Runners or none.                                                         *)

LEMMA StepRefines ==
  ASSUME TInv, TInv', Accord, Accord', World, Notes, Booted, [Next]_vars
  PROVE  [Outside!Next]_([i \in RunIds |-> Life(i)])
<1> DEFINE life == [i \in RunIds |-> Life(i)]
<1>1. ASSUME NEW i \in RunIds
      PROVE  /\ Life(i)' \in Outside!Lives
             /\ Life(i)' = Life(i) \/ Outside!Step(Life(i), Life(i)')
  <2>1. Life(i) = Seen(i)
    BY LifeIsSeen
  <2>2. Life(i)' = Seen(i)'
    BY LifeIsSeenNext
  <2>3. Moves(i) /\ Seen(i)' \in Outside!Lives
    BY StepMoves, SeenType
  <2> HIDE DEF Life, Seen
  <2> QED BY <2>1, <2>2, <2>3 DEF Moves
<1>2. life' \in [RunIds -> Outside!Lives]
  BY <1>1
<1>3. \A i \in RunIds : life'[i] = life[i] \/ Outside!Step(life[i], life'[i])
  BY <1>1
<1> QED BY <1>2, <1>3 DEF Outside!Next

LEMMA InitRefines ==
  ASSUME Init
  PROVE  Outside!Init /\ Notes /\ Booted
<1>1. ASSUME NEW i \in RunIds PROVE Life(i) = Outside!Unborn
  <2>1. disk.run[i] = NoRun /\ docker[i] = "none" /\ startEra[i] = 0 /\ registered = {}
    BY DEF Init
  <2>2. Entry(NoRun) = "none" /\ i \notin Recorded(disk)
    BY <2>1 DEF Entry, NoRun, Recorded
  <2>3. /\ (startEra[i] # 0) = FALSE /\ (i \in registered) = FALSE
        /\ (i \in Recorded(disk) /\ disk.run[i].logSaved) = FALSE
    BY <2>1, <2>2
  <2> QED BY <2>1, <2>2, <2>3 DEF Life, Outside!Unborn
<1>2. Outside!Init
  BY <1>1 DEF Outside!Init
<1>3. Notes /\ Booted
  BY DEF Init, Notes, Cloned, NoPass, NoRun, Booted
<1> QED BY <1>2, <1>3

\* The engine implements module Runners: whatever is lost, late, interrupted
\* or restarted, what the store, Docker and GitHub hold for a run is the life
\* of one runner (docs/operations.md; reconcile, manager.rs:473).
THEOREM EngineRefinesRunners == Spec => LivesAsPromised
<1>1. Init => Outside!Init /\ Notes /\ Booted
  BY InitRefines
<1>2. TInv /\ Accord /\ World /\ Notes /\ Booted /\ [Next]_vars => (Notes /\ Booted)'
  BY NotesStep, StaysBooted
<1>3. TInv /\ Accord /\ World /\ Notes /\ Booted /\ [Next]_vars /\ TInv' /\ Accord'
      => [Outside!Next]_([i \in RunIds |-> Life(i)])
  BY StepRefines
<1> QED BY <1>1, <1>2, <1>3, WorldHolds, PTL DEF Spec, LivesAsPromised, Outside!Spec

-----------------------------------------------------------------------------
(* What a pass concludes of an exit.                                       *)

DoubtKept(i) == Doubted(i)' => Doubted(i)

\* A step that gives run i no new chance: what was seen of its end stays.
Rests(i) ==
  /\ DoubtKept(i)
  /\ Ended(i) => Ended(i)'
  /\ startEra[i] # 0 /\ docker[i] \in {"none", "exited"} =>
       startEra'[i] # 0 /\ docker'[i] \in {"none", "exited"}

LEMMA DoubtSaved ==
  ASSUME TypeOK, Synced, NEW i \in RunIds,
         \/ disk'.run[i] \in {disk.run[i], mem.run[i]}
         \/ disk'.run[i].phase # "cleanup" \/ ~Unexpected(disk'.run[i])
  PROVE  DoubtKept(i)
<1>1. disk.run[i] \in RunRec
  BY DEF TypeOK, States
<1>2. mem.run[i] = disk.run[i] \/ mem.run[i].phase = "live"
  BY <1>1 DEF Synced, RunRec
<1> QED BY <1>2 DEF DoubtKept, Doubted

LEMMA DoubtRuns ==
  ASSUME TInv, Accord, disk'.run \in {disk.run, mem.run}
  PROVE  \A i \in RunIds : DoubtKept(i)
BY DoubtSaved DEF TInv, Accord

LEMMA StoreUpdate ==
  ASSUME TInv, Accord, NEW i \in RunIds, NEW r, disk' = [mem EXCEPT !.run[i] = r]
  PROVE  disk'.run[i] = r /\ \A j \in RunIds \ {i} : DoubtKept(j)
<1>1. disk'.run[i] = r /\ \A j \in RunIds \ {i} : disk'.run[j] = mem.run[j]
  BY DEF TInv, TypeOK, States
<1> QED BY <1>1, DoubtSaved DEF TInv, Accord

LEMMA RestsHere ==
  ASSUME UNCHANGED env, NEW i, DoubtKept(i)
  PROVE  Rests(i)
BY DEF env, Rests, Ended

LEMMA SightedKept ==
  ASSUME NEW i, Sighted(i), Rests(i), pass'.snap = pass.snap
  PROVE  Sighted(i)'
BY DEF Sighted, Rests, DoubtKept

LEMMA SightingsAlong ==
  ASSUME Sightings, pc \in Looping, pc' \in Looping, pass'.snap = pass.snap,
         pass'.todo \subseteq pass.todo, \A i \in pass'.todo : Rests(i)
  PROVE  Sightings'
<1>1. \A i \in pass'.todo : Sighted(i)'
  BY SightedKept DEF Sightings
<1> QED BY <1>1 DEF Sightings, Looping, Collected, Forcing

LEMMA MarkedSame ==
  ASSUME Verdicts, UNCHANGED env
  PROVE  Marked' /\ hostBoot' # 0
BY DEF Verdicts, Marked, env

LEMMA ReportedSame ==
  ASSUME Verdicts, pass'.exits \in {pass.exits, {}}, Recorded(mem') \subseteq Recorded(mem),
         marker' \subseteq marker
  PROVE  Reported'
BY DEF Verdicts, Reported

\* Where no run is in hand and none is to be visited.
Elsewhere == {"idle", "down", "list", "relist", "image"}

LEMMA VerdictsElsewhere ==
  ASSUME Verdicts, pc' \in Elsewhere, Marked', Reported', hostBoot' # 0,
         \A i \in RunIds : Doubted(i)' => Doubted(i) /\ (Ended(i) => Ended(i)')
  PROVE  Verdicts'
<1>1. Judged'
  BY DEF Judged, Verdicts
<1> QED BY <1>1 DEF Verdicts, Elsewhere, Sightings, HandJudged, Forcing, Looping, Collected

LEMMA VerdictsEnds ==
  ASSUME TInv, Accord, Verdicts, pass.pool \in Pools, NEW s \in States, s.run = mem.run, NEW ok,
         PassEnds(s, ok), UNCHANGED env
  PROVE  Verdicts'
<1>1. mem'.run = mem.run /\ pc' = "idle" /\ pass' = NoPass /\ disk' = mem'
  BY EndsKeep DEF PassEnds, Save
<1>2. \A i \in RunIds : Rests(i)
  BY <1>1, DoubtRuns, RestsHere
<1>3. Reported'
  BY <1>1 DEF Reported, NoPass
<1> QED BY <1>1, <1>2, <1>3, MarkedSame, VerdictsElsewhere DEF Rests, DoubtKept, Elsewhere

LEMMA VerdictsDeletePool ==
  ASSUME TInv, Accord, Verdicts, pass.pool \in Pools, DeletePool, UNCHANGED env
  PROVE  Verdicts'
<1> DEFINE gone == [mem EXCEPT !.pool[pass.pool] = Absent]
<1>0. mem \in States /\ gone.run = mem.run
  BY DEF TInv, TypeOK, States
<1>1. CASE PassEnds(mem, FALSE)
  BY <1>0, <1>1, VerdictsEnds
<1>2. CASE disk' \in {disk, gone} /\ pc' \in {"idle", "down"} /\ pass' = NoPass
  <2>1. \A i \in RunIds : Rests(i)
    BY <1>0, <1>2, DoubtRuns, RestsHere
  <2>2. Reported'
    BY <1>2 DEF Reported, NoPass
  <2> QED BY <1>2, <2>1, <2>2, MarkedSame, VerdictsElsewhere DEF Rests, DoubtKept, Elsewhere
<1> QED BY <1>1, <1>2 DEF DeletePool, Save

\* An error, whatever its command did to the run in hand.
LEMMA VerdictsErrors ==
  ASSUME TInv, Accord, World, Verdicts, Errors, Marked', hostBoot' = hostBoot, marker' = marker,
         \A i \in RunIds \ {pass.cur} : UNCHANGED <<docker[i], late[i], startEra[i]>>,
         \A i \in RunIds : i = pass.cur /\ Doubted(i) /\ Ended(i) => Ended(i)'
  PROVE  Verdicts'
<1>1. \A i \in RunIds : DoubtKept(i)
  <2>1. disk'.run \in {disk.run, mem.run}
    BY ErrorsKeep DEF Errors, PassEnds, Save, Keep
  <2> QED BY <2>1, DoubtRuns
<1>2. \A i \in RunIds \ {pass.cur} : Rests(i)
  BY <1>1 DEF Rests, Ended
<1>3. ASSUME NEW i \in RunIds, Doubted(i)'
      PROVE  Doubted(i) /\ (Ended(i) => Ended(i)')
  <2>1. Doubted(i)
    BY <1>1, <1>3 DEF DoubtKept
  <2>2. CASE i = pass.cur
    BY <2>1, <2>2
  <2>3. CASE i # pass.cur
    BY <1>2, <2>1, <2>3 DEF Rests
  <2> QED BY <2>1, <2>2, <2>3
<1>4. CASE pc' = "idle"
  <2>1. pass'.exits = {}
    BY <1>4 DEF Errors, PassEnds, SkipRun, NoPass
  <2>2. Reported'
    BY <2>1 DEF Reported
  <2> QED BY <1>3, <1>4, <2>2, VerdictsElsewhere DEF Elsewhere, Verdicts
<1>5. CASE pc \in Collected /\ SkipRun /\ Keep
  <2>1. pass \in PassRec /\ pass.todo \subseteq RunIds \ {pass.cur} /\ pc \in Looping
    BY <1>5 DEF TInv, TypeOK, Accord, TodoHeld, Looping, PassRec, Collected
  <2>2. /\ pass'.snap = pass.snap /\ pass'.todo = pass.todo /\ pass'.exits = pass.exits
        /\ pc' = "visit" /\ mem' = mem
    BY <1>5, <2>1 DEF SkipRun, Loose, PassRec, Keep
  <2>3. Sightings'
    BY <1>2, <2>1, <2>2, SightingsAlong DEF Verdicts, Looping
  <2>4. Reported'
    BY <2>2, ReportedSame
  <2>5. Judged'
    BY <1>3 DEF Judged, Verdicts
  <2> QED BY <2>2, <2>3, <2>4, <2>5 DEF Verdicts, HandJudged
<1> QED BY <1>4, <1>5, ErrorsKeep

\* The pass stays where it is, and nothing it has concluded is undone.
LEMMA VerdictsHeld ==
  ASSUME TInv, World, Verdicts, UNCHANGED pc, Onward, Recorded(mem') = Recorded(mem),
         RunsOf(mem', pass.pool) = RunsOf(mem, pass.pool), \A i \in RunIds : Rests(i),
         \A i \in marker' : i \in marker \/ docker[i] = "running", Marked', hostBoot' # 0
  PROVE  Verdicts'
<1>0. /\ pass'.pool = pass.pool /\ pass'.snap = pass.snap /\ pass'.todo = pass.todo
      /\ pass'.cur = pass.cur /\ pass'.clone = pass.clone /\ pass'.exits = pass.exits
      /\ pass.todo \subseteq RunIds /\ pass.exits \subseteq RunIds
      /\ pc \in Holding => pass.cur \in RunIds
      /\ \A i \in RunsOf(mem, pass.pool) : i \in RunIds
  BY DEF Onward, TInv, TypeOK, PassRec, Shape, RunsOf, Recorded
<1>1. Judged'
  BY DEF Judged, Verdicts, Rests, DoubtKept
<1>2. Sightings'
  <2>1. ASSUME NEW i \in RunIds, Sighted(i) PROVE Sighted(i)'
    BY <1>0, <2>1, SightedKept
  <2> QED BY <1>0, <2>1 DEF Sightings, Verdicts
<1>3. HandJudged'
  <2>1. ASSUME pc \in {"boot", "archive", "remove", "fresh", "unregister", "repair",
                       "prepare", "create", "start"}
        PROVE  HandJudged'
    <3>1. PICK i \in RunIds : i = pass.cur
      BY <1>0, <2>1 DEF Holding, Collected
    <3>2. (Ended(i) => Ended(i)') /\ (~Doubted(i) => ~Doubted(i)')
      BY DEF Rests, DoubtKept
    <3>3. pc \in {"fresh", "unregister", "repair"} => docker[i] # "running"
      BY <3>1 DEF World, InFlightHeld, Gone
    <3>4. i \in marker' => i \in marker \/ docker[i] = "running"
      OBVIOUS
    <3>5. /\ pc \in {"boot", "archive", "remove"} => (Unexpected(pass.clone[i]) => Ended(i))
          /\ pc \in {"fresh", "unregister", "repair"} =>
               (i \in marker => ~Unexpected(pass.clone[i]))
          /\ pc \in {"prepare", "create", "start"} => ~Doubted(i)
      BY <3>1 DEF Verdicts, HandJudged
    <3>6. i = pass'.cur
      BY <1>0, <3>1
    <3> QED BY <1>0, <3>2, <3>3, <3>4, <3>5, <3>6 DEF HandJudged
  <2> QED BY <2>1 DEF HandJudged
<1>4. Reported'
  BY <1>0 DEF Reported, Verdicts, World, Containers, Gone
<1> QED BY <1>1, <1>2, <1>3, <1>4 DEF Verdicts

LEMMA StoredDoubts ==
  ASSUME TInv, Accord, KeepsRuns, Stored
  PROVE  \A i \in RunIds : DoubtKept(i)
<1> SUFFICES ASSUME NEW i \in RunIds, Doubted(i)' PROVE Doubted(i)
  BY DEF DoubtKept
<1>1. CASE disk' = disk
  BY <1>1 DEF Doubted
<1>2. CASE disk' = mem' /\ SamePhases
  <2>1. mem.run[i].phase = "cleanup" /\ Unexpected(mem.run[i])
    BY <1>2 DEF SamePhases, Doubted, KeepsRuns, KeepsRun
  <2>2. disk.run[i] \in RunRec
    BY DEF TInv, TypeOK, States
  <2>3. mem.run[i] = disk.run[i]
    BY <2>1, <2>2 DEF Accord, Synced, RunRec
  <2> QED BY <2>1, <2>3 DEF Doubted
<1> QED BY <1>1, <1>2 DEF Stored

LEMMA VerdictsRequest ==
  ASSUME TInv, Accord, World, Verdicts, Request
  PROVE  Verdicts'
<1>1. KeepsRuns /\ UNCHANGED <<pc, env>> /\ Stored
  BY KeptRequest
<1>2. Onward
  BY KeptRequest DEF RefusedStatus, MoveEpoch, Onward
<1>3. \A i \in RunIds : Rests(i)
  BY <1>1, StoredDoubts, RestsHere
<1>4. marker' = marker
  BY <1>1 DEF env
<1> QED BY <1>1, <1>2, <1>3, <1>4, KeptSets, MarkedSame, VerdictsHeld

LEMMA VerdictsBackoff ==
  ASSUME TInv, Accord, World, Verdicts, NEW p \in Pools, BackoffExpires(p)
  PROVE  Verdicts'
<1>1. /\ mem' = Arm(mem, p, "none") /\ disk' = Arm(disk, p, "none") /\ UNCHANGED <<pc, pass, env>>
      /\ mem \in States /\ disk \in States
  BY DEF BackoffExpires, TInv, TypeOK
<1>2. mem'.run = mem.run /\ disk'.run = disk.run
  BY <1>1 DEF Arm, States
<1>3. \A i \in RunIds : Rests(i)
  BY <1>1, <1>2, DoubtRuns, RestsHere
<1>4. marker' = marker /\ Onward
  BY <1>1 DEF env, Onward
<1>5. KeepsRuns
  BY <1>2, KeptPools DEF TInv
<1> QED BY <1>1, <1>3, <1>4, <1>5, KeptSets, MarkedSame, VerdictsHeld

\* What no step of the host undoes for container j, and what it adds to no run
\* that no container runs for.
Lasts(j) ==
  /\ Ended(j) => j \notin marker' /\ docker'[j] \in {"none", "exited"} /\ late'[j] # "create"
  /\ startEra[j] # 0 /\ docker[j] \in {"none", "exited"} =>
       startEra'[j] # 0 /\ docker'[j] \in {"none", "exited"}
Marks(j) == j \in marker' \/ docker'[j] \in {"running", "exited"} => startEra'[j] # 0

LEMMA VerdictsHost ==
  ASSUME TInv, World, Verdicts, NEW i \in RunIds,
         \/ LateLands(i) \/ Registers(i) \/ JobCompletes(i) \/ GitHubForgets(i)
         \/ ContainerExits(i) \/ HostReboots
  PROVE  Verdicts'
<1>0. /\ docker \in [RunIds -> Statuses] /\ startEra \in [RunIds -> Nat] /\ hostBoot \in Nat
      /\ late \in [RunIds -> {"none", "create", "start"}] /\ hostBoot # 0
      /\ \A j \in RunIds : late[j] = "start" => docker[j] = "created"
      /\ \A j \in RunIds : docker[j] = "created" \/ late[j] = "create" => startEra[j] = 0
      /\ \A j \in RunIds : j \in marker \/ docker[j] \in {"running", "exited"} => startEra[j] # 0
      /\ marker \subseteq RunIds
  BY DEF TInv, TypeOK, World, Containers, Verdicts, Marked
<1>a. ASSUME NEW j \in RunIds, UNCHANGED <<docker[j], startEra[j]>>,
             late'[j] \in {late[j], "none"}, j \in marker' => j \in marker
      PROVE  Lasts(j) /\ Marks(j)
  <2>1. Ended(j) => j \notin marker' /\ docker'[j] \in {"none", "exited"} /\ late'[j] # "create"
    BY <1>a DEF Ended
  <2>2. Marks(j)
    BY <1>0, <1>a DEF Marks
  <2> QED BY <1>a, <2>1, <2>2 DEF Lasts
<1> DEFINE Claim == /\ \A j \in RunIds : Lasts(j) /\ Marks(j)
                    /\ \A j \in marker' : j \in marker \/ docker[j] = "running"
                    /\ hostBoot' # 0 /\ UNCHANGED <<mem, disk, pc, pass>>
<1>1. ASSUME LateLands(i) PROVE Claim
  <2>2. UNCHANGED <<marker, hostBoot, mem, disk, pc, pass>> /\ late[i] # "none"
        /\ late' = [late EXCEPT ![i] = "none"]
    BY <1>1 DEF LateLands
  <2>3. ASSUME NEW j \in RunIds, j # i PROVE Lasts(j) /\ Marks(j)
    <3>1. UNCHANGED <<docker[j], startEra[j]>>
      BY <1>0, <1>1, <2>3 DEF LateLands, Starts
    <3>2. late'[j] = late[j]
      BY <1>0, <2>2, <2>3
    <3> QED BY <1>a, <2>2, <3>1, <3>2
  <2>4. Lasts(i) /\ Marks(i)
    <3>1. CASE late[i] = "create" /\ docker[i] = "none" /\ docker' = [docker EXCEPT ![i] = "created"]
               /\ UNCHANGED startEra
      <4>1. docker'[i] = "created" /\ startEra[i] = 0 /\ i \notin marker
        BY <1>0, <3>1
      <4> QED BY <2>2, <3>1, <4>1 DEF Lasts, Marks, Ended
    <3>2. CASE late[i] = "start" /\ docker[i] # "none" /\ Starts(i)
      <4>1. docker[i] = "created"
        BY <1>0, <3>2
      <4>2. startEra'[i] = hostBoot /\ startEra[i] = 0
        BY <1>0, <3>2, <4>1 DEF Starts
      <4> QED BY <1>0, <4>1, <4>2 DEF Lasts, Marks, Ended
    <3>3. CASE UNCHANGED <<docker, startEra>>
      <4>1. late'[i] = "none"
        BY <1>0, <2>2
      <4> QED BY <1>a, <2>2, <3>3, <4>1
    <3> QED BY <1>1, <3>1, <3>2, <3>3 DEF LateLands
  <2>5. \A j \in RunIds : Lasts(j) /\ Marks(j)
    BY <2>3, <2>4
  <2> QED BY <1>0, <2>2, <2>5
<1>2. ASSUME Registers(i) \/ GitHubForgets(i) PROVE Claim
  <2>1. UNCHANGED <<docker, startEra, late, hostBoot, marker, mem, disk, pc, pass>>
    BY <1>2 DEF Registers, GitHubForgets, host
  <2>2. \A j \in RunIds : Lasts(j) /\ Marks(j)
    BY <1>a, <2>1
  <2> QED BY <1>0, <2>1, <2>2
<1>3. ASSUME JobCompletes(i) PROVE Claim
  <2>1. /\ UNCHANGED <<docker, startEra, late, hostBoot, mem, disk, pc, pass>>
        /\ marker' = marker \cup {i} /\ docker[i] = "running"
    BY <1>3 DEF JobCompletes, host
  <2>2. ASSUME NEW j \in RunIds, j # i PROVE Lasts(j) /\ Marks(j)
    BY <1>a, <2>1, <2>2
  <2>3. Lasts(i) /\ Marks(i)
    BY <1>0, <2>1 DEF Lasts, Marks, Ended
  <2>4. \A j \in RunIds : Lasts(j) /\ Marks(j)
    BY <2>2, <2>3
  <2> QED BY <1>0, <2>1, <2>4
<1>4. ASSUME ContainerExits(i) PROVE Claim
  <2>1. /\ UNCHANGED <<startEra, late, hostBoot, marker, mem, disk, pc, pass>>
        /\ docker[i] = "running" /\ docker' = [docker EXCEPT ![i] = "exited"]
    BY <1>4 DEF ContainerExits
  <2>2. ASSUME NEW j \in RunIds, j # i PROVE Lasts(j) /\ Marks(j)
    BY <1>0, <1>a, <2>1, <2>2
  <2>3. Lasts(i) /\ Marks(i)
    BY <1>0, <2>1 DEF Lasts, Marks, Ended
  <2>4. \A j \in RunIds : Lasts(j) /\ Marks(j)
    BY <2>2, <2>3
  <2> QED BY <1>0, <2>1, <2>4
<1>5. ASSUME HostReboots PROVE Claim
  <2>1. /\ UNCHANGED <<startEra, marker, mem, disk, pc, pass>> /\ hostBoot' # 0
        /\ \A j \in RunIds : late'[j] = "none"
        /\ \A j \in RunIds : docker'[j] = IF docker[j] = "running" THEN "exited" ELSE docker[j]
    BY <1>0, <1>5 DEF HostReboots
  <2>2. ASSUME NEW j \in RunIds PROVE Lasts(j) /\ Marks(j)
    <3>1. CASE docker[j] = "running"
      BY <1>0, <2>1, <3>1 DEF Lasts, Marks, Ended
    <3>2. CASE docker[j] # "running"
      BY <1>a, <2>1, <3>2
    <3> QED BY <3>1, <3>2
  <2> QED BY <2>1, <2>2
<1>6. Claim
  BY <1>1, <1>2, <1>3, <1>4, <1>5
<1>7. \A j \in RunIds : Rests(j)
  <2> SUFFICES ASSUME NEW j \in RunIds PROVE Rests(j)
    OBVIOUS
  <2>1. Lasts(j) /\ disk' = disk
    BY <1>6
  <2> QED BY <2>1 DEF Lasts, Rests, DoubtKept, Doubted, Ended
<1>8. Marked'
  BY <1>6 DEF Marked, Marks
<1>9. Onward
  BY <1>6 DEF Onward
<1>10. RunsOf(mem', pass.pool) = RunsOf(mem, pass.pool) /\ Recorded(mem') = Recorded(mem)
  BY <1>6
<1> QED BY <1>6, <1>7, <1>8, <1>9, <1>10, VerdictsHeld

LEMMA VerdictsEnvironment ==
  ASSUME TInv, Accord, World, Verdicts, Environment
  PROVE  Verdicts'
<1>1. CASE HostReboots /\ RunIds = {}
  <2>1. hostBoot' # 0
    BY <1>1 DEF HostReboots, TInv, TypeOK
  <2>2. Marked' /\ Onward /\ UNCHANGED <<mem, pc, marker>>
    BY <1>1 DEF Marked, Onward, HostReboots
  <2> QED BY <1>1, <2>1, <2>2, VerdictsHeld
<1> QED BY <1>1, VerdictsHost, VerdictsBackoff DEF Environment

\* A pass begins, fails, or is lost with the manager.
LEMMA VerdictsTick ==
  ASSUME TInv, Accord, Verdicts, NEW p \in Pools, Tick(p)
  PROVE  Verdicts'
<1>1. /\ pc' = "list" /\ UNCHANGED <<mem, disk, env>>
      /\ pass' = [NoPass EXCEPT !.pool = p, !.ps = mem.pool[p], !.allow = ~Retrying(p)]
  BY DEF Tick, Keep
<1>2. \A i \in RunIds : Rests(i)
  BY <1>1, DoubtRuns, RestsHere
<1>3. pass'.exits = {}
  BY <1>1 DEF NoPass
<1>4. Reported'
  BY <1>3 DEF Reported
<1> QED BY <1>1, <1>2, <1>4, MarkedSame, VerdictsElsewhere DEF Rests, DoubtKept, Elsewhere

LEMMA VerdictsFails ==
  ASSUME TInv, Accord, World, Verdicts, CommandFails
  PROVE  Verdicts'
<1>1. Errors /\ UNCHANGED env
  BY DEF CommandFails
<1>2. \A i \in RunIds : Ended(i) => Ended(i)'
  BY <1>1 DEF env, Ended
<1> QED BY <1>1, <1>2, MarkedSame, VerdictsErrors DEF env

\* The run in hand of a command that lingers was never said to be over.
LEMMA LingersUndoubted ==
  ASSUME Verdicts, Lingers, NEW i, i = pass.cur
  PROVE  ~Doubted(i)
BY DEF Verdicts, HandJudged, Lingers

LEMMA VerdictsTimesOut ==
  ASSUME TInv, Accord, World, Verdicts, CommandTimesOut
  PROVE  Verdicts'
<1>1. /\ Errors /\ Lingers /\ late' = [late EXCEPT ![pass.cur] = pc]
      /\ UNCHANGED <<docker, startEra, hostBoot, registered, marker>>
      /\ late \in [RunIds -> {"none", "create", "start"}]
  BY DEF CommandTimesOut, TInv, TypeOK
<1>2. Marked' /\ \A i \in RunIds \ {pass.cur} : UNCHANGED <<docker[i], late[i], startEra[i]>>
  BY <1>1 DEF Marked, Verdicts
<1> QED BY <1>1, <1>2, LingersUndoubted, VerdictsErrors

LEMMA VerdictsCrash ==
  ASSUME TInv, Accord, Verdicts, Crash
  PROVE  Verdicts'
<1>1. /\ pc' = "down" /\ pass' = NoPass
      /\ UNCHANGED <<disk, docker, startEra, hostBoot, registered, marker>>
      /\ late \in [RunIds -> {"none", "create", "start"}]
      /\ late' = late \/ (Lingers /\ late' = [late EXCEPT ![pass.cur] = pc])
  BY DEF Crash, TInv, TypeOK
<1>2. ASSUME NEW i \in RunIds, Doubted(i)' PROVE Doubted(i) /\ (Ended(i) => Ended(i)')
  <2>1. Doubted(i)
    BY <1>1, <1>2 DEF Doubted
  <2>2. late'[i] = late[i]
    BY <1>1, <2>1, LingersUndoubted
  <2> QED BY <1>1, <2>1, <2>2 DEF Ended
<1>3. Marked' /\ Reported' /\ hostBoot' # 0
  BY <1>1 DEF Marked, Reported, Verdicts, NoPass
<1> QED BY <1>1, <1>2, <1>3, VerdictsElsewhere DEF Elsewhere

LEMMA VerdictsRestart ==
  ASSUME TInv, Accord, Verdicts, Restart
  PROVE  Verdicts'
<1>1. pc' = "idle" /\ UNCHANGED <<mem, disk, pass, env>>
  BY DEF Restart
<1>2. \A i \in RunIds : Rests(i)
  BY <1>1, DoubtRuns, RestsHere
<1>3. Reported'
  BY <1>1, ReportedSame DEF env
<1> QED BY <1>1, <1>2, <1>3, MarkedSame, VerdictsElsewhere DEF Rests, DoubtKept, Elsewhere

LEMMA VerdictsInit ==
  ASSUME Init
  PROVE  Verdicts
<1>1. \A i \in RunIds : disk.run[i].phase = "none" /\ docker[i] = "none"
  BY DEF Init, NoRun
<1>2. pc = "idle" /\ pass.exits = {} /\ marker = {} /\ hostBoot # 0
  BY DEF Init, NoPass
<1> QED BY <1>1, <1>2 DEF Verdicts, Judged, Doubted, Sightings, HandJudged, Marked, Reported,
           Forcing, Looping, Collected

-----------------------------------------------------------------------------
(* The listings, and the loop over the forced runs.                        *)

LEMMA SnapshotSights ==
  ASSUME TInv, Verdicts, pass'.snap = Snapshot, disk' = disk, UNCHANGED env,
         NEW i \in RunsOf(mem, pass.pool)
  PROVE  Sighted(i)'
<1>1. i \in RunIds /\ Snapshot[i] = docker[i] /\ UNCHANGED <<docker, startEra>>
  BY DEF RunsOf, Recorded, Snapshot, env
<1>2. docker[i] = "exited" => startEra[i] # 0
  BY <1>1 DEF Verdicts, Marked
<1>3. docker[i] = "created" => ~Doubted(i)
  BY <1>1 DEF Verdicts, Judged, Ended
<1> QED BY <1>1, <1>2, <1>3 DEF Sighted, Doubted

LEMMA VerdictsListed ==
  ASSUME TInv, Accord, Verdicts, pc' \in {"force", "remotes"}, UNCHANGED <<mem, disk, env>>,
         pass'.snap = Snapshot, pass'.pool = pass.pool, pass'.exits = pass.exits
  PROVE  Verdicts'
<1>1. Judged'
  BY RestsHere, DoubtRuns DEF Judged, Verdicts, Rests, DoubtKept
<1>2. Reported'
  BY ReportedSame DEF env
<1>3. \A i \in RunsOf(mem, pass.pool) : Sighted(i)'
  BY SnapshotSights
<1>4. Sightings'
  BY <1>3 DEF Sightings, Looping, Collected
<1>5. HandJudged'
  BY DEF HandJudged
<1> QED BY <1>1, <1>2, <1>4, <1>5, MarkedSame DEF Verdicts

LEMMA VerdictsList ==
  ASSUME TInv, Accord, Verdicts, List
  PROVE  Verdicts'
<1>0. pass.pool \in Pools /\ UNCHANGED env /\ mem \in States /\ pass \in PassRec
  BY DEF List, TInv, TypeOK, Shape
<1>1. CASE DeletePool
  BY <1>0, <1>1, VerdictsDeletePool
<1>2. CASE PassEnds(mem, TRUE)
  BY <1>0, <1>2, VerdictsEnds
<1>3. CASE ~(Emptied(pass.pool) /\ ~pass.ps.running)
  <2>1. pc' = "force" /\ UNCHANGED <<mem, disk>>
    BY <1>3 DEF List, Keep
  <2>2. pass'.snap = Snapshot /\ pass'.pool = pass.pool /\ pass'.exits = pass.exits
    BY <1>0, <1>3 DEF List, PassRec
  <2> QED BY <1>0, <2>1, <2>2, VerdictsListed
<1> QED BY <1>1, <1>2, <1>3 DEF List

LEMMA VerdictsRelist ==
  ASSUME TInv, Accord, Verdicts, Relist
  PROVE  Verdicts'
<1>1. pc' = "remotes" /\ UNCHANGED <<mem, disk, env>> /\ pass' = [pass EXCEPT !.snap = Snapshot]
  BY DEF Relist, Keep
<1>2. pass'.snap = Snapshot /\ pass'.pool = pass.pool /\ pass'.exits = pass.exits
  BY <1>1 DEF TInv, TypeOK, PassRec
<1> QED BY <1>1, <1>2, VerdictsListed

\* A run under force was never to be waited for: its exit is expected.
LEMMA VerdictsForced ==
  ASSUME TInv, Accord, Verdicts, pc \in Forcing, pc' \in Forcing, UNCHANGED env,
         NEW i \in Recorded(mem), NEW r \in RunRec, r.force, r.phase # "none",
         r.pool = mem.run[i].pool, Save([mem EXCEPT !.run[i] = r]),
         pass'.snap = pass.snap, pass'.pool = pass.pool, pass'.exits = pass.exits
  PROVE  Verdicts'
<1>1. i \in RunIds /\ disk' = [mem EXCEPT !.run[i] = r] /\ mem' = disk'
  BY DEF Save, Recorded
<1>2. mem'.run[i] = r /\ \A j \in RunIds : j # i => mem'.run[j] = mem.run[j]
  BY <1>1 DEF TInv, TypeOK, States
<1>3. \A j \in RunIds : DoubtKept(j)
  <2>1. ~Unexpected(disk'.run[i])
    BY <1>1, <1>2 DEF Unexpected
  <2> QED BY <1>1, <2>1, StoreUpdate DEF DoubtKept, Doubted
<1>4. \A j \in RunIds : Rests(j)
  BY <1>3, RestsHere
<1>5. Recorded(mem') = Recorded(mem) /\ RunsOf(mem', pass.pool) = RunsOf(mem, pass.pool)
  BY <1>1, <1>2 DEF Recorded, RunsOf
<1>6. Judged'
  BY <1>4 DEF Judged, Verdicts, Rests, DoubtKept
<1>7. Reported'
  BY <1>5, ReportedSame DEF env
<1>8. \A j \in RunsOf(mem, pass.pool) : Sighted(j)'
  BY <1>4, SightedKept DEF Verdicts, Sightings, RunsOf, Recorded
<1>9. Sightings' /\ HandJudged'
  BY <1>5, <1>8 DEF Sightings, HandJudged, Looping, Collected, Forcing
<1> QED BY <1>6, <1>7, <1>9, MarkedSame DEF Verdicts

LEMMA VerdictsForceLoop ==
  ASSUME TInv, Accord, World, Verdicts, ForceLoop
  PROVE  Verdicts'
<1>0. /\ pc = "force" /\ UNCHANGED env /\ pass \in PassRec
      /\ \A j \in pass.todo : /\ j \in RunIds /\ mem.run[j].force
                              /\ Agrees(pass.clone[j], mem.run[j])
  BY DEF ForceLoop, TInv, TypeOK, Accord, ClonesHeld, World, InFlightHeld, PassRec
<1>1. CASE ForceDone
  <2>1. pc' \in {"relist", "remotes"} /\ UNCHANGED <<mem, disk, pass>>
    BY <1>1 DEF ForceDone, Keep
  <2>2. \A i \in RunIds : Rests(i)
    BY <1>0, <2>1, DoubtRuns, RestsHere
  <2>3. Judged' /\ Reported'
    BY <1>0, <2>1, <2>2, ReportedSame DEF Judged, Verdicts, Rests, DoubtKept, env
  <2>4. \A j \in RunsOf(mem, pass.pool) : Sighted(j)'
    BY <1>0, <2>1, <2>2, SightedKept DEF Verdicts, Sightings, RunsOf, Recorded, Forcing
  <2>5. Sightings' /\ HandJudged'
    BY <2>1, <2>4 DEF Sightings, HandJudged, Looping, Collected
  <2> QED BY <1>0, <2>3, <2>5, MarkedSame DEF Verdicts
<1>2. ASSUME NEW i \in pass.todo, ForceNext(i) PROVE Verdicts'
  <2> DEFINE run == [pass.clone[i] EXCEPT !.phase = "cleanup"]
  <2>1. pass.clone[i] \in RunRec /\ Agrees(pass.clone[i], mem.run[i]) /\ i \in Recorded(mem)
    BY <1>0 DEF PassRec, Agrees, Recorded, Accord, ClonesHeld, Cloned
  <2>2. run \in RunRec /\ run.force /\ run.phase # "none" /\ run.pool = mem.run[i].pool
    BY <1>0, <2>1, RunUpdateType DEF RunRec, Agrees
  <2>3. /\ Save([mem EXCEPT !.run[i] = run]) /\ pass' = Take(i, run) /\ pc' \in Forcing
    BY <1>2 DEF ForceNext, Forcing
  <2> HIDE DEF run
  <2>4. pass'.snap = pass.snap /\ pass'.pool = pass.pool /\ pass'.exits = pass.exits
    BY <1>0, <2>1, <2>3 DEF Take, PassRec
  <2> QED BY <1>0, <2>1, <2>2, <2>3, <2>4, VerdictsForced DEF Forcing
<1> QED BY <1>1, <1>2 DEF ForceLoop

LEMMA VerdictsForceArchive ==
  ASSUME TInv, Accord, World, Verdicts, ForceArchive
  PROVE  Verdicts'
<1> DEFINE i == pass.cur
           r == [pass.clone[i] EXCEPT !.logSaved = TRUE]
<1>1. /\ i \in Recorded(mem) /\ r \in RunRec /\ r.phase = "cleanup"
      /\ r.pool = mem.run[i].pool /\ r.force = mem.run[i].force
      /\ pc' = "forceRemove" /\ UNCHANGED env
      /\ pass'.pool = pass.pool /\ pass'.snap = pass.snap
  BY ArchivedFacts DEF ForceArchive
<1>2. pass'.exits = pass.exits /\ Save([mem EXCEPT !.run[i] = r])
  BY DEF ForceArchive, Archived, TInv, TypeOK, PassRec
<1>3. mem.run[i].force /\ pc = "forceArchive"
  BY DEF ForceArchive, World, InFlightHeld
<1> HIDE DEF r
<1> QED BY <1>1, <1>2, <1>3, VerdictsForced DEF Forcing

LEMMA VerdictsForceRemove ==
  ASSUME TInv, Accord, World, Verdicts, ForceRemove
  PROVE  Verdicts'
<1>0. /\ pc = "forceRemove" /\ Vanishes(pass.cur) /\ pass \in PassRec /\ pass.cur \in RunIds
      /\ docker \in [RunIds -> Statuses]
  BY DEF ForceRemove, TInv, TypeOK, Shape, Holding
<1>1. /\ docker' = [docker EXCEPT ![pass.cur] = "none"]
      /\ UNCHANGED <<startEra, late, hostBoot, registered, marker>>
  BY <1>0 DEF Vanishes
<1>2. Marked'
  BY <1>0, <1>1 DEF Marked, Verdicts
<1>3. \A i \in RunIds : /\ Ended(i) => Ended(i)'
                        /\ startEra[i] # 0 /\ docker[i] \in {"none", "exited"} =>
                             startEra'[i] # 0 /\ docker'[i] \in {"none", "exited"}
  BY <1>0, <1>1 DEF Ended
<1>4. CASE Errors
  BY <1>0, <1>1, <1>2, <1>3, <1>4, VerdictsErrors
<1>5. CASE ~Errors
  <2>1. /\ pc' = "force" /\ UNCHANGED <<mem, disk>>
        /\ pass' = [pass EXCEPT !.cur = NoId, !.clone[pass.cur] = NoRun]
    BY <1>5 DEF ForceRemove, Keep
  <2>2. pass'.snap = pass.snap /\ pass'.pool = pass.pool /\ pass'.exits = pass.exits
    BY <1>0, <2>1 DEF PassRec
  <2>3. \A i \in RunIds : Rests(i)
    BY <1>3, <2>1 DEF Rests, DoubtKept, Doubted
  <2>4. Judged' /\ Reported'
    BY <1>1, <2>1, <2>2, <2>3, ReportedSame DEF Judged, Verdicts, Rests, DoubtKept
  <2>5. \A j \in RunsOf(mem, pass.pool) : Sighted(j)'
    BY <1>0, <2>2, <2>3, SightedKept DEF Verdicts, Sightings, RunsOf, Recorded, Forcing
  <2>6. Sightings' /\ HandJudged'
    BY <2>1, <2>2, <2>5 DEF Sightings, HandJudged, Looping, Collected
  <2> QED BY <1>1, <1>2, <2>4, <2>6 DEF Verdicts
<1> QED BY <1>4, <1>5

LEMMA VerdictsRemotes ==
  ASSUME TInv, Accord, Verdicts, Remotes
  PROVE  Verdicts'
<1>0. /\ pc = "remotes" /\ pc' = "visit" /\ UNCHANGED env /\ mem \in States /\ TypeOK
      /\ mem' = MarkRetiring(mem, {pass.pool}) /\ disk' = mem'
      /\ pass' = [pass EXCEPT !.todo = RunsOf(mem, pass.pool)]
  BY DEF Remotes, Save, TInv, TypeOK
<1>1. KeepsRuns /\ SamePhases
  BY <1>0, KeptMark
<1>2. \A i \in RunIds : Rests(i)
  BY <1>0, <1>1, StoredDoubts, RestsHere DEF Stored
<1>3. pass'.snap = pass.snap /\ pass'.exits = pass.exits /\ pass'.todo = RunsOf(mem, pass.pool)
  BY <1>0 DEF TypeOK, PassRec
<1>4. Judged'
  BY <1>2 DEF Judged, Verdicts, Rests, DoubtKept
<1>5. Reported'
  BY <1>0, <1>1, <1>3, KeptSets, ReportedSame DEF env
<1>6. \A j \in RunsOf(mem, pass.pool) : Sighted(j)'
  BY <1>0, <1>2, <1>3, SightedKept DEF Verdicts, Sightings, RunsOf, Recorded
<1>7. Sightings' /\ HandJudged'
  BY <1>0, <1>3, <1>6 DEF Sightings, HandJudged, Forcing
<1> QED BY <1>0, <1>4, <1>5, <1>7, MarkedSame DEF Verdicts

-----------------------------------------------------------------------------
(* The loop over the runs, and the commands on the run in hand.            *)

\* Inside the loop: the run in hand is seen to, the others rest.
LEMMA VerdictsLoop ==
  ASSUME TInv, Verdicts, pc \in Looping, pc' \in Looping, pass \in PassRec,
         pass'.snap = pass.snap, pass'.todo \subseteq pass.todo, Reported', Marked', hostBoot' # 0,
         NEW i \in RunIds, i \notin pass'.todo, \A j \in RunIds \ {i} : Rests(j),
         Doubted(i)' => Ended(i)', HandJudged'
  PROVE  Verdicts'
<1>1. Judged'
  BY DEF Judged, Verdicts, Rests, DoubtKept
<1>2. \A j \in pass'.todo : Rests(j)
  BY DEF PassRec
<1>3. Sightings'
  BY <1>2, SightingsAlong DEF Verdicts
<1> QED BY <1>1, <1>3 DEF Verdicts

LEMMA VerdictsBeginCleanup ==
  ASSUME TInv, Accord, Verdicts, pc \in {"visit", "boot"}, UNCHANGED env,
         NEW i \in Recorded(mem), pc = "boot" => i \notin pass.todo,
         NEW r \in RunRec, Unexpected(r) => Ended(i), NEW rebooted \in BOOLEAN,
         BeginCleanup(i, r, rebooted)
  PROVE  Verdicts'
<1> DEFINE c == Cleanup(r)
<1>0. /\ i \in RunIds /\ pass \in PassRec /\ mem \in States /\ pc \in Looping
      /\ disk' = [mem EXCEPT !.run[i] = c] /\ mem' = disk'
  BY DEF TInv, TypeOK, Recorded, Looping, Collected, BeginCleanup, Save
<1>1. c.phase = "cleanup" /\ (Unexpected(c) => Unexpected(r))
  BY DEF Cleanup, RunRec, Unexpected
<1> HIDE DEF c
<1>2. disk'.run[i] = c /\ \A j \in RunIds \ {i} : DoubtKept(j)
  BY <1>0, StoreUpdate
<1>3. \A j \in RunIds \ {i} : Rests(j)
  BY <1>2, RestsHere
<1>4. Doubted(i)' => Ended(i)'
  BY <1>1, <1>2 DEF Doubted, Ended, env
<1>5. Recorded(mem') = Recorded(mem)
  BY <1>0, <1>1 DEF Recorded, States
<1>6. /\ pass'.snap = pass.snap /\ pass'.exits = pass.exits /\ pass'.todo = pass.todo \ {i}
      /\ \/ pc' = "visit"
         \/ pc' \in {"remove", "archive"} /\ pass'.cur = i /\ pass'.clone[i] = c
  <2>1. CASE pass.moved
    <3>1. pc' = "visit" /\ pass' = [Passed(i) EXCEPT !.failed = TRUE]
      BY <2>1 DEF BeginCleanup
    <3> QED BY <1>0, <3>1 DEF Passed, PassRec
  <2>2. CASE ~pass.moved
    <3>1. pc' \in {"remove", "archive"} /\ pass' = [Take(i, c) EXCEPT !.rebooted = rebooted]
      BY <2>2 DEF BeginCleanup, c
    <3> QED BY <1>0, <3>1 DEF Take, PassRec
  <2> QED BY <2>1, <2>2
<1>7. Reported'
  BY <1>5, <1>6, ReportedSame DEF env
<1>8. HandJudged'
  <2>1. Unexpected(c) => Ended(i)'
    BY <1>1 DEF Ended, env
  <2>2. CASE pc' = "visit"
    BY <2>2 DEF HandJudged
  <2>3. CASE pc' \in {"remove", "archive"} /\ pass'.cur = i /\ pass'.clone[i] = c
    BY <2>1, <2>3 DEF HandJudged, Ended
  <2> QED BY <1>6, <2>2, <2>3
<1>9. pc' \in Looping
  BY <1>6 DEF Looping, Collected
<1> QED BY <1>0, <1>3, <1>4, <1>6, <1>7, <1>8, <1>9, MarkedSame, VerdictsLoop

\* The loop goes on to the next run, or takes this one in hand.
LEMMA VerdictsOn ==
  ASSUME TInv, Accord, Verdicts, pc = "visit", pc' \in Looping, UNCHANGED <<mem, disk, env>>,
         pass'.snap = pass.snap, pass'.todo \subseteq pass.todo, pass'.exits = pass.exits,
         HandJudged'
  PROVE  Verdicts'
<1>1. \A i \in RunIds : Rests(i)
  BY DoubtRuns, RestsHere
<1>2. Judged'
  BY <1>1 DEF Judged, Verdicts, Rests, DoubtKept
<1>3. Sightings'
  BY <1>1, SightingsAlong DEF Verdicts, Looping, TInv, TypeOK, PassRec
<1>4. Reported'
  BY ReportedSame DEF env
<1> QED BY <1>2, <1>3, <1>4, MarkedSame DEF Verdicts

LEMMA VerdictsLoopEnds ==
  ASSUME TInv, Accord, Verdicts, pc = "visit", LoopEnds, UNCHANGED env
  PROVE  Verdicts'
<1>0. pass.pool \in Pools /\ mem \in States
  BY DEF TInv, TypeOK, Shape
<1>1. CASE \E ok \in BOOLEAN : PassEnds(mem, ok)
  BY <1>0, <1>1, VerdictsEnds
<1>2. CASE DeletePool
  BY <1>0, <1>2, VerdictsDeletePool
<1>3. CASE Goto("image") /\ Keep
  <2>1. pc' = "image" /\ UNCHANGED <<pass, mem, disk>>
    BY <1>3 DEF Goto, Keep
  <2>2. \A i \in RunIds : Rests(i)
    BY <2>1, DoubtRuns, RestsHere
  <2>3. Reported'
    BY <2>1, ReportedSame DEF env
  <2> QED BY <2>1, <2>2, <2>3, MarkedSame, VerdictsElsewhere DEF Rests, DoubtKept, Elsewhere
<1> QED BY <1>1, <1>2, <1>3 DEF LoopEnds

\* A container that stopped before its job completed, and that nobody waits
\* to see stopped, has ended.
LEMMA StoppedEnded ==
  ASSUME TInv, World, Verdicts, pc = "visit", NEW i \in pass.todo, i \in RunIds,
         pass.snap[i] \in {"created", "exited"}, ~NeedsStart(i), ~mem.run[i].retiring, i \notin marker
  PROVE  Ended(i)
<1>1. pass.snap[i] = "exited"
  BY DEF NeedsStart
<1>2. startEra[i] # 0 /\ docker[i] \in {"none", "exited"}
  BY <1>1 DEF Verdicts, Sightings, Sighted, Looping
<1> QED BY <1>2 DEF Ended, World, Containers

\* A container that went with its job completed had been judged before.
LEMMA GoneExpected ==
  ASSUME TInv, Accord, World, Verdicts, pc = "visit", NEW i \in pass.todo, i \in RunIds,
         pass.snap[i] = "none", i \in marker
  PROVE  ~Unexpected(mem.run[i])
<1>1. Gone(i) /\ startEra[i] # 0
  BY DEF World, Listing, SeenGone, Looping, Verdicts, Marked
<1>2. mem.run[i].phase = "cleanup"
  BY <1>1 DEF World, Containers, Gone
<1>3. disk.run[i] \in RunRec
  BY DEF TInv, TypeOK, States
<1>4. mem.run[i] = disk.run[i]
  BY <1>2, <1>3 DEF Accord, Synced, RunRec
<1> QED BY <1>2, <1>4 DEF Verdicts, Judged, Doubted, Ended

LEMMA VerdictsVisit ==
  ASSUME TInv, Accord, World, Verdicts, Visit
  PROVE  Verdicts'
<1>0. /\ pc = "visit" /\ pc \in Looping /\ pass.pool \in Pools /\ UNCHANGED env
      /\ mem \in States /\ pass \in PassRec /\ pass.todo \subseteq RunsOf(mem, pass.pool)
  BY DEF Visit, TInv, TypeOK, Shape, Accord, TodoHeld, Looping
<1>1. CASE pass.todo = {}
  BY <1>0, <1>1, VerdictsLoopEnds DEF Visit
<1>2. ASSUME NEW i \in pass.todo,
             VisitRunning(i) \/ VisitStart(i) \/ VisitStopped(i) \/ VisitGone(i)
      PROVE  Verdicts'
  <2>0. i \in RunIds /\ i \in Recorded(mem) /\ mem.run[i] \in RunRec
    BY <1>0 DEF RunsOf, Recorded, States
  <2>1. ASSUME pass' = Passed(i) \/ pass' = [Passed(i) EXCEPT !.failed = TRUE]
        PROVE  pass'.snap = pass.snap /\ pass'.todo = pass.todo \ {i} /\ pass'.exits = pass.exits
    BY <1>0, <2>1 DEF Passed, PassRec
  <2>2. ASSUME NEW r \in RunRec, pass' = Take(i, r)
        PROVE  /\ pass'.snap = pass.snap /\ pass'.todo = pass.todo \ {i}
               /\ pass'.exits = pass.exits /\ pass'.cur = i /\ pass'.clone[i] = r
    BY <1>0, <2>0, <2>2 DEF Take, PassRec
  <2>3. CASE PassEnds(mem, FALSE)
    BY <1>0, <2>3, VerdictsEnds
  <2>4. CASE Keep /\ pc' = "visit" /\ (pass' = Passed(i) \/ pass' = [Passed(i) EXCEPT !.failed = TRUE])
    <3>1. HandJudged'
      BY <2>4 DEF HandJudged
    <3> QED BY <1>0, <2>1, <2>4, <3>1, VerdictsOn DEF Keep
  <2>5. CASE VisitRunning(i)
    <3>1. /\ mem' = [mem EXCEPT !.run[i].phase = "live"] /\ disk' = disk
          /\ pc' = "visit" /\ pass' = Passed(i)
      BY <2>5 DEF VisitRunning, Observe
    <3>2. Recorded(mem') = Recorded(mem)
      BY <1>0, <2>0, <3>1 DEF States, Recorded, RunRec
    <3>3. \A j \in RunIds : Rests(j)
      BY <1>0, <3>1, DoubtRuns, RestsHere
    <3>4. Reported'
      BY <1>0, <2>1, <3>1, <3>2, ReportedSame DEF env
    <3>5. HandJudged'
      BY <3>1 DEF HandJudged
    <3>6. Doubted(i)' => Ended(i)'
      BY <2>0, <3>3 DEF Verdicts, Judged, Rests, DoubtKept
    <3> QED BY <1>0, <2>0, <2>1, <3>1, <3>3, <3>4, <3>5, <3>6, MarkedSame, VerdictsLoop
  <2>6. CASE VisitStart(i)
    <3>1. CASE Keep /\ pc' = "prepare" /\ pass' = Take(i, mem.run[i])
      <4>1. ~Doubted(i)
        <5>1. CASE pass.snap[i] = "created"
          BY <1>0, <5>1 DEF Verdicts, Sightings, Sighted
        <5>2. CASE mem.run[i].phase = "creating"
          BY <2>0, <5>2 DEF Doubted, Accord, Synced, TInv, TypeOK, States, RunRec
        <5> QED BY <2>6, <5>1, <5>2 DEF VisitStart, NeedsStart
      <4>2. HandJudged'
        BY <2>0, <2>2, <3>1, <4>1 DEF HandJudged, Doubted, Keep
      <4>3. pc' \in Looping
        BY <3>1 DEF Looping
      <4> QED BY <1>0, <2>0, <2>2, <3>1, <4>2, <4>3, VerdictsOn DEF Keep
    <3> QED BY <2>3, <2>4, <2>6, <3>1 DEF VisitStart
  <2>7. CASE VisitStopped(i)
    <3> DEFINE run == [mem.run[i] EXCEPT !.completed = i \in marker]
               known == StoppedBefore(i, bootKnown)
    <3>0. (i \in marker) \in BOOLEAN /\ (Unexpected(run) /\ known) \in BOOLEAN
      BY DEF Unexpected
    <3>1. run \in RunRec
      BY <2>0, <3>0, CompletedType
    <3>2. Unexpected(run) => i \notin marker /\ ~mem.run[i].retiring
      BY <2>0 DEF Unexpected, RunRec
    <3>3. Unexpected(run) => Ended(i)
      BY <1>0, <2>0, <2>7, <3>2, StoppedEnded DEF VisitStopped
    <3>4. CASE BeginCleanup(i, run, Unexpected(run) /\ known)
      BY <1>0, <2>0, <3>0, <3>1, <3>3, <3>4, VerdictsBeginCleanup
    <3>5. CASE Keep /\ pc' = "boot" /\ pass' = Take(i, run)
      <4> HIDE DEF run
      <4>1. pass'.cur = i /\ pass'.clone[i] = run
        BY <2>2, <3>1, <3>5
      <4>2. Unexpected(run) => Ended(i)'
        BY <1>0, <3>3 DEF Ended, env
      <4>3. HandJudged'
        BY <3>5, <4>1, <4>2 DEF HandJudged, Ended
      <4>4. pc' \in Looping
        BY <3>5 DEF Looping
      <4> QED BY <1>0, <2>2, <3>1, <3>5, <4>3, <4>4, VerdictsOn DEF Keep
    <3> QED BY <2>3, <2>7, <3>4, <3>5 DEF VisitStopped
  <2>8. CASE VisitGone(i)
    <3>1. CASE Keep /\ pc' = "fresh" /\ pass' = Take(i, mem.run[i])
      <4>1. i \in marker => ~Unexpected(mem.run[i])
        BY <1>0, <2>0, <2>8, GoneExpected DEF VisitGone
      <4>2. HandJudged'
        BY <1>0, <2>0, <2>2, <3>1, <4>1 DEF HandJudged, env
      <4>3. pc' \in Looping
        BY <3>1 DEF Looping, Collected
      <4> QED BY <1>0, <2>0, <2>2, <3>1, <4>2, <4>3, VerdictsOn DEF Keep
    <3> QED BY <2>4, <2>8, <3>1 DEF VisitGone
  <2> QED BY <1>2, <2>5, <2>6, <2>7, <2>8
<1> QED BY <1>1, <1>2 DEF Visit

LEMMA VerdictsReadBoot ==
  ASSUME TInv, Accord, World, Verdicts, ReadBoot
  PROVE  Verdicts'
<1>0. /\ pc = "boot" /\ pass.pool \in Pools /\ UNCHANGED env /\ mem \in States
      /\ pass.cur \in Recorded(mem) /\ pass.clone[pass.cur] \in RunRec /\ pass.cur \notin pass.todo
  BY HandFacts DEF ReadBoot, TInv, TypeOK, Shape, Looping
<1>1. Unexpected(pass.clone[pass.cur]) => Ended(pass.cur)
  BY <1>0 DEF Verdicts, HandJudged
<1>2. CASE Undisturbed
  <2>1. PICK boot \in {bootKnown, hostBoot} :
          BeginCleanup(pass.cur, pass.clone[pass.cur], StoppedBefore(pass.cur, boot))
    BY <1>0, <1>2 DEF ReadBoot
  <2>2. StoppedBefore(pass.cur, boot) \in BOOLEAN
    BY DEF StoppedBefore
  <2> QED BY <1>0, <1>1, <2>1, <2>2, VerdictsBeginCleanup
<1>3. CASE ~Undisturbed
  BY <1>0, <1>3, VerdictsEnds DEF ReadBoot
<1> QED BY <1>2, <1>3

\* The run in hand moves on, or is left for a later pass.
LEMMA VerdictsGoesOn ==
  ASSUME TInv, Accord, World, Verdicts, pc \in Looping \ {"visit"}, pc' \in Looping,
         pass' = pass \/ SkipRun, UNCHANGED <<mem, disk, marker, hostBoot>>, Marked',
         NEW i, i = pass.cur, Doubted(i) => Ended(i)', HandJudged',
         \A j \in RunIds \ {i} : UNCHANGED <<docker[j], late[j], startEra[j]>>
  PROVE  Verdicts'
<1>0. i \in RunIds /\ i \notin pass.todo /\ pass \in PassRec /\ mem \in States
  BY HandFacts
<1>1. pass'.snap = pass.snap /\ pass'.todo = pass.todo /\ pass'.exits = pass.exits
  BY <1>0 DEF SkipRun, Loose, PassRec
<1>2. \A j \in RunIds \ {i} : Rests(j)
  BY <1>0 DEF Rests, DoubtKept, Doubted, Ended
<1>3. Doubted(i)' => Ended(i)'
  BY DEF Doubted
<1>4. Reported' /\ hostBoot' # 0
  BY <1>1, ReportedSame DEF Verdicts
<1> QED BY <1>0, <1>1, <1>2, <1>3, <1>4, VerdictsLoop

LEMMA VerdictsPrepare ==
  ASSUME TInv, Accord, World, Verdicts, Prepare
  PROVE  Verdicts'
<1>1. /\ pc = "prepare" /\ pc' \in {"create", "start"} /\ UNCHANGED <<pass, mem, disk, env>>
  BY DEF Prepare, Goto, Keep
<1>2. PICK i \in RunIds : i = pass.cur
  BY <1>1 DEF TInv, Shape, Holding
<1>3. ~Doubted(i)
  BY <1>1, <1>2 DEF Verdicts, HandJudged
<1>4. HandJudged'
  BY <1>1, <1>2, <1>3 DEF HandJudged, Doubted
<1> QED BY <1>1, <1>2, <1>3, <1>4, MarkedSame, VerdictsGoesOn DEF env, Looping

LEMMA VerdictsCreateContainer ==
  ASSUME TInv, Accord, World, Verdicts, CreateContainer
  PROVE  Verdicts'
<1>0. /\ pc = "create" /\ docker' = [docker EXCEPT ![pass.cur] = "created"]
      /\ UNCHANGED <<startEra, late, hostBoot, registered, marker>>
      /\ docker \in [RunIds -> Statuses]
  BY DEF CreateContainer, TInv, TypeOK
<1>1. PICK i \in RunIds : i = pass.cur
  BY <1>0 DEF TInv, Shape, Holding
<1>2. ~Doubted(i) /\ hostBoot' # 0
  BY <1>0, <1>1 DEF Verdicts, HandJudged
<1>3. Marked'
  BY <1>0, <1>1 DEF Marked, Verdicts
<1>4. \A j \in RunIds \ {i} : UNCHANGED <<docker[j], late[j], startEra[j]>>
  BY <1>0, <1>1
<1>5. CASE Errors
  BY <1>0, <1>1, <1>2, <1>3, <1>4, <1>5, VerdictsErrors
<1>6. CASE Goto("start") /\ Keep
  <2>1. pc' = "start" /\ UNCHANGED <<pass, mem, disk>>
    BY <1>6 DEF Goto, Keep
  <2>2. HandJudged'
    BY <1>1, <1>2, <2>1 DEF HandJudged, Doubted
  <2> QED BY <1>0, <1>1, <1>2, <1>3, <1>4, <2>1, <2>2, VerdictsGoesOn DEF Looping
<1> QED BY <1>5, <1>6 DEF CreateContainer

LEMMA VerdictsStartContainer ==
  ASSUME TInv, Accord, World, Verdicts, StartContainer
  PROVE  Verdicts'
<1>0. /\ pc = "start" /\ docker' = [docker EXCEPT ![pass.cur] = "running"]
      /\ startEra' = [startEra EXCEPT ![pass.cur] =
                        IF docker[pass.cur] = "running" THEN @ ELSE hostBoot]
      /\ UNCHANGED <<late, hostBoot, registered, marker>>
      /\ docker \in [RunIds -> Statuses] /\ startEra \in [RunIds -> Nat]
      /\ pass.clone[pass.cur] \in RunRec /\ pass \in PassRec /\ mem \in States
      /\ pass.cur \in Recorded(mem)
  BY HandFacts DEF StartContainer, Starts, TInv, TypeOK, Looping
<1>1. PICK i \in RunIds : i = pass.cur
  BY <1>0 DEF TInv, Shape, Holding
<1>2. ~Doubted(i) /\ hostBoot' # 0
  BY <1>0, <1>1 DEF Verdicts, HandJudged
<1>3. Marked'
  BY <1>0, <1>1 DEF Marked, Verdicts
<1>4. \A j \in RunIds \ {i} : UNCHANGED <<docker[j], late[j], startEra[j]>>
  BY <1>0, <1>1
<1>5. CASE Errors
  BY <1>0, <1>1, <1>2, <1>3, <1>4, <1>5, VerdictsErrors
<1>6. CASE ~Errors
  <2> DEFINE run == [pass.clone[pass.cur] EXCEPT !.phase = "live"]
  <2>1. /\ pc' = "visit" /\ pass' = Loose /\ mem' = disk'
        /\ disk' = [mem EXCEPT !.run[i] = run]
    BY <1>1, <1>6 DEF StartContainer, Save
  <2>2. run.phase = "live"
    BY <1>0 DEF RunRec
  <2> HIDE DEF run
  <2>3. disk'.run[i] = run /\ \A j \in RunIds \ {i} : DoubtKept(j)
    BY <2>1, StoreUpdate
  <2>4. \A j \in RunIds \ {i} : Rests(j)
    BY <1>0, <1>4, <2>3 DEF Rests, Ended
  <2>5. ~Doubted(i)'
    BY <2>2, <2>3 DEF Doubted
  <2>6. pass'.snap = pass.snap /\ pass'.todo = pass.todo /\ pass'.exits = pass.exits
    BY <1>0, <2>1 DEF Loose, PassRec
  <2>7. Recorded(mem') = Recorded(mem)
    BY <1>0, <1>1, <2>1, <2>2 DEF Recorded, States
  <2>8. Reported' /\ HandJudged'
    BY <1>0, <2>1, <2>6, <2>7, ReportedSame DEF HandJudged
  <2>9. i \notin pass.todo
    BY <1>0, <1>1, HandFacts DEF Looping
  <2> QED BY <1>0, <1>2, <1>3, <2>1, <2>4, <2>5, <2>6, <2>8, <2>9, VerdictsLoop DEF Looping
<1> QED BY <1>5, <1>6

LEMMA VerdictsArchive ==
  ASSUME TInv, Accord, World, Verdicts, Archive
  PROVE  Verdicts'
<1> DEFINE r == [pass.clone[pass.cur] EXCEPT !.logSaved = TRUE]
<1>0. /\ pc = "archive" /\ pc \in Looping \ {"visit"} /\ pc' = "remove" /\ UNCHANGED env
      /\ pass.cur \in Recorded(mem) /\ r.phase = "cleanup"
      /\ pass'.snap = pass.snap /\ pass'.todo = pass.todo /\ pass'.cur = pass.cur
      /\ pass'.clone[pass.cur] = r
  BY ArchivedFacts DEF Archive, Looping, Collected
<1>1. /\ pass'.exits = pass.exits /\ disk' = [mem EXCEPT !.run[pass.cur] = r] /\ mem' = disk'
      /\ pass.clone[pass.cur] \in RunRec /\ mem \in States /\ pass \in PassRec
  BY <1>0, HandFacts DEF Archive, Archived, Save, PassRec
<1>2. Unexpected(r) => Unexpected(pass.clone[pass.cur])
  BY <1>1 DEF RunRec, Unexpected
<1>3. PICK i \in RunIds : i = pass.cur
  BY <1>0 DEF Recorded
<1> HIDE DEF r
<1>4. Unexpected(r) => Ended(i)
  BY <1>0, <1>2, <1>3 DEF Verdicts, HandJudged
<1>5. Unexpected(r) => Ended(i)'
  BY <1>0, <1>4 DEF Ended, env
<1>6. disk'.run[i] = r /\ \A j \in RunIds \ {i} : DoubtKept(j)
  BY <1>1, <1>3, StoreUpdate
<1>7. \A j \in RunIds \ {i} : Rests(j)
  BY <1>0, <1>6, RestsHere
<1>8. Doubted(i)' => Ended(i)'
  BY <1>5, <1>6 DEF Doubted
<1>9. HandJudged'
  BY <1>0, <1>3, <1>5 DEF HandJudged, Ended
<1>10. Recorded(mem') = Recorded(mem)
  BY <1>0, <1>1, <1>3 DEF Recorded, States
<1>11. Reported'
  BY <1>0, <1>1, <1>10, ReportedSame DEF env
<1>12. i \notin pass.todo
  BY <1>0, <1>3, HandFacts
<1> QED BY <1>0, <1>1, <1>7, <1>8, <1>9, <1>11, <1>12, MarkedSame, VerdictsLoop DEF Looping, Collected

LEMMA VerdictsRemoveContainer ==
  ASSUME TInv, Accord, World, Verdicts, RemoveContainer
  PROVE  Verdicts'
<1>0. /\ pc = "remove" /\ docker' = [docker EXCEPT ![pass.cur] = "none"]
      /\ UNCHANGED <<startEra, late, hostBoot, registered, marker>>
      /\ docker \in [RunIds -> Statuses]
  BY DEF RemoveContainer, Vanishes, TInv, TypeOK
<1>1. PICK i \in RunIds : i = pass.cur
  BY <1>0 DEF TInv, Shape, Holding, Collected
<1>2. Marked' /\ hostBoot' # 0
  BY <1>0, <1>1 DEF Marked, Verdicts
<1>3. \A j \in RunIds \ {i} : UNCHANGED <<docker[j], late[j], startEra[j]>>
  BY <1>0, <1>1
<1>4. Ended(i) => Ended(i)'
  BY <1>0, <1>1 DEF Ended
<1>5. CASE Errors
  BY <1>0, <1>1, <1>2, <1>3, <1>4, <1>5, VerdictsErrors
<1>6. CASE Goto("fresh") /\ Keep
  <2>1. pc' = "fresh" /\ UNCHANGED <<pass, mem, disk>>
    BY <1>6 DEF Goto, Keep
  <2>2. Unexpected(pass.clone[i]) => i \notin marker
    BY <1>0, <1>1 DEF Verdicts, HandJudged, Ended
  <2>3. HandJudged'
    BY <1>0, <1>1, <2>1, <2>2 DEF HandJudged
  <2>4. Doubted(i) => Ended(i)'
    BY <1>4 DEF Verdicts, Judged
  <2> QED BY <1>0, <1>1, <1>2, <1>3, <2>1, <2>3, <2>4, VerdictsGoesOn DEF Looping, Collected
<1> QED BY <1>5, <1>6 DEF RemoveContainer

\* A run is forgotten, its directory with it.
LEMMA VerdictsFinishRun ==
  ASSUME TInv, Accord, World, Verdicts, pc \in {"fresh", "unregister", "repair"},
         FinishRun(pass.cur), UNCHANGED <<docker, late, hostBoot>>
  PROVE  Verdicts'
<1>0. /\ pass.cur \in RunIds /\ pass.cur \in Recorded(mem) /\ pc \in Looping \ {"visit"}
      /\ mem \in States /\ pass \in PassRec /\ pass.cur \notin pass.todo
      /\ startEra \in [RunIds -> Nat]
  BY HandFacts DEF Looping, Collected, TInv, TypeOK
<1>1. PICK i \in RunIds : i = pass.cur
  BY <1>0
<1>2. /\ disk' = [mem EXCEPT !.run[i] = NoRun] /\ mem' = disk' /\ marker' = marker \ {i}
      /\ startEra' = [startEra EXCEPT ![i] = 0] /\ pc' = "visit"
      /\ pass'.snap = pass.snap /\ pass'.todo = pass.todo
      /\ pass'.exits \in {pass.exits, pass.exits \cup {i}}
  BY <1>0, <1>1 DEF FinishRun, Save, Loose, PassRec
<1>3. disk'.run[i] = NoRun /\ \A j \in RunIds \ {i} : DoubtKept(j)
  BY <1>2, StoreUpdate
<1>4. \A j \in RunIds \ {i} : Rests(j)
  BY <1>0, <1>2, <1>3 DEF Rests, Ended
<1>5. ~Doubted(i)' /\ HandJudged'
  BY <1>2, <1>3 DEF Doubted, NoRun, HandJudged
<1>6. Gone(i)
  BY <1>1 DEF World, InFlightHeld
<1>7. Marked' /\ hostBoot' # 0
  BY <1>0, <1>2, <1>6 DEF Marked, Verdicts, Gone
<1>8. Recorded(mem') = Recorded(mem) \ {i}
  BY <1>0, <1>2 DEF Recorded, States, NoRun
<1>9. Reported'
  BY <1>2, <1>8 DEF Reported, Verdicts
<1> QED BY <1>0, <1>1, <1>2, <1>4, <1>5, <1>7, <1>9, VerdictsLoop DEF Looping

LEMMA VerdictsRemoveDirectory ==
  ASSUME TInv, Accord, World, Verdicts, pc \in {"fresh", "unregister"}, RemoveDirectory,
         UNCHANGED <<docker, late, hostBoot>>
  PROVE  Verdicts'
<1>0. pc \in Looping \ {"visit"}
  BY DEF Looping, Collected
<1>1. PICK i \in RunIds : i = pass.cur
  BY <1>0, HandFacts
<1>2. CASE FinishRun(pass.cur)
  BY <1>2, VerdictsFinishRun
<1>3. CASE (SkipRun \/ Goto("repair")) /\ Keep /\ UNCHANGED <<startEra, marker>>
  <2>1. UNCHANGED <<mem, disk, startEra, marker>> /\ pc' \in {"visit", "repair"}
    BY <1>3 DEF Keep, SkipRun, Goto
  <2>2. pass' = pass \/ SkipRun
    BY <1>3 DEF Goto
  <2>3. Marked'
    BY <2>1 DEF Marked, Verdicts
  <2>4. Doubted(i) => Ended(i)'
    BY <2>1 DEF Verdicts, Judged, Ended
  <2>5. HandJudged'
    <3>1. CASE SkipRun
      BY <3>1 DEF SkipRun, HandJudged
    <3>2. CASE Goto("repair")
      <4>1. i \in marker => ~Unexpected(pass.clone[i])
        BY <1>1 DEF Verdicts, HandJudged
      <4> QED BY <1>1, <2>1, <3>2, <4>1 DEF Goto, HandJudged
    <3> QED BY <1>3, <3>1, <3>2
  <2> QED BY <1>0, <1>1, <2>1, <2>2, <2>3, <2>4, <2>5, VerdictsGoesOn DEF Looping, Collected
<1> QED BY <1>2, <1>3 DEF RemoveDirectory

LEMMA VerdictsFreshList ==
  ASSUME TInv, Accord, World, Verdicts, FreshList
  PROVE  Verdicts'
<1>0. pc = "fresh" /\ UNCHANGED <<docker, late, hostBoot>>
  BY DEF FreshList
<1>1. CASE RemoveDirectory
  BY <1>0, <1>1, VerdictsRemoveDirectory
<1>2. CASE Goto("unregister") /\ Keep /\ UNCHANGED <<startEra, marker>>
  <2>1. pc' = "unregister" /\ UNCHANGED <<pass, mem, disk, startEra, marker>>
    BY <1>2 DEF Goto, Keep
  <2>2. PICK i \in RunIds : i = pass.cur
    BY <1>0 DEF TInv, Shape, Holding, Collected
  <2>3. i \in marker => ~Unexpected(pass.clone[i])
    BY <1>0, <2>2 DEF Verdicts, HandJudged
  <2>4. HandJudged'
    BY <2>1, <2>2, <2>3 DEF HandJudged
  <2>5. Marked'
    BY <1>0, <2>1 DEF Marked, Verdicts
  <2>6. Doubted(i) => Ended(i)'
    BY <1>0, <2>1 DEF Verdicts, Judged, Ended
  <2> QED BY <1>0, <2>1, <2>2, <2>4, <2>5, <2>6, VerdictsGoesOn DEF Looping, Collected
<1> QED BY <1>1, <1>2 DEF FreshList

LEMMA VerdictsUnregister ==
  ASSUME TInv, Accord, World, Verdicts, Unregister
  PROVE  Verdicts'
<1>0. pc = "unregister" /\ UNCHANGED <<docker, late, hostBoot>>
  BY DEF Unregister
<1>1. CASE RemoveDirectory
  BY <1>0, <1>1, VerdictsRemoveDirectory
<1>2. CASE Errors /\ UNCHANGED <<startEra, marker>>
  <2>1. Marked'
    BY <1>0, <1>2 DEF Marked, Verdicts
  <2>2. \A i \in RunIds : Ended(i) => Ended(i)'
    BY <1>0, <1>2 DEF Ended
  <2> QED BY <1>0, <1>2, <2>1, <2>2, VerdictsErrors
<1> QED BY <1>1, <1>2 DEF Unregister

LEMMA VerdictsRepair ==
  ASSUME TInv, Accord, World, Verdicts, Repair
  PROVE  Verdicts'
BY VerdictsFinishRun DEF Repair

LEMMA VerdictsReplenish ==
  ASSUME TInv, Accord, Verdicts, Replenish
  PROVE  Verdicts'
<1>0. mem \in States /\ pass.pool \in Pools /\ UNCHANGED env /\ pass.ps \in PoolRec
  BY DEF Replenish, TInv, TypeOK, Shape, PassRec
<1>1. PICK i \in RunIds, ok \in BOOLEAN :
        PassEnds([mem EXCEPT !.run[i] = NewRun(pass.pool, pass.ps.gen)], ok)
  BY DEF Replenish
<1> DEFINE s == [mem EXCEPT !.run[i] = NewRun(pass.pool, pass.ps.gen)]
<1>2. /\ s \in States /\ s.run[i].phase = "creating"
      /\ \A j \in RunIds : j # i => s.run[j] = mem.run[j]
  BY <1>0, ConstantTypes, SetRunType DEF States, PoolRec, NewRun, NoRun
<1>3. PassEnds(s, ok)
  BY <1>1
<1> HIDE DEF s
<1>4. mem'.run = s.run /\ disk' = mem' /\ pc' = "idle" /\ pass' = NoPass
  BY <1>0, <1>2, <1>3, EndsKeep DEF PassEnds, Save
<1>5. ASSUME NEW j \in RunIds PROVE DoubtKept(j)
  <2>1. CASE j = i
    BY <1>2, <1>4, <2>1 DEF DoubtKept, Doubted
  <2>2. CASE j # i
    BY <1>2, <1>4, <2>2, DoubtSaved DEF TInv, Accord
  <2> QED BY <2>1, <2>2
<1>6. \A j \in RunIds : Rests(j)
  BY <1>0, <1>5, RestsHere
<1>7. Reported'
  BY <1>4 DEF Reported, NoPass
<1> QED BY <1>0, <1>4, <1>6, <1>7, MarkedSame, VerdictsElsewhere DEF Rests, DoubtKept, Elsewhere

-----------------------------------------------------------------------------
LEMMA VerdictsStep ==
  ASSUME TInv, Accord, World, Verdicts, [Next]_vars
  PROVE  Verdicts'
<1>1. CASE UNCHANGED vars
  <2>1. UNCHANGED <<pc, mem, disk, pass, env, marker>> /\ Onward
    BY <1>1 DEF vars, env, Onward
  <2>2. \A i \in RunIds : Rests(i)
    BY <2>1, DoubtRuns, RestsHere
  <2> QED BY <2>1, <2>2, MarkedSame, VerdictsHeld
<1>2. CASE Pass
  BY <1>2, VerdictsTick, VerdictsFails, VerdictsTimesOut, VerdictsList, VerdictsForceLoop,
     VerdictsForceArchive, VerdictsForceRemove, VerdictsRelist, VerdictsRemotes, VerdictsVisit,
     VerdictsReadBoot, VerdictsPrepare, VerdictsCreateContainer, VerdictsStartContainer,
     VerdictsArchive, VerdictsRemoveContainer, VerdictsFreshList, VerdictsUnregister,
     VerdictsRepair, VerdictsReplenish DEF Pass
<1> QED BY <1>1, <1>2, VerdictsRequest, VerdictsCrash, VerdictsRestart, VerdictsEnvironment DEF Next

\* A finished run loses its completion marker with its directory; nothing else
\* takes one away.
LEMMA MarkerSteps ==
  ASSUME Next
  PROVE  \/ marker \subseteq marker'
         \/ pc \in {"fresh", "unregister", "repair"} /\ FinishRun(pass.cur)
<1>1. Crash \/ Restart => marker' = marker
  BY DEF Crash, Restart, env
<1>2. ASSUME NEW p \in Pools, Tick(p) \/ BackoffExpires(p) PROVE marker' = marker
  BY <1>2 DEF Tick, BackoffExpires, env
<1>3. CommandFails \/ CommandTimesOut \/ List \/ ForceLoop \/ Relist \/ Remotes => marker' = marker
  BY DEF CommandFails, CommandTimesOut, List, ForceLoop, Relist, Remotes, env
<1>4. ForceArchive \/ Archive \/ ForceRemove \/ RemoveContainer => marker' = marker
  BY DEF ForceArchive, Archive, Archived, ForceRemove, RemoveContainer, Vanishes, env
<1>5. Visit \/ ReadBoot \/ Prepare \/ CreateContainer \/ StartContainer \/ Replenish
      => marker' = marker
  BY DEF Visit, ReadBoot, Prepare, CreateContainer, StartContainer, Replenish, env
<1>6. FreshList \/ Unregister \/ Repair
      => marker' = marker \/ (pc \in {"fresh", "unregister", "repair"} /\ FinishRun(pass.cur))
  BY DEF FreshList, Unregister, Repair, RemoveDirectory
<1>7. ASSUME NEW i \in RunIds, \/ LateLands(i) \/ Registers(i) \/ JobCompletes(i)
                               \/ GitHubForgets(i) \/ ContainerExits(i) \/ HostReboots
      PROVE  marker \subseteq marker'
  BY <1>7 DEF LateLands, Registers, JobCompletes, GitHubForgets, ContainerExits, HostReboots
<1>8. HostReboots => marker' = marker
  BY DEF HostReboots
<1>9. Request => marker' = marker
  BY DEF Request, Start, Stop, Remove, Add, Scale, Upgrade, Auth, Apply, Refused,
         RefusedStatus, Configured, Handled, env
<1> QED BY <1>1, <1>2, <1>3, <1>4, <1>5, <1>6, <1>7, <1>8, <1>9 DEF Next, Pass, Environment

LEMMA FinishedExits ==
  ASSUME TInv, Accord, World, Verdicts, pc \in {"fresh", "unregister", "repair"},
         FinishRun(pass.cur)
  PROVE  pass'.exits \cap marker = {}
<1>0. pass.cur \in RunIds /\ pass \in PassRec
  BY HandFacts DEF Looping, Collected
<1>1. PICK i \in RunIds : i = pass.cur
  BY <1>0
<1>2. i \in marker => ~Unexpected(pass.clone[i])
  BY <1>1 DEF Verdicts, HandJudged
<1>3. pass'.exits = IF Unexpected(pass.clone[i]) /\ ~pass.rebooted
                    THEN pass.exits \cup {i} ELSE pass.exits
  BY <1>0, <1>1 DEF FinishRun, Loose, PassRec
<1>4. pass.exits \cap marker = {}
  BY DEF Verdicts, Reported
<1>5. CASE Unexpected(pass.clone[i]) /\ ~pass.rebooted
  BY <1>2, <1>3, <1>4, <1>5
<1>6. CASE ~(Unexpected(pass.clone[i]) /\ ~pass.rebooted)
  BY <1>3, <1>4, <1>6
<1> QED BY <1>5, <1>6

\* What a pass concludes of an exit rests on the record, on the listing and on
\* the marker together, which three actors write: no late command, crash or
\* reboot makes a completed job look like a failed one.
THEOREM VerdictsHold == Spec => [](TInv /\ Accord /\ World /\ Verdicts)
<1>1. Init => Verdicts
  BY VerdictsInit
<1>2. (TInv /\ Accord /\ World) /\ (TInv /\ Accord /\ World)' /\ Verdicts /\ [Next]_vars => Verdicts'
  BY VerdictsStep
<1> QED BY <1>1, <1>2, WorldHolds, PTL DEF Spec

\* manager.rs:896, 958: a run whose job completed is never counted as an
\* unexpected exit, whichever pass and whichever manager finishes it.
THEOREM CompletionsAreExpected == Spec => CompletedIsExpected
<1>1. TInv /\ Accord /\ World /\ Verdicts /\ Verdicts' /\ [Next]_vars
      => [pass'.exits \cap marker = pass.exits \cap marker]_vars
  <2> SUFFICES ASSUME TInv, Accord, World, Verdicts, Verdicts', Next
               PROVE  pass'.exits \cap marker = pass.exits \cap marker
    OBVIOUS
  <2>1. pass.exits \cap marker = {}
    BY DEF Verdicts, Reported
  <2>2. CASE marker \subseteq marker'
    <3>1. Reported'
      BY DEF Verdicts
    <3>2. pass'.exits \cap marker' = {}
      BY <3>1 DEF Reported
    <3> QED BY <2>1, <2>2, <3>2
  <2>3. CASE pc \in {"fresh", "unregister", "repair"} /\ FinishRun(pass.cur)
    <3>1. pass'.exits \cap marker = {}
      BY <2>3, FinishedExits
    <3> QED BY <2>1, <3>1
  <2> QED BY <2>2, <2>3, MarkerSteps
<1> QED BY <1>1, VerdictsHold, PTL DEF Spec, CompletedIsExpected

-----------------------------------------------------------------------------
(* A host reboot is no unexpected exit, where its verdict is not forgotten. *)

\* No further exit is counted, no further run recognised.
Unjudged == pass'.exits \subseteq pass.exits /\ spared' \subseteq spared
Recognises == pass'.exits = pass.exits /\ \E i \in Recorded(mem) : spared' \subseteq spared \cup {i}
Finishing == {"fresh", "unregister", "repair"}
Finishes == pc \in Finishing /\ ~pass.moved /\ FinishRun(pass.cur) /\ spared' = spared
Verdict == Unjudged \/ Recognises \/ Finishes

LEMMA EndsUnjudged ==
  ASSUME pass' = NoPass, spared' \subseteq spared
  PROVE  Unjudged
BY DEF Unjudged, NoPass

LEMMA ErrorsUnjudged ==
  ASSUME pass \in PassRec, Errors, spared' = spared
  PROVE  Unjudged
BY EndsUnjudged DEF Errors, PassEnds, SkipRun, Loose, Unjudged, PassRec

LEMMA DeletePoolUnjudged ==
  ASSUME DeletePool, spared' = spared
  PROVE  Unjudged
BY EndsUnjudged DEF DeletePool, PassEnds

LEMMA ArchivedUnjudged ==
  ASSUME pass \in PassRec, NEW next, Archived(next)
  PROVE  Unjudged
BY DEF Archived, Unjudged, ghosts, PassRec

LEMMA CleanupVerdict ==
  ASSUME pass \in PassRec, NEW i \in Recorded(mem), NEW run, NEW rebooted,
         BeginCleanup(i, run, rebooted)
  PROVE  Recognises
<1>1. pass'.exits = pass.exits
  BY DEF BeginCleanup, Passed, Take, PassRec
<1> QED BY <1>1 DEF BeginCleanup, Recognises

LEMMA ListUnjudged ==
  ASSUME pass \in PassRec, List
  PROVE  Unjudged
<1>1. spared' = spared
  BY DEF List
<1>2. CASE Emptied(pass.pool) /\ ~pass.ps.running
  BY <1>1, <1>2, EndsUnjudged, DeletePoolUnjudged DEF List, PassEnds
<1>3. CASE ~(Emptied(pass.pool) /\ ~pass.ps.running)
  <2> DEFINE forced == ForcedRuns(pass.pool)
             clone == [i \in RunIds |-> IF i \in forced THEN mem.run[i] ELSE NoRun]
             unknown == Cardinality({i \in RunIds \ Recorded(mem) : docker[i] # "none"})
  <2>1. pass' = [pass EXCEPT !.snap = Snapshot, !.todo = forced, !.clone = clone,
                             !.unknown = unknown]
    BY <1>3 DEF List
  <2>2. pass'.exits = pass.exits
    <3> HIDE DEF forced, clone, unknown
    <3> QED BY <2>1 DEF PassRec
  <2> QED BY <1>1, <2>2 DEF Unjudged
<1> QED BY <1>2, <1>3

LEMMA VisitVerdict ==
  ASSUME TInv, Accord, Visit
  PROVE  Unjudged \/ Recognises
<1>0. pass \in PassRec /\ pc = "visit"
  BY DEF TInv, TypeOK, Visit
<1>1. CASE pass.todo = {}
  <2>1. LoopEnds /\ spared' = spared
    BY <1>1 DEF Visit
  <2>2. ASSUME Goto("image") PROVE Unjudged
    BY <2>1, <2>2 DEF Goto, Unjudged
  <2> QED BY <2>1, <2>2, EndsUnjudged, DeletePoolUnjudged DEF LoopEnds, PassEnds
<1>2. CASE pass.todo # {}
  <2>1. PICK i \in pass.todo :
          VisitRunning(i) \/ VisitStart(i) \/ VisitStopped(i) \/ VisitGone(i)
    BY <1>2 DEF Visit
  <2>2. i \in Recorded(mem)
    BY <1>0 DEF Accord, TodoHeld, Looping, RunsOf
  <2>3. ASSUME ghosts' = ghosts,
               \/ pass' = Passed(i)
               \/ pass' = [Passed(i) EXCEPT !.failed = TRUE]
               \/ \E run : pass' = Take(i, run)
        PROVE  Unjudged
    BY <1>0, <2>3 DEF Unjudged, Passed, Take, ghosts, PassRec
  <2>4. ASSUME PassEnds(mem, FALSE), spared' = spared PROVE Unjudged
    BY <2>4, EndsUnjudged DEF PassEnds
  <2>5. CASE VisitRunning(i)
    BY <2>3, <2>5 DEF VisitRunning
  <2>6. CASE VisitStart(i)
    BY <2>3, <2>4, <2>6 DEF VisitStart
  <2>7. CASE VisitStopped(i)
    BY <1>0, <2>2, <2>3, <2>4, <2>7, CleanupVerdict DEF VisitStopped
  <2>8. CASE VisitGone(i)
    BY <2>3, <2>8 DEF VisitGone
  <2> QED BY <2>1, <2>5, <2>6, <2>7, <2>8
<1> QED BY <1>1, <1>2

LEMMA RemoveDirectoryVerdict ==
  ASSUME pass \in PassRec, pc \in {"fresh", "unregister"}, ~pass.moved, RemoveDirectory,
         spared' = spared
  PROVE  Verdict
BY DEF RemoveDirectory, Verdict, Finishes, Finishing, Unjudged, SkipRun, Loose, Goto, PassRec

LEMMA PassVerdict ==
  ASSUME TInv, Accord, World, Pass
  PROVE  Verdict
<1>0. pass \in PassRec
  BY DEF TInv, TypeOK
<1>1. ASSUME NEW p \in Pools, Tick(p) PROVE Unjudged
  BY <1>1 DEF Tick, Unjudged, ghosts, NoPass
<1>2. CASE CommandFails \/ CommandTimesOut
  BY <1>0, <1>2, ErrorsUnjudged DEF CommandFails, CommandTimesOut, Verdict
<1>3. CASE List
  BY <1>0, <1>3, ListUnjudged DEF Verdict
<1>4. CASE ForceLoop
  BY <1>0, <1>4 DEF ForceLoop, ForceDone, ForceNext, Take, ghosts, Verdict, Unjudged, PassRec
<1>5. CASE ForceArchive \/ Archive
  BY <1>0, <1>5, ArchivedUnjudged DEF ForceArchive, Archive, Verdict
<1>6. CASE ForceRemove
  <2>1. ASSUME pass' = [pass EXCEPT !.cur = NoId, !.clone[pass.cur] = NoRun], spared' = spared
        PROVE  Unjudged
    BY <1>0, <2>1 DEF Unjudged, PassRec
  <2> QED BY <1>0, <1>6, <2>1, ErrorsUnjudged DEF ForceRemove, Verdict
<1>7. CASE Relist \/ Remotes
  BY <1>0, <1>7 DEF Relist, Remotes, ghosts, Verdict, Unjudged, PassRec
<1>8. CASE Visit
  BY <1>8, VisitVerdict DEF Verdict
<1>9. CASE ReadBoot
  <2>1. pass.cur \in Recorded(mem)
    BY <1>9, HandFacts DEF ReadBoot, Looping, Collected
  <2>2. ASSUME PassEnds(mem, FALSE), spared' = spared PROVE Unjudged
    BY <2>2, EndsUnjudged DEF PassEnds
  <2> QED BY <1>0, <1>9, <2>1, <2>2, CleanupVerdict DEF ReadBoot, Verdict
<1>10. CASE Prepare
  BY <1>10 DEF Prepare, Goto, ghosts, Verdict, Unjudged
<1>11. CASE CreateContainer \/ RemoveContainer
  BY <1>0, <1>11, ErrorsUnjudged DEF CreateContainer, RemoveContainer, Goto, Verdict, Unjudged
<1>12. CASE StartContainer
  <2>1. ASSUME pass' = Loose, spared' = spared PROVE Unjudged
    BY <1>0, <2>1 DEF Unjudged, Loose, PassRec
  <2> QED BY <1>0, <1>12, <2>1, ErrorsUnjudged DEF StartContainer, Verdict
<1>13. CASE FreshList
  BY <1>0, <1>13, RemoveDirectoryVerdict DEF FreshList, Undisturbed, Goto, Verdict, Unjudged
<1>14. CASE Unregister
  BY <1>0, <1>14, RemoveDirectoryVerdict, ErrorsUnjudged DEF Unregister, Undisturbed, Verdict
<1>15. CASE Repair
  BY <1>15 DEF Repair, Undisturbed, Verdict, Finishes, Finishing
<1>16. CASE Replenish
  BY <1>16, EndsUnjudged DEF Replenish, PassEnds, Verdict
<1> QED BY <1>1, <1>2, <1>3, <1>4, <1>5, <1>6, <1>7, <1>8, <1>9, <1>10, <1>11, <1>12, <1>13,
           <1>14, <1>15, <1>16 DEF Pass, Verdict

\* The only step that counts an exit is the one that forgets the run in hand.
LEMMA NextVerdict ==
  ASSUME TInv, Accord, World, [Next]_vars
  PROVE  Verdict
<1>1. ASSUME pass' = pass \/ pass' = NoPass, spared' = spared PROVE Verdict
  BY <1>1, EndsUnjudged DEF Verdict, Unjudged
<1>2. CASE UNCHANGED vars
  BY <1>1, <1>2 DEF vars
<1>3. CASE Pass
  BY <1>3, PassVerdict
<1>4. CASE Request
  <2>1. spared' = spared /\ (pass' = pass \/ pass' = [pass EXCEPT !.moved = TRUE])
    BY <1>4, Zenon DEF Request, Start, Stop, Remove, Add, Scale, Upgrade, Auth, Apply, Refused,
                       RefusedStatus, Configured, Handled, MoveEpoch, ghosts
  <2> QED BY <2>1 DEF Verdict, Unjudged, TInv, TypeOK, PassRec
<1>5. CASE Crash \/ Restart
  BY <1>1, <1>5 DEF Crash, Restart, ghosts
<1>6. CASE Environment
  BY <1>1, <1>6 DEF Environment, BackoffExpires, LateLands, Registers, JobCompletes,
                    GitHubForgets, ContainerExits, HostReboots, ghosts
<1> QED BY <1>2, <1>3, <1>4, <1>5, <1>6 DEF Next

\* After the container of a run that a reboot stopped is gone, its clean-up is
\* cut short: the answer to the removal is lost or interrupted, a later command
\* fails or is interrupted, or the manager ends.
CutShort ==
  LET i == pass.cur
  IN  /\ pass.rebooted
      /\ \/ pc = "remove" /\ docker[i] # "none" /\ docker'[i] = "none" /\ pc' # "fresh"
         \/ pc \in Finishing /\ pc' \in {"visit", "down"} /\ i \in Recorded(mem')

\* manager.rs:770: the boot time cannot be read, and the pass goes on without it.
BootUnread == pc = "boot" /\ pc' \in {"archive", "remove"} /\ bootKnown' # hostBoot

\* While its container is there, a run can be recognised again.
Rebooted(i) == docker[i] = "exited" /\ StoppedBefore(i, hostBoot) /\ i \notin marker

\* No pass takes it for anything but a run that stopped.
InView(i) ==
  /\ pc \in Forcing \cup {"remotes"} /\ i \in RunsOf(mem, pass.pool) => pass.snap[i] = "exited"
  /\ pc \in Looping /\ i \in pass.todo => pass.snap[i] = "exited"
  /\ pc \in Holding \ {"boot"} /\ pass.cur = i => pc \in {"archive", "remove"} /\ pass.rebooted

\* Once its container is gone, the pass has the verdict in hand.
Settling(i) == pc \in Finishing /\ pass.cur = i /\ pass.rebooted

\* Its exit is not counted in any case.
Excused(i) == i \notin Recorded(mem) \/ mem.run[i].retiring \/ mem.run[i].force

Remembered(i) == Excused(i) \/ (Rebooted(i) /\ InView(i)) \/ Settling(i)

\* What the pass asks the boot time for: a container that is there.
BootAsked == docker[pass.cur] # "none" /\ Unexpected(pass.clone[pass.cur])

RebootsHeld ==
  /\ bootKnown <= hostBoot
  /\ pc = "boot" => BootAsked
  /\ \A i \in spared : Remembered(i)

LEMMA RebootedSame ==
  ASSUME NEW i, Rebooted(i), docker'[i] = docker[i], startEra'[i] = startEra[i],
         UNCHANGED <<hostBoot, marker>>
  PROVE  Rebooted(i)'
BY DEF Rebooted, StoppedBefore

LEMMA RebootedHere ==
  ASSUME NEW i, Rebooted(i), UNCHANGED env
  PROVE  Rebooted(i)'
BY RebootedSame DEF env

\* Where no run is listed, to be visited or in hand.
LEMMA InViewElsewhere ==
  ASSUME NEW i, pc' \in Elsewhere
  PROVE  InView(i)'
BY DEF InView, Elsewhere, Forcing, Looping, Holding, Collected

\* The loop goes on, with this run neither in hand nor seen otherwise.
LEMMA InViewAlong ==
  ASSUME NEW i, InView(i), pc \in Looping, pc' \in Looping, pass'.snap = pass.snap,
         pass'.todo \subseteq pass.todo,
         pc' \in Holding \ {"boot"} /\ pass'.cur = i => pc' \in {"archive", "remove"} /\ pass'.rebooted
  PROVE  InView(i)'
BY DEF InView, Looping, Forcing, Collected

LEMMA InViewSame ==
  ASSUME NEW i, InView(i), UNCHANGED pc, TypeOK, Onward, RunsOf(mem', pass.pool) = RunsOf(mem, pass.pool)
  PROVE  InView(i)'
<1>1. pass'.rebooted = pass.rebooted
  BY DEF Onward, TypeOK, PassRec
<1> QED BY <1>1, OnwardFields DEF InView

LEMMA InViewErrors ==
  ASSUME NEW i, TypeOK, TInv, InView(i), Errors
  PROVE  InView(i)'
<1>1. CASE pc' = "idle"
  BY <1>1, InViewElsewhere DEF Elsewhere
<1>2. CASE pc \in Collected /\ SkipRun
  <2>1. /\ pc' = "visit" /\ pass'.snap = pass.snap /\ pass'.todo = pass.todo
        /\ pc \in Looping
    BY <1>2 DEF SkipRun, Loose, TypeOK, PassRec, Looping
  <2> QED BY <2>1, InViewAlong DEF Looping, Holding, Collected
<1> QED BY <1>1, <1>2, ErrorsKeep

\* The clean-up of a run begins, or that of another one.
LEMMA CleanupKnown ==
  ASSUME TInv, pc \in {"visit", "boot"}, UNCHANGED env, NEW i \in RunIds, NEW r \in RunRec,
         NEW rebooted \in BOOLEAN, rebooted, BeginCleanup(i, r, rebooted), Rebooted(i)
  PROVE  Rebooted(i)' /\ InView(i)'
<1>0. pass \in PassRec
  BY DEF TInv, TypeOK
<1>1. Rebooted(i)'
  BY RebootedHere
<1>2. CASE pass.moved
  <2>1. pc' = "visit" /\ pass' = [Passed(i) EXCEPT !.failed = TRUE]
    BY <1>2 DEF BeginCleanup
  <2>2. i \notin pass'.todo
    BY <1>0, <2>1 DEF Passed, PassRec
  <2> QED BY <1>1, <2>1, <2>2 DEF InView, Forcing, Looping, Holding, Collected
<1>3. CASE ~pass.moved
  <2> DEFINE c == Cleanup(r)
  <2>1. pc' \in {"archive", "remove"} /\ pass' = [Take(i, c) EXCEPT !.rebooted = rebooted]
    BY <1>3 DEF BeginCleanup
  <2> HIDE DEF c
  <2>2. i \notin pass'.todo /\ pass'.rebooted
    BY <1>0, <2>1 DEF Take, PassRec
  <2> QED BY <1>1, <2>1, <2>2 DEF InView, Forcing, Looping, Collected
<1> QED BY <1>2, <1>3

LEMMA CleanupOther ==
  ASSUME TInv, pc \in {"visit", "boot"}, UNCHANGED env, NEW k \in RunIds, NEW r \in RunRec,
         NEW rebooted, BeginCleanup(k, r, rebooted), NEW i \in RunIds \ {k}, Rebooted(i), InView(i)
  PROVE  Rebooted(i)' /\ InView(i)'
<1>0. pass \in PassRec /\ pc \in Looping
  BY DEF TInv, TypeOK, Looping, Collected
<1>1. Rebooted(i)'
  BY RebootedHere
<1>2. CASE pass.moved
  <2>1. pc' = "visit" /\ pass' = [Passed(k) EXCEPT !.failed = TRUE]
    BY <1>2 DEF BeginCleanup
  <2>2. pass'.todo \subseteq pass.todo /\ pass'.snap = pass.snap
    BY <1>0, <2>1 DEF Passed, PassRec
  <2> QED BY <1>0, <1>1, <2>1, <2>2, InViewAlong DEF Looping, Holding, Collected
<1>3. CASE ~pass.moved
  <2> DEFINE c == Cleanup(r)
  <2>1. pc' \in {"archive", "remove"} /\ pass' = [Take(k, c) EXCEPT !.rebooted = rebooted]
    BY <1>3 DEF BeginCleanup
  <2> HIDE DEF c
  <2>2. pass'.todo \subseteq pass.todo /\ pass'.snap = pass.snap /\ pass'.cur # i
    BY <1>0, <2>1 DEF Take, PassRec
  <2> QED BY <1>0, <1>1, <2>1, <2>2, InViewAlong DEF Looping, Collected
<1> QED BY <1>2, <1>3

\* The evidence and its view survive every step of a pass but the removal of
\* the container, which a pass with the verdict in hand carries out.
Survives(i) == (Rebooted(i) /\ InView(i))' \/ Settling(i)'

LEMMA RebootListed ==
  ASSUME TInv, pc' \in {"force", "remotes"}, UNCHANGED <<mem, env>>, pass'.snap = Snapshot,
         pass'.pool = pass.pool, NEW i \in RunIds, Rebooted(i)
  PROVE  Survives(i)
<1>1. i \in RunsOf(mem, pass.pool) => Snapshot[i] = "exited"
  BY DEF Snapshot, Rebooted
<1>2. InView(i)'
  BY <1>1 DEF InView, Looping, Holding, Collected
<1> QED BY <1>2, RebootedHere DEF Survives

LEMMA RebootList ==
  ASSUME TInv, Accord, List, NEW i \in RunIds, Rebooted(i)
  PROVE  Survives(i)
<1>0. pass \in PassRec /\ UNCHANGED env
  BY DEF List, TInv, TypeOK
<1>1. CASE pc' \in {"idle", "down"}
  BY <1>0, <1>1, RebootedHere, InViewElsewhere DEF Survives, Elsewhere
<1>2. CASE ~(Emptied(pass.pool) /\ ~pass.ps.running)
  <2>1. pc' = "force" /\ UNCHANGED mem
    BY <1>2 DEF List, Keep
  <2>2. pass'.snap = Snapshot /\ pass'.pool = pass.pool
    BY <1>0, <1>2 DEF List, PassRec
  <2> QED BY <1>0, <2>1, <2>2, RebootListed
<1>3. (Emptied(pass.pool) /\ ~pass.ps.running) => pc' \in {"idle", "down"}
  BY DEF List, DeletePool, PassEnds
<1> QED BY <1>1, <1>2, <1>3

\* The loop over the forced runs, none of which is this one.
LEMMA RebootForcing ==
  ASSUME TInv, Accord, World, pc \in Forcing, pc' \in Forcing \cup {"relist", "remotes"},
         pass'.snap = pass.snap, pass'.pool = pass.pool,
         NEW i \in RunIds, Rebooted(i), InView(i), Rebooted(i)',
         i \in RunsOf(mem', pass.pool) => i \in RunsOf(mem, pass.pool),
         pc' \in {"forceArchive", "forceRemove"} => pass'.cur # i
  PROVE  Survives(i)
BY DEF Survives, InView, Forcing, Looping, Holding, Collected

LEMMA RunPoolKept ==
  ASSUME mem \in States, NEW k \in Recorded(mem), NEW r, r.phase # "none", r.pool = mem.run[k].pool,
         mem'.run = [mem.run EXCEPT ![k] = r]
  PROVE  \A p : RunsOf(mem', p) = RunsOf(mem, p)
BY DEF RunsOf, Recorded, States

LEMMA RebootForceLoop ==
  ASSUME TInv, Accord, World, ForceLoop, NEW i \in RunIds, Rebooted(i), InView(i), ~Excused(i)
  PROVE  Survives(i)
<1>0. /\ pc = "force" /\ UNCHANGED env /\ pass \in PassRec /\ Rebooted(i)' /\ mem \in States
      /\ \A j \in pass.todo : /\ j \in RunIds /\ mem.run[j].force
                              /\ Agrees(pass.clone[j], mem.run[j])
  BY RebootedHere DEF ForceLoop, TInv, TypeOK, Accord, ClonesHeld, World, InFlightHeld, PassRec
<1>1. CASE ForceDone
  <2>1. pc' \in {"relist", "remotes"} /\ UNCHANGED <<mem, pass>>
    BY <1>1 DEF ForceDone, Keep
  <2> QED BY <1>0, <2>1, RebootForcing DEF Forcing
<1>2. ASSUME NEW k \in pass.todo, ForceNext(k) PROVE Survives(i)
  <2> DEFINE run == [pass.clone[k] EXCEPT !.phase = "cleanup"]
  <2>1. pass.clone[k] \in RunRec /\ Agrees(pass.clone[k], mem.run[k]) /\ k \in Recorded(mem)
    BY <1>0 DEF PassRec, Agrees, Recorded, Accord, ClonesHeld, Cloned
  <2>2. run \in RunRec /\ run.phase # "none" /\ run.pool = mem.run[k].pool
    BY <2>1, RunUpdateType DEF RunRec, Agrees
  <2>3. /\ mem' = [mem EXCEPT !.run[k] = run] /\ pass' = Take(k, run) /\ pc' \in Forcing
    BY <1>2 DEF ForceNext, Forcing, Save
  <2> HIDE DEF run
  <2>4. pass'.snap = pass.snap /\ pass'.pool = pass.pool /\ pass'.cur = k
    BY <1>0, <2>1, <2>3 DEF Take, PassRec
  <2>5. mem'.run = [mem.run EXCEPT ![k] = run]
    BY <1>0, <2>3 DEF States
  <2>6. RunsOf(mem', pass.pool) = RunsOf(mem, pass.pool)
    BY <1>0, <2>1, <2>2, <2>5, RunPoolKept
  <2>7. k # i
    BY <1>0 DEF Excused
  <2> QED BY <1>0, <2>3, <2>4, <2>6, <2>7, RebootForcing DEF Forcing
<1> QED BY <1>1, <1>2 DEF ForceLoop

LEMMA RebootForceArchive ==
  ASSUME TInv, Accord, World, ForceArchive, NEW i \in RunIds, Rebooted(i), InView(i), ~Excused(i)
  PROVE  Survives(i)
<1> DEFINE r == [pass.clone[pass.cur] EXCEPT !.logSaved = TRUE]
<1>1. /\ pc = "forceArchive" /\ pass.cur \in Recorded(mem) /\ r.phase = "cleanup"
      /\ r.pool = mem.run[pass.cur].pool /\ pc' = "forceRemove" /\ UNCHANGED env
      /\ mem'.run = [mem.run EXCEPT ![pass.cur] = r]
      /\ pass'.pool = pass.pool /\ pass'.snap = pass.snap /\ pass'.cur = pass.cur
  BY ArchivedFacts DEF ForceArchive
<1> HIDE DEF r
<1>2. RunsOf(mem', pass.pool) = RunsOf(mem, pass.pool)
  BY <1>1, RunPoolKept DEF TInv, TypeOK
<1>3. pass.cur # i
  BY <1>1 DEF World, InFlightHeld, Excused
<1> QED BY <1>1, <1>2, <1>3, RebootedHere, RebootForcing DEF Forcing

\* The commands that take a container away.
LEMMA RebootVanishes ==
  ASSUME TInv, Vanishes(pass.cur), pass.cur \in RunIds, NEW i \in RunIds \ {pass.cur}, Rebooted(i)
  PROVE  Rebooted(i)'
BY RebootedSame DEF Vanishes, TInv, TypeOK

LEMMA RebootForceRemove ==
  ASSUME TInv, Accord, World, ForceRemove, NEW i \in RunIds, Rebooted(i), InView(i), ~Excused(i)
  PROVE  Survives(i)
<1>0. /\ pc = "forceRemove" /\ Vanishes(pass.cur) /\ pass \in PassRec /\ pass.cur \in RunIds
      /\ TypeOK
  BY DEF ForceRemove, TInv, TypeOK, Shape, Holding
<1>1. pass.cur # i
  BY <1>0 DEF World, InFlightHeld, Excused
<1>2. Rebooted(i)'
  BY <1>0, <1>1, RebootVanishes
<1>3. CASE Errors
  BY <1>0, <1>2, <1>3, InViewErrors DEF Survives
<1>4. CASE ~Errors
  <2>1. pc' = "force" /\ mem' = mem /\ pass' = [pass EXCEPT !.cur = NoId, !.clone[pass.cur] = NoRun]
    BY <1>4 DEF ForceRemove, Keep
  <2>2. pass'.snap = pass.snap /\ pass'.pool = pass.pool
    BY <1>0, <2>1 DEF PassRec
  <2> QED BY <1>0, <1>2, <2>1, <2>2, RebootForcing DEF Forcing
<1> QED BY <1>3, <1>4

LEMMA RebootRelist ==
  ASSUME TInv, Relist, NEW i \in RunIds, Rebooted(i)
  PROVE  Survives(i)
<1>1. pc' = "remotes" /\ UNCHANGED <<mem, env>> /\ pass' = [pass EXCEPT !.snap = Snapshot]
  BY DEF Relist, Keep
<1>2. pass'.snap = Snapshot /\ pass'.pool = pass.pool
  BY <1>1 DEF TInv, TypeOK, PassRec
<1> QED BY <1>1, <1>2, RebootListed

LEMMA RebootRemotes ==
  ASSUME TInv, Remotes, NEW i \in RunIds, Rebooted(i), InView(i)
  PROVE  Survives(i)
<1>0. /\ pc = "remotes" /\ pc' = "visit" /\ UNCHANGED env
      /\ pass' = [pass EXCEPT !.todo = RunsOf(mem, pass.pool)]
  BY DEF Remotes
<1>1. pass'.snap = pass.snap /\ pass'.todo = RunsOf(mem, pass.pool)
  BY <1>0 DEF TInv, TypeOK, PassRec
<1>2. InView(i)'
  BY <1>0, <1>1 DEF InView, Forcing, Holding, Collected
<1> QED BY <1>0, <1>2, RebootedHere DEF Survives


LEMMA RebootEnds ==
  ASSUME NEW i, Rebooted(i), UNCHANGED <<docker, startEra, hostBoot, marker>>, pc' \in Elsewhere
  PROVE  Survives(i)
BY RebootedSame, InViewElsewhere DEF Survives

LEMMA RebootVisit ==
  ASSUME TInv, Accord, World, Visit, NEW i \in RunIds, Rebooted(i), InView(i), ~Excused(i)
  PROVE  Survives(i)
<1>0. /\ pc = "visit" /\ pc \in Looping /\ UNCHANGED env /\ mem \in States /\ pass \in PassRec
      /\ pass.todo \subseteq RunsOf(mem, pass.pool) /\ Rebooted(i)'
  BY RebootedHere DEF Visit, TInv, TypeOK, Accord, TodoHeld, Looping
<1>1. ASSUME pc' \in Elsewhere PROVE Survives(i)
  BY <1>0, <1>1, RebootEnds DEF env
<1>2. CASE pass.todo = {}
  <2>1. pc' \in {"idle", "down", "image"}
    BY <1>0, <1>2 DEF Visit, LoopEnds, PassEnds, DeletePool, Goto
  <2> QED BY <1>1, <2>1 DEF Elsewhere
<1>3. ASSUME NEW k \in pass.todo,
             VisitRunning(k) \/ VisitStart(k) \/ VisitStopped(k) \/ VisitGone(k)
      PROVE  Survives(i)
  <2>0. k \in RunIds /\ mem.run[k] \in RunRec
    BY <1>0 DEF RunsOf, Recorded, States
  <2>1. ASSUME pc' = "visit", pass' = Passed(k) \/ pass' = [Passed(k) EXCEPT !.failed = TRUE]
        PROVE  Survives(i)
    <3>1. pass'.snap = pass.snap /\ pass'.todo \subseteq pass.todo
      BY <1>0, <2>1 DEF Passed, PassRec
    <3> QED BY <1>0, <2>1, <3>1, InViewAlong DEF Survives, Looping, Holding, Collected
  <2>2. ASSUME NEW r, pass' = Take(k, r)
        PROVE  /\ pass'.snap = pass.snap /\ pass'.todo = pass.todo \ {k} /\ pass'.cur = k
    BY <1>0, <2>0, <2>2 DEF Take, PassRec
  <2>3. ASSUME pc' \in Looping, NEW r, pass' = Take(k, r), k # i \/ pc' = "boot" PROVE Survives(i)
    BY <1>0, <2>2, <2>3, InViewAlong DEF Survives
  <2>4. ASSUME PassEnds(mem, FALSE) PROVE Survives(i)
    BY <1>1, <2>4 DEF PassEnds, Elsewhere
  <2>5. k = i => pass.snap[k] = "exited"
    BY <1>0 DEF InView
  <2>6. NeedsStart(k) => k # i
    BY <2>5 DEF NeedsStart
  <2>7. CASE VisitRunning(k)
    BY <2>1, <2>7 DEF VisitRunning
  <2>8. CASE VisitStart(k)
    BY <2>1, <2>3, <2>4, <2>6, <2>8 DEF VisitStart, Looping
  <2>9. CASE VisitGone(k)
    BY <2>1, <2>3, <2>5, <2>9 DEF VisitGone, Looping, Collected
  <2>10. CASE VisitStopped(k)
    <3> DEFINE run == [mem.run[k] EXCEPT !.completed = k \in marker]
               known == StoppedBefore(k, bootKnown)
               asks == Unexpected(run) /\ startEra[k] # 0 /\ ~known
    <3>1. (k \in marker) \in BOOLEAN /\ (Unexpected(run) /\ known) \in BOOLEAN
      BY DEF Unexpected
    <3>2. run \in RunRec
      BY <2>0, <3>1, CompletedType
    <3>3. CASE pc' = "boot" /\ pass' = Take(k, run)
      BY <2>3, <3>3 DEF Looping
    <3>4. CASE k # i /\ BeginCleanup(k, run, Unexpected(run) /\ known)
      BY <1>0, <2>0, <3>2, <3>4, CleanupOther DEF Survives
    <3>5. CASE k = i /\ ~asks /\ BeginCleanup(k, run, Unexpected(run) /\ known)
      <4>1. ~mem.run[k].retiring /\ ~mem.run[k].force /\ k \notin marker /\ startEra[k] # 0
        BY <3>5 DEF Excused, Rebooted, StoppedBefore
      <4>2. ~run.completed /\ ~run.retiring /\ ~run.force
        BY <2>0, <4>1 DEF RunRec
      <4>3. Unexpected(run)
        BY <4>2 DEF Unexpected
      <4>4. Unexpected(run) /\ known
        BY <3>5, <4>1, <4>3
      <4> HIDE DEF run, known
      <4> QED BY <1>0, <3>1, <3>2, <3>5, <4>4, CleanupKnown DEF Survives
    <3> QED BY <2>4, <2>10, <3>3, <3>4, <3>5 DEF VisitStopped
  <2> QED BY <1>3, <2>7, <2>8, <2>9, <2>10
<1> QED BY <1>2, <1>3 DEF Visit

LEMMA RebootReadBoot ==
  ASSUME TInv, Accord, World, ReadBoot, ~BootUnread, NEW i \in RunIds, Rebooted(i), InView(i)
  PROVE  Survives(i)
<1>0. /\ pc = "boot" /\ UNCHANGED env /\ pass.cur \in RunIds /\ pass.clone[pass.cur] \in RunRec
  BY HandFacts DEF ReadBoot, Looping
<1>1. CASE ~Undisturbed
  BY <1>0, <1>1, RebootEnds DEF ReadBoot, PassEnds, Elsewhere, env
<1>2. CASE Undisturbed
  <2>1. PICK boot : /\ bootKnown' = boot
                    /\ BeginCleanup(pass.cur, pass.clone[pass.cur], StoppedBefore(pass.cur, boot))
    BY <1>0, <1>2 DEF ReadBoot
  <2>2. StoppedBefore(pass.cur, boot) \in BOOLEAN
    BY DEF StoppedBefore
  <2>3. CASE pass.cur # i
    BY <1>0, <2>1, <2>2, <2>3, CleanupOther DEF Survives
  <2>4. CASE pass.cur = i
    <3>1. pc' \in {"archive", "remove"}
      BY <1>2, <2>1 DEF BeginCleanup, Undisturbed
    <3>2. boot = hostBoot
      BY <1>0, <2>1, <3>1 DEF BootUnread
    <3>3. StoppedBefore(pass.cur, boot)
      BY <2>4, <3>2 DEF Rebooted
    <3> QED BY <1>0, <2>1, <2>2, <2>4, <3>3, CleanupKnown DEF Survives
  <2> QED BY <2>3, <2>4
<1> QED BY <1>1, <1>2

\* The commands that start a container, on another run.
LEMMA RebootPrepare ==
  ASSUME TInv, Prepare, NEW i \in RunIds, Rebooted(i), InView(i)
  PROVE  Survives(i)
<1>1. /\ pc = "prepare" /\ pc' \in {"create", "start"} /\ UNCHANGED <<pass, env>>
  BY DEF Prepare, Goto
<1>2. pass.cur # i
  BY <1>1 DEF InView, Holding
<1> QED BY <1>1, <1>2, RebootedHere, InViewAlong DEF Survives, Looping

LEMMA RebootCreateContainer ==
  ASSUME TInv, CreateContainer, NEW i \in RunIds, Rebooted(i), InView(i)
  PROVE  Survives(i)
<1>1. /\ pc = "create" /\ docker' = [docker EXCEPT ![pass.cur] = "created"] /\ TypeOK
      /\ UNCHANGED <<startEra, hostBoot, marker>>
  BY DEF CreateContainer, TInv
<1>2. pass.cur # i
  BY <1>1 DEF InView, Holding
<1>3. Rebooted(i)'
  BY <1>1, <1>2, RebootedSame DEF TypeOK
<1>4. CASE Errors
  BY <1>1, <1>3, <1>4, InViewErrors DEF Survives
<1>5. CASE Goto("start")
  <2>1. pc' = "start" /\ UNCHANGED pass
    BY <1>5 DEF Goto
  <2> QED BY <1>1, <1>2, <1>3, <2>1, InViewAlong DEF Survives, Looping
<1> QED BY <1>4, <1>5 DEF CreateContainer

LEMMA RebootStartContainer ==
  ASSUME TInv, StartContainer, NEW i \in RunIds, Rebooted(i), InView(i)
  PROVE  Survives(i)
<1>1. /\ pc = "start" /\ docker' = [docker EXCEPT ![pass.cur] = "running"] /\ TypeOK
      /\ \E e : startEra' = [startEra EXCEPT ![pass.cur] = e]
      /\ UNCHANGED <<hostBoot, marker>>
  BY DEF StartContainer, Starts, TInv
<1>2. pass.cur # i
  BY <1>1 DEF InView, Holding
<1>3. Rebooted(i)'
  BY <1>1, <1>2, RebootedSame DEF TypeOK
<1>4. CASE Errors
  BY <1>1, <1>3, <1>4, InViewErrors DEF Survives
<1>5. CASE pc' = "visit" /\ pass' = Loose
  <2>1. pass'.snap = pass.snap /\ pass'.todo = pass.todo
    BY <1>1, <1>5 DEF Loose, TypeOK, PassRec
  <2> QED BY <1>1, <1>3, <1>5, <2>1, InViewAlong DEF Survives, Looping, Holding, Collected
<1> QED BY <1>4, <1>5 DEF StartContainer

\* The clean-up goes on with the verdict in hand.
LEMMA RebootArchive ==
  ASSUME TInv, Archive, NEW i \in RunIds, Rebooted(i), InView(i)
  PROVE  Survives(i)
<1> DEFINE r == [pass.clone[pass.cur] EXCEPT !.logSaved = TRUE]
<1>1. /\ pc = "archive" /\ pc' = "remove" /\ UNCHANGED env /\ pass \in PassRec
      /\ pass' = [pass EXCEPT !.clone[pass.cur] = r]
  BY DEF Archive, Archived, TInv, TypeOK
<1> HIDE DEF r
<1>2. /\ pass'.snap = pass.snap /\ pass'.todo = pass.todo /\ pass'.cur = pass.cur
      /\ pass'.rebooted = pass.rebooted
  BY <1>1 DEF PassRec
<1>3. pass.cur = i => pass.rebooted
  BY <1>1 DEF InView, Holding, Collected
<1> QED BY <1>1, <1>2, <1>3, RebootedHere, InViewAlong DEF Survives, Looping, Collected

LEMMA RebootRemoveContainer ==
  ASSUME TInv, RemoveContainer, ~CutShort, NEW i \in RunIds, Rebooted(i), InView(i)
  PROVE  Survives(i)
<1>1. /\ pc = "remove" /\ Vanishes(pass.cur) /\ TypeOK /\ pass.cur \in RunIds
      /\ Errors \/ (pc' = "fresh" /\ UNCHANGED pass)
  BY DEF RemoveContainer, Goto, TInv, Shape, Holding, Collected
<1>2. CASE pass.cur = i
  <2>1. pass.rebooted
    BY <1>1, <1>2 DEF InView, Holding, Collected
  <2>2. docker'[pass.cur] = "none"
    BY <1>1 DEF Vanishes, TypeOK
  <2>3. pc' = "fresh" /\ UNCHANGED pass
    <3>1. pc' = "fresh"
      BY <1>1, <1>2, <2>1, <2>2 DEF CutShort, Rebooted
    <3> QED BY <1>1, <3>1, ErrorsKeep DEF SkipRun
  <2> QED BY <1>2, <2>1, <2>3 DEF Survives, Settling, Finishing
<1>3. CASE pass.cur # i
  <2>1. Rebooted(i)'
    BY <1>1, <1>3, RebootVanishes
  <2>2. CASE Errors
    BY <1>1, <2>1, <2>2, InViewErrors DEF Survives
  <2>3. CASE pc' = "fresh" /\ UNCHANGED pass
    BY <1>1, <1>3, <2>1, <2>3, InViewAlong DEF Survives, Looping, Collected
  <2> QED BY <1>1, <2>2, <2>3
<1> QED BY <1>2, <1>3

\* What the commands after the removal leave of the other runs.
LEMMA RebootFinish ==
  ASSUME TInv, pc \in Finishing, pass.cur \in RunIds, FreshList \/ Unregister \/ Repair
  PROVE  /\ UNCHANGED <<docker, hostBoot>> /\ marker' \subseteq marker
         /\ \A i \in RunIds \ {pass.cur} : startEra'[i] = startEra[i]
         /\ \/ Errors
            \/ /\ pc' \in Finishing \cup {"visit"} /\ pass'.snap = pass.snap
               /\ pass'.todo = pass.todo
               /\ pc' \in Finishing => pass' = pass
<1>0. pass \in PassRec /\ startEra \in [RunIds -> Nat]
  BY DEF TInv, TypeOK
<1> DEFINE Claim == /\ marker' \subseteq marker
                    /\ \A i \in RunIds \ {pass.cur} : startEra'[i] = startEra[i]
                    /\ pc' \in Finishing \cup {"visit"} /\ pass'.snap = pass.snap
                    /\ pass'.todo = pass.todo
                    /\ pc' \in Finishing => pass' = pass
<1>1. ASSUME FinishRun(pass.cur) PROVE Claim
  BY <1>0, <1>1 DEF FinishRun, Loose, PassRec, Finishing
<1>2. ASSUME NEW next \in Finishing, Goto(next), UNCHANGED <<startEra, marker>> PROVE Claim
  BY <1>2 DEF Goto
<1>3. ASSUME SkipRun, UNCHANGED <<startEra, marker>> PROVE Claim
  BY <1>0, <1>3 DEF SkipRun, Loose, PassRec, Finishing
<1>4. ASSUME RemoveDirectory PROVE Claim
  BY <1>1, <1>2, <1>3, <1>4 DEF RemoveDirectory, Finishing
<1> HIDE DEF Claim
<1>5. CASE FreshList
  <2>1. UNCHANGED <<docker, hostBoot>> /\ Claim
    BY <1>2, <1>4, <1>5 DEF FreshList, Finishing
  <2> QED BY <2>1 DEF Claim
<1>6. CASE Unregister
  <2>1. UNCHANGED <<docker, hostBoot>> /\ (Claim \/ (Errors /\ UNCHANGED <<startEra, marker>>))
    BY <1>4, <1>6 DEF Unregister
  <2> QED BY <2>1 DEF Claim
<1>7. CASE Repair
  <2>1. UNCHANGED <<docker, hostBoot>> /\ Claim
    BY <1>1, <1>7 DEF Repair
  <2> QED BY <2>1 DEF Claim
<1> QED BY <1>5, <1>6, <1>7

LEMMA RebootFinishing ==
  ASSUME TInv, FreshList \/ Unregister \/ Repair, NEW i \in RunIds, Rebooted(i), InView(i)
  PROVE  Survives(i)
<1>1. pc \in Finishing /\ pass.cur \in RunIds /\ TypeOK /\ pc \in Looping
  BY DEF FreshList, Unregister, Repair, Finishing, TInv, Shape, Holding, Looping, Collected
<1>2. pass.cur # i
  BY <1>1 DEF InView, Holding, Collected, Finishing
<1>3. Rebooted(i)'
  BY <1>1, <1>2, RebootFinish DEF Rebooted, StoppedBefore
<1>4. CASE Errors
  BY <1>1, <1>3, <1>4, InViewErrors DEF Survives
<1>5. CASE ~Errors
  <2>1. /\ pc' \in Finishing \cup {"visit"} /\ pass'.snap = pass.snap /\ pass'.todo = pass.todo
        /\ pc' \in Finishing => pass' = pass
    BY <1>1, <1>5, RebootFinish
  <2>2. pc' \in Looping /\ ~(pc' \in Holding /\ pass'.cur = i)
    BY <1>2, <2>1 DEF Finishing, Looping, Holding, Collected
  <2> QED BY <1>1, <1>3, <2>1, <2>2, InViewAlong DEF Survives
<1> QED BY <1>4, <1>5

\* A command fails, the manager ends or starts, a request comes in, time passes.
LEMMA RebootFails ==
  ASSUME TInv, CommandFails \/ CommandTimesOut, NEW i \in RunIds, Rebooted(i), InView(i)
  PROVE  Survives(i)
<1>1. Errors /\ UNCHANGED <<docker, startEra, hostBoot, marker>> /\ TypeOK
  BY DEF CommandFails, CommandTimesOut, env, TInv
<1> QED BY <1>1, RebootedSame, InViewErrors DEF Survives

LEMMA RebootTick ==
  ASSUME NEW p \in Pools, Tick(p), NEW i, Rebooted(i)
  PROVE  Survives(i)
<1>1. pc' = "list" /\ UNCHANGED <<docker, startEra, hostBoot, marker>>
  BY DEF Tick, env
<1> QED BY <1>1, RebootEnds DEF Elsewhere

LEMMA RebootElsewhere ==
  ASSUME Crash \/ Restart \/ Replenish, NEW i, Rebooted(i)
  PROVE  Survives(i)
<1>1. CASE Crash \/ Restart
  BY <1>1, RebootEnds DEF Crash, Restart, Elsewhere, env
<1>2. CASE Replenish
  <2>1. pc' = "idle" /\ UNCHANGED env
    BY <1>2 DEF Replenish, PassEnds
  <2> QED BY <2>1, RebootEnds DEF Elsewhere, env
<1> QED BY <1>1, <1>2

LEMMA RebootSamePass ==
  ASSUME TypeOK, UNCHANGED <<pc, docker, startEra, hostBoot, marker>>, Onward, NEW i, Rebooted(i),
         InView(i), RunsOf(mem', pass.pool) = RunsOf(mem, pass.pool)
  PROVE  Survives(i)
BY RebootedSame, InViewSame DEF Survives

LEMMA RebootRequest ==
  ASSUME TInv, Accord, Request, NEW i, Rebooted(i), InView(i)
  PROVE  Survives(i)
<1>1. UNCHANGED <<pc, docker, startEra, hostBoot, marker>> /\ TypeOK
  BY KeptRequest DEF env, TInv
<1>2. RunsOf(mem', pass.pool) = RunsOf(mem, pass.pool)
  BY KeptRequest, KeptSets
<1>3. Onward
  BY KeptRequest DEF RefusedStatus, MoveEpoch, Onward
<1> QED BY <1>1, <1>2, <1>3, RebootSamePass

LEMMA RebootBackoff ==
  ASSUME TInv, NEW p \in Pools, BackoffExpires(p), NEW i, Rebooted(i), InView(i)
  PROVE  Survives(i)
<1>1. UNCHANGED <<pc, pass, docker, startEra, hostBoot, marker>> /\ mem \in States /\ TypeOK
  BY DEF BackoffExpires, env, TInv, TypeOK
<1>2. mem'.run = mem.run
  BY <1>1 DEF BackoffExpires, Arm, States
<1>3. RunsOf(mem', pass.pool) = RunsOf(mem, pass.pool)
  BY <1>2 DEF RunsOf, Recorded
<1> QED BY <1>1, <1>3, RebootSamePass DEF Onward

\* The host leaves a container that exited as it is, and a reboot only moves on.
LEMMA HostLeaves ==
  ASSUME TInv, World, NEW k \in RunIds, NEW i \in RunIds, Rebooted(i),
         \/ LateLands(k) \/ Registers(k) \/ JobCompletes(k) \/ GitHubForgets(k)
         \/ ContainerExits(k) \/ HostReboots
  PROVE  Rebooted(i)' /\ UNCHANGED <<mem, pc, pass>>
<1>0. /\ docker \in [RunIds -> Statuses] /\ startEra \in [RunIds -> Nat] /\ hostBoot \in Nat
      /\ docker[i] = "exited" /\ i \notin marker
  BY DEF TInv, TypeOK, Rebooted
<1>1. CASE LateLands(k)
  <2>1. late[i] \notin {"create", "start"}
    BY <1>0 DEF World, Containers
  <2>2. docker'[i] = docker[i] /\ startEra'[i] = startEra[i]
    BY <1>0, <1>1, <2>1 DEF LateLands, Starts
  <2>3. UNCHANGED <<hostBoot, marker, mem, pc, pass>>
    BY <1>1 DEF LateLands
  <2> QED BY <2>2, <2>3, RebootedSame
<1>2. CASE Registers(k) \/ GitHubForgets(k)
  BY <1>2, RebootedSame DEF Registers, GitHubForgets, host
<1>3. CASE JobCompletes(k)
  BY <1>0, <1>3 DEF JobCompletes, host, Rebooted, StoppedBefore
<1>4. CASE ContainerExits(k)
  <2>1. docker'[i] = docker[i] /\ UNCHANGED <<startEra, hostBoot, marker, mem, pc, pass>>
    BY <1>0, <1>4 DEF ContainerExits
  <2> QED BY <2>1, RebootedSame
<1>5. CASE HostReboots
  <2>1. /\ docker'[i] = "exited" /\ hostBoot' = hostBoot + 1
        /\ UNCHANGED <<startEra, marker, mem, pc, pass>>
    BY <1>0, <1>5 DEF HostReboots
  <2>2. startEra[i] \in Nat
    BY <1>0
  <2>3. StoppedBefore(i, hostBoot)'
    BY <1>0, <2>1, <2>2 DEF StoppedBefore, Rebooted
  <2> QED BY <1>0, <2>1, <2>3 DEF Rebooted
<1> QED BY <1>1, <1>2, <1>3, <1>4, <1>5

LEMMA RebootEnvironment ==
  ASSUME TInv, World, Environment, NEW i \in RunIds, Rebooted(i), InView(i)
  PROVE  Survives(i)
<1>1. ASSUME NEW k \in RunIds,
             \/ LateLands(k) \/ Registers(k) \/ JobCompletes(k) \/ GitHubForgets(k)
             \/ ContainerExits(k) \/ HostReboots
      PROVE  Survives(i)
  <2>1. Rebooted(i)' /\ UNCHANGED <<mem, pc, pass>>
    BY <1>1, HostLeaves
  <2> QED BY <2>1, InViewSame DEF Survives, Onward, TInv
<1> QED BY <1>1, RebootBackoff DEF Environment

LEMMA RebootSurvives ==
  ASSUME TInv, Accord, World, [Next]_vars, ~CutShort, ~BootUnread,
         NEW i \in RunIds, Rebooted(i), InView(i), ~Excused(i)
  PROVE  Survives(i)
<1>1. CASE UNCHANGED vars
  BY <1>1, RebootSamePass DEF vars, Onward, TInv
<1>2. CASE Pass
  BY <1>2, RebootTick, RebootElsewhere, RebootFails, RebootList, RebootForceLoop, RebootForceArchive,
     RebootForceRemove, RebootRelist, RebootRemotes, RebootVisit, RebootReadBoot, RebootPrepare,
     RebootCreateContainer, RebootStartContainer, RebootArchive, RebootRemoveContainer,
     RebootFinishing DEF Pass
<1> QED BY <1>1, <1>2, RebootElsewhere, RebootRequest, RebootEnvironment DEF Next

-----------------------------------------------------------------------------
(* Every run recognised as stopped by a reboot stays remembered as one.    *)

\* After the removal only the end of the clean-up lets go of the run.
LEMMA SettlingStays ==
  ASSUME TInv, [Next]_vars, ~CutShort, NEW i \in RunIds, Settling(i)
  PROVE  Settling(i)' \/ i \notin Recorded(mem')
<1>0. /\ pc \in Finishing /\ pc \in {"fresh", "unregister", "repair"} /\ pass.cur = i /\ pass.rebooted
      /\ pass \in PassRec
  BY DEF Settling, Finishing, TInv, TypeOK
<1>1. ASSUME pc' \in {"visit", "down"} PROVE i \notin Recorded(mem')
  BY <1>0, <1>1 DEF CutShort
<1>2. ASSUME pc' = pc, pass' = pass \/ pass' = [pass EXCEPT !.moved = TRUE] PROVE Settling(i)'
  BY <1>0, <1>2 DEF Settling, PassRec
<1>3. CASE Errors
  BY <1>0, <1>1, <1>3 DEF Errors, SkipRun, Fatal
<1>4. CASE FreshList \/ Unregister \/ Repair
  BY <1>0, <1>1, <1>3, <1>4, RebootFinish DEF Settling
<1>5. CASE Pass
  <2>1. \A p \in Pools : ~Tick(p)
    BY <1>0 DEF Tick
  <2>2. ~(List \/ ForceLoop \/ ForceArchive \/ ForceRemove \/ Relist \/ Remotes \/ Visit \/ ReadBoot)
    BY <1>0 DEF List, ForceLoop, ForceArchive, ForceRemove, Relist, Remotes, Visit, ReadBoot
  <2>3. ~(Prepare \/ CreateContainer \/ StartContainer \/ Archive \/ RemoveContainer \/ Replenish)
    BY <1>0 DEF Prepare, CreateContainer, StartContainer, Archive, RemoveContainer, Replenish
  <2> QED BY <1>3, <1>4, <1>5, <2>1, <2>2, <2>3 DEF Pass, CommandFails, CommandTimesOut
<1>6. CASE Request
  <2>1. pc' = pc /\ (pass' = pass \/ pass' = [pass EXCEPT !.moved = TRUE])
    BY <1>6, Zenon DEF Request, Start, Stop, Remove, Add, Scale, Upgrade, Auth, Apply, Refused,
                       RefusedStatus, Configured, Handled, MoveEpoch
  <2> QED BY <1>2, <2>1
<1>7. CASE Crash
  BY <1>1, <1>7 DEF Crash
<1>8. ~Restart
  BY <1>0 DEF Restart
<1>9. CASE Environment
  BY <1>2, <1>9 DEF Environment, BackoffExpires, LateLands, Registers, JobCompletes,
                    GitHubForgets, ContainerExits, HostReboots
<1>10. CASE UNCHANGED vars
  BY <1>2, <1>10 DEF vars
<1> QED BY <1>5, <1>6, <1>7, <1>8, <1>9, <1>10 DEF Next

\* An exit that is not counted stays so, while the run is remembered.
LEMMA ExcusedStays ==
  ASSUME TInv, TInv', Accord, [Next]_vars, NEW i \in spared \cap spared', i \in RunIds, Excused(i)
  PROVE  Excused(i)'
<1>1. ASSUME Replenish PROVE i \in Recorded(mem') => i \in Recorded(mem)
  <2>1. PICK k \in RunIds, ok \in BOOLEAN :
          /\ PassEnds([mem EXCEPT !.run[k] = NewRun(pass.pool, pass.ps.gen)], ok)
          /\ spared' = spared \ {k}
    BY <1>1 DEF Replenish
  <2> DEFINE s == [mem EXCEPT !.run[k] = NewRun(pass.pool, pass.ps.gen)]
  <2>2. mem \in States /\ pass.pool \in Pools /\ pass.ps \in PoolRec
    BY <1>1 DEF Replenish, TInv, TypeOK, Shape, PassRec
  <2>a. NewRun(pass.pool, pass.ps.gen) \in RunRec
    BY <2>2, ConstantTypes DEF PoolRec
  <2>b. i # k
    BY <2>1
  <2>3. s \in States /\ s.run[i] = mem.run[i]
    BY <2>2, <2>a, <2>b, SetRunType DEF States
  <2>4. PassEnds(s, ok)
    BY <2>1
  <2> HIDE DEF s
  <2>5. mem'.run = s.run
    BY <2>2, <2>3, <2>4, EndsKeep
  <2> QED BY <2>3, <2>5 DEF Recorded
<1>2. i \in Recorded(mem') => i \in Recorded(mem)
  BY <1>1, StepGood
<1>3. Forward(mem, mem')
  BY StepGood DEF Good
<1> QED BY <1>2, <1>3 DEF Excused, Forward

\* Only the visit of a run, or the answer it waits for, recognises it.
LEMMA NextSpares ==
  ASSUME [Next]_vars
  PROVE  spared' \subseteq spared \/ Visit \/ ReadBoot
<1>0. ASSUME NEW p \in Pools, Tick(p) PROVE spared' = spared
  BY <1>0 DEF Tick, ghosts
<1>1. CASE Pass
  BY <1>0, <1>1 DEF Pass, CommandFails, CommandTimesOut, List, ForceLoop, ForceArchive, ForceRemove,
              Relist, Remotes, Prepare, CreateContainer, StartContainer, Archive, Archived,
              RemoveContainer, FreshList, Unregister, Repair, Replenish, ghosts
<1>2. CASE Request
  BY <1>2, Zenon DEF Request, Start, Stop, Remove, Add, Scale, Upgrade, Auth, Apply, Refused,
                     RefusedStatus, Configured, Handled, ghosts
<1>3. CASE Crash \/ Restart \/ UNCHANGED vars
  BY <1>3 DEF Crash, Restart, ghosts, vars
<1>4. CASE Environment
  BY <1>4 DEF Environment, BackoffExpires, LateLands, Registers, JobCompletes, GitHubForgets,
              ContainerExits, HostReboots, ghosts
<1> QED BY <1>1, <1>2, <1>3, <1>4 DEF Next

\* What the engine knows of the boots is no news to the host.
LEMMA EarlierBoot ==
  ASSUME TInv, NEW i \in RunIds, NEW boot \in Nat, boot <= hostBoot, StoppedBefore(i, boot)
  PROVE  StoppedBefore(i, hostBoot)
BY DEF StoppedBefore, TInv, TypeOK

LEMMA SparedByVisit ==
  ASSUME TInv, Accord, World, Verdicts, Visit, bootKnown <= hostBoot, NEW i \in spared' \ spared
  PROVE  Rebooted(i)' /\ InView(i)'
<1>0. /\ pc = "visit" /\ pc \in Looping /\ UNCHANGED env /\ mem \in States
      /\ pass.todo \subseteq RunsOf(mem, pass.pool)
  BY DEF Visit, TInv, TypeOK, Accord, TodoHeld, Looping
<1>1. PICK k \in pass.todo : VisitStopped(k)
  BY DEF Visit, VisitRunning, VisitStart, VisitGone, ghosts
<1>2. k \in RunIds /\ mem.run[k] \in RunRec /\ bootKnown \in Nat
  BY <1>0 DEF RunsOf, Recorded, States, TInv, TypeOK
<1> DEFINE run == [mem.run[k] EXCEPT !.completed = k \in marker]
           known == StoppedBefore(k, bootKnown)
           rebooted == Unexpected(run) /\ known
<1>3. BeginCleanup(k, run, rebooted)
  BY <1>1 DEF VisitStopped, ghosts
<1>4. i = k /\ rebooted
  BY <1>3 DEF BeginCleanup
<1>5. (k \in marker) \in BOOLEAN /\ rebooted \in BOOLEAN
  BY DEF Unexpected
<1>6. run \in RunRec
  BY <1>2, <1>5, CompletedType
<1>7. k \notin marker /\ ~mem.run[k].retiring
  BY <1>2, <1>4 DEF Unexpected, RunRec
<1>8. Ended(k)
  BY <1>0, <1>1, <1>2, <1>7, StoppedEnded DEF VisitStopped
<1>9. docker[k] # "none"
  BY <1>0, <1>1 DEF VisitStopped, World, Listing, SeenThere
<1>10. StoppedBefore(k, hostBoot)
  BY <1>2, <1>4, EarlierBoot
<1>11. Rebooted(k)
  BY <1>7, <1>8, <1>9, <1>10 DEF Rebooted, Ended
<1> HIDE DEF run, rebooted
<1> QED BY <1>0, <1>2, <1>3, <1>4, <1>5, <1>6, <1>11, CleanupKnown

LEMMA SparedByReadBoot ==
  ASSUME TInv, Accord, World, Verdicts, ReadBoot, bootKnown <= hostBoot,
         docker[pass.cur] # "none", Unexpected(pass.clone[pass.cur]), NEW i \in spared' \ spared
  PROVE  Rebooted(i)' /\ InView(i)'
<1>0. /\ pc = "boot" /\ UNCHANGED env /\ pass.cur \in RunIds /\ pass.clone[pass.cur] \in RunRec
      /\ bootKnown \in Nat /\ hostBoot \in Nat
  BY HandFacts DEF ReadBoot, Looping, TypeOK
<1>1. PICK boot \in {bootKnown, hostBoot} :
        BeginCleanup(pass.cur, pass.clone[pass.cur], StoppedBefore(pass.cur, boot))
  BY DEF ReadBoot
<1>2. i = pass.cur /\ StoppedBefore(pass.cur, boot)
  BY <1>1 DEF BeginCleanup
<1>3. Ended(pass.cur)
  BY <1>0 DEF Verdicts, HandJudged
<1>4. StoppedBefore(pass.cur, hostBoot)
  BY <1>0, <1>2, EarlierBoot
<1>5. Rebooted(pass.cur)
  BY <1>3, <1>4 DEF Rebooted, Ended
<1>6. StoppedBefore(pass.cur, boot) \in BOOLEAN
  BY DEF StoppedBefore
<1> QED BY <1>0, <1>1, <1>2, <1>5, <1>6, CleanupKnown

LEMMA BootsGrow ==
  ASSUME TInv, Accord, [Next]_vars, bootKnown <= hostBoot
  PROVE  (bootKnown <= hostBoot)'
<1>0. bootKnown \in Nat /\ hostBoot \in Nat
  BY DEF TInv, TypeOK
<1>1. hostBoot' \in {hostBoot, hostBoot + 1}
  <2>1. CASE HostReboots
    BY <2>1 DEF HostReboots
  <2>2. Request => UNCHANGED hostBoot
    BY KeptRequest DEF env
  <2>3. ASSUME NEW i \in RunIds,
               \/ LateLands(i) \/ Registers(i) \/ JobCompletes(i) \/ GitHubForgets(i)
               \/ ContainerExits(i)
        PROVE  UNCHANGED hostBoot
    BY <2>3 DEF LateLands, Registers, JobCompletes, GitHubForgets, ContainerExits, host
  <2>4. ASSUME NEW p \in Pools, Tick(p) \/ BackoffExpires(p) PROVE UNCHANGED hostBoot
    BY <2>4 DEF Tick, BackoffExpires, env
  <2>5. \/ Crash \/ Restart \/ CommandFails \/ CommandTimesOut \/ List \/ ForceLoop \/ Relist
        \/ Remotes \/ Visit \/ ReadBoot \/ Prepare \/ ForceArchive \/ Archive \/ Replenish
        => UNCHANGED hostBoot
    BY DEF Crash, Restart, CommandFails, CommandTimesOut, List, ForceLoop, Relist, Remotes, Visit,
           ReadBoot, Prepare, ForceArchive, Archive, Archived, Replenish, env
  <2>6. \/ ForceRemove \/ RemoveContainer \/ CreateContainer \/ StartContainer
        \/ FreshList \/ Unregister \/ Repair
        => UNCHANGED hostBoot
    BY DEF ForceRemove, RemoveContainer, CreateContainer, StartContainer, FreshList, Unregister,
           Repair, Vanishes
  <2> QED BY <2>1, <2>2, <2>3, <2>4, <2>5, <2>6 DEF Next, Pass, Environment, vars
<1>2. bootKnown' \in {bootKnown, hostBoot, 0}
  <2>a. ASSUME NEW p \in Pools, Tick(p) PROVE bootKnown' = bootKnown
    BY <2>a DEF Tick
  <2>b. List \/ Visit => bootKnown' \in {bootKnown, 0}
    BY DEF List, Visit, LoopEnds, DeletePool
  <2>c. ReadBoot => bootKnown' \in {bootKnown, hostBoot}
    BY DEF ReadBoot
  <2>d. ForceArchive \/ Archive => bootKnown' = bootKnown
    BY DEF ForceArchive, Archive, Archived
  <2>1. CASE Pass
    BY <2>1, <2>a, <2>b, <2>c, <2>d DEF Pass, CommandFails, CommandTimesOut, ForceLoop, ForceRemove,
       Relist, Remotes, Prepare, CreateContainer, StartContainer, RemoveContainer, FreshList,
       Unregister, Repair, Replenish
  <2>2. CASE Request
    BY <2>2, Zenon DEF Request, Start, Stop, Remove, Add, Scale, Upgrade, Auth, Apply, Refused,
                       RefusedStatus, Configured, Handled
  <2>3. CASE Crash \/ Restart \/ UNCHANGED vars
    BY <2>3 DEF Crash, Restart, vars
  <2>4. CASE Environment
    BY <2>4 DEF Environment, BackoffExpires, LateLands, Registers, JobCompletes, GitHubForgets,
                ContainerExits, HostReboots
  <2> QED BY <2>1, <2>2, <2>3, <2>4 DEF Next
<1> QED BY <1>0, <1>1, <1>2

LEMMA AskedByVisit ==
  ASSUME TInv, Accord, World, Visit, pc' = "boot"
  PROVE  BootAsked'
<1>0. /\ pc = "visit" /\ pc \in Looping /\ UNCHANGED env /\ mem \in States /\ pass \in PassRec
      /\ pass.todo \subseteq RunsOf(mem, pass.pool)
  BY DEF Visit, TInv, TypeOK, Accord, TodoHeld, Looping
<1>1. pass.todo # {}
  BY DEF Visit, LoopEnds, PassEnds, DeletePool, Goto
<1>2. PICK k \in pass.todo : VisitStopped(k)
  BY <1>1 DEF Visit, VisitRunning, VisitStart, VisitGone, PassEnds
<1> DEFINE run == [mem.run[k] EXCEPT !.completed = k \in marker]
<1>3. k \in RunIds /\ mem.run[k] \in RunRec /\ pass.snap[k] # "none"
  BY <1>0, <1>2 DEF RunsOf, Recorded, States, VisitStopped
<1>4. Unexpected(run) /\ pass' = Take(k, run)
  BY <1>2 DEF VisitStopped, BeginCleanup, PassEnds
<1> HIDE DEF run
<1>5. pass'.cur = k /\ pass'.clone[k] = run
  BY <1>0, <1>3, <1>4 DEF Take, PassRec
<1>6. docker'[k] # "none"
  BY <1>0, <1>3 DEF World, Listing, SeenThere, env
<1> QED BY <1>4, <1>5, <1>6 DEF BootAsked

LEMMA BootAskedSame ==
  ASSUME BootAsked, TypeOK, Onward, docker[pass.cur] # "none" => docker'[pass.cur] # "none"
  PROVE  BootAsked'
BY OnwardFields DEF BootAsked

\* Only this pass takes a container away.
LEMMA HostKeeps ==
  ASSUME TInv, Environment, NEW j \in RunIds, docker[j] # "none"
  PROVE  docker'[j] # "none"
<1>0. docker \in [RunIds -> Statuses]
  BY DEF TInv, TypeOK
<1>1. ASSUME NEW k \in RunIds, LateLands(k) PROVE docker'[j] # "none"
  BY <1>0, <1>1 DEF LateLands, Starts
<1>2. ASSUME NEW k \in RunIds, Registers(k) \/ JobCompletes(k) \/ GitHubForgets(k)
      PROVE  docker'[j] # "none"
  BY <1>2 DEF Registers, JobCompletes, GitHubForgets, host
<1>3. ASSUME NEW k \in RunIds, ContainerExits(k) PROVE docker'[j] # "none"
  BY <1>0, <1>3 DEF ContainerExits
<1>4. ASSUME HostReboots PROVE docker'[j] # "none"
  BY <1>0, <1>4 DEF HostReboots
<1>5. ASSUME NEW p \in Pools, BackoffExpires(p) PROVE docker'[j] # "none"
  BY <1>5 DEF BackoffExpires, env
<1> QED BY <1>1, <1>2, <1>3, <1>4, <1>5 DEF Environment

LEMMA BootAskedHolds ==
  ASSUME TInv, Accord, World, [Next]_vars, pc = "boot" => BootAsked, pc' = "boot"
  PROVE  BootAsked'
<1>0. TypeOK /\ (pc = "boot" => pass.cur \in RunIds)
  BY DEF TInv, Shape, Holding
<1>1. CASE Visit
  BY <1>1, AskedByVisit
<1>2. CASE Pass /\ ~Visit
  <2>1. \A p \in Pools : ~Tick(p)
    BY DEF Tick
  <2>2. ~Errors
    BY DEF Errors, PassEnds, SkipRun
  <2>3. ~(List \/ ForceLoop \/ ForceArchive \/ ForceRemove \/ Relist \/ Remotes)
    BY <2>2 DEF List, DeletePool, PassEnds, ForceLoop, ForceDone, ForceNext, ForceArchive, Archived,
                ForceRemove, Relist, Remotes
  <2>4. ~(ReadBoot \/ Prepare \/ CreateContainer \/ StartContainer \/ Archive \/ RemoveContainer)
    BY <2>2 DEF ReadBoot, BeginCleanup, PassEnds, Prepare, CreateContainer, StartContainer, Archive,
                Archived, RemoveContainer, Goto
  <2>5. ~(FreshList \/ Unregister \/ Repair \/ Replenish)
    BY <2>2 DEF FreshList, Unregister, Repair, Replenish, RemoveDirectory, FinishRun, SkipRun, Goto,
                PassEnds
  <2> QED BY <1>2, <2>1, <2>2, <2>3, <2>4, <2>5 DEF Pass, CommandFails, CommandTimesOut
<1>3. CASE Request
  <2>1. pc' = pc /\ docker' = docker /\ Onward
    BY <1>3, KeptRequest DEF env, RefusedStatus, MoveEpoch, Onward
  <2> QED BY <1>0, <2>1, BootAskedSame
<1>4. ~(Crash \/ Restart)
  BY DEF Crash, Restart
<1>5. CASE Environment
  <2>1. UNCHANGED <<pc, pass>>
    BY <1>5 DEF Environment, BackoffExpires, LateLands, Registers, JobCompletes, GitHubForgets,
                ContainerExits, HostReboots
  <2>2. docker[pass.cur] # "none" => docker'[pass.cur] # "none"
    BY <1>0, <1>5, <2>1, HostKeeps
  <2> QED BY <1>0, <2>1, <2>2, BootAskedSame DEF Onward
<1>6. CASE UNCHANGED vars
  BY <1>0, <1>6, BootAskedSame DEF vars, Onward
<1> QED BY <1>1, <1>2, <1>3, <1>4, <1>5, <1>6 DEF Next

LEMMA RebootsHeldStep ==
  ASSUME TInv, TInv', Accord, World, Verdicts, RebootsHeld, [Next]_vars, ~CutShort, ~BootUnread
  PROVE  RebootsHeld'
<1>1. (bootKnown <= hostBoot)'
  BY BootsGrow DEF RebootsHeld
<1>2. (pc = "boot" => BootAsked)'
  BY BootAskedHolds DEF RebootsHeld
<1>3. ASSUME NEW i \in spared' PROVE Remembered(i)'
  <2>0. i \in RunIds
    BY DEF TInv, TypeOK
  <2>1. CASE i \notin spared
    <3>1. CASE Visit
      BY <2>1, <3>1, SparedByVisit DEF RebootsHeld, Remembered
    <3>2. CASE ReadBoot
      <4>1. BootAsked
        BY <3>2 DEF RebootsHeld, ReadBoot
      <4> QED BY <2>1, <3>2, <4>1, SparedByReadBoot DEF RebootsHeld, Remembered, BootAsked
    <3> QED BY <2>1, <3>1, <3>2, NextSpares
  <2>2. CASE i \in spared
    <3>1. CASE Excused(i)
      BY <2>0, <2>2, <3>1, ExcusedStays DEF Remembered
    <3>2. CASE Settling(i)
      BY <2>0, <3>2, SettlingStays DEF Remembered, Excused
    <3>3. CASE ~Excused(i) /\ Rebooted(i) /\ InView(i)
      BY <2>0, <3>3, RebootSurvives DEF Survives, Remembered
    <3> QED BY <2>2, <3>1, <3>2, <3>3 DEF RebootsHeld, Remembered
  <2> QED BY <2>1, <2>2
<1> QED BY <1>1, <1>2, <1>3 DEF RebootsHeld

LEMMA RebootStep ==
  ASSUME TInv, Accord, World, Verdicts, RebootsHeld, RebootIsExpected, [Next]_vars
  PROVE  RebootIsExpected'
<1>1. CASE Unjudged
  BY <1>1 DEF Unjudged, RebootIsExpected
<1>2. CASE Recognises
  BY <1>2 DEF Recognises, RebootIsExpected, Verdicts, Reported
<1>3. CASE Finishes
  <2>1. /\ pass.cur \in Recorded(mem) /\ pass \in PassRec /\ pc \in Holding \ {"boot"}
        /\ pc \notin {"archive", "remove"} /\ Agrees(pass.clone[pass.cur], mem.run[pass.cur])
    BY <1>3, HandFacts DEF Finishes, Finishing, Looping, Holding, Collected
  <2>2. pass.cur \in spared => pass.rebooted \/ ~Unexpected(pass.clone[pass.cur])
    <3>1. CASE Excused(pass.cur)
      BY <2>1, <3>1 DEF Excused, Agrees, Unexpected
    <3>2. ~InView(pass.cur)
      BY <2>1 DEF InView
    <3> QED BY <3>1, <3>2 DEF RebootsHeld, Remembered, Settling
  <2>3. pass'.exits = IF Unexpected(pass.clone[pass.cur]) /\ ~pass.rebooted
                      THEN pass.exits \cup {pass.cur} ELSE pass.exits
    BY <1>3, <2>1 DEF Finishes, FinishRun, Loose, PassRec
  <2>4. spared' = spared
    BY <1>3 DEF Finishes
  <2> QED BY <2>2, <2>3, <2>4 DEF RebootIsExpected
<1> QED BY <1>1, <1>2, <1>3, NextVerdict DEF Verdict

LEMMA RebootsHeldInit ==
  ASSUME Init
  PROVE  RebootsHeld /\ RebootIsExpected
BY DEF Init, RebootsHeld, RebootIsExpected, NoPass

\* manager.rs:895: a host reboot is not evidence of a broken image.  No run that
\* was recognised as stopped by one is ever counted, through requests,
\* interruptions, failed commands, crashes and further reboots, unless the
\* clean-up of such a run is cut short after its container is gone or a boot
\* time cannot be read: the two events that lose the evidence.
THEOREM RebootsAreExpectedUnlessCutShort ==
  Spec /\ [][~CutShort /\ ~BootUnread]_vars => []RebootIsExpected
<1>1. Init => RebootsHeld /\ RebootIsExpected
  BY RebootsHeldInit
<1>2. /\ TInv /\ Accord /\ World /\ Verdicts /\ TInv' /\ RebootsHeld /\ RebootIsExpected
      /\ [Next]_vars /\ [~CutShort /\ ~BootUnread]_vars
      => RebootsHeld' /\ RebootIsExpected'
  <2> SUFFICES ASSUME TInv, Accord, World, Verdicts, TInv', RebootsHeld, RebootIsExpected,
                      [Next]_vars, [~CutShort /\ ~BootUnread]_vars
               PROVE  RebootsHeld' /\ RebootIsExpected'
    OBVIOUS
  <2>1. CASE ~CutShort /\ ~BootUnread
    BY <2>1, RebootsHeldStep, RebootStep
  <2>2. CASE UNCHANGED vars
    <3>1. ~CutShort /\ ~BootUnread
      BY <2>2 DEF vars, CutShort, BootUnread, Finishing
    <3> QED BY <3>1, RebootsHeldStep, RebootStep
  <2> QED BY <2>1, <2>2
<1> QED BY <1>1, <1>2, VerdictsHold, PTL DEF Spec

-----------------------------------------------------------------------------
\* docs/operations.md:15: max_runners bounds the runner containers at work on the host, whatever
\* was lost, landed late or was restarted.
THEOREM HostIsNotOverrun ==
  Spec => [](Cardinality({i \in RunIds : docker[i] = "running"}) <= MaxRunners)
<1>1. CapacityRespected /\ RunnersRecorded
      => Cardinality({i \in RunIds : docker[i] = "running"}) <= MaxRunners
  <2> SUFFICES ASSUME CapacityRespected, RunnersRecorded
               PROVE  Cardinality({i \in RunIds : docker[i] = "running"}) <= MaxRunners
    OBVIOUS
  <2>1. Recorded(disk) \subseteq RunIds /\ {i \in RunIds : docker[i] = "running"} \subseteq Recorded(disk)
    BY DEF RunnersRecorded, Recorded
  <2>2. IsFiniteSet(Recorded(disk))
    BY <2>1, RunIdsAssumption, FS_Subset
  <2>3. Cardinality({i \in RunIds : docker[i] = "running"}) <= Cardinality(Recorded(disk))
    BY <2>1, <2>2, FS_Subset
  <2>4. /\ Cardinality(Recorded(disk)) \in Nat
        /\ Cardinality({i \in RunIds : docker[i] = "running"}) \in Nat
    BY <2>1, <2>2, FS_Subset, FS_CardinalityType
  <2> QED BY <2>3, <2>4, BoundsAssumption DEF CapacityRespected
<1> QED BY <1>1, CapacityHolds, RunnersAreRecorded, PTL

-----------------------------------------------------------------------------
(* The pools as module PoolLife sees them.                                 *)

SamePool(r, t) ==
  /\ t.exists = r.exists /\ t.running = r.running /\ t.deleting = r.deleting
  /\ t.replicas = r.replicas /\ t.gen = r.gen

SamePools(s, t) == \A p \in Pools : SamePool(s.pool[p], t.pool[p])

\* What a request may make of the record of a pool.
Edited(r, t) ==
  \/ SamePool(r, t)
  \/ ~r.exists /\ t.exists /\ ~t.running /\ ~t.deleting /\ t.gen = 1
  \/ /\ r.exists /\ t.exists /\ t.gen = r.gen /\ t.replicas = r.replicas
     /\ r.deleting => t.deleting
  \/ /\ r.exists /\ ~r.deleting /\ t.exists /\ ~t.deleting /\ t.running = r.running
     /\ t.gen \in {r.gen, r.gen + 1}

\* What a life shows of a record with n runs.
Shown(ps, n) ==
  [intent |-> Intent(ps), gen |-> IF ps.exists THEN ps.gen ELSE 0,
   replicas |-> IF ps.exists THEN ps.replicas ELSE 0, runs |-> n]

Moved(r, s) == s = r \/ PoolOutside!Step(r, s)

LEMMA ShownType ==
  ASSUME NEW ps \in PoolRec, NEW n \in Nat
  PROVE  Shown(ps, n) \in PoolOutside!Lives
BY BoundsAssumption DEF Shown, Intent, PoolRec, PoolOutside!Lives

LEMMA ShownSame ==
  ASSUME NEW r, NEW t, SamePool(r, t), NEW n
  PROVE  Shown(t, n) = Shown(r, n)
BY DEF SamePool, Shown, Intent

LEMMA ShownEdited ==
  ASSUME NEW r \in PoolRec, NEW t \in PoolRec, Edited(r, t), NEW n \in Nat, ~r.exists => n = 0
  PROVE  Moved(Shown(r, n), Shown(t, n))
<1>1. CASE SamePool(r, t)
  BY <1>1, ShownSame DEF Moved
<1>2. CASE ~r.exists /\ t.exists /\ ~t.running /\ ~t.deleting /\ t.gen = 1
  <2>1. Shown(r, n) = PoolOutside!Unborn
    BY <1>2 DEF Shown, Intent, PoolOutside!Unborn
  <2>2. Shown(t, n) = [intent |-> "stopped", gen |-> 1, replicas |-> t.replicas, runs |-> 0]
    BY <1>2 DEF Shown, Intent
  <2>3. Shown(t, n).replicas = t.replicas
    BY <2>2
  <2> QED BY <2>1, <2>2, <2>3 DEF Moved, PoolOutside!Step, PoolOutside!Add
<1>3. CASE r.exists /\ t.exists /\ t.gen = r.gen /\ t.replicas = r.replicas
           /\ (r.deleting => t.deleting)
  <2>1. CASE r.deleting
    BY <1>3, <2>1 DEF Shown, Intent, Moved
  <2>2. CASE ~r.deleting
    <3>1. /\ Shown(r, n).intent \in {"stopped", "running"} /\ Shown(t, n).intent # "absent"
          /\ Shown(t, n) = [Shown(r, n) EXCEPT !.intent = Shown(t, n).intent]
      BY <1>3, <2>2 DEF Shown, Intent
    <3> QED BY <3>1 DEF Moved, PoolOutside!Step, PoolOutside!Turn
  <2> QED BY <2>1, <2>2
<1>4. CASE r.exists /\ ~r.deleting /\ t.exists /\ ~t.deleting /\ t.running = r.running
           /\ t.gen \in {r.gen, r.gen + 1}
  <2>1. /\ Shown(r, n).intent \in {"stopped", "running"}
        /\ Shown(t, n).intent = Shown(r, n).intent /\ Shown(t, n).runs = Shown(r, n).runs
        /\ Shown(t, n).gen \in {Shown(r, n).gen, Shown(r, n).gen + 1}
    BY <1>4 DEF Shown, Intent, PoolRec
  <2> QED BY <2>1 DEF Moved, PoolOutside!Step, PoolOutside!Configure
<1> QED BY <1>1, <1>2, <1>3, <1>4 DEF Edited

LEMMA ShownHire ==
  ASSUME NEW r \in PoolRec, NEW t \in PoolRec, SamePool(r, t), r.exists, NEW n \in Nat, n < Wanted(r)
  PROVE  Moved(Shown(r, n), Shown(t, n + 1))
<1>1. r.running /\ ~r.deleting /\ n < r.replicas
  BY DEF Wanted, PoolRec
<1>2. /\ Shown(r, n).intent = "running" /\ Shown(r, n).runs < Shown(r, n).replicas
      /\ Shown(t, n + 1) = [Shown(r, n) EXCEPT !.runs = @ + 1]
  BY <1>1 DEF Shown, Intent, SamePool
<1> QED BY <1>2 DEF Moved, PoolOutside!Step, PoolOutside!Hire

LEMMA ShownLeave ==
  ASSUME NEW r \in PoolRec, NEW t \in PoolRec, SamePool(r, t), NEW n \in Nat, n > 0
  PROVE  Moved(Shown(r, n), Shown(t, n - 1))
<1>1. /\ Shown(r, n).runs > 0
      /\ Shown(t, n - 1) = [Shown(r, n) EXCEPT !.runs = @ - 1]
  BY DEF Shown, Intent, SamePool
<1> QED BY <1>1 DEF Moved, PoolOutside!Step, PoolOutside!Leave

LEMMA ShownVanish ==
  ASSUME NEW r \in PoolRec, r.exists, r.deleting
  PROVE  Moved(Shown(r, 0), Shown(Absent, 0))
<1>1. /\ Shown(r, 0).intent = "deleting" /\ Shown(r, 0).runs = 0
      /\ Shown(Absent, 0) = PoolOutside!Unborn
  BY DEF Shown, Intent, Absent, PoolOutside!Unborn
<1> QED BY <1>1 DEF Moved, PoolOutside!Step, PoolOutside!Vanish

-----------------------------------------------------------------------------
(* What a step makes of the records of the pools.                          *)

LEMMA RequestEdits ==
  ASSUME TInv, Accord, Request, NEW q \in Pools
  PROVE  Edited(mem.pool[q], mem'.pool[q])
<1>0. /\ TypeOK /\ mem \in States /\ disk \in States /\ Synced
      /\ \A p \in Pools : mem.pool[p] \in PoolRec
  BY DEF TInv, TypeOK, States, Accord
<1> DEFINE Claim == Edited(mem.pool[q], mem'.pool[q])
<1>a. ASSUME NEW kind, NEW s \in States, NEW P, NEW force,
             \/ Handled(kind, s) \/ Configured(kind, s, s)
             \/ Configured(kind, s, MarkRetiring(s, P)) \/ Handled(kind, Retire(s, P, force)),
             Edited(mem.pool[q], s.pool[q])
      PROVE  Claim
  <2>1. MarkRetiring(s, P).pool = s.pool /\ Retire(s, P, force).pool = s.pool
    BY DEF MarkRetiring, Retire, States
  <2>2. mem' \in {s, MarkRetiring(s, P), Retire(s, P, force)}
    BY <1>a DEF Handled, Configured, Save
  <2> QED BY <1>a, <2>1, <2>2
<1>b. Edited(mem.pool[q], mem.pool[q])
  BY DEF Edited, SamePool
<1>e. ASSUME NEW P \in SUBSET Pools, NEW new \in [P -> PoolRec]
      PROVE  /\ WithPools(mem, new) \in States
             /\ WithPools(mem, new).pool[q] = IF q \in P THEN new[q] ELSE mem.pool[q]
  BY <1>0, WithPoolsType DEF WithPools, States
<1>f. ASSUME NEW p \in Pools, NEW ps \in PoolRec, Edited(mem.pool[p], ps)
      PROVE  /\ [mem EXCEPT !.pool[p] = ps] \in States
             /\ Edited(mem.pool[q], [mem EXCEPT !.pool[p] = ps].pool[q])
  <2> DEFINE s == [mem EXCEPT !.pool[p] = ps]
  <2>1. s \in States /\ s.pool[q] = IF q = p THEN ps ELSE mem.pool[q]
    BY <1>0, SetPoolType DEF States
  <2> HIDE DEF s
  <2> QED BY <1>b, <1>f, <2>1 DEF s
<1>g. Existing(mem) \subseteq Pools /\ \A p \in Existing(mem) : mem.pool[p].exists
  BY DEF Existing
<1>1. ASSUME NEW P \in Targets, Start(P) PROVE Claim
  <2> DEFINE up == [p \in P |-> [mem.pool[p] EXCEPT !.running = TRUE, !.backoff = "none"]]
  <2>1. P \in SUBSET Pools /\ P \subseteq Existing(mem) /\ \A p \in P : ~mem.pool[p].deleting
    BY <1>0, <1>1, TargetsType DEF Targets, Start
  <2>2. up \in [P -> PoolRec]
    BY <1>0, <2>1, PoolUpdateType
  <2>3. Handled("start", WithPools(mem, up))
    BY <1>1 DEF Start
  <2>4. q \in P => Edited(mem.pool[q], up[q])
    BY <1>0, <1>g, <2>1 DEF Edited, PoolRec
  <2> HIDE DEF up
  <2> QED BY <1>a, <1>b, <1>e, <2>1, <2>2, <2>3, <2>4
<1>2. ASSUME NEW P \in Targets, NEW force \in Forces, Stop(P, force) PROVE Claim
  <2> DEFINE down == [p \in P |-> [mem.pool[p] EXCEPT !.running = FALSE,
                                                      !.backoff = Retry(p, force)]]
  <2>1. P \in SUBSET Pools /\ P \subseteq Existing(mem) /\ force \in BOOLEAN
    BY <1>0, TargetsType DEF Forces, Targets
  <2>2. down \in [P -> PoolRec]
    BY <1>0, <2>1, PoolUpdateType, RetryType
  <2>3. Handled("stop", Retire(WithPools(mem, down), P, force))
    BY <1>2 DEF Stop
  <2>4. q \in P => Edited(mem.pool[q], down[q])
    BY <1>0, <1>g, <2>1 DEF Edited, PoolRec
  <2> HIDE DEF down
  <2> QED BY <1>a, <1>b, <1>e, <2>1, <2>2, <2>3, <2>4
<1>3. ASSUME NEW p \in Pools, NEW force \in Forces, Remove(p, force) PROVE Claim
  <2> DEFINE dropped == [mem.pool[p] EXCEPT !.running = FALSE, !.deleting = TRUE,
                                            !.backoff = Retry(p, force)]
  <2>1. force \in BOOLEAN /\ p \in Existing(mem)
    BY <1>3 DEF Forces, Remove, Owns
  <2>2. dropped \in PoolRec
    BY <1>0, <2>1, PoolUpdateType, RetryType
  <2>3. Handled("remove", Retire([mem EXCEPT !.pool[p] = dropped], {p}, force))
    BY <1>3 DEF Remove
  <2>4. Edited(mem.pool[p], dropped)
    BY <1>0, <1>g, <2>1 DEF Edited, PoolRec
  <2> HIDE DEF dropped
  <2> QED BY <1>a, <1>b, <1>f, <2>2, <2>3, <2>4
<1>4. ASSUME NEW p \in Pools, NEW n \in 0 .. MaxRunners, Add(p, n) PROVE Claim
  <2>1. Edited(mem.pool[p], NewPool(n))
    BY <1>4 DEF Add, Owns, Existing, Edited, NewPool, Absent
  <2>2. NewPool(n) \in PoolRec
    BY ConstantTypes
  <2>3. Configured("add", [mem EXCEPT !.pool[p] = NewPool(n)], [mem EXCEPT !.pool[p] = NewPool(n)])
    BY <1>4 DEF Add
  <2> QED BY <1>a, <1>b, <1>f, <2>1, <2>2, <2>3
<1>5. ASSUME NEW p \in Pools, NEW n \in 0 .. MaxRunners, Scale(p, n) PROVE Claim
  <2> DEFINE new == [mem.pool[p] EXCEPT !.replicas = n]
             s == [mem EXCEPT !.pool[p].replicas = n]
  <2>1. s = [mem EXCEPT !.pool[p] = new]
    BY <1>0 DEF States
  <2>2. new \in PoolRec
    BY <1>0, PoolUpdateType
  <2>3. Configured("scale", s, MarkRetiring(s, {p})) /\ p \in Existing(mem) /\ ~mem.pool[p].deleting
    BY <1>5 DEF Scale, Owns
  <2>4. Edited(mem.pool[p], new)
    BY <1>0, <1>g, <2>3 DEF Edited, PoolRec
  <2> HIDE DEF new, s
  <2> QED BY <1>a, <1>b, <1>f, <2>1, <2>2, <2>3, <2>4
<1>6. ASSUME NEW p \in Pools, Upgrade(p) PROVE Claim
  <2> DEFINE new == [mem.pool[p] EXCEPT !.gen = @ + 1]
             s == [mem EXCEPT !.pool[p].gen = @ + 1]
  <2>1. s = [mem EXCEPT !.pool[p] = new]
    BY <1>0 DEF States
  <2>2. new \in PoolRec
    BY <1>0, PoolUpdateType
  <2>3. Configured("upgrade", s, MarkRetiring(s, {p})) /\ p \in Existing(mem) /\ ~mem.pool[p].deleting
    BY <1>6 DEF Upgrade, Owns
  <2>4. Edited(mem.pool[p], new)
    BY <1>0, <1>g, <2>3 DEF Edited, PoolRec
  <2> HIDE DEF new, s
  <2> QED BY <1>a, <1>b, <1>f, <2>1, <2>2, <2>3, <2>4
<1>7. ASSUME NEW P \in SUBSET Existing(mem), Auth(P) PROVE Claim
  <2> DEFINE cleared == [p \in P |-> [mem.pool[p] EXCEPT !.backoff = "none"]]
  <2>1. P \in SUBSET Pools
    BY DEF Existing
  <2>2. cleared \in [P -> PoolRec]
    BY <1>0, <2>1, PoolUpdateType
  <2>3. Handled("auth", WithPools(mem, cleared)) \/ Handled("auth", mem)
    BY <1>7 DEF Auth
  <2>4. q \in P => Edited(mem.pool[q], cleared[q])
    BY <1>0, <2>1 DEF Edited, SamePool, PoolRec
  <2> HIDE DEF cleared
  <2> QED BY <1>0, <1>a, <1>b, <1>e, <2>1, <2>2, <2>3, <2>4
<1>8. ASSUME NEW replicas \in [Pools -> 0 .. MaxRunners],
             NEW added \in SUBSET (Pools \ Existing(mem)),
             NEW changed \in SUBSET Existing(mem), Apply(replicas, added, changed)
      PROVE  Claim
  <2> DEFINE new(p) == IF p \in added THEN NewPool(replicas[p])
                       ELSE IF p \in Existing(mem)
                       THEN [mem.pool[p] EXCEPT !.replicas = replicas[p],
                               !.gen = IF p \in changed THEN @ + 1 ELSE @]
                       ELSE mem.pool[p]
             s == [mem EXCEPT !.pool = [p \in Pools |-> new(p)]]
  <2>1. ASSUME NEW p \in Pools PROVE new(p) \in PoolRec
    <3>1. replicas[p] \in 0 .. MaxRunners /\ mem.pool[p] \in PoolRec
      BY <1>0
    <3>2. [mem.pool[p] EXCEPT !.replicas = replicas[p],
             !.gen = IF p \in changed THEN @ + 1 ELSE @] \in PoolRec
      <4>1. mem.pool[p].gen \in Nat /\ mem.pool[p].gen + 1 \in Nat
        BY <3>1 DEF PoolRec
      <4> QED BY <3>1, <4>1, PoolUpdateType
    <3> QED BY <3>1, <3>2, ConstantTypes
  <2>2. s \in States /\ s.pool[q] = new(q)
    BY <1>0, <2>1 DEF States
  <2>3. Configured("apply", s, MarkRetiring(s, Existing(s)))
        /\ \A p \in Existing(mem) : ~mem.pool[p].deleting
    BY <1>8 DEF Apply
  <2>4. Edited(mem.pool[q], new(q))
    <3>1. CASE q \in added
      BY <3>1 DEF Existing, Edited, NewPool, Absent
    <3>2. CASE q \notin added /\ q \in Existing(mem)
      BY <1>0, <1>g, <2>3, <3>2 DEF Edited, PoolRec
    <3>3. CASE q \notin added /\ q \notin Existing(mem)
      BY <1>b, <3>3
    <3> QED BY <3>1, <3>2, <3>3
  <2> HIDE DEF s, new
  <2> QED BY <1>a, <2>2, <2>3, <2>4
<1>9. CASE Refused \/ RefusedStatus
  BY <1>0, <1>b, <1>9 DEF Refused, RefusedStatus, Handled, Save, Synced
<1> QED
  BY <1>1, <1>2, <1>3, <1>4, <1>5, <1>6, <1>7, <1>8, <1>9 DEF Request

LEMMA EndsPools ==
  ASSUME TInv, pass.pool \in Pools, NEW s \in States, s.pool = mem.pool, NEW ok, PassEnds(s, ok)
  PROVE  SamePools(mem, mem')
BY LikeConcluded DEF PassEnds, Save, Like, SamePools, SamePool

LEMMA ErrorsPools ==
  ASSUME TInv, Errors
  PROVE  SamePools(mem, mem')
<1>1. mem \in States /\ pass.pool \in Pools
  BY DEF TInv, TypeOK, Shape, Errors, Fatal, Collected
<1> QED BY <1>1, EndsPools DEF Errors, Keep, SamePools, SamePool

\* The pool of the pass goes.
Vanishing ==
  LET p == pass.pool
  IN  /\ pc \in {"list", "visit"} /\ pass.ps.deleting /\ Emptied(p)
      /\ mem'.pool = [mem.pool EXCEPT ![p] = Absent]

LEMMA DeletePoolPools ==
  ASSUME TInv, Accord, pc \in {"list", "visit"}, pass.ps.deleting, Emptied(pass.pool), DeletePool
  PROVE  SamePools(mem, mem') \/ Vanishing
<1>1. mem \in States /\ pass.pool \in Pools /\ mem.pool = disk.pool
  BY DEF TInv, TypeOK, Shape, Accord, Synced
<1>2. CASE PassEnds(mem, FALSE)
  BY <1>1, <1>2, EndsPools
<1>3. CASE mem' = disk
  BY <1>1, <1>3 DEF SamePools, SamePool
<1>4. CASE mem' = [mem EXCEPT !.pool[pass.pool] = Absent]
  BY <1>1, <1>4 DEF Vanishing, States
<1> QED BY <1>2, <1>3, <1>4 DEF DeletePool, Save

LEMMA RunPools ==
  ASSUME TInv, NEW i, NEW r, mem' = [mem EXCEPT !.run[i] = r]
  PROVE  mem'.pool = mem.pool
BY DEF TInv, TypeOK, States

LEMMA SamePoolsRefl == ASSUME mem'.pool = mem.pool PROVE SamePools(mem, mem')
BY DEF SamePools, SamePool

LEMMA VisitPools ==
  ASSUME TInv, Accord, Visit
  PROVE  SamePools(mem, mem') \/ Vanishing
<1>1. mem \in States /\ pass.pool \in Pools
  BY DEF TInv, TypeOK, Shape, Visit
<1>2. ASSUME NEW ok, PassEnds(mem, ok) PROVE SamePools(mem, mem')
  BY <1>1, <1>2, EndsPools
<1>3. CASE pass.todo = {}
  <2>1. LoopEnds /\ pc = "visit"
    BY <1>3 DEF Visit
  <2> QED BY <1>2, <2>1, DeletePoolPools, SamePoolsRefl DEF LoopEnds, Keep
<1>4. CASE pass.todo # {}
  <2>1. PICK i \in pass.todo :
          VisitRunning(i) \/ VisitStart(i) \/ VisitStopped(i) \/ VisitGone(i)
    BY <1>4 DEF Visit
  <2>2. CASE VisitRunning(i)
    <3>1. mem'.pool = mem.pool
      BY <1>1, <2>2 DEF VisitRunning, Observe, States
    <3> QED BY <3>1, SamePoolsRefl
  <2>3. CASE VisitStart(i) \/ VisitGone(i)
    BY <1>2, <2>3, SamePoolsRefl DEF VisitStart, VisitGone, Keep
  <2>4. CASE VisitStopped(i)
    BY <1>2, <2>4, RunPools, SamePoolsRefl DEF VisitStopped, BeginCleanup, Save, Keep
  <2> QED BY <2>1, <2>2, <2>3, <2>4
<1> QED BY <1>3, <1>4

LEMMA PassPools ==
  ASSUME TInv, Accord, Pass
  PROVE  SamePools(mem, mem') \/ Vanishing
<1>1. mem \in States
  BY DEF TInv, TypeOK
<1>2. ASSUME NEW ok, PassEnds(mem, ok), pc \notin {"idle", "down"} PROVE SamePools(mem, mem')
  BY <1>1, <1>2, EndsPools DEF TInv, Shape
<1>3. CASE List
  BY <1>2, <1>3, DeletePoolPools, SamePoolsRefl DEF List, Keep
<1>4. CASE ForceLoop
  BY <1>4, RunPools, SamePoolsRefl DEF ForceLoop, ForceDone, ForceNext, Save, Keep
<1>5. CASE ForceArchive \/ Archive
  BY <1>5, RunPools, SamePoolsRefl DEF ForceArchive, Archive, Archived, Save
<1>6. CASE \/ \E p \in Pools : Tick(p)
           \/ Relist \/ Prepare \/ CommandFails \/ CommandTimesOut
           \/ ForceRemove \/ CreateContainer \/ RemoveContainer
  BY <1>6, ErrorsPools, SamePoolsRefl DEF Tick, Relist, Prepare, CommandFails, CommandTimesOut,
     ForceRemove, CreateContainer, RemoveContainer, Keep
<1>7. CASE Remotes
  BY <1>1, <1>7, SamePoolsRefl DEF Remotes, Save, MarkRetiring, States
<1>8. CASE ReadBoot
  BY <1>2, <1>8, RunPools, SamePoolsRefl DEF ReadBoot, BeginCleanup, Save
<1>9. CASE StartContainer
  BY <1>9, ErrorsPools, RunPools, SamePoolsRefl DEF StartContainer, Save
<1>10. CASE FreshList \/ Unregister \/ Repair
  BY <1>10, ErrorsPools, RunPools, SamePoolsRefl
     DEF FreshList, Unregister, Repair, RemoveDirectory, FinishRun, Save, Keep
<1>11. CASE Replenish
  <2>1. PICK i \in RunIds, ok \in BOOLEAN :
          PassEnds([mem EXCEPT !.run[i] = NewRun(pass.pool, pass.ps.gen)], ok)
    BY <1>11 DEF Replenish
  <2>2. pass.pool \in Pools /\ pass.ps.gen \in Nat
    BY <1>11 DEF Replenish, TInv, TypeOK, Shape, PassRec, PoolRec
  <2>3. /\ [mem EXCEPT !.run[i] = NewRun(pass.pool, pass.ps.gen)] \in States
        /\ [mem EXCEPT !.run[i] = NewRun(pass.pool, pass.ps.gen)].pool = mem.pool
    BY <1>1, <2>2, SetRunType, ConstantTypes DEF States
  <2> QED BY <2>1, <2>2, <2>3, EndsPools
<1> QED BY <1>3, <1>4, <1>5, <1>6, <1>7, <1>8, <1>9, <1>10, <1>11, VisitPools DEF Pass

LEMMA EnvironmentPools ==
  ASSUME TInv, Environment
  PROVE  SamePools(mem, mem')
<1>1. ASSUME NEW p \in Pools, BackoffExpires(p) PROVE SamePools(mem, mem')
  <2>1. mem \in States /\ mem' = Arm(mem, p, "none")
    BY <1>1 DEF TInv, TypeOK, BackoffExpires
  <2> QED BY <2>1, LikeArm DEF Backoffs, Like, SamePools, SamePool
<1>2. ASSUME UNCHANGED mem PROVE SamePools(mem, mem')
  BY <1>2, SamePoolsRefl
<1> QED BY <1>1, <1>2 DEF Environment, LateLands, Registers, JobCompletes, GitHubForgets,
                          ContainerExits, HostReboots

\* A pass that found its pool to be deleted was not deceived, and is not later.
Doomed == pc \notin {"idle", "down"} /\ pass.ps.deleting => mem.pool[pass.pool].deleting

SamePass == pass'.pool = pass.pool /\ pass'.ps = pass.ps

LEMMA ErrorsPass ==
  ASSUME TInv, Errors, pc' \notin {"idle", "down"}
  PROVE  SamePass
BY DEF Errors, PassEnds, SkipRun, Loose, SamePass, TInv, TypeOK, PassRec

LEMMA VisitPass ==
  ASSUME TInv, Visit, pc' \notin {"idle", "down"}
  PROVE  SamePass
<1>0. pass \in PassRec
  BY DEF TInv, TypeOK
<1>1. CASE pass.todo = {}
  BY <1>1 DEF Visit, LoopEnds, DeletePool, PassEnds, Goto, SamePass
<1>2. CASE pass.todo # {}
  <2>1. PICK i \in pass.todo :
          VisitRunning(i) \/ VisitStart(i) \/ VisitStopped(i) \/ VisitGone(i)
    BY <1>2 DEF Visit
  <2>2. ASSUME \/ pass' = Passed(i)
               \/ pass' = [Passed(i) EXCEPT !.failed = TRUE]
               \/ \E run : \/ pass' = Take(i, run)
                           \/ \E b : pass' = [Take(i, run) EXCEPT !.rebooted = b]
        PROVE  SamePass
    BY <1>0, <2>2 DEF SamePass, Passed, Take, PassRec
  <2>3. ~PassEnds(mem, FALSE)
    BY DEF PassEnds
  <2> QED BY <2>1, <2>2, <2>3 DEF VisitRunning, VisitStart, VisitStopped, VisitGone, BeginCleanup
<1> QED BY <1>1, <1>2

LEMMA PassStays ==
  ASSUME TInv, Pass, pc' \notin {"idle", "down"}, pass'.moved
  PROVE  SamePass /\ pc \notin {"idle", "down"}
<1>0. pass \in PassRec
  BY DEF TInv, TypeOK
<1>1. CASE \E p \in Pools : Tick(p)
  BY <1>1 DEF Tick, NoPass
<1>2. CASE CommandFails \/ CommandTimesOut
  BY <1>2, ErrorsPass DEF CommandFails, CommandTimesOut, Errors, Fatal, Collected
<1>3. CASE List \/ Relist \/ Remotes
  <2>1. pass'.moved => pass.moved
    BY <1>0, <1>3 DEF List, Relist, Remotes, PassEnds, DeletePool, NoPass, PassRec
  <2> QED BY <1>3, <2>1 DEF List, Relist, Remotes, Undisturbed
<1>4. CASE ForceLoop
  <2>1. ASSUME NEW i, NEW r, pass' = Take(i, r) PROVE SamePass
    BY <1>0, <2>1 DEF Take, SamePass, PassRec
  <2> QED BY <1>4, <2>1 DEF ForceLoop, ForceDone, ForceNext, SamePass
<1>5. CASE ForceArchive \/ Archive
  BY <1>0, <1>5 DEF ForceArchive, Archive, Archived, SamePass, PassRec
<1>6. CASE ForceRemove
  BY <1>0, <1>6, ErrorsPass DEF ForceRemove, SamePass, PassRec
<1>7. CASE Visit
  BY <1>7, VisitPass DEF Visit
<1>8. CASE ReadBoot
  <2>1. ASSUME NEW i, NEW r, NEW b, pass' = [Take(i, r) EXCEPT !.rebooted = b] PROVE SamePass
    BY <1>0, <2>1 DEF Take, SamePass, PassRec
  <2> QED BY <1>8, <2>1 DEF ReadBoot, BeginCleanup, Undisturbed, PassEnds
<1>9. CASE CreateContainer \/ RemoveContainer \/ Prepare
  BY <1>9, ErrorsPass DEF CreateContainer, RemoveContainer, Prepare, Goto, SamePass
<1>10. CASE StartContainer
  BY <1>0, <1>10, ErrorsPass DEF StartContainer, Loose, SamePass, PassRec
<1>11. CASE FreshList \/ Unregister \/ Repair
  BY <1>0, <1>11, ErrorsPass
     DEF FreshList, Unregister, Repair, RemoveDirectory, FinishRun, SkipRun, Loose, Goto, SamePass,
         PassRec
<1>12. CASE Replenish
  BY <1>12 DEF Replenish, PassEnds
<1> QED BY <1>1, <1>2, <1>3, <1>4, <1>5, <1>6, <1>7, <1>8, <1>9, <1>10, <1>11, <1>12 DEF Pass

LEMMA DoomedStep ==
  ASSUME TInv, TInv', Accord, Accord', Doomed, [Next]_vars
  PROVE  Doomed'
<1> SUFFICES ASSUME pc' \notin {"idle", "down"}, pass'.ps.deleting
             PROVE  mem'.pool[pass'.pool].deleting
  BY DEF Doomed
<1>1. CASE ~pass'.moved
  <2>1. mem'.pool[pass'.pool] = [pass'.ps EXCEPT !.backoff = mem'.pool[pass'.pool].backoff]
    BY <1>1 DEF Accord, PoolHeld
  <2>2. pass'.ps \in PoolRec
    BY DEF TInv, TypeOK, PassRec
  <2> QED BY <2>1, <2>2 DEF PoolRec
<1>2. CASE pass'.moved
  <2> DEFINE p == pass.pool
  <2>a. ASSUME pass' \in {pass, [pass EXCEPT !.moved = TRUE]}, pc' = pc PROVE SamePass
    BY <2>a DEF SamePass, TInv, TypeOK, PassRec
  <2>b. ASSUME SamePass, pc \notin {"idle", "down"}
        PROVE  /\ p \in Pools /\ mem.pool[p].exists /\ mem.pool[p].deleting
               /\ mem'.pool[p].exists /\ pass'.pool = p
    BY <2>b DEF SamePass, Doomed, Accord, PoolHeld, Existing
  <2>c. ASSUME SamePass, pc \notin {"idle", "down"}, SamePools(mem, mem')
        PROVE  mem'.pool[pass'.pool].deleting
    BY <2>b, <2>c DEF SamePools, SamePool
  <2>1. CASE Pass
    <3>1. SamePass /\ pc \notin {"idle", "down"}
      BY <1>2, <2>1, PassStays
    <3>2. ~Vanishing
      <4>1. mem'.pool[p].exists /\ p \in Pools /\ mem \in States
        BY <2>b, <3>1 DEF TInv, TypeOK
      <4> QED BY <4>1 DEF Vanishing, Absent, States
    <3> QED BY <2>1, <2>c, <3>1, <3>2, PassPools
  <2>2. CASE Request
    <3>1. SamePass /\ pc \notin {"idle", "down"}
      BY <2>2, <2>a, KeptRequest DEF MoveEpoch, RefusedStatus
    <3>2. Edited(mem.pool[p], mem'.pool[p]) /\ mem.pool[p].exists /\ mem.pool[p].deleting
          /\ pass'.pool = p
      BY <2>2, <2>b, <3>1, RequestEdits
    <3> QED BY <3>2 DEF Edited, SamePool
  <2>3. CASE Crash \/ Restart
    BY <1>2, <2>3 DEF Crash, Restart
  <2>4. CASE Environment
    <3>1. pass' = pass /\ pc' = pc
      BY <2>4 DEF Environment, BackoffExpires, LateLands, Registers, JobCompletes, GitHubForgets,
                  ContainerExits, HostReboots
    <3>2. SamePools(mem, mem')
      BY <2>4, EnvironmentPools
    <3> QED BY <2>a, <2>c, <3>1, <3>2
  <2>5. CASE UNCHANGED vars
    BY <2>5, <2>a, <2>c, SamePoolsRefl DEF vars
  <2> QED BY <2>1, <2>2, <2>3, <2>4, <2>5 DEF Next
<1> QED BY <1>1, <1>2

LEMMA PoolsStep ==
  ASSUME TInv, Accord, [Next]_vars
  PROVE  (\A p \in Pools : Edited(mem.pool[p], mem'.pool[p])) \/ Vanishing
<1>1. CASE Request
  BY <1>1, RequestEdits
<1>2. ASSUME SamePools(mem, mem') PROVE \A p \in Pools : Edited(mem.pool[p], mem'.pool[p])
  BY <1>2 DEF SamePools, Edited
<1>3. CASE Crash \/ Restart \/ UNCHANGED vars
  BY <1>2, <1>3, SamePoolsRefl DEF Crash, Restart, Accord, Synced, vars
<1> QED BY <1>1, <1>2, <1>3, PassPools, EnvironmentPools DEF Next

-----------------------------------------------------------------------------
(* What a step makes of the runs of a pool.                                *)

LEMMA RunsCount ==
  ASSUME NEW s, NEW p
  PROVE  IsFiniteSet(RunsOf(s, p)) /\ Cardinality(RunsOf(s, p)) \in Nat
BY RunIdsAssumption, FS_Subset, FS_CardinalityType DEF Recorded, RunsOf

\* A pool without a record has no run.
LEMMA NoneHoused ==
  ASSUME Accord, NEW p \in Pools, ~mem.pool[p].exists
  PROVE  Cardinality(RunsOf(mem, p)) = 0
<1>1. RunsOf(mem, p) = {}
  BY DEF Accord, Sound, Housed, RunsOf, Existing
<1> QED BY <1>1, FS_EmptySet

\* The runs of a pool stay, unless the pass forgets one or records one.
LEMMA RunsMove ==
  ASSUME TInv, TInv', Accord, World, Notes, [Next]_vars, NEW p \in Pools
  PROVE  \/ RunsOf(mem', p) = RunsOf(mem, p)
         \/ \E i \in RunsOf(mem, p) : RunsOf(mem', p) = RunsOf(mem, p) \ {i} /\ mem'.pool = mem.pool
         \/ \E i : /\ i \notin RunsOf(mem, p) /\ RunsOf(mem', p) = RunsOf(mem, p) \cup {i}
                   /\ SamePools(mem, mem') /\ mem.pool[p].exists
                   /\ Cardinality(RunsOf(mem, p)) < Wanted(mem.pool[p])
<1>0. mem \in States /\ mem' \in States
  BY DEF TInv, TypeOK
<1>1. Good /\ (NoteKept \/ Noting)
  BY StepGood, NotesStep
<1>2. CASE NoteKept
  <2>1. Recorded(mem') = Recorded(mem)
    BY <1>2 DEF NoteKept, Recorded
  <2> QED BY <1>1, <2>1 DEF Good, Forward, RunsOf
<1>3. CASE Archive \/ ForceArchive
  <2> DEFINE r == [pass.clone[pass.cur] EXCEPT !.logSaved = TRUE]
  <2>1. /\ pass.cur \in Recorded(mem) /\ r.phase = "cleanup" /\ r.pool = mem.run[pass.cur].pool
        /\ mem'.run = [mem.run EXCEPT ![pass.cur] = r]
    BY <1>3, ArchivedFacts DEF Archive, ForceArchive
  <2> HIDE DEF r
  <2>2. \A i \in RunIds : /\ mem'.run[i].pool = mem.run[i].pool
                          /\ mem'.run[i].phase = "none" <=> mem.run[i].phase = "none"
    BY <1>0, <2>1 DEF States, Recorded
  <2> QED BY <2>2 DEF RunsOf, Recorded
<1>4. CASE FinishRun(pass.cur)
  <2>1. mem' = [mem EXCEPT !.run[pass.cur] = NoRun]
    BY <1>4 DEF FinishRun, Save
  <2>2. /\ mem'.pool = mem.pool
        /\ \A i \in RunIds : mem'.run[i] = IF i = pass.cur THEN NoRun ELSE mem.run[i]
    BY <1>0, <2>1 DEF States
  <2>3. RunsOf(mem', p) = RunsOf(mem, p) \ {pass.cur}
    BY <2>2 DEF RunsOf, Recorded, NoRun
  <2> QED BY <2>2, <2>3
<1>5. CASE Replenish
  <2>0. pass.pool \in Pools /\ pass.ps \in PoolRec
    BY <1>5 DEF Replenish, TInv, TypeOK, Shape, PassRec
  <2>1. PICK j \in RunIds, ok \in BOOLEAN :
          /\ Unused(j)
          /\ PassEnds([mem EXCEPT !.run[j] = NewRun(pass.pool, pass.ps.gen)], ok)
    BY <1>5 DEF Replenish
  <2> DEFINE new == NewRun(pass.pool, pass.ps.gen)
             s == [mem EXCEPT !.run[j] = new]
  <2>2. /\ s \in States /\ s.run = [mem.run EXCEPT ![j] = new] /\ s.pool = mem.pool
        /\ new.pool = pass.pool /\ new.phase # "none"
    BY <1>0, <2>0, ConstantTypes, SetRunType DEF States, PoolRec, NewRun, NoRun
  <2>3. PassEnds(s, ok) /\ j \notin Recorded(mem)
    BY <2>1 DEF Unused
  <2> HIDE DEF s, new
  <2>4. mem'.run = [mem.run EXCEPT ![j] = new] /\ SamePools(mem, mem')
    BY <2>0, <2>2, <2>3, EndsKeep, EndsPools
  <2>5. Recorded(mem') = Recorded(mem) \cup {j} /\ j \in Recorded(mem')
    BY <1>0, <2>2, <2>4 DEF States, Recorded
  <2>6. CASE p = pass.pool
    <3>1. RunsOf(mem', p) = RunsOf(mem, p) \cup {j} /\ j \notin RunsOf(mem, p)
      BY <1>0, <2>2, <2>3, <2>4, <2>5, <2>6 DEF States, RunsOf
    <3>2. p \in Existing(mem) /\ Cardinality(RunsOf(mem, p)) < Wanted(mem.pool[p])
      BY <1>5, <2>3, <2>5, <2>6, ReplenishGood
    <3> QED BY <2>4, <3>1, <3>2 DEF Existing
  <2>7. CASE p # pass.pool
    BY <1>0, <2>2, <2>4, <2>5, <2>7, <2>3 DEF States, RunsOf, Recorded
  <2> QED BY <2>6, <2>7
<1> QED BY <1>1, <1>2, <1>3, <1>4, <1>5 DEF Noting

\* A step of the engine is for every pool one of module PoolLife, or none.
LEMMA PoolMoves ==
  ASSUME TInv, TInv', Accord, World, Notes, Doomed, [Next]_vars, NEW p \in Pools
  PROVE  Moved(PoolSeen(mem, p), PoolSeen(mem', p))
<1> DEFINE n == Cardinality(RunsOf(mem, p))
           r == mem.pool[p]
           t == mem'.pool[p]
<1>0. /\ r \in PoolRec /\ t \in PoolRec /\ n \in Nat /\ IsFiniteSet(RunsOf(mem, p))
      /\ PoolSeen(mem, p) = Shown(r, n)
      /\ PoolSeen(mem', p) = Shown(t, Cardinality(RunsOf(mem', p)))
  BY RunsCount DEF TInv, TypeOK, States, PoolSeen, Shown
<1>1. CASE RunsOf(mem', p) = RunsOf(mem, p)
  <2>1. ~r.exists => n = 0
    BY NoneHoused
  <2>2. CASE Edited(r, t)
    BY <1>0, <1>1, <2>1, <2>2, ShownEdited
  <2>3. CASE Vanishing /\ p = pass.pool
    <3>1. n = 0
      BY <2>3, FS_EmptySet DEF Vanishing, Emptied
    <3>2. r.exists /\ r.deleting /\ t = Absent
      BY <2>3 DEF Vanishing, Doomed, Accord, PoolHeld, Existing, TInv, TypeOK, States
    <3> QED BY <1>0, <1>1, <3>1, <3>2, ShownVanish
  <2>4. CASE Vanishing /\ p # pass.pool
    <3>1. t = r
      BY <2>4 DEF Vanishing, TInv, TypeOK, States
    <3> QED BY <1>0, <1>1, <3>1 DEF Moved
  <2> QED BY <2>2, <2>3, <2>4, PoolsStep
<1>2. CASE \E i \in RunsOf(mem, p) : RunsOf(mem', p) = RunsOf(mem, p) \ {i} /\ mem'.pool = mem.pool
  <2>1. PICK i \in RunsOf(mem, p) : RunsOf(mem', p) = RunsOf(mem, p) \ {i}
    BY <1>2
  <2>2. Cardinality(RunsOf(mem', p)) = n - 1
    BY <1>0, <2>1, FS_RemoveElement
  <2>3. n > 0
    BY <1>0, <2>1, FS_EmptySet
  <2>4. SamePool(r, t)
    BY <1>2 DEF SamePool
  <2> HIDE DEF n, r, t
  <2> QED BY <1>0, <2>2, <2>3, <2>4, ShownLeave
<1>3. CASE \E i : /\ i \notin RunsOf(mem, p) /\ RunsOf(mem', p) = RunsOf(mem, p) \cup {i}
                  /\ SamePools(mem, mem') /\ mem.pool[p].exists
                  /\ Cardinality(RunsOf(mem, p)) < Wanted(mem.pool[p])
  <2>1. PICK i : i \notin RunsOf(mem, p) /\ RunsOf(mem', p) = RunsOf(mem, p) \cup {i}
    BY <1>3
  <2>2. Cardinality(RunsOf(mem', p)) = n + 1
    BY <1>0, <2>1, FS_AddElement
  <2>3. SamePool(r, t) /\ r.exists /\ n < Wanted(r)
    BY <1>3 DEF SamePools
  <2> HIDE DEF n, r, t
  <2> QED BY <1>0, <2>2, <2>3, ShownHire
<1> QED BY <1>1, <1>2, <1>3, RunsMove

-----------------------------------------------------------------------------
(* The refinement of the pools.                                            *)

LEMMA PoolIsSeen ==
  ASSUME TypeOK, Synced, NEW p \in Pools
  PROVE  PoolSeen(disk, p) = PoolSeen(mem, p)
<1>1. RunsOf(disk, p) = RunsOf(mem, p) /\ disk.pool = mem.pool
  BY LikeDisk, LikeSame DEF TypeOK, Synced
<1> QED BY <1>1 DEF PoolSeen

LEMMA PoolIsSeenNext ==
  ASSUME TypeOK', Synced', NEW p \in Pools
  PROVE  PoolSeen(disk', p) = PoolSeen(mem', p)
<1>1. mem' \in States /\ disk' \in States /\ Like(mem', disk')
  BY LikeObserved DEF TypeOK, Synced
<1>2. RunsOf(disk', p) = RunsOf(mem', p)
  BY <1>1, LikeSame
<1>3. disk'.pool = mem'.pool
  BY DEF Synced
<1> QED BY <1>2, <1>3 DEF PoolSeen

LEMMA StepRefinesPools ==
  ASSUME TInv, TInv', Accord, Accord', World, Notes, Doomed, [Next]_vars
  PROVE  [PoolOutside!Next]_([p \in Pools |-> PoolSeen(disk, p)])
<1> DEFINE life == [p \in Pools |-> PoolSeen(disk, p)]
           next == [p \in Pools |-> PoolSeen(disk', p)]
<1>1. ASSUME NEW p \in Pools
      PROVE  /\ PoolSeen(disk', p) \in PoolOutside!Lives
             /\ Moved(PoolSeen(disk, p), PoolSeen(disk', p))
  <2>1. PoolSeen(disk, p) = PoolSeen(mem, p) /\ PoolSeen(disk', p) = PoolSeen(mem', p)
    BY PoolIsSeen, PoolIsSeenNext DEF TInv, Accord
  <2>2. PoolSeen(mem', p) \in PoolOutside!Lives
    BY RunsCount, ShownType DEF TInv, TypeOK, States, PoolSeen, Shown
  <2> QED BY <2>1, <2>2, PoolMoves
<1>2. next \in [Pools -> PoolOutside!Lives]
      /\ \A p \in Pools : next[p] = life[p] \/ PoolOutside!Step(life[p], next[p])
  BY <1>1 DEF Moved
<1>3. life' = next
  OBVIOUS
<1> QED BY <1>2, <1>3 DEF PoolOutside!Next

LEMMA InitRefinesPools ==
  ASSUME Init
  PROVE  PoolOutside!Init /\ Doomed
<1>1. ASSUME NEW p \in Pools
      PROVE  \/ PoolSeen(disk, p) = PoolOutside!Unborn
             \/ /\ PoolSeen(disk, p) \in PoolOutside!Lives
                /\ PoolOutside!Add(PoolOutside!Unborn, PoolSeen(disk, p))
  <2>1. RunsOf(disk, p) = {}
    BY DEF Init, RunsOf, Recorded, NoRun
  <2>2. PoolSeen(disk, p) = Shown(disk.pool[p], 0)
    BY <2>1, FS_EmptySet DEF PoolSeen, Shown
  <2>3. disk.pool[p] = Absent \/ \E n \in 0 .. MaxRunners : disk.pool[p] = NewPool(n)
    BY DEF Init
  <2>4. CASE disk.pool[p] = Absent
    BY <2>2, <2>4 DEF Shown, Intent, Absent, PoolOutside!Unborn
  <2>5. ASSUME NEW n \in 0 .. MaxRunners, disk.pool[p] = NewPool(n)
        PROVE  /\ PoolSeen(disk, p) \in PoolOutside!Lives
               /\ PoolOutside!Add(PoolOutside!Unborn, PoolSeen(disk, p))
    <3>1. Shown(NewPool(n), 0) = [intent |-> "stopped", gen |-> 1, replicas |-> n, runs |-> 0]
      BY DEF Shown, Intent, NewPool, Absent
    <3>2. n \in Nat
      BY BoundsAssumption
    <3> QED BY <2>2, <2>5, <3>1, <3>2 DEF PoolOutside!Lives, PoolOutside!Add
  <2> QED BY <2>3, <2>4, <2>5
<1>2. Doomed
  BY DEF Init, Doomed
<1> QED BY <1>1, <1>2 DEF PoolOutside!Init

\* The engine implements module PoolLife: whoever edits a pool, interrupts its
\* pass or restarts the manager, what the store holds of the pool moves by one
\* request or one run at a time, and it goes after its last run (manager.rs:724).
THEOREM EngineRefinesPools == Spec => PoolsLiveAsPromised
<1>1. Init => PoolOutside!Init /\ Notes /\ Doomed
  BY InitRefines, InitRefinesPools
<1>2. TInv /\ Accord /\ World /\ Notes /\ Doomed /\ [Next]_vars /\ TInv' /\ Accord'
      => (Notes /\ Doomed)'
  BY NotesStep, DoomedStep
<1>3. TInv /\ Accord /\ World /\ Notes /\ Doomed /\ [Next]_vars /\ TInv' /\ Accord'
      => [PoolOutside!Next]_([p \in Pools |-> PoolSeen(disk, p)])
  BY StepRefinesPools
<1> QED BY <1>1, <1>2, <1>3, WorldHolds, PTL DEF Spec, PoolsLiveAsPromised, PoolOutside!Spec

-----------------------------------------------------------------------------
(* A surplus of runs comes from a request that fails halfway.              *)

LEMMA ServingCount ==
  ASSUME NEW s, NEW p
  PROVE  IsFiniteSet(Serving(s, p)) /\ Cardinality(Serving(s, p)) \in Nat
BY RunIdsAssumption, FS_Subset, FS_CardinalityType DEF Recorded, RunsOf, Serving

LEMMA FewerServe ==
  ASSUME NEW s \in States, NEW t \in States, NEW p \in Pools, Trim(s, p),
         Serving(t, p) \subseteq Serving(s, p), Wanted(s.pool[p]) <= Wanted(t.pool[p])
  PROVE  Trim(t, p)
<1>1. Cardinality(Serving(t, p)) <= Cardinality(Serving(s, p))
  BY ServingCount, FS_Subset
<1>2. Wanted(s.pool[p]) \in Nat /\ Wanted(t.pool[p]) \in Nat
  BY BoundsAssumption DEF States, PoolRec, Wanted
<1> QED BY <1>1, <1>2, ServingCount DEF Trim

LEMMA NoneServe ==
  ASSUME NEW s \in States, NEW p \in Pools, Serving(s, p) = {}
  PROVE  Trim(s, p)
<1>1. Wanted(s.pool[p]) \in Nat
  BY BoundsAssumption DEF States, PoolRec, Wanted
<1> QED BY <1>1, FS_EmptySet DEF Trim

\* A pool that is gone, stopped or being removed has no run that takes work.
LEMMA UnwantedIsTrim ==
  ASSUME NEW s \in States, Sound(s), NEW p \in Pools,
         ~s.pool[p].exists \/ ~s.pool[p].running \/ s.pool[p].deleting
  PROVE  Trim(s, p)
BY NoneServe DEF Sound, Housed, Draining, Existing, Serving, RunsOf

\* The record of a pool changes from r to t, and the runs it had fit in t.
Roomy(r, t) == ~r.exists \/ ~t.running \/ Wanted(r) <= Wanted(t)

LEMMA StartedIsRoomy ==
  ASSUME NEW r \in PoolRec, NEW t, t.running, ~t.deleting, t.replicas = r.replicas
  PROVE  Roomy(r, t)
<1>1. r.replicas \in Nat
  BY BoundsAssumption DEF PoolRec
<1>2. Wanted(t) = r.replicas
  BY DEF Wanted
<1>3. Wanted(r) \in {0, r.replicas}
  BY DEF Wanted
<1> QED BY <1>1, <1>2, <1>3 DEF Roomy

LEMMA RequestTrims ==
  ASSUME TInv, TInv', Accord, Accord', Request, NEW q \in Pools, Trim(mem, q)
  PROVE  Trim(mem', q) \/ Unmarked(q)
<1>0. /\ TypeOK /\ mem \in States /\ mem' \in States /\ disk \in States
      /\ Sound(mem) /\ Sound(mem') /\ Synced
      /\ \A p \in Pools : mem.pool[p] \in PoolRec
  BY DEF TInv, TypeOK, States, Accord
<1> DEFINE Claim == Trim(mem', q)
<1>1. Serving(mem', q) \subseteq Serving(mem, q)
  BY RequestGood DEF Shrinks, Good, Forward, Serving, RunsOf
<1>2. Roomy(mem.pool[q], mem'.pool[q]) => Claim
  <2>1. CASE ~mem.pool[q].exists
    <3>1. Serving(mem', q) = {}
      BY <1>0, <1>1, <2>1 DEF Sound, Housed, Serving, RunsOf, Existing
    <3> QED BY <1>0, <3>1, NoneServe
  <2>2. CASE ~mem'.pool[q].running
    BY <1>0, <2>2, UnwantedIsTrim
  <2>3. CASE Wanted(mem.pool[q]) <= Wanted(mem'.pool[q])
    BY <1>0, <1>1, <2>3, FewerServe
  <2> QED BY <2>1, <2>2, <2>3 DEF Roomy
<1> HIDE DEF Claim
<1>3. \A p \in Pools : Wanted(mem.pool[p]) \in Nat
  BY <1>0, BoundsAssumption DEF Wanted, PoolRec
<1>b. Roomy(mem.pool[q], mem.pool[q])
  BY <1>3 DEF Roomy
<1>a. ASSUME NEW kind, NEW s \in States, NEW P, NEW force,
             \/ Handled(kind, s) \/ Configured(kind, s, s)
             \/ Configured(kind, s, MarkRetiring(s, P)) \/ Handled(kind, Retire(s, P, force)),
             Roomy(mem.pool[q], s.pool[q])
      PROVE  Claim
  <2>1. MarkRetiring(s, P).pool = s.pool /\ Retire(s, P, force).pool = s.pool
    BY DEF MarkRetiring, Retire, States
  <2>2. mem' \in {s, MarkRetiring(s, P), Retire(s, P, force)}
    BY <1>a DEF Handled, Configured, Save
  <2> QED BY <1>a, <1>2, <2>1, <2>2
\* The configuration of s is committed, and the runs of the pools P are marked, or not.
<1>c. ASSUME NEW kind, NEW s \in States, NEW P, q \in P, s.run = mem.run,
             Configured(kind, s, MarkRetiring(s, P))
      PROVE  Claim \/ mem'.run = mem.run
  <2>1. MarkRetiring(s, P).pool = s.pool
    BY DEF MarkRetiring, States
  <2>2. mem' \in {s, MarkRetiring(s, P)}
    BY <1>c DEF Handled, Configured, Save
  <2>3. Trim(MarkRetiring(s, P), q)
    BY <1>c, <2>1, MarkedFit DEF Trim
  <2> QED BY <1>c, <2>2, <2>3 DEF Claim
<1>e. ASSUME NEW P \in SUBSET Pools, NEW new \in [P -> PoolRec]
      PROVE  /\ WithPools(mem, new) \in States
             /\ WithPools(mem, new).pool[q] = IF q \in P THEN new[q] ELSE mem.pool[q]
  BY <1>0, WithPoolsType DEF WithPools, States
<1>f. ASSUME NEW p \in Pools, NEW ps \in PoolRec
      PROVE  /\ [mem EXCEPT !.pool[p] = ps] \in States
             /\ [mem EXCEPT !.pool[p] = ps].run = mem.run
             /\ [mem EXCEPT !.pool[p] = ps].pool[q] = IF q = p THEN ps ELSE mem.pool[q]
  BY <1>0, SetPoolType DEF States
<1>4. ASSUME NEW P \in Targets, Start(P) PROVE Claim
  <2> DEFINE up == [p \in P |-> [mem.pool[p] EXCEPT !.running = TRUE, !.backoff = "none"]]
  <2>1. P \in SUBSET Pools /\ \A p \in P : ~mem.pool[p].deleting
    BY <1>0, <1>4, TargetsType DEF Start
  <2>2. up \in [P -> PoolRec]
    BY <1>0, <2>1, PoolUpdateType
  <2>3. Handled("start", WithPools(mem, up))
    BY <1>4 DEF Start
  <2>4. ASSUME q \in P PROVE Roomy(mem.pool[q], up[q])
    <3>1. up[q] = [mem.pool[q] EXCEPT !.running = TRUE, !.backoff = "none"]
      BY <2>4
    <3>2. up[q].running /\ ~up[q].deleting /\ up[q].replicas = mem.pool[q].replicas
      BY <1>0, <2>1, <2>4, <3>1 DEF PoolRec
    <3> QED BY <1>0, <3>2, StartedIsRoomy
  <2> HIDE DEF up
  <2> QED BY <1>a, <1>b, <1>e, <2>1, <2>2, <2>3, <2>4
<1>5. ASSUME NEW P \in Targets, NEW force \in Forces, Stop(P, force) PROVE Claim
  <2> DEFINE down == [p \in P |-> [mem.pool[p] EXCEPT !.running = FALSE,
                                                      !.backoff = Retry(p, force)]]
  <2>1. P \in SUBSET Pools /\ force \in BOOLEAN
    BY <1>0, TargetsType DEF Forces
  <2>2. down \in [P -> PoolRec]
    BY <1>0, <2>1, PoolUpdateType, RetryType
  <2>3. Handled("stop", Retire(WithPools(mem, down), P, force))
    BY <1>5 DEF Stop
  <2>4. q \in P => Roomy(mem.pool[q], down[q])
    BY <1>0, <2>1 DEF Roomy, PoolRec
  <2> HIDE DEF down
  <2> QED BY <1>a, <1>b, <1>e, <2>1, <2>2, <2>3, <2>4
<1>6. ASSUME NEW p \in Pools, NEW force \in Forces, Remove(p, force) PROVE Claim
  <2> DEFINE dropped == [mem.pool[p] EXCEPT !.running = FALSE, !.deleting = TRUE,
                                            !.backoff = Retry(p, force)]
  <2>1. force \in BOOLEAN
    BY DEF Forces
  <2>2. dropped \in PoolRec
    BY <1>0, <2>1, PoolUpdateType, RetryType
  <2>3. Handled("remove", Retire([mem EXCEPT !.pool[p] = dropped], {p}, force))
    BY <1>6 DEF Remove
  <2>4. Roomy(mem.pool[p], dropped)
    BY <1>0 DEF Roomy, PoolRec
  <2> HIDE DEF dropped
  <2>5. Roomy(mem.pool[q], [mem EXCEPT !.pool[p] = dropped].pool[q])
    BY <1>b, <1>f, <2>2, <2>4
  <2> QED BY <1>a, <1>f, <2>2, <2>3, <2>5
<1>7. ASSUME NEW p \in Pools, NEW n \in 0 .. MaxRunners, Add(p, n) PROVE Claim
  <2>1. Roomy(mem.pool[p], NewPool(n))
    BY <1>7 DEF Add, Owns, Existing, Roomy
  <2>2. NewPool(n) \in PoolRec
    BY ConstantTypes
  <2>3. Configured("add", [mem EXCEPT !.pool[p] = NewPool(n)], [mem EXCEPT !.pool[p] = NewPool(n)])
    BY <1>7 DEF Add
  <2>4. Roomy(mem.pool[q], [mem EXCEPT !.pool[p] = NewPool(n)].pool[q])
    BY <1>b, <1>f, <2>1, <2>2
  <2> QED BY <1>a, <1>f, <2>2, <2>3, <2>4
<1>8. ASSUME NEW p \in Pools, NEW n \in 0 .. MaxRunners, Scale(p, n) PROVE Claim \/ Unmarked(q)
  <2> DEFINE ps == [mem.pool[p] EXCEPT !.replicas = n]
  <2>1. ps \in PoolRec
    BY <1>0, PoolUpdateType
  <2>2. [mem EXCEPT !.pool[p].replicas = n] = [mem EXCEPT !.pool[p] = ps]
    BY <1>0 DEF States
  <2>3. Configured("scale", [mem EXCEPT !.pool[p] = ps], MarkRetiring([mem EXCEPT !.pool[p] = ps], {p}))
    BY <1>8, <2>2 DEF Scale
  <2> DEFINE s == [mem EXCEPT !.pool[p] = ps]
  <2> HIDE DEF ps
  <2>4. s \in States /\ s.run = mem.run /\ s.pool[q] = IF q = p THEN ps ELSE mem.pool[q]
    BY <1>f, <2>1
  <2>5. Configured("scale", s, MarkRetiring(s, {p}))
    BY <2>3
  <2> HIDE DEF s
  <2>6. CASE q = p
    <3>1. q \in {p}
      BY <2>6
    <3>2. Claim \/ mem'.run = mem.run
      BY <1>c, <2>4, <2>5, <3>1
    <3> QED BY <1>8, <2>6, <3>2 DEF Unmarked
  <2>7. CASE q # p
    <3>1. Roomy(mem.pool[q], s.pool[q])
      BY <1>b, <2>4, <2>7
    <3> QED BY <1>a, <2>4, <2>5, <3>1
  <2> QED BY <2>6, <2>7
<1>9. ASSUME NEW p \in Pools, Upgrade(p) PROVE Claim \/ Unmarked(q)
  <2> DEFINE ps == [mem.pool[p] EXCEPT !.gen = @ + 1]
  <2>1. ps \in PoolRec
    BY <1>0, PoolUpdateType
  <2>2. [mem EXCEPT !.pool[p].gen = @ + 1] = [mem EXCEPT !.pool[p] = ps]
    BY <1>0 DEF States
  <2>3. Configured("upgrade", [mem EXCEPT !.pool[p] = ps], MarkRetiring([mem EXCEPT !.pool[p] = ps], {p}))
    BY <1>9, <2>2 DEF Upgrade
  <2> DEFINE s == [mem EXCEPT !.pool[p] = ps]
  <2> HIDE DEF ps
  <2>4. s \in States /\ s.run = mem.run /\ s.pool[q] = IF q = p THEN ps ELSE mem.pool[q]
    BY <1>f, <2>1
  <2>5. Configured("upgrade", s, MarkRetiring(s, {p}))
    BY <2>3
  <2> HIDE DEF s
  <2>6. CASE q = p
    <3>1. q \in {p}
      BY <2>6
    <3>2. Claim \/ mem'.run = mem.run
      BY <1>c, <2>4, <2>5, <3>1
    <3> QED BY <1>9, <2>6, <3>2 DEF Unmarked
  <2>7. CASE q # p
    <3>1. Roomy(mem.pool[q], s.pool[q])
      BY <1>b, <2>4, <2>7
    <3> QED BY <1>a, <2>4, <2>5, <3>1
  <2> QED BY <2>6, <2>7
<1>10. ASSUME NEW P \in SUBSET Existing(mem), Auth(P) PROVE Claim
  <2> DEFINE cleared == [p \in P |-> [mem.pool[p] EXCEPT !.backoff = "none"]]
  <2>1. P \in SUBSET Pools
    BY DEF Existing
  <2>2. cleared \in [P -> PoolRec]
    BY <1>0, <2>1, PoolUpdateType
  <2>3. Handled("auth", WithPools(mem, cleared)) \/ Handled("auth", mem)
    BY <1>10 DEF Auth
  <2>4. q \in P => Roomy(mem.pool[q], cleared[q])
    BY <1>0, <2>1, BoundsAssumption DEF Roomy, Wanted, PoolRec
  <2> HIDE DEF cleared
  <2> QED BY <1>0, <1>a, <1>b, <1>e, <2>1, <2>2, <2>3, <2>4
<1>11. ASSUME NEW replicas \in [Pools -> 0 .. MaxRunners],
              NEW added \in SUBSET (Pools \ Existing(mem)),
              NEW changed \in SUBSET Existing(mem), Apply(replicas, added, changed)
       PROVE  Claim \/ Unmarked(q)
  <2> DEFINE new(p) == IF p \in added THEN NewPool(replicas[p])
                       ELSE IF p \in Existing(mem)
                       THEN [mem.pool[p] EXCEPT !.replicas = replicas[p],
                               !.gen = IF p \in changed THEN @ + 1 ELSE @]
                       ELSE mem.pool[p]
             s == [mem EXCEPT !.pool = [p \in Pools |-> new(p)]]
  <2>1. ASSUME NEW p \in Pools PROVE new(p) \in PoolRec
    <3>1. replicas[p] \in 0 .. MaxRunners /\ mem.pool[p] \in PoolRec
      BY <1>0
    <3>2. [mem.pool[p] EXCEPT !.replicas = replicas[p],
             !.gen = IF p \in changed THEN @ + 1 ELSE @] \in PoolRec
      <4>1. mem.pool[p].gen \in Nat /\ mem.pool[p].gen + 1 \in Nat
        BY <3>1 DEF PoolRec
      <4> QED BY <3>1, <4>1, PoolUpdateType
    <3> QED BY <3>1, <3>2, ConstantTypes
  <2>2. s \in States /\ s.run = mem.run /\ s.pool[q] = new(q)
    BY <1>0, <2>1 DEF States
  <2>3. Configured("apply", s, MarkRetiring(s, Existing(s)))
    BY <1>11 DEF Apply
  <2>4. mem.pool[q].exists => new(q).exists
    BY <1>0 DEF PoolRec, Existing
  <2> HIDE DEF new, s
  <2>5. CASE ~mem.pool[q].exists
    BY <1>2, <2>5 DEF Roomy
  <2>6. CASE mem.pool[q].exists
    <3>1. q \in Existing(s)
      BY <2>2, <2>4, <2>6 DEF Existing
    <3>2. Claim \/ mem'.run = mem.run
      BY <1>c, <2>2, <2>3, <3>1
    <3> QED BY <1>11, <3>2 DEF Unmarked
  <2> QED BY <2>5, <2>6
<1>12. CASE Refused \/ RefusedStatus
  <2>1. mem' = disk
    BY <1>12 DEF Refused, RefusedStatus, Handled, Save
  <2>2. mem.pool = disk.pool
    BY <1>0 DEF Synced
  <2> QED BY <1>2, <1>b, <2>1, <2>2 DEF Claim
<1> QED
  BY <1>4, <1>5, <1>6, <1>7, <1>8, <1>9, <1>10, <1>11, <1>12 DEF Request, Claim

\* A run that is new was wanted, and otherwise fewer runs take work.
LEMMA StepTrims ==
  ASSUME TInv, TInv', Accord, Accord', World, Notes, [Next]_vars,
         NEW p \in Pools, Trim(mem, p)
  PROVE  Trim(mem', p) \/ Unmarked(p)
<1>0. /\ mem \in States /\ mem' \in States /\ Sound(mem')
      /\ mem.pool[p] \in PoolRec /\ mem'.pool[p] \in PoolRec
      /\ Wanted(mem.pool[p]) \in Nat
  <2>1. mem \in States /\ mem' \in States /\ Sound(mem')
    BY DEF TInv, TypeOK, Accord
  <2>2. mem.pool[p] \in PoolRec /\ mem'.pool[p] \in PoolRec
    BY <2>1 DEF States
  <2> QED BY <2>1, <2>2, BoundsAssumption DEF PoolRec, Wanted
<1>1. CASE Request
  BY <1>1, RequestTrims
<1>2. ASSUME NEW i, i \notin RunsOf(mem, p), RunsOf(mem', p) = RunsOf(mem, p) \cup {i},
             SamePools(mem, mem'), Cardinality(RunsOf(mem, p)) < Wanted(mem.pool[p])
      PROVE  Trim(mem', p)
  <2>1. Wanted(mem'.pool[p]) = Wanted(mem.pool[p])
    BY <1>2 DEF SamePools, SamePool, Wanted
  <2>2. IsFiniteSet(RunsOf(mem, p)) /\ IsFiniteSet(RunsOf(mem', p))
    BY RunIdsAssumption, FS_Subset DEF Recorded, RunsOf
  <2>3. Cardinality(RunsOf(mem', p)) = Cardinality(RunsOf(mem, p)) + 1
    BY <1>2, <2>2, FS_AddElement
  <2>4. Cardinality(Serving(mem', p)) <= Cardinality(RunsOf(mem', p))
    BY <2>2, FS_Subset DEF Serving
  <2>5. Cardinality(RunsOf(mem, p)) \in Nat /\ Cardinality(RunsOf(mem', p)) \in Nat
    BY <2>2, FS_CardinalityType
  <2> QED BY <1>0, <1>2, <2>1, <2>3, <2>4, <2>5, ServingCount DEF Trim
<1>3. ASSUME ~Request, RunsOf(mem', p) \subseteq RunsOf(mem, p) PROVE Trim(mem', p)
  <2>1. SamePools(mem, mem') \/ Vanishing
    <3>1. CASE Crash \/ Restart \/ UNCHANGED vars
      BY <3>1, SamePoolsRefl DEF Crash, Restart, Accord, Synced, vars
    <3> QED BY <1>3, <3>1, PassPools, EnvironmentPools DEF Next
  <2>2. Serving(mem', p) \subseteq Serving(mem, p)
    <3>1. Forward(mem, mem')
      BY StepGood DEF Good
    <3> QED BY <1>3, <3>1 DEF Forward, Serving, RunsOf
  <2>3. CASE Vanishing /\ p = pass.pool
    <3>1. ~mem'.pool[p].exists
      BY <1>0, <2>3 DEF Vanishing, Absent, States
    <3> QED BY <1>0, <3>1, UnwantedIsTrim
  <2>4. CASE SamePools(mem, mem') \/ p # pass.pool
    <3>1. SamePool(mem.pool[p], mem'.pool[p])
      BY <1>0, <2>1, <2>4 DEF Vanishing, SamePools, SamePool, States
    <3>2. Wanted(mem'.pool[p]) = Wanted(mem.pool[p])
      BY <3>1 DEF SamePool, Wanted
    <3> QED BY <1>0, <2>2, <3>2, FewerServe
  <2> QED BY <2>1, <2>3, <2>4
<1> QED BY <1>1, <1>2, <1>3, RunsMove

\* A pool comes to have more runs that take work than it wants in one way only:
\* commit_config (manager.rs:114) commits the new number or generation of scale,
\* upgrade or apply to the store, its write of config.toml fails, and the handler
\* returns (265, 283, 395) before mark_retiring.
THEOREM SurplusComesUnmarked == Spec => SurplusIsUnmarked
<1>1. Init => Notes
  BY InitRefines
<1>2. TInv /\ Accord /\ World /\ Notes /\ [Next]_vars /\ TInv' /\ Accord' => Notes'
  BY NotesStep
<1>3. TInv /\ Accord /\ World /\ Notes /\ [Next]_vars /\ TInv' /\ Accord'
      => [\A p \in Pools : Trim(mem, p) => Trim(mem', p) \/ Unmarked(p)]_vars
  BY StepTrims
<1> QED BY <1>1, <1>2, <1>3, WorldHolds, PTL DEF Spec, SurplusIsUnmarked

-----------------------------------------------------------------------------
(* The runs to be terminated come first in a pass.                         *)

\* A run that is to be terminated takes no more work: a request that sets the
\* one sets the other.
ForceDrains == \A i \in Recorded(mem) : mem.run[i].force => mem.run[i].retiring

LEMMA ForceDrainsStep ==
  ASSUME TInv, TInv', Accord, ForceDrains, [Next]_vars
  PROVE  ForceDrains'
<1>1. Forward(mem, mem') /\ (Recorded(mem') \subseteq Recorded(mem) \/ Replenish)
  BY StepGood DEF Good
<1>2. ASSUME NEW i \in Recorded(mem') \cap Recorded(mem), mem'.run[i].force
      PROVE  mem'.run[i].retiring
  BY <1>1, <1>2 DEF Forward, ForceDrains
<1>3. ASSUME Replenish, NEW i \in Recorded(mem') \ Recorded(mem) PROVE ~mem'.run[i].force
  <2> DEFINE new == NewRun(pass.pool, pass.ps.gen)
             s(k) == [mem EXCEPT !.run[k] = new]
  <2>1. PICK j \in RunIds, ok \in BOOLEAN : PassEnds(s(j), ok)
    BY <1>3 DEF Replenish
  <2>2. mem \in States /\ pass.pool \in Pools /\ new \in RunRec /\ ~new.force
    BY <1>3, ConstantTypes DEF Replenish, TInv, TypeOK, Shape, PassRec, PoolRec, NewRun, NoRun
  <2> HIDE DEF new
  <2>3. s(j) \in States /\ s(j).run = [mem.run EXCEPT ![j] = new]
    BY <2>2, SetRunType DEF States
  <2> HIDE DEF s
  <2>4. mem'.run = [mem.run EXCEPT ![j] = new]
    BY <2>1, <2>2, <2>3, EndsKeep
  <2>5. i \in RunIds /\ (i = j \/ mem'.run[i] = mem.run[i])
    BY <2>2, <2>4 DEF Recorded, States
  <2>6. i = j
    BY <2>5 DEF Recorded
  <2> QED BY <2>2, <2>4, <2>6 DEF States
<1> QED BY <1>1, <1>2, <1>3 DEF ForceDrains

Forced(p) == {i \in RunsOf(mem, p) : mem.run[i].force}

\* manager.rs:533-572: while a pass works through the runs to be terminated,
\* those it has dealt with are gone; from its second listing on all of them
\* are, before it asks GitHub for anything.
Marking == {"relist", "remotes", "image"} \cup Looping
ForceHeld ==
  ~pass.moved =>
    /\ pc \in Forcing => \A i \in Forced(pass.pool) \ Cloned : Gone(i)
    /\ pc \in Marking => \A i \in Forced(pass.pool) : Gone(i)

\* A run that is terminated was to be terminated before the step.
StayForced ==
  \A i \in RunIds :
    mem'.run[i].phase # "none" /\ mem'.run[i].force =>
      mem.run[i].phase # "none" /\ mem.run[i].force /\ mem'.run[i].pool = mem.run[i].pool

LEMMA RunsForced ==
  ASSUME mem'.run = mem.run
  PROVE  StayForced
BY DEF StayForced

LEMMA UpdateForced ==
  ASSUME TInv, NEW i \in RunIds, NEW r, mem' = [mem EXCEPT !.run[i] = r],
         r.phase # "none" /\ r.force =>
           mem.run[i].phase # "none" /\ mem.run[i].force /\ r.pool = mem.run[i].pool
  PROVE  StayForced
<1>1. \A j \in RunIds : mem'.run[j] = IF j = i THEN r ELSE mem.run[j]
  BY DEF TInv, TypeOK, States
<1> QED BY <1>1 DEF StayForced

LEMMA HandForced ==
  ASSUME TInv, Accord, ~pass.moved, NEW i \in Cloned, NEW r, mem' = [mem EXCEPT !.run[i] = r],
         r.force = pass.clone[i].force, r.pool = pass.clone[i].pool
  PROVE  StayForced
<1>1. i \in RunIds /\ Agrees(pass.clone[i], mem.run[i]) /\ pass.clone[i].phase # "none"
  BY DEF Accord, ClonesHeld, Cloned
<1> QED BY <1>1, UpdateForced DEF Agrees

LEMMA CleanupForced ==
  ASSUME TInv, NEW i \in RunIds, NEW r \in RunRec, NEW b, BeginCleanup(i, r, b),
         mem.run[i].phase # "none", r.force = mem.run[i].force, r.pool = mem.run[i].pool
  PROVE  StayForced
<1>1. mem' = [mem EXCEPT !.run[i] = Cleanup(r)]
  BY DEF BeginCleanup, Save
<1>2. Cleanup(r).force = r.force /\ Cleanup(r).pool = r.pool
  BY DEF Cleanup, RunRec
<1> QED BY <1>1, <1>2, UpdateForced

LEMMA CompletedKeeps ==
  ASSUME NEW r \in RunRec, NEW b \in BOOLEAN
  PROVE  LET t == [r EXCEPT !.completed = b]
         IN  t \in RunRec /\ t.force = r.force /\ t.pool = r.pool
BY DEF RunRec

LEMMA VisitForced ==
  ASSUME TInv, Accord, Visit, pc' \notin {"idle", "down"}
  PROVE  StayForced
<1>0. mem.run \in [RunIds -> RunRec] /\ pass.todo \subseteq RunIds /\ pc = "visit"
  BY DEF TInv, TypeOK, States, PassRec, Visit
<1>1. ~DeletePool /\ \A s, ok : ~PassEnds(s, ok)
  BY DEF DeletePool, PassEnds
<1>2. CASE pass.todo = {}
  <2>1. Keep
    BY <1>1, <1>2 DEF Visit, LoopEnds
  <2> QED BY <2>1, RunsForced DEF Keep
<1>3. CASE pass.todo # {}
  <2>1. PICK i \in pass.todo :
          VisitRunning(i) \/ VisitStart(i) \/ VisitStopped(i) \/ VisitGone(i)
    BY <1>3 DEF Visit
  <2>2. i \in RunIds /\ mem.run[i] \in RunRec /\ mem.run[i].phase # "none"
    BY <1>0 DEF Accord, TodoHeld, Looping, RunsOf, Recorded
  <2>3. CASE VisitRunning(i)
    <3> DEFINE r == [mem.run[i] EXCEPT !.phase = "live"]
    <3>1. mem' = [mem EXCEPT !.run[i] = r]
      BY <1>0, <2>2, <2>3 DEF VisitRunning, Observe, TInv, TypeOK, States
    <3>2. r.force = mem.run[i].force /\ r.pool = mem.run[i].pool
      BY <2>2 DEF RunRec
    <3> QED BY <2>2, <3>1, <3>2, UpdateForced
  <2>4. CASE VisitStart(i) \/ VisitGone(i)
    BY <1>1, <2>4, RunsForced DEF VisitStart, VisitGone, Keep
  <2>5. CASE VisitStopped(i)
    <3> DEFINE r == [mem.run[i] EXCEPT !.completed = i \in marker]
    <3>1. r \in RunRec /\ r.force = mem.run[i].force /\ r.pool = mem.run[i].pool
      <4>1. (i \in marker) \in BOOLEAN
        OBVIOUS
      <4> QED BY <2>2, <4>1, CompletedKeeps
    <3>2. CASE Keep
      BY <3>2, RunsForced DEF Keep
    <3>3. CASE \E b : BeginCleanup(i, r, b)
      BY <2>2, <3>1, <3>3, CleanupForced
    <3> QED BY <1>1, <2>5, <3>2, <3>3 DEF VisitStopped
  <2> QED BY <2>1, <2>3, <2>4, <2>5
<1> QED BY <1>2, <1>3

LEMMA PassForced ==
  ASSUME TInv, Accord, Pass, pc' \notin {"idle", "down"}
  PROVE  StayForced
<1>0. mem \in States /\ mem.run \in [RunIds -> RunRec] /\ pass \in PassRec
  BY DEF TInv, TypeOK, States
<1>1. ~DeletePool /\ \A s, ok : ~PassEnds(s, ok)
  BY DEF DeletePool, PassEnds
<1>2. ASSUME Errors PROVE StayForced
  BY <1>2, ErrorsKeep, RunsForced
<1>3. CASE (\E p \in Pools : Tick(p)) \/ List \/ Relist \/ Prepare
  BY <1>1, <1>3, RunsForced DEF Tick, List, Relist, Prepare, Keep
<1>4. CASE CommandFails \/ CommandTimesOut \/ ForceRemove \/ CreateContainer \/ RemoveContainer
  BY <1>2, <1>4, RunsForced DEF CommandFails, CommandTimesOut, ForceRemove, CreateContainer,
     RemoveContainer, Keep
<1>5. CASE ForceLoop
  <2>1. CASE ForceDone
    BY <2>1, RunsForced DEF ForceDone, Keep
  <2>2. ASSUME NEW i \in pass.todo, ForceNext(i) PROVE StayForced
    <3>1. ~pass.moved /\ i \in Cloned /\ pass.clone[i] \in RunRec
      BY <1>0, <1>5 DEF ForceLoop, Accord, ClonesHeld, PassRec
    <3> DEFINE r == [pass.clone[i] EXCEPT !.phase = "cleanup"]
    <3>2. r.force = pass.clone[i].force /\ r.pool = pass.clone[i].pool
      BY <3>1 DEF RunRec
    <3>3. mem' = [mem EXCEPT !.run[i] = r]
      BY <2>2 DEF ForceNext, Save
    <3> QED BY <3>1, <3>2, <3>3, HandForced
  <2> QED BY <1>5, <2>1, <2>2 DEF ForceLoop
<1>6. ASSUME pc \in Holding, ~pass.moved, NEW r, mem' = [mem EXCEPT !.run[pass.cur] = r],
             r.force = pass.clone[pass.cur].force, r.pool = pass.clone[pass.cur].pool
      PROVE  StayForced
  BY <1>6, HandForced DEF Accord, ClonesHeld
<1>7. ASSUME pc \in Holding
      PROVE  pass.clone[pass.cur] \in RunRec /\ pass.cur \in RunIds
  BY <1>0, <1>7 DEF TInv, Shape, PassRec
<1>8. CASE ForceArchive \/ Archive
  <2> DEFINE r == [pass.clone[pass.cur] EXCEPT !.logSaved = TRUE]
  <2>1. pc \in Holding /\ ~pass.moved /\ mem' = [mem EXCEPT !.run[pass.cur] = r]
    BY <1>8 DEF ForceArchive, Archive, Archived, Undisturbed, Save, Holding, Collected
  <2>2. r.force = pass.clone[pass.cur].force /\ r.pool = pass.clone[pass.cur].pool
    BY <1>7, <2>1 DEF RunRec
  <2> QED BY <1>6, <2>1, <2>2
<1>9. CASE Remotes
  <2>1. \A i \in RunIds :
          /\ mem'.run[i].phase = mem.run[i].phase /\ mem'.run[i].force = mem.run[i].force
          /\ mem'.run[i].pool = mem.run[i].pool
    BY <1>0, <1>9 DEF Remotes, Save, MarkRetiring, States, RunRec
  <2> QED BY <2>1 DEF StayForced
<1>10. CASE ReadBoot
  <2>1. PICK b : BeginCleanup(pass.cur, pass.clone[pass.cur], b)
    BY <1>1, <1>10 DEF ReadBoot
  <2>2. pc \in Holding /\ ~pass.moved
    BY <1>1, <1>10 DEF ReadBoot, Undisturbed, Holding
  <2>3. Agrees(pass.clone[pass.cur], mem.run[pass.cur])
    BY <2>2 DEF Accord, ClonesHeld
  <2> QED BY <1>7, <2>1, <2>2, <2>3, CleanupForced DEF Agrees
<1>11. CASE StartContainer
  <2>1. CASE Errors
    BY <1>2, <2>1
  <2>2. CASE ~Errors
    <3> DEFINE r == [pass.clone[pass.cur] EXCEPT !.phase = "live"]
    <3>1. pc \in Holding /\ ~pass.moved /\ mem' = [mem EXCEPT !.run[pass.cur] = r]
      BY <1>11, <2>2 DEF StartContainer, Undisturbed, Save, Holding
    <3>2. r.force = pass.clone[pass.cur].force /\ r.pool = pass.clone[pass.cur].pool
      BY <1>7, <3>1 DEF RunRec
    <3> QED BY <1>6, <3>1, <3>2
  <2> QED BY <2>1, <2>2
<1>12. CASE FreshList \/ Unregister \/ Repair
  <2>1. CASE mem' = [mem EXCEPT !.run[pass.cur] = NoRun]
    <3>1. pass.cur \in RunIds /\ ~NoRun.force
      BY <1>7, <1>12 DEF FreshList, Unregister, Repair, Holding, Collected, NoRun
    <3> QED BY <2>1, <3>1, UpdateForced
  <2>2. CASE mem' = mem
    BY <2>2, RunsForced
  <2> QED BY <1>2, <1>12, <2>1, <2>2
          DEF FreshList, Unregister, Repair, RemoveDirectory, FinishRun, Save, Keep
<1>13. ~Replenish
  BY <1>1 DEF Replenish
<1> QED BY <1>3, <1>4, <1>5, <1>8, <1>9, <1>10, <1>11, <1>12, <1>13, VisitForced DEF Pass

\* What is gone comes back by a start only.
LEMMA StartForced ==
  ASSUME TInv, Accord, World, ForceDrains, ~pass.moved, pc = "start"
  PROVE  pass.cur \in RunIds /\ ~mem.run[pass.cur].force
<1>1. pass.cur \in RunIds /\ pass.cur \in Recorded(mem)
  BY DEF TInv, Shape, Holding, World, InFlightHeld
<1>2. ~mem.run[pass.cur].retiring
  BY DEF World, StartsHeld
<1> QED BY <1>1, <1>2 DEF ForceDrains

LEMMA PassGone ==
  ASSUME TInv, Accord, World, ForceDrains, Pass, ~pass.moved,
         NEW i \in RunIds, mem.run[i].force, Gone(i)
  PROVE  Gone(i)'
<1>0. docker \in [RunIds -> Statuses] /\ late \in [RunIds -> {"none", "create", "start"}]
  BY DEF TInv, TypeOK
<1>1. CASE ForceRemove \/ RemoveContainer
  BY <1>0, <1>1 DEF ForceRemove, RemoveContainer, Vanishes, Gone
<1>2. CASE CreateContainer
  BY <1>0, <1>2 DEF CreateContainer, Gone
<1>3. CASE StartContainer
  BY <1>0, <1>3, StartForced DEF StartContainer, Starts, Gone
<1>4. CASE CommandTimesOut
  BY <1>0, <1>4, StartForced DEF CommandTimesOut, Lingers, Gone
<1>5. CASE \/ (\E p \in Pools : Tick(p)) \/ CommandFails \/ List \/ ForceLoop \/ ForceArchive
           \/ Relist \/ Remotes \/ Archive
  BY <1>5 DEF Tick, CommandFails, List, ForceLoop, ForceArchive, Relist, Remotes, Archive, Archived,
              env, Gone
<1>6. CASE Visit \/ ReadBoot \/ Prepare \/ FreshList \/ Unregister \/ Repair \/ Replenish
  BY <1>6 DEF Visit, ReadBoot, Prepare, FreshList, Unregister, Repair, Replenish, env, Gone
<1> QED BY <1>1, <1>2, <1>3, <1>4, <1>5, <1>6 DEF Pass

\* A pass that goes on keeps what it has achieved.
LEMMA MarkingOn ==
  ASSUME TInv, Accord, World, ForceDrains, ForceHeld, StayForced, Pass,
         ~pass.moved, pc \in Marking, pass'.pool = pass.pool
  PROVE  ForceHeld'
<1>1. ASSUME NEW i \in RunsOf(mem', pass'.pool), mem'.run[i].force PROVE Gone(i)'
  <2>1. i \in RunIds /\ i \in Forced(pass.pool) /\ mem.run[i].force
    BY <1>1 DEF StayForced, RunsOf, Recorded, Forced
  <2> QED BY <2>1, PassGone DEF ForceHeld
<1> QED BY <1>1 DEF ForceHeld, Forced

LEMMA ListForced ==
  ASSUME TInv, World, List, pc' = "force"
  PROVE  ForceHeld'
<1>0. pass \in PassRec /\ docker \in [RunIds -> Statuses]
  BY DEF TInv, TypeOK
<1> DEFINE forced == ForcedRuns(pass.pool)
<1>1. /\ pass'.clone = [i \in RunIds |-> IF i \in forced THEN mem.run[i] ELSE NoRun]
      /\ pass'.pool = pass.pool /\ UNCHANGED <<mem, docker, late>>
  BY <1>0 DEF List, DeletePool, PassEnds, PassRec, Keep, env
<1>2. ASSUME NEW i \in RunsOf(mem, pass.pool), mem.run[i].force, i \notin Cloned' PROVE Gone(i)'
  <2>1. i \in RunIds /\ mem.run[i].phase # "none"
    BY <1>2 DEF RunsOf, Recorded
  <2>2. i \notin forced
    BY <1>1, <1>2, <2>1 DEF Cloned
  <2>3. docker[i] = "none"
    BY <1>2, <2>2 DEF ForcedRuns
  <2>4. late[i] # "start"
    BY <2>1, <2>3 DEF World, Containers
  <2> QED BY <1>1, <2>3, <2>4 DEF Gone
<1>3. "force" \notin Marking
  BY DEF Marking, Looping, Collected
<1> QED BY <1>1, <1>2, <1>3 DEF ForceHeld, Forced

\* The next run to be terminated stays accounted for by its clone.
LEMMA ForcingOn ==
  ASSUME TInv, Accord, World, ForceDrains, ForceHeld, StayForced, Pass,
         ~pass.moved, pc \in Forcing, pc' \in Forcing, pass'.pool = pass.pool,
         \A i \in Cloned \ Cloned' : docker'[i] = "none" /\ late'[i] # "start"
  PROVE  ForceHeld'
<1>1. ASSUME NEW i \in RunsOf(mem', pass'.pool), mem'.run[i].force, i \notin Cloned' PROVE Gone(i)'
  <2>1. i \in RunIds /\ i \in Forced(pass.pool) /\ mem.run[i].force
    BY <1>1 DEF StayForced, RunsOf, Recorded, Forced
  <2>2. CASE i \in Cloned
    BY <1>1, <2>2 DEF Gone
  <2>3. CASE i \notin Cloned
    BY <2>1, <2>3, PassGone DEF ForceHeld
  <2> QED BY <2>2, <2>3
<1>2. pc' \notin Marking
  BY DEF Marking, Forcing, Looping, Collected
<1> QED BY <1>1, <1>2 DEF ForceHeld, Forced

LEMMA ForceRemoveForced ==
  ASSUME TInv, Accord, World, ForceDrains, ForceHeld, StayForced, ForceRemove, pc' = "force"
  PROVE  ForceHeld'
<1>0. pass \in PassRec /\ docker \in [RunIds -> Statuses] /\ pc = "forceRemove"
  BY DEF TInv, TypeOK, ForceRemove
<1>1. pass.cur \in RunIds
  BY <1>0 DEF TInv, Shape, Holding
<1>2. ~pass.moved /\ pass' = [pass EXCEPT !.cur = NoId, !.clone[pass.cur] = NoRun]
  BY DEF ForceRemove, Errors, PassEnds, SkipRun, Undisturbed
<1>3. \A i \in RunIds \ {pass.cur} : pass'.clone[i] = pass.clone[i]
  BY <1>0, <1>1, <1>2 DEF PassRec
<1>4. pass'.pool = pass.pool /\ docker'[pass.cur] = "none" /\ late'[pass.cur] = "none"
  BY <1>0, <1>1, <1>2 DEF ForceRemove, Vanishes, PassRec
<1>5. \A i \in Cloned \ Cloned' : docker'[i] = "none" /\ late'[i] # "start"
  BY <1>3, <1>4 DEF Cloned
<1>6. Pass /\ pc \in Forcing /\ pc' \in Forcing
  BY <1>0 DEF Pass, Forcing
<1> QED BY <1>2, <1>4, <1>5, <1>6, ForcingOn

LEMMA ForceArchiveForced ==
  ASSUME TInv, Accord, World, ForceDrains, ForceHeld, StayForced, ForceArchive
  PROVE  ForceHeld'
<1>0. pass \in PassRec /\ pc = "forceArchive" /\ pc' = "forceRemove" /\ ~pass.moved
  BY DEF TInv, TypeOK, ForceArchive, Archived, Undisturbed
<1>1. pass.cur \in RunIds /\ pass.clone \in [RunIds -> RunRec]
  BY <1>0 DEF TInv, Shape, Holding, PassRec
<1>2. pass' = [pass EXCEPT !.clone[pass.cur] = [pass.clone[pass.cur] EXCEPT !.logSaved = TRUE]]
  BY DEF ForceArchive, Archived
<1>3. /\ pass'.pool = pass.pool
      /\ pass'.clone = [pass.clone EXCEPT ![pass.cur] = [pass.clone[pass.cur] EXCEPT !.logSaved = TRUE]]
  BY <1>0, <1>2 DEF PassRec
<1>4. \A i \in RunIds : pass'.clone[i].phase = pass.clone[i].phase
  BY <1>1, <1>3 DEF RunRec
<1>5. Cloned' = Cloned
  BY <1>4 DEF Cloned
<1>6. Pass /\ pc \in Forcing /\ pc' \in Forcing
  BY <1>0 DEF Pass, Forcing
<1> QED BY <1>0, <1>3, <1>5, <1>6, ForcingOn

LEMMA ForceLoopForced ==
  ASSUME TInv, Accord, World, ForceDrains, ForceHeld, StayForced, ForceLoop
  PROVE  ForceHeld'
<1>0. pass \in PassRec /\ pc = "force" /\ ~pass.moved /\ Cloned = pass.todo /\ pass.todo \subseteq RunIds
  BY DEF TInv, TypeOK, ForceLoop, Accord, ClonesHeld, PassRec
<1>1. Pass /\ pc \in Forcing
  BY <1>0 DEF Pass, Forcing
<1>2. CASE ForceDone
  <2>1. /\ pass.todo = {} /\ pass' = pass
        /\ mem' = mem /\ UNCHANGED <<docker, late>>
    BY <1>2 DEF ForceLoop, ForceDone, Keep, env
  <2>2. \A i \in Forced(pass.pool) : Gone(i)
    BY <1>0, <1>1, <2>1 DEF ForceHeld
  <2> QED BY <2>1, <2>2 DEF ForceHeld, Forced, Gone
<1>3. ASSUME NEW i \in pass.todo, ForceNext(i) PROVE ForceHeld'
  <2> DEFINE r == [pass.clone[i] EXCEPT !.phase = "cleanup"]
  <2>1. pc' \in Forcing /\ pass' = Take(i, r)
    BY <1>3 DEF ForceNext, Forcing
  <2>2. i \in RunIds /\ pass.clone[i] \in RunRec /\ r.phase = "cleanup"
    BY <1>0 DEF PassRec, RunRec
  <2> HIDE DEF r
  <2>3. pass'.pool = pass.pool /\ pass'.clone = [pass.clone EXCEPT ![i] = r]
    BY <1>0, <2>1 DEF Take, PassRec
  <2>4. Cloned \subseteq Cloned'
    BY <1>0, <2>2, <2>3 DEF Cloned, PassRec
  <2> QED BY <1>0, <1>1, <2>1, <2>3, <2>4, ForcingOn
<1> QED BY <1>2, <1>3 DEF ForceLoop

LEMMA PassForceHeld ==
  ASSUME TInv, Accord, World, ForceDrains, ForceHeld, Pass
  PROVE  ForceHeld'
<1>0. pass \in PassRec
  BY DEF TInv, TypeOK
<1> SUFFICES ASSUME ~pass'.moved, pc' \in Forcing \cup Marking PROVE ForceHeld'
  BY DEF ForceHeld
<1>1. pc' \notin {"idle", "down", "list"}
  BY DEF Forcing, Marking, Looping, Collected
<1>2. StayForced
  BY <1>1, PassForced
<1>3. ~DeletePool /\ \A s, ok : ~PassEnds(s, ok)
  BY <1>1 DEF DeletePool, PassEnds
<1>4. CASE Loops
  <2>1. Along \/ Remotes
    BY <1>4, PassAlong DEF TInv
  <2>2. ~pass.moved /\ pc \in Marking /\ pass'.pool = pass.pool
    BY <1>0, <2>1 DEF Along, Remotes, Undisturbed, Marking, PassRec
  <2> QED BY <1>2, <2>2, MarkingOn
<1>5. CASE Relist
  <2>1. ~pass.moved /\ pc \in Marking /\ pass'.pool = pass.pool
    BY <1>0, <1>5 DEF Relist, Undisturbed, Marking, PassRec
  <2> QED BY <1>2, <2>1, MarkingOn
<1>6. CASE List
  BY <1>3, <1>6, ListForced DEF List
<1>7. CASE ForceLoop
  BY <1>2, <1>7, ForceLoopForced
<1>8. CASE ForceArchive
  BY <1>2, <1>8, ForceArchiveForced
<1>9. CASE ForceRemove
  <2>1. ~Errors
    BY <1>3, <1>9 DEF Errors, ForceRemove, Collected
  <2> QED BY <1>2, <1>9, <2>1, ForceRemoveForced DEF ForceRemove
<1>10. CASE /\ pc' \in Forcing \cup {"relist", "remotes"}
            /\ ~(List \/ ForceLoop \/ ForceArchive \/ ForceRemove \/ Relist)
  <2>1. pc' \in {"force", "forceArchive", "forceRemove", "relist", "remotes"}
    BY <1>10 DEF Forcing
  <2>2. ~Errors
    BY <1>3, <2>1 DEF Errors, SkipRun
  <2>3. ~CommandFails /\ ~CommandTimesOut /\ ~(\E p \in Pools : Tick(p)) /\ ~Remotes /\ ~Prepare
    BY <2>1, <2>2 DEF CommandFails, CommandTimesOut, Tick, Remotes, Prepare, Goto
  <2>4. ~Visit /\ ~ReadBoot
    BY <1>3, <2>1 DEF Visit, LoopEnds, Goto, VisitRunning, VisitStart, VisitStopped, VisitGone,
                      BeginCleanup, ReadBoot
  <2>5. ~CreateContainer /\ ~StartContainer /\ ~Archive /\ ~RemoveContainer
    BY <2>1, <2>2 DEF CreateContainer, StartContainer, Archive, Archived, RemoveContainer, Goto
  <2>6. ~FreshList /\ ~Unregister /\ ~Repair /\ ~Replenish
    BY <1>3, <2>1, <2>2 DEF FreshList, Unregister, Repair, Replenish, RemoveDirectory, FinishRun,
                            SkipRun, Goto
  <2> QED BY <1>10, <2>3, <2>4, <2>5, <2>6 DEF Pass
<1>11. Loops \/ pc' \in Forcing \cup {"relist", "remotes"}
  BY DEF Loops, Marking
<1> QED BY <1>4, <1>5, <1>6, <1>7, <1>8, <1>9, <1>10, <1>11

\* The same runs are to be terminated, and what was gone stays gone.
LEMMA SameForceHeld ==
  ASSUME ForceHeld, pc' = pc, pass' = pass, StayForced, \A i \in RunIds : Gone(i) => Gone(i)'
  PROVE  ForceHeld'
<1>1. Cloned' = Cloned
  BY DEF Cloned
<1>2. ASSUME NEW i \in Forced(pass.pool)' PROVE i \in Forced(pass.pool) /\ i \in RunIds
  BY <1>2 DEF Forced, RunsOf, Recorded, StayForced
<1> QED BY <1>1, <1>2 DEF ForceHeld

LEMMA StepForceHeld ==
  ASSUME TInv, TInv', Accord, World, ForceDrains, ForceHeld, [Next]_vars
  PROVE  ForceHeld'
<1>0. pass \in PassRec /\ "idle" \notin Forcing \cup Marking /\ "down" \notin Forcing \cup Marking
  BY DEF TInv, TypeOK, Forcing, Marking, Looping, Collected
<1>1. CASE Pass
  BY <1>1, PassForceHeld
<1>2. CASE Request
  <2>1. /\ pc' = pc /\ UNCHANGED <<docker, late>>
        /\ \/ mem' = disk /\ pass' = pass
           \/ MoveEpoch /\ pc \in InFlight \cup {"idle", "down"}
    BY <1>2, Zenon DEF Request, Start, Stop, Remove, Add, Scale, Upgrade, Auth, Apply, Refused,
                       RefusedStatus, Configured, Handled, Accepting, env
  <2>2. CASE mem' = disk /\ pass' = pass
    <3>1. StayForced
      BY <2>2, LikeDisk DEF Like, StayForced, TInv, Accord
    <3> QED BY <2>1, <2>2, <3>1, SameForceHeld DEF Gone
  <2>3. CASE MoveEpoch /\ pc \in InFlight
    <3>1. pass'.moved
      BY <1>0, <2>3 DEF MoveEpoch, PassRec
    <3> QED BY <3>1 DEF ForceHeld
  <2>4. CASE pc \in {"idle", "down"}
    BY <1>0, <2>1, <2>4 DEF ForceHeld
  <2> QED BY <2>1, <2>2, <2>3, <2>4
<1>3. CASE Crash \/ Restart
  BY <1>0, <1>3 DEF Crash, Restart, ForceHeld
<1>4. ASSUME NEW p \in Pools, BackoffExpires(p) PROVE ForceHeld'
  <2>1. mem'.run = mem.run /\ pc' = pc /\ pass' = pass /\ UNCHANGED <<docker, late>>
    BY <1>4 DEF BackoffExpires, Arm, env, TInv, TypeOK, States
  <2> QED BY <2>1, RunsForced, SameForceHeld DEF Gone
<1>5. ASSUME NEW i \in RunIds,
             \/ LateLands(i) \/ Registers(i) \/ JobCompletes(i) \/ GitHubForgets(i)
             \/ ContainerExits(i) \/ HostReboots
      PROVE  ForceHeld'
  <2>1. Settles /\ UNCHANGED <<mem, disk, pc, pass>>
    BY <1>5, SettlesStep DEF World
  <2>2. docker' \in [RunIds -> Statuses] /\ late \in [RunIds -> {"none", "create", "start"}]
    BY DEF TInv, TypeOK
  <2>3. \A j \in RunIds : Gone(j) => Gone(j)'
    BY <2>1, <2>2 DEF Settles, Gone, Statuses
  <2> QED BY <2>1, <2>3, RunsForced, SameForceHeld
<1>6. CASE HostReboots
  <2>1. ASSUME NEW j \in RunIds, Gone(j) PROVE Gone(j)'
    BY <1>6, <2>1 DEF HostReboots, Gone, TInv, TypeOK
  <2> QED BY <1>6, <2>1, RunsForced, SameForceHeld DEF HostReboots
<1>7. CASE UNCHANGED vars
  BY <1>7, RunsForced, SameForceHeld DEF vars, Gone
<1> QED BY <1>1, <1>2, <1>3, <1>4, <1>5, <1>6, <1>7 DEF Next, Environment

\* manager.rs:533-572: force comes first.  While a pass is not interrupted by a
\* request, it asks GitHub for nothing, and starts, stops and records no run,
\* before no container runs, or will, of any run of the pool that is to be
\* terminated; and a run to be terminated takes no more work.
THEOREM ForceComesFirst == Spec => [](ForceDrains /\ ForceHeld)
<1>1. Init => ForceDrains /\ ForceHeld
  <2>1. ASSUME Init PROVE ForceDrains /\ ForceHeld
    <3>1. pc = "idle" /\ Recorded(mem) = {}
      BY <2>1 DEF Init, Recorded, NoRun
    <3> QED BY <3>1 DEF ForceDrains, ForceHeld, Forcing, Marking, Looping, Collected
  <2> QED BY <2>1
<1>2. TInv /\ Accord /\ World /\ TInv' /\ ForceDrains /\ ForceHeld /\ [Next]_vars
      => ForceDrains' /\ ForceHeld'
  BY ForceDrainsStep, StepForceHeld
<1> QED BY <1>1, <1>2, WorldHolds, PTL DEF Spec
=============================================================================
