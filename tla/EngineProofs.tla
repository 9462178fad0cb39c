---------------------------- MODULE EngineProofs ----------------------------
(***************************************************************************)
(* Type correctness of Engine, for every set of pools and runs and every   *)
(* limit.                                                                  *)
(***************************************************************************)
EXTENDS EngineInvariant, FiniteSetTheorems, TLAPS

-----------------------------------------------------------------------------
(* The operators on states preserve their type.                            *)

LEMMA ConstantTypes ==
  /\ Absent \in PoolRec
  /\ NoRun \in RunRec
  /\ \A n \in 0 .. MaxRunners : NewPool(n) \in PoolRec
  /\ \A p \in Pools, g \in Nat : NewRun(p, g) \in RunRec
  /\ NoPass \in PassRec
<1>1. Absent \in PoolRec
  BY BoundsAssumption DEF Absent, PoolRec, Backoffs
<1>2. NoRun \in RunRec
  BY DEF NoRun, RunRec, Phases
<1>3. \A n \in 0 .. MaxRunners : NewPool(n) \in PoolRec
  BY <1>1 DEF NewPool, PoolRec
<1>4. \A p \in Pools, g \in Nat : NewRun(p, g) \in RunRec
  BY <1>2 DEF NewRun, RunRec, Phases
<1>5. NoPass \in PassRec
  BY <1>1, <1>2 DEF NoPass, PassRec, Statuses
<1> QED BY <1>1, <1>2, <1>3, <1>4, <1>5

\* Rewriting one run, or one pool, of a state.
LEMMA SetRunType ==
  ASSUME NEW s \in States, NEW i \in RunIds, NEW r \in RunRec
  PROVE  [s EXCEPT !.run[i] = r] \in States
BY DEF States

LEMMA SetPoolType ==
  ASSUME NEW s \in States, NEW p \in Pools, NEW ps \in PoolRec
  PROVE  [s EXCEPT !.pool[p] = ps] \in States
BY DEF States

LEMMA ArmType ==
  ASSUME NEW s \in States, NEW p \in Pools, NEW b \in Backoffs
  PROVE  Arm(s, p, b) \in States
BY DEF Arm, States, PoolRec

LEMMA MarkRetiringType ==
  ASSUME NEW s \in States, NEW P
  PROVE  MarkRetiring(s, P) \in States
BY DEF MarkRetiring, States, RunRec

LEMMA RetireType ==
  ASSUME NEW s \in States, NEW P, NEW force \in BOOLEAN
  PROVE  Retire(s, P, force) \in States
BY DEF Retire, States, RunRec

LEMMA WithPoolsType ==
  ASSUME NEW s \in States, NEW P \in SUBSET Pools, NEW new \in [P -> PoolRec]
  PROVE  WithPools(s, new) \in States
BY DEF WithPools, States

-----------------------------------------------------------------------------
(* Type correctness.  Which locals of a pass are set depends on the        *)
(* command in flight, so the type invariant is proved with that.           *)

Shape ==
  /\ pc \in {"down", "idle"} => pass = NoPass
  /\ pc \notin {"down", "idle"} => pass.pool \in Pools
  /\ pc \in Holding => pass.cur \in RunIds

TInv == TypeOK /\ Shape

LEMMA ConcludedType ==
  ASSUME TypeOK, pass.pool \in Pools, NEW s \in States, NEW ok
  PROVE  Concluded(s, ok) \in States
BY ArmType DEF Concluded, Backoffs

LEMMA PassEndsType ==
  ASSUME TypeOK, pass.pool \in Pools, NEW s \in States, NEW ok, PassEnds(s, ok)
  PROVE  /\ mem' \in States /\ disk' \in States
         /\ pc' = "idle" /\ pass' = NoPass /\ pass' \in PassRec
         /\ owed' \subseteq Pools
<1>1. Concluded(s, ok) \in States
  BY ConcludedType
<1>2. mem' \in States /\ disk' \in States
  BY <1>1 DEF PassEnds, Save
<1>3. owed' \subseteq Pools
  BY DEF PassEnds, TypeOK
<1> QED BY <1>2, <1>3, ConstantTypes DEF PassEnds

LEMMA ErrorsType ==
  ASSUME TInv, Errors
  PROVE  /\ mem' \in States /\ disk' \in States
         /\ pc' \in {"idle", "visit"} /\ pass' \in PassRec
         /\ pc' = "idle" => pass' = NoPass
         /\ pc' = "visit" => pass'.pool \in Pools
         /\ owed' \subseteq Pools
<1>0. pass.pool \in Pools
  BY DEF TInv, Shape, Errors, Fatal, Collected
<1>1. CASE pc \in Fatal /\ PassEnds(mem, FALSE)
  BY <1>0, <1>1, PassEndsType DEF TInv, TypeOK
<1>2. CASE pc \in Collected /\ SkipRun /\ Keep /\ UNCHANGED owed
  BY <1>0, <1>2, ConstantTypes DEF TInv, TypeOK, SkipRun, Loose, Keep, PassRec
<1> QED BY <1>1, <1>2 DEF Errors

\* Taking a run in hand and passing it by.
LEMMA TakeType ==
  ASSUME TypeOK, NEW i \in RunIds, NEW r \in RunRec
  PROVE  /\ Take(i, r) \in PassRec /\ Take(i, r).cur = i
         /\ Take(i, r).pool = pass.pool /\ Take(i, r).moved = pass.moved
BY DEF Take, TypeOK, PassRec

LEMMA PassedType ==
  ASSUME TypeOK, NEW i \in RunIds
  PROVE  /\ Passed(i) \in PassRec /\ Passed(i).pool = pass.pool
         /\ Passed(i).moved = pass.moved /\ Passed(i).cur = pass.cur
BY DEF Passed, TypeOK, PassRec

LEMMA CompletedType ==
  ASSUME NEW r \in RunRec, NEW b \in BOOLEAN
  PROVE  [r EXCEPT !.completed = b] \in RunRec
BY DEF RunRec

LEMMA SkipType ==
  ASSUME TypeOK, NEW i \in RunIds
  PROVE  /\ [Passed(i) EXCEPT !.failed = TRUE] \in PassRec
         /\ [Passed(i) EXCEPT !.failed = TRUE].pool = pass.pool
BY DEF Passed, TypeOK, PassRec

LEMMA TakeRebootedType ==
  ASSUME TypeOK, NEW i \in RunIds, NEW r \in RunRec, NEW b \in BOOLEAN
  PROVE  /\ [Take(i, r) EXCEPT !.rebooted = b] \in PassRec
         /\ [Take(i, r) EXCEPT !.rebooted = b].pool = pass.pool
         /\ [Take(i, r) EXCEPT !.rebooted = b].cur = i
BY DEF Take, TypeOK, PassRec

LEMMA RunUpdateType ==
  ASSUME NEW r \in RunRec
  PROVE  /\ [r EXCEPT !.phase = "cleanup"] \in RunRec
         /\ [r EXCEPT !.phase = "live"] \in RunRec
         /\ [r EXCEPT !.logSaved = TRUE] \in RunRec
         /\ [r EXCEPT !.retiring = TRUE] \in RunRec
BY DEF RunRec, Phases

\* Writing back the record of a run.
LEMMA SaveRunType ==
  ASSUME TypeOK, NEW i \in RunIds, NEW r \in RunRec, Save([mem EXCEPT !.run[i] = r])
  PROVE  mem' \in States /\ disk' \in States
BY SetRunType DEF TypeOK, Save

LEMMA DeletePoolType ==
  ASSUME TInv, pass.pool \in Pools, DeletePool
  PROVE  /\ mem' \in States /\ disk' \in States
         /\ pc' \in {"idle", "down"} /\ pass' = NoPass /\ pass' \in PassRec
         /\ bootKnown' \in Nat /\ owed' \subseteq Pools
<1> DEFINE gone == [mem EXCEPT !.pool[pass.pool] = Absent]
<1>1. gone \in States
  BY SetPoolType, ConstantTypes DEF TInv, TypeOK
<1>2. CASE PassEnds(mem, FALSE) /\ UNCHANGED bootKnown
  BY <1>2, PassEndsType DEF TInv, TypeOK
<1>3. CASE /\ Save(gone) /\ pc' = "idle" /\ pass' = NoPass
            /\ owed' = owed \ {pass.pool} /\ UNCHANGED bootKnown
  BY <1>1, <1>3, ConstantTypes DEF Save, TInv, TypeOK
<1>4. ASSUME NEW s \in {disk, gone}, Save(s), pc' = "down", pass' = NoPass, bootKnown' = 0,
             owed' = IF s = gone THEN owed \ {pass.pool} ELSE owed
      PROVE  /\ mem' \in States /\ disk' \in States
             /\ pass' \in PassRec /\ bootKnown' \in Nat /\ owed' \subseteq Pools
  BY <1>1, <1>4, ConstantTypes DEF Save, TInv, TypeOK
<1> QED BY <1>2, <1>3, <1>4 DEF DeletePool

LEMMA FinishRunType ==
  ASSUME TInv, pass.cur \in RunIds, pass.pool \in Pools, FinishRun(pass.cur)
  PROVE  /\ mem' \in States /\ disk' \in States
         /\ pc' = "visit" /\ pass' \in PassRec /\ pass'.pool \in Pools
         /\ startEra' \in [RunIds -> Nat] /\ marker' \subseteq RunIds
         /\ owed' \subseteq Pools
<1>1. mem' \in States /\ disk' \in States
  BY SaveRunType, ConstantTypes DEF FinishRun, TInv
<1>2. pass' \in PassRec /\ pass'.pool \in Pools
  BY ConstantTypes DEF FinishRun, Loose, TInv, TypeOK, PassRec
<1> QED BY <1>1, <1>2 DEF FinishRun, TInv, TypeOK

LEMMA RemoveDirectoryType ==
  ASSUME TInv, pass.cur \in RunIds, pass.pool \in Pools, RemoveDirectory
  PROVE  /\ mem' \in States /\ disk' \in States
         /\ pc' \in {"visit", "repair"} /\ pass' \in PassRec /\ pass'.pool \in Pools
         /\ pc' = "repair" => pass'.cur \in RunIds
         /\ startEra' \in [RunIds -> Nat] /\ marker' \subseteq RunIds
         /\ owed' \subseteq Pools
<1>1. CASE FinishRun(pass.cur)
  BY <1>1, FinishRunType
<1>2. CASE SkipRun /\ Keep /\ UNCHANGED <<startEra, marker, owed>>
  BY <1>2, ConstantTypes DEF SkipRun, Loose, Keep, TInv, TypeOK, PassRec
<1>3. CASE Goto("repair") /\ Keep /\ UNCHANGED <<startEra, marker, owed>>
  BY <1>3 DEF Goto, Keep, TInv, TypeOK
<1> QED BY <1>1, <1>2, <1>3 DEF RemoveDirectory

LEMMA BeginCleanupType ==
  ASSUME TInv, pass.pool \in Pools, NEW i \in RunIds, NEW r \in RunRec,
         NEW rebooted \in BOOLEAN, BeginCleanup(i, r, rebooted)
  PROVE  /\ mem' \in States /\ disk' \in States
         /\ pc' \in {"visit", "remove", "archive"} /\ pass' \in PassRec
         /\ pass'.pool \in Pools
         /\ pc' # "visit" => pass'.cur \in RunIds
         /\ owed' \subseteq Pools /\ spared' \subseteq RunIds
<1>1. Cleanup(r) \in RunRec
  BY DEF Cleanup, RunRec, Phases
<1>2. mem' \in States /\ disk' \in States
  BY <1>1, SaveRunType DEF BeginCleanup, TInv
<1>3. /\ pc' \in {"visit", "remove", "archive"} /\ pass' \in PassRec
      /\ pass'.pool \in Pools
      /\ pc' # "visit" => pass'.cur \in RunIds
  <2>1. CASE pass.moved
    BY <2>1, SkipType DEF BeginCleanup, TInv
  <2>2. CASE ~pass.moved
    <3>1. pass' = [Take(i, Cleanup(r)) EXCEPT !.rebooted = rebooted]
      BY <2>2 DEF BeginCleanup
    <3>2. pc' \in {"remove", "archive"}
      BY <2>2 DEF BeginCleanup
    <3> QED BY <1>1, <3>1, <3>2, TakeRebootedType DEF TInv
  <2> QED BY <2>1, <2>2
<1> QED BY <1>2, <1>3 DEF BeginCleanup, TInv, TypeOK

LEMMA ArchivedType ==
  ASSUME TInv, pass.cur \in RunIds, NEW next \in Holding, next \in PCs, Archived(next),
         pass.pool \in Pools
  PROVE  TInv'
<1> DEFINE run == [pass.clone[pass.cur] EXCEPT !.logSaved = TRUE]
<1>0. pass.clone[pass.cur] \in RunRec
  BY DEF TInv, TypeOK, PassRec
<1>1. run \in RunRec
  BY <1>0, RunUpdateType
<1>2. Save([mem EXCEPT !.run[pass.cur] = run])
  BY DEF Archived
<1>3. pass' \in PassRec /\ pass'.pool = pass.pool /\ pass'.cur = pass.cur
  BY <1>1 DEF Archived, TInv, TypeOK, PassRec
<1> QED BY <1>1, <1>2, <1>3, SaveRunType
        DEF Archived, TInv, TypeOK, Shape, env, ghosts, Holding, Collected

\* The head of the loop over the runs of the pool.
LEMMA TypeVisit ==
  ASSUME TInv, Visit
  PROVE  TInv'
<1> USE DEF TInv, TypeOK, Shape
<1>0. /\ pass.pool \in Pools /\ pc = "visit"
      /\ UNCHANGED <<docker, startEra, late, hostBoot, registered, marker>>
  BY DEF Visit, env
<1>1. CASE pass.todo = {}
  <2>1. LoopEnds /\ UNCHANGED spared
    BY <1>1 DEF Visit
  <2>2. CASE DeletePool
    BY <1>0, <2>1, <2>2, DeletePoolType DEF PCs, Holding, Collected
  <2>3. CASE (\E ok \in BOOLEAN : PassEnds(mem, ok)) /\ UNCHANGED bootKnown
    BY <1>0, <2>1, <2>3, PassEndsType DEF PCs, Holding, Collected
  <2>4. CASE Goto("image") /\ Keep /\ UNCHANGED <<bootKnown, owed>>
    BY <1>0, <2>1, <2>4 DEF Goto, Keep, PCs, InFlight, Fatal, Holding, Collected
  <2> QED BY <2>1, <2>2, <2>3, <2>4 DEF LoopEnds
<1>2. CASE pass.todo # {}
  <2>1. PICK i \in pass.todo :
          VisitRunning(i) \/ VisitStart(i) \/ VisitStopped(i) \/ VisitGone(i)
    BY <1>2 DEF Visit
  <2>2. UNCHANGED bootKnown
    BY <1>2 DEF Visit
  <2>3. i \in RunIds /\ mem.run[i] \in RunRec
    BY DEF PassRec, States
  <2>4. CASE VisitRunning(i)
    <3>1. [mem EXCEPT !.run[i].phase = "live"] \in States
      BY <2>3 DEF States, RunRec, Phases
    <3> QED BY <1>0, <2>2, <2>3, <2>4, <3>1
            DEF VisitRunning, Observe, Passed, ghosts, PassRec, Holding, Collected, PCs
  <2>5. CASE VisitStart(i)
    <3>1. CASE PassEnds(mem, FALSE) /\ UNCHANGED spared
      BY <1>0, <2>2, <3>1, PassEndsType DEF PCs, Holding, Collected
    <3>2. CASE Keep /\ pc' = "visit" /\ pass' = Passed(i) /\ UNCHANGED ghosts
      BY <1>0, <2>2, <2>3, <3>2 DEF Keep, Passed, ghosts, PassRec, Holding, Collected, PCs
    <3>3. CASE Keep /\ pc' = "prepare" /\ pass' = Take(i, mem.run[i]) /\ UNCHANGED ghosts
      BY <1>0, <2>2, <2>3, <3>3
         DEF Keep, Take, ghosts, PassRec, Holding, Collected, PCs, InFlight, Fatal
    <3> QED BY <2>5, <3>1, <3>2, <3>3 DEF VisitStart
  <2>6. CASE VisitStopped(i)
    <3> DEFINE run == [mem.run[i] EXCEPT !.completed = i \in marker]
               known == StoppedBefore(i, bootKnown)
               asks == Unexpected(run) /\ startEra[i] # 0 /\ ~known
    <3>0. (i \in marker) \in BOOLEAN
      OBVIOUS
    <3>1. run \in RunRec
      BY <2>3, <3>0, CompletedType
    <3>2. CASE BeginCleanup(i, run, Unexpected(run) /\ known)
      BY <1>0, <2>2, <2>3, <3>1, <3>2, BeginCleanupType DEF PCs, InFlight, Holding, Collected
    <3>3. CASE Keep /\ pc' = "boot" /\ pass' = Take(i, run) /\ UNCHANGED ghosts
      BY <1>0, <2>2, <2>3, <3>1, <3>3 DEF Keep, Take, ghosts, PassRec, PCs, InFlight
    <3>4. CASE PassEnds(mem, FALSE) /\ UNCHANGED spared
      BY <1>0, <2>2, <3>4, PassEndsType DEF PCs, Holding, Collected
    <3> QED BY <2>6, <3>2, <3>3, <3>4 DEF VisitStopped
  <2>7. CASE VisitGone(i)
    <3>1. UNCHANGED <<mem, disk, owed, spared>>
      BY <2>7 DEF VisitGone, Keep, ghosts
    <3>2. CASE pc' = "fresh" /\ pass' = Take(i, mem.run[i])
      BY <1>0, <2>2, <2>3, <3>1, <3>2, TakeType DEF Holding, Collected, PCs, InFlight
    <3>3. CASE pc' = "visit" /\ pass' = [Passed(i) EXCEPT !.failed = TRUE]
      BY <1>0, <2>2, <2>3, <3>1, <3>3, SkipType DEF Holding, Collected, PCs, InFlight
    <3> QED BY <2>7, <3>2, <3>3 DEF VisitGone
  <2> QED BY <2>1, <2>4, <2>5, <2>6, <2>7
<1> QED BY <1>1, <1>2

\* The steps of a pass, one by one.
LEMMA TypePass ==
  ASSUME TInv, Pass
  PROVE  TInv'
<1> USE DEF TInv, TypeOK, Shape
<1>0. /\ \A i \in RunIds : mem.run[i] \in RunRec /\ pass.clone[i] \in RunRec
      /\ \A p \in Pools : mem.pool[p] \in PoolRec
      /\ NoId \notin RunIds
  BY RunIdsAssumption DEF States, PassRec
<1>1. ASSUME NEW p \in Pools, Tick(p) PROVE TInv'
  BY <1>0, <1>1, ConstantTypes DEF Tick, Keep, env, ghosts, PassRec, PCs, InFlight, Fatal, Holding, Collected
<1>2. CASE CommandFails
  BY <1>2, ErrorsType DEF CommandFails, env, PCs, Holding, Collected
<1>3. CASE CommandTimesOut
  BY <1>3, ErrorsType DEF CommandTimesOut, Lingers, PCs, Holding, Collected
<1>4. CASE List
  <2>0. pass.pool \in Pools /\ UNCHANGED <<docker, startEra, late, hostBoot, registered, marker, spared>>
    BY <1>4 DEF List, env
  <2>1. CASE DeletePool
    BY <2>0, <2>1, DeletePoolType DEF PCs, Holding, Collected
  <2>2. CASE PassEnds(mem, TRUE) /\ UNCHANGED bootKnown
    BY <2>0, <2>2, PassEndsType DEF PCs, Holding, Collected
  <2>3. CASE ~(Emptied(pass.pool) /\ ~pass.ps.running)
    <3>1. Cardinality({i \in RunIds \ Recorded(mem) : docker[i] # "none"}) \in Nat
      BY RunIdsAssumption, FS_Subset, FS_CardinalityType
    <3>2. Snapshot \in [RunIds -> Statuses]
      BY DEF Snapshot, Statuses
    <3>3. [i \in RunIds |-> IF i \in ForcedRuns(pass.pool) THEN mem.run[i] ELSE NoRun]
            \in [RunIds -> RunRec]
      BY <1>0, ConstantTypes
    <3>4. ForcedRuns(pass.pool) \subseteq RunIds
      BY DEF ForcedRuns, RunsOf, Recorded
    <3>5. /\ pc' = "force" /\ UNCHANGED <<mem, disk, bootKnown, owed>>
          /\ pass' = [pass EXCEPT !.snap = Snapshot, !.todo = ForcedRuns(pass.pool),
                 !.clone = [i \in RunIds |-> IF i \in ForcedRuns(pass.pool) THEN mem.run[i] ELSE NoRun],
                 !.unknown = Cardinality({i \in RunIds \ Recorded(mem) : docker[i] # "none"})]
      BY <1>4, <2>3 DEF List, Keep
    <3>6. pass' \in PassRec /\ pass'.pool = pass.pool
      BY <3>1, <3>2, <3>3, <3>4, <3>5 DEF PassRec
    <3> QED BY <2>0, <3>5, <3>6 DEF PCs, Holding, Collected
  <2> QED BY <1>4, <2>1, <2>2, <2>3 DEF List
<1>5. CASE ForceLoop
  <2>0. /\ pc = "force" /\ pass.pool \in Pools
        /\ UNCHANGED <<bootKnown, env, ghosts>>
    BY <1>5 DEF ForceLoop
  <2>a. ForceDone \/ \E i \in pass.todo : ForceNext(i)
    BY ONLY <1>5 DEF ForceLoop
  <2>1. CASE ForceDone
    BY <2>0, <2>1 DEF ForceDone, Keep, PCs, InFlight, Fatal, Holding, Collected, env, ghosts
  <2>2. ASSUME NEW i \in pass.todo, ForceNext(i) PROVE TInv'
    <3> DEFINE run == [pass.clone[i] EXCEPT !.phase = "cleanup"]
    <3>1. i \in RunIds /\ run \in RunRec
      BY <1>0, RunUpdateType DEF PassRec
    <3>2. /\ Save([mem EXCEPT !.run[i] = run]) /\ pass' = Take(i, run)
          /\ pc' \in {"forceRemove", "forceArchive"}
      BY <2>2 DEF ForceNext
    <3> QED BY <2>0, <3>1, <3>2, SaveRunType, TakeType DEF PCs, InFlight, Fatal, env, ghosts
  <2> QED BY <2>a, <2>1, <2>2
<1>6. CASE ForceArchive
  BY <1>6, <1>0, ArchivedType DEF ForceArchive, Holding, PCs, InFlight, Fatal
<1>7. CASE ForceRemove
  <2>1. pass.cur \in RunIds /\ docker' \in [RunIds -> Statuses]
    BY <1>7 DEF ForceRemove, Vanishes, Holding, Statuses
  <2>2. CASE pc' = "force" /\ pass' = [pass EXCEPT !.cur = NoId, !.clone[pass.cur] = NoRun]
             /\ Keep /\ UNCHANGED owed
    BY <1>7, <2>1, <2>2, <1>0, ConstantTypes
       DEF ForceRemove, Vanishes, Keep, PassRec, PCs, Holding, Collected, Fatal
  <2>3. CASE Errors
    BY <1>7, <2>1, <2>3, ErrorsType DEF ForceRemove, Vanishes, PCs, Holding, Collected
  <2> QED BY <1>7, <2>2, <2>3 DEF ForceRemove
<1>8. CASE Relist
  <2>1. Snapshot \in [RunIds -> Statuses]
    BY DEF Snapshot, Statuses
  <2> QED BY <1>8, <1>0, <2>1
          DEF Relist, Keep, env, ghosts, PassRec, PCs, InFlight, Fatal, Holding, Collected
<1>9. CASE Remotes
  <2>1. MarkRetiring(mem, {pass.pool}) \in States
    BY MarkRetiringType
  <2>2. RunsOf(mem, pass.pool) \subseteq RunIds
    BY DEF RunsOf, Recorded
  <2> QED BY <1>9, <2>1, <2>2
          DEF Remotes, Save, env, ghosts, PassRec, PCs, Holding, Collected, Fatal
<1>10. CASE Visit
  BY <1>10, TypeVisit
<1>11. CASE ReadBoot
  <2>0. pc = "boot" /\ pass.cur \in RunIds /\ pass.pool \in Pools
        /\ UNCHANGED <<docker, startEra, late, hostBoot, registered, marker>>
    BY <1>11 DEF ReadBoot, env, Holding
  <2>1. CASE Undisturbed
    <3>1. PICK boot \in {bootKnown, hostBoot} :
            /\ bootKnown' = boot
            /\ BeginCleanup(pass.cur, pass.clone[pass.cur], StoppedBefore(pass.cur, boot))
      BY <1>11, <2>1 DEF ReadBoot
    <3>2. StoppedBefore(pass.cur, boot) \in BOOLEAN
      BY DEF StoppedBefore
    <3> QED BY <1>0, <2>0, <3>1, <3>2, BeginCleanupType DEF PCs, InFlight, Holding, Collected
  <2>2. CASE ~Undisturbed
    BY <1>11, <2>0, <2>2, PassEndsType DEF ReadBoot, PCs, Holding, Collected
  <2> QED BY <2>1, <2>2
<1>12. CASE Prepare
  BY <1>12, <1>0 DEF Prepare, Goto, Keep, env, ghosts, PCs, InFlight, Fatal, Holding, Collected
<1>13. CASE CreateContainer
  BY <1>13, <1>0, ErrorsType DEF CreateContainer, Goto, Keep, Statuses, PCs, InFlight, Fatal, Holding, Collected
<1>14. CASE StartContainer
  <2>1. /\ pass.cur \in RunIds /\ pass.pool \in Pools
        /\ docker' \in [RunIds -> Statuses] /\ startEra' \in [RunIds -> Nat]
    BY <1>14 DEF StartContainer, Starts, Holding, Statuses
  <2>2. CASE Errors
    BY <1>14, <2>1, <2>2, ErrorsType DEF StartContainer, PCs, Holding, Collected
  <2>3. CASE ~Errors
    <3> DEFINE run == [pass.clone[pass.cur] EXCEPT !.phase = "live"]
    <3>1. run \in RunRec
      BY <1>0, <2>1 DEF RunRec, Phases
    <3>2. /\ Save([mem EXCEPT !.run[pass.cur] = run]) /\ UNCHANGED owed
          /\ pc' = "visit" /\ pass' = Loose
      BY <1>14, <2>3 DEF StartContainer
    <3>3. Loose \in PassRec /\ Loose.pool = pass.pool
      BY ConstantTypes DEF Loose, PassRec
    <3> QED BY <1>14, <2>1, <3>1, <3>2, <3>3, SaveRunType
            DEF StartContainer, PCs, Holding, Collected
  <2> QED BY <2>2, <2>3
<1>15. CASE Archive
  BY <1>15, <1>0, ArchivedType DEF Archive, Holding, Collected, PCs, InFlight
<1>16. CASE RemoveContainer
  BY <1>16, <1>0, ErrorsType DEF RemoveContainer, Vanishes, Goto, Keep, Statuses, PCs, InFlight, Fatal, Holding, Collected
<1>17. CASE FreshList
  <2>0. pass.cur \in RunIds /\ pass.pool \in Pools
    BY <1>17 DEF FreshList, Holding, Collected
  <2>1. CASE RemoveDirectory
    BY <1>17, <2>0, <2>1, RemoveDirectoryType DEF FreshList, PCs, InFlight, Holding, Collected
  <2>2. CASE Goto("unregister") /\ Keep /\ UNCHANGED <<startEra, marker, owed>>
    BY <1>17, <2>0, <2>2 DEF FreshList, Goto, Keep, PCs, InFlight, Collected
  <2> QED BY <1>17, <2>1, <2>2 DEF FreshList
<1>18. CASE Unregister
  <2>0. pass.cur \in RunIds /\ pass.pool \in Pools /\ registered' \subseteq RunIds
    BY <1>18 DEF Unregister, Holding, Collected
  <2>1. CASE RemoveDirectory
    BY <1>18, <2>0, <2>1, RemoveDirectoryType DEF Unregister, PCs, InFlight, Holding, Collected
  <2>2. CASE Errors /\ UNCHANGED <<startEra, marker>>
    BY <1>18, <2>0, <2>2, ErrorsType DEF Unregister, PCs, Holding, Collected
  <2> QED BY <1>18, <2>1, <2>2 DEF Unregister
<1>19. CASE Repair
  <2>0. pass.cur \in RunIds /\ pass.pool \in Pools
    BY <1>19 DEF Repair, Holding, Collected
  <2> QED BY <1>19, <2>0, FinishRunType DEF Repair, PCs, Holding, Collected
<1>20. CASE Replenish
  <2>1. PICK i \in RunIds, ok \in BOOLEAN :
          /\ PassEnds([mem EXCEPT !.run[i] = NewRun(pass.pool, pass.ps.gen)], ok)
          /\ spared' = spared \ {i}
    BY <1>20 DEF Replenish
  <2>2. pass.pool \in Pools /\ pass.ps.gen \in Nat
    BY <1>20 DEF Replenish, PassRec, PoolRec
  <2>3. [mem EXCEPT !.run[i] = NewRun(pass.pool, pass.ps.gen)] \in States
    BY <2>2, SetRunType, ConstantTypes
  <2> QED BY <1>20, <2>1, <2>2, <2>3, PassEndsType DEF Replenish, env, PCs, Holding, Collected
<1> QED
  BY <1>1, <1>2, <1>3, <1>4, <1>5, <1>6, <1>7, <1>8, <1>9, <1>10, <1>11, <1>12,
     <1>13, <1>14, <1>15, <1>16, <1>17, <1>18, <1>19, <1>20 DEF Pass

-----------------------------------------------------------------------------
(* Requests.                                                               *)

\* What a request leaves alone, and the epoch it moves.
LEMMA HandledType ==
  ASSUME TInv, NEW kind, NEW s \in States, Handled(kind, s), owed' \subseteq Pools
  PROVE  TInv'
<1> USE DEF TInv, TypeOK, Shape
<1>1. /\ mem' \in States /\ disk' \in States
      /\ UNCHANGED <<pc, bootKnown, docker, startEra, late, hostBoot, registered, marker, spared>>
      /\ MoveEpoch
  BY DEF Handled, Save, env
<1>2. CASE pc \in InFlight
  <2>1. pass' = [pass EXCEPT !.moved = TRUE]
    BY <1>1, <1>2 DEF MoveEpoch
  <2>2. pass' \in PassRec /\ pass'.pool = pass.pool /\ pass'.cur = pass.cur
    BY <2>1 DEF PassRec
  <2>3. pc \notin {"down", "idle"}
    BY <1>2 DEF InFlight, Fatal, Collected
  <2> QED BY <1>1, <2>2, <2>3
<1>3. CASE pc \notin InFlight
  BY <1>1, <1>3 DEF MoveEpoch
<1> QED BY <1>2, <1>3

LEMMA ConfiguredType ==
  ASSUME TInv, NEW kind, NEW s \in States, NEW t \in States, Configured(kind, s, t),
         UNCHANGED owed
  PROVE  TInv'
<1>1. PICK written \in BOOLEAN : Handled(kind, IF written THEN t ELSE s)
  BY DEF Configured
<1>2. owed' \subseteq Pools
  BY DEF TInv, TypeOK
<1> QED BY <1>1, <1>2, HandledType

\* The records a request writes for a pool.
LEMMA PoolUpdateType ==
  ASSUME NEW ps \in PoolRec
  PROVE  /\ [ps EXCEPT !.running = TRUE, !.backoff = "none"] \in PoolRec
         /\ [ps EXCEPT !.backoff = "none"] \in PoolRec
         /\ \A b \in Backoffs :
              /\ [ps EXCEPT !.running = FALSE, !.backoff = b] \in PoolRec
              /\ [ps EXCEPT !.running = FALSE, !.deleting = TRUE, !.backoff = b] \in PoolRec
         /\ \A n \in 0 .. MaxRunners : [ps EXCEPT !.replicas = n] \in PoolRec
         /\ [ps EXCEPT !.gen = @ + 1] \in PoolRec
         /\ \A n \in 0 .. MaxRunners, g \in Nat :
              [ps EXCEPT !.replicas = n, !.gen = g] \in PoolRec
<1>1. /\ [ps EXCEPT !.running = TRUE, !.backoff = "none"] \in PoolRec
      /\ [ps EXCEPT !.backoff = "none"] \in PoolRec
  BY DEF PoolRec, Backoffs
<1>2. ASSUME NEW b \in Backoffs
      PROVE  /\ [ps EXCEPT !.running = FALSE, !.backoff = b] \in PoolRec
             /\ [ps EXCEPT !.running = FALSE, !.deleting = TRUE, !.backoff = b] \in PoolRec
  BY DEF PoolRec
<1>3. /\ \A n \in 0 .. MaxRunners : [ps EXCEPT !.replicas = n] \in PoolRec
      /\ \A n \in 0 .. MaxRunners, g \in Nat :
           [ps EXCEPT !.replicas = n, !.gen = g] \in PoolRec
  BY DEF PoolRec
<1>4. ps.gen \in Nat /\ ps.gen + 1 \in Nat
  BY DEF PoolRec
<1>5. [ps EXCEPT !.gen = @ + 1] \in PoolRec
  BY <1>4 DEF PoolRec
<1> QED BY <1>1, <1>2, <1>3, <1>5

LEMMA TargetsType == ASSUME TypeOK, NEW P \in Targets PROVE P \subseteq Pools
BY DEF Targets, Existing

LEMMA RetryType ==
  ASSUME TypeOK, NEW p \in Pools, NEW force \in BOOLEAN
  PROVE  Retry(p, force) \in Backoffs
BY DEF TypeOK, States, PoolRec, Backoffs, Retry

\* The handlers, one by one.
LEMMA TypeRequest ==
  ASSUME TInv, Request
  PROVE  TInv'
<1>0. /\ mem \in States /\ disk \in States /\ owed \subseteq Pools
      /\ \A p \in Pools : mem.pool[p] \in PoolRec
  BY DEF TInv, TypeOK, States
<1>1. ASSUME NEW P \in Targets, Start(P) PROVE TInv'
  <2> DEFINE up == [p \in P |-> [mem.pool[p] EXCEPT !.running = TRUE, !.backoff = "none"]]
  <2>1. P \subseteq Pools
    BY TargetsType DEF TInv
  <2>2. up \in [P -> PoolRec]
    BY <1>0, <2>1, PoolUpdateType
  <2>3. WithPools(mem, up) \in States
    BY <1>0, <2>1, <2>2, WithPoolsType
  <2>4. Handled("start", WithPools(mem, up)) /\ owed' = owed \ P
    BY <1>1 DEF Start
  <2> QED BY <1>0, <2>3, <2>4, HandledType
<1>2. ASSUME NEW P \in Targets, NEW force \in Forces, Stop(P, force) PROVE TInv'
  <2> DEFINE down == [p \in P |-> [mem.pool[p] EXCEPT !.running = FALSE,
                                                      !.backoff = Retry(p, force)]]
  <2>1. P \subseteq Pools /\ force \in BOOLEAN
    BY TargetsType DEF TInv, Forces
  <2>2. down \in [P -> PoolRec]
    BY <1>0, <2>1, PoolUpdateType, RetryType DEF TInv
  <2>3. WithPools(mem, down) \in States
    BY <1>0, <2>1, <2>2, WithPoolsType
  <2>4. Retire(WithPools(mem, down), P, force) \in States
    BY <2>1, <2>3, RetireType
  <2>5. Handled("stop", Retire(WithPools(mem, down), P, force)) /\ UNCHANGED owed
    BY <1>2 DEF Stop
  <2> QED BY <1>0, <2>4, <2>5, HandledType
<1>3. ASSUME NEW p \in Pools, NEW force \in Forces, Remove(p, force) PROVE TInv'
  <2> DEFINE dropped == [mem.pool[p] EXCEPT !.running = FALSE, !.deleting = TRUE,
                                            !.backoff = Retry(p, force)]
             s == [mem EXCEPT !.pool[p] = dropped]
  <2>1. force \in BOOLEAN
    BY DEF Forces
  <2>2. dropped \in PoolRec
    BY <1>0, <2>1, PoolUpdateType, RetryType DEF TInv
  <2>3. s \in States
    BY <1>0, <2>2, SetPoolType
  <2>4. Retire(s, {p}, force) \in States
    BY <2>1, <2>3, RetireType
  <2>5. Handled("remove", Retire(s, {p}, force)) /\ UNCHANGED owed
    BY <1>3 DEF Remove
  <2> QED BY <1>0, <2>4, <2>5, HandledType
<1>4. ASSUME NEW p \in Pools, NEW n \in 0 .. MaxRunners, Add(p, n) PROVE TInv'
  <2> DEFINE s == [mem EXCEPT !.pool[p] = NewPool(n)]
  <2>1. s \in States
    BY <1>0, SetPoolType, ConstantTypes
  <2>2. Configured("add", s, s) /\ UNCHANGED owed
    BY <1>4 DEF Add
  <2> QED BY <2>1, <2>2, ConfiguredType
<1>5. ASSUME NEW p \in Pools, NEW n \in 0 .. MaxRunners, Scale(p, n) PROVE TInv'
  <2> DEFINE s == [mem EXCEPT !.pool[p].replicas = n]
  <2>1. s \in States
    BY <1>0 DEF States, PoolRec
  <2>2. MarkRetiring(s, {p}) \in States
    BY <2>1, MarkRetiringType
  <2>3. Configured("scale", s, MarkRetiring(s, {p})) /\ UNCHANGED owed
    BY <1>5 DEF Scale
  <2> QED BY <2>1, <2>2, <2>3, ConfiguredType
<1>6. ASSUME NEW p \in Pools, Upgrade(p) PROVE TInv'
  <2> DEFINE s == [mem EXCEPT !.pool[p].gen = @ + 1]
  <2>0. s = [mem EXCEPT !.pool[p] = [mem.pool[p] EXCEPT !.gen = @ + 1]]
    BY <1>0 DEF States
  <2>1. s \in States
    BY <1>0, <2>0, PoolUpdateType, SetPoolType
  <2>2. MarkRetiring(s, {p}) \in States
    BY <2>1, MarkRetiringType
  <2>3. Configured("upgrade", s, MarkRetiring(s, {p})) /\ UNCHANGED owed
    BY <1>6 DEF Upgrade
  <2> QED BY <2>1, <2>2, <2>3, ConfiguredType
<1>7. ASSUME NEW P \in SUBSET Existing(mem), Auth(P) PROVE TInv'
  <2> DEFINE cleared == [p \in P |-> [mem.pool[p] EXCEPT !.backoff = "none"]]
  <2>1. P \subseteq Pools
    BY DEF Existing
  <2>2. cleared \in [P -> PoolRec]
    BY <1>0, <2>1, PoolUpdateType
  <2>3. WithPools(mem, cleared) \in States
    BY <1>0, <2>1, <2>2, WithPoolsType
  <2>4. PICK written \in BOOLEAN :
          /\ Handled("auth", IF written THEN WithPools(mem, cleared) ELSE mem)
          /\ owed' = IF written THEN owed \ P ELSE owed
    BY <1>7 DEF Auth
  <2>5. owed' \subseteq Pools
    BY <1>0, <2>4
  <2> QED BY <1>0, <2>3, <2>4, <2>5, HandledType
<1>8. ASSUME NEW replicas \in [Pools -> 0 .. MaxRunners],
             NEW added \in SUBSET (Pools \ Existing(mem)),
             NEW changed \in SUBSET Existing(mem), Apply(replicas, added, changed)
      PROVE  TInv'
  <2> DEFINE new(p) == IF p \in added THEN NewPool(replicas[p])
                       ELSE IF p \in Existing(mem)
                       THEN [mem.pool[p] EXCEPT !.replicas = replicas[p],
                               !.gen = IF p \in changed THEN @ + 1 ELSE @]
                       ELSE mem.pool[p]
             s == [mem EXCEPT !.pool = [p \in Pools |-> new(p)]]
  <2>1. ASSUME NEW p \in Pools PROVE new(p) \in PoolRec
    <3>1. replicas[p] \in 0 .. MaxRunners /\ mem.pool[p] \in PoolRec
      BY <1>0
    <3>2. [mem.pool[p] EXCEPT !.replicas = replicas[p],
             !.gen = IF p \in changed THEN @ + 1 ELSE @] \in PoolRec
      <4>1. mem.pool[p].gen \in Nat /\ mem.pool[p].gen + 1 \in Nat
        BY <3>1 DEF PoolRec
      <4> QED BY <3>1, <4>1, PoolUpdateType
    <3> QED BY <3>1, <3>2, ConstantTypes
  <2>2. s \in States
    BY <1>0, <2>1 DEF States
  <2>3. MarkRetiring(s, Existing(s)) \in States
    BY <2>2, MarkRetiringType
  <2>4. Configured("apply", s, MarkRetiring(s, Existing(s))) /\ UNCHANGED owed
    BY <1>8 DEF Apply
  <2> QED BY <2>2, <2>3, <2>4, ConfiguredType
<1>9. CASE Refused
  BY <1>0, <1>9, HandledType DEF Refused
<1>10. CASE RefusedStatus
  BY <1>0, <1>10 DEF RefusedStatus, env, ghosts, TInv, TypeOK, Shape
<1> QED
  BY <1>1, <1>2, <1>3, <1>4, <1>5, <1>6, <1>7, <1>8, <1>9, <1>10 DEF Request

-----------------------------------------------------------------------------
(* The manager process and its environment.                                *)

LEMMA TypeProcess ==
  ASSUME TInv, Crash \/ Restart
  PROVE  TInv'
<1> USE DEF TInv, TypeOK, Shape
<1>1. CASE Crash
  <2>1. late' \in [RunIds -> {"none", "create", "start"}]
    BY <1>1 DEF Crash, Lingers
  <2> QED BY <1>1, <2>1, ConstantTypes DEF Crash, ghosts, PCs, Holding, Collected
<1>2. CASE Restart
  BY <1>2 DEF Restart, env, ghosts, PCs, Holding, Collected
<1> QED BY <1>1, <1>2

LEMMA TypeEnvironment ==
  ASSUME TInv, Environment
  PROVE  TInv'
<1> USE DEF TInv, TypeOK, Shape
<1>1. ASSUME NEW p \in Pools, BackoffExpires(p) PROVE TInv'
  BY <1>1, ArmType DEF BackoffExpires, Backoffs, env, ghosts
<1>2. ASSUME NEW i \in RunIds, LateLands(i) PROVE TInv'
  BY <1>2 DEF LateLands, Starts, Statuses, ghosts
<1>3. ASSUME NEW i \in RunIds, Registers(i) PROVE TInv'
  BY <1>3 DEF Registers, host, ghosts
<1>4. ASSUME NEW i \in RunIds, JobCompletes(i) PROVE TInv'
  BY <1>4 DEF JobCompletes, host, ghosts
<1>5. ASSUME NEW i \in RunIds, GitHubForgets(i) PROVE TInv'
  BY <1>5 DEF GitHubForgets, host, ghosts
<1>6. ASSUME NEW i \in RunIds, ContainerExits(i) PROVE TInv'
  BY <1>6 DEF ContainerExits, Statuses, ghosts
<1>7. CASE HostReboots
  BY <1>7 DEF HostReboots, Statuses, ghosts
<1> QED BY <1>1, <1>2, <1>3, <1>4, <1>5, <1>6, <1>7 DEF Environment

LEMMA TypeInit ==
  ASSUME Init
  PROVE  TInv
<1>1. mem \in States
  BY ConstantTypes DEF Init, States
<1> QED BY <1>1, ConstantTypes
        DEF Init, TInv, TypeOK, Shape, PCs, Holding, Collected, Statuses

LEMMA TypeStep ==
  ASSUME TInv, [Next]_vars
  PROVE  TInv'
<1>1. CASE UNCHANGED vars
  BY <1>1 DEF vars, TInv, TypeOK, Shape
<1> QED BY <1>1, TypePass, TypeRequest, TypeProcess, TypeEnvironment DEF Next

\* Every reachable state has its type, and the locals of the command in flight
\* are set: reconcile never answers for a pool or a run it does not hold.
THEOREM TypeCorrect == Spec => []TypeOK
<1>1. Init => TInv
  BY TypeInit
<1>2. TInv /\ [Next]_vars => TInv'
  BY TypeStep
<1>3. TInv => TypeOK
  BY DEF TInv
<1> QED BY <1>1, <1>2, <1>3, PTL DEF Spec
=============================================================================
