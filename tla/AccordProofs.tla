---------------------------- MODULE AccordProofs ----------------------------
(***************************************************************************)
(* Accord is an invariant of Engine, for every set of pools and runs and   *)
(* every limit, and what follows from it.                                  *)
(***************************************************************************)
EXTENDS EngineProofs, WellFoundedInduction

-----------------------------------------------------------------------------
(* States that differ in phases, archived logs and backoffs only.          *)

Like(s, t) ==
  /\ \A p \in Pools : /\ t.pool[p].exists = s.pool[p].exists
                      /\ t.pool[p].running = s.pool[p].running
                      /\ t.pool[p].deleting = s.pool[p].deleting
                      /\ t.pool[p].replicas = s.pool[p].replicas
                      /\ t.pool[p].gen = s.pool[p].gen
  /\ \A i \in RunIds : /\ t.run[i].phase = "none" <=> s.run[i].phase = "none"
                       /\ t.run[i].pool = s.run[i].pool /\ t.run[i].gen = s.run[i].gen
                       /\ t.run[i].retiring = s.run[i].retiring
                       /\ t.run[i].force = s.run[i].force

\* No drain and no force of a run that stays is undone, nor does it change hands,
\* and whoever forces it drains it.
Forward(s, t) ==
  \A i \in Recorded(s) \cap Recorded(t) :
    /\ t.run[i].pool = s.run[i].pool
    /\ s.run[i].retiring => t.run[i].retiring
    /\ s.run[i].force => t.run[i].force
    /\ t.run[i].force => s.run[i].force \/ t.run[i].retiring

LEMMA LikeSame ==
  ASSUME NEW s \in States, NEW t \in States, Like(s, t)
  PROVE  /\ Recorded(t) = Recorded(s)
         /\ Existing(t) = Existing(s)
         /\ \A p : RunsOf(t, p) = RunsOf(s, p)
         /\ \A p \in Pools : Wanted(t.pool[p]) = Wanted(s.pool[p])
         /\ Sound(s) => Sound(t)
         /\ Forward(s, t)
<1>1. Recorded(t) = Recorded(s)
  BY DEF Like, Recorded
<1>2. Existing(t) = Existing(s)
  BY DEF Like, Existing
<1>3. \A p : RunsOf(t, p) = RunsOf(s, p)
  BY <1>1 DEF Like, RunsOf, Recorded
<1>4. \A p \in Pools : Wanted(t.pool[p]) = Wanted(s.pool[p])
  BY DEF Like, Wanted
<1>5. ASSUME Sound(s) PROVE Sound(t)
  <2>1. Housed(t)
    BY <1>1, <1>2, <1>5 DEF Sound, Housed, Like, Recorded
  <2>2. Draining(t)
    <3> SUFFICES ASSUME NEW i \in Recorded(t),
                        ~t.pool[t.run[i].pool].running \/ t.pool[t.run[i].pool].deleting
                 PROVE  t.run[i].retiring
      BY DEF Draining
    <3>1. i \in RunIds /\ i \in Recorded(s) /\ t.run[i].pool = s.run[i].pool
      BY <1>1 DEF Like, Recorded
    <3>2. s.run[i].pool \in Pools
      BY <1>5, <3>1 DEF Sound, Housed, Existing
    <3> QED BY <1>5, <3>1, <3>2 DEF Sound, Draining, Like
  <2>3. Fits(t)
    BY <1>1, <1>5 DEF Sound, Fits
  <2> QED BY <2>1, <2>2, <2>3 DEF Sound
<1>6. Forward(s, t)
  BY DEF Forward, Like, Recorded
<1> QED BY <1>1, <1>2, <1>3, <1>4, <1>5, <1>6

LEMMA LikeRefl == ASSUME NEW s PROVE Like(s, s)
BY DEF Like

\* Writing back a clone that agrees with the record.
LEMMA LikeUpdate ==
  ASSUME NEW s \in States, NEW i \in RunIds, NEW r \in RunRec,
         Agrees(r, s.run[i]), r.phase # "none"
  PROVE  Like(s, [s EXCEPT !.run[i] = r])
BY DEF Like, Agrees, States

LEMMA LikeArm ==
  ASSUME NEW s \in States, NEW p \in Pools, NEW b \in Backoffs
  PROVE  Like(s, Arm(s, p, b))
BY DEF Like, Arm, States, PoolRec

LEMMA LikeConcluded ==
  ASSUME NEW s \in States, pass.pool \in Pools, NEW ok
  PROVE  Concluded(s, ok) \in States /\ Like(s, Concluded(s, ok))
BY LikeArm, LikeRefl, ArmType DEF Concluded, Backoffs

LEMMA LikeTrans ==
  ASSUME NEW s, NEW t, NEW u, Like(s, t), Like(t, u)
  PROVE  Like(s, u)
BY DEF Like

\* Two states that differ in observed phases only: `s' in memory, `t' stored.
LEMMA LikeObserved ==
  ASSUME NEW s \in States, NEW t \in States, s.pool = t.pool,
         \A i \in RunIds : \/ s.run[i] = t.run[i]
                           \/ i \in Recorded(t) /\ s.run[i] = [t.run[i] EXCEPT !.phase = "live"]
  PROVE  Like(s, t) /\ Like(t, s)
<1>1. ASSUME NEW i \in RunIds
      PROVE  /\ s.run[i].phase = "none" <=> t.run[i].phase = "none"
             /\ s.run[i].pool = t.run[i].pool /\ s.run[i].gen = t.run[i].gen
             /\ s.run[i].retiring = t.run[i].retiring
             /\ s.run[i].force = t.run[i].force
  <2>1. t.run[i] \in RunRec
    BY DEF States
  <2>2. CASE s.run[i] = t.run[i]
    BY <2>2
  <2>3. CASE i \in Recorded(t) /\ s.run[i] = [t.run[i] EXCEPT !.phase = "live"]
    BY <2>1, <2>3 DEF Recorded, RunRec
  <2> QED BY <2>2, <2>3
<1> QED BY <1>1 DEF Like

LEMMA LikeDisk ==
  ASSUME TypeOK, Synced
  PROVE  Like(mem, disk) /\ Like(disk, mem)
BY LikeObserved DEF TypeOK, Synced

-----------------------------------------------------------------------------
(* How a step ends.                                                        *)

Good == Accord' /\ Forward(mem, mem')
Shrinks == Good /\ Recorded(mem') \subseteq Recorded(mem)

\* The pass is over, or the process is.
LEMMA PassOver ==
  ASSUME Sound(mem'), mem' = disk', pc' \in {"idle", "down"}, pass' = NoPass
  PROVE  Accord'
BY DEF Accord, Synced, PoolHeld, TodoHeld, ClonesHeld, RoomHeld, Looping, Collected, Holding,
       Forcing, Cloned, NoPass, NoRun

LEMMA PassEndsGood ==
  ASSUME TInv, Accord, pass.pool \in Pools, NEW s \in States, NEW ok, PassEnds(s, ok),
         Sound(s), Forward(mem, s)
  PROVE  Good /\ Recorded(mem') = Recorded(s)
<1>1. mem' = Concluded(s, ok) /\ disk' = mem' /\ pc' = "idle" /\ pass' = NoPass
  BY DEF PassEnds, Save
<1>2. mem' \in States /\ Like(s, mem')
  BY <1>1, LikeConcluded
<1>3. Sound(mem') /\ Recorded(mem') = Recorded(s)
  BY <1>2, LikeSame
<1>4. Forward(mem, mem')
  BY <1>2, <1>3 DEF Forward, Like, Recorded
<1> QED BY <1>1, <1>3, <1>4, PassOver DEF Good

LEMMA PassEndsMem ==
  ASSUME TInv, Accord, pass.pool \in Pools, NEW ok, PassEnds(mem, ok)
  PROVE  Shrinks
<1>1. mem \in States /\ Sound(mem)
  BY DEF TInv, TypeOK, Accord
<1>2. Forward(mem, mem)
  BY DEF Forward
<1> QED BY <1>1, <1>2, PassEndsGood DEF Shrinks

\* A step of a pass that goes on, on a state like the one before.
LEMMA PassGoesOn ==
  ASSUME TInv, TInv', Accord, Like(mem, mem'),
         pc \notin {"idle", "down"}, pc' \notin {"idle", "down"},
         pass'.pool = pass.pool, pass'.ps = pass.ps, pass'.moved = pass.moved
  PROVE  /\ Sound(mem') /\ Forward(mem, mem') /\ Recorded(mem') = Recorded(mem)
         /\ \A p : RunsOf(mem', p) = RunsOf(mem, p)
         /\ PoolHeld'
<1>1. mem \in States /\ mem' \in States
  BY DEF TInv, TypeOK
<1>2. /\ Recorded(mem') = Recorded(mem) /\ Existing(mem') = Existing(mem)
      /\ \A p : RunsOf(mem', p) = RunsOf(mem, p)
      /\ Sound(mem') /\ Forward(mem, mem')
  BY <1>1, LikeSame DEF Accord
<1>3. pass.pool \in Pools /\ pass.ps \in PoolRec
  BY DEF TInv, TypeOK, Shape, PassRec
<1>4. mem.pool[pass.pool] \in PoolRec /\ mem'.pool[pass.pool] \in PoolRec
  BY <1>1, <1>3 DEF States
<1>5. ASSUME ~pass.moved
      PROVE  mem'.pool[pass.pool] = [pass.ps EXCEPT !.backoff = mem'.pool[pass.pool].backoff]
  <2>1. mem.pool[pass.pool] = [pass.ps EXCEPT !.backoff = mem.pool[pass.pool].backoff]
    BY <1>5 DEF Accord, PoolHeld
  <2> QED BY <1>3, <1>4, <2>1 DEF Like, PoolRec
<1>6. PoolHeld'
  BY <1>2, <1>5 DEF Accord, PoolHeld
<1> QED BY <1>2, <1>6

LEMMA SyncedKeep ==
  ASSUME Synced, pc' \notin {"idle", "down"}, Keep
  PROVE  Synced'
BY DEF Synced, Keep, Recorded

LEMMA SyncedSave ==
  ASSUME NEW s, Save(s)
  PROVE  Synced'
BY DEF Synced, Save

LEMMA AgreesLike ==
  ASSUME NEW s, NEW t, Like(s, t), NEW r, NEW i \in RunIds, Agrees(r, s.run[i])
  PROVE  Agrees(r, t.run[i])
BY DEF Like, Agrees

\* Back to the head of the loop.
LEMMA BackToVisit ==
  ASSUME TInv, TInv', Accord, Like(mem, mem'), Synced',
         pc \in Looping, pc' = "visit",
         pass'.pool = pass.pool, pass'.ps = pass.ps, pass'.moved = pass.moved,
         pass'.todo \subseteq pass.todo,
         pass'.clone = NoPass.clone \/ pass'.clone = pass.clone
  PROVE  Shrinks
<1>0. pc \notin {"idle", "down"} /\ pc' \notin {"idle", "down"}
  BY DEF Looping, Collected
<1>1. /\ Sound(mem') /\ Forward(mem, mem') /\ Recorded(mem') = Recorded(mem)
      /\ \A p : RunsOf(mem', p) = RunsOf(mem, p)
      /\ PoolHeld'
  BY <1>0, PassGoesOn
<1>2. TodoHeld'
  BY <1>1 DEF TodoHeld, Accord
<1>3. ClonesHeld'
  <2>1. CASE pass'.clone = NoPass.clone
    <3>1. Cloned' = {}
      BY <2>1 DEF Cloned, NoPass, NoRun
    <3> QED BY <3>1 DEF ClonesHeld, Holding, Forcing, Collected
  <2>2. CASE pass'.clone = pass.clone
    <3>1. Cloned' = Cloned
      BY <2>2 DEF Cloned
    <3>2. ASSUME ~pass.moved, NEW i \in Cloned PROVE Agrees(pass'.clone[i], mem'.run[i])
      BY <2>2, <3>2, AgreesLike DEF Accord, ClonesHeld, Cloned
    <3> QED BY <3>1, <3>2 DEF ClonesHeld, Holding, Forcing, Collected
  <2> QED BY <2>1, <2>2
<1>4. RoomHeld'
  BY DEF RoomHeld
<1> QED BY <1>1, <1>2, <1>3, <1>4 DEF Shrinks, Good, Accord

\* A run is taken in hand, or kept there for its next command.
LEMMA InHand ==
  ASSUME TInv, TInv', Accord, Like(mem, mem'), Synced',
         pc \in Looping, pc' \in Looping \ {"visit"},
         pass'.pool = pass.pool, pass'.ps = pass.ps, pass'.moved = pass.moved,
         NEW i \in RunIds, NEW r \in RunRec, pass'.cur = i, pass'.todo = pass.todo \ {i},
         pass'.clone = [pass.clone EXCEPT ![i] = r],
         Agrees(r, mem'.run[i]), r.phase # "none"
  PROVE  Shrinks
<1>0. pc \notin {"idle", "down"} /\ pc' \notin {"idle", "down"}
  BY DEF Looping, Collected
<1>1. /\ Sound(mem') /\ Forward(mem, mem') /\ Recorded(mem') = Recorded(mem)
      /\ \A p : RunsOf(mem', p) = RunsOf(mem, p)
      /\ PoolHeld'
  BY <1>0, PassGoesOn
<1>2. TodoHeld'
  BY <1>1 DEF TodoHeld, Accord
<1>3. ClonesHeld'
  <2>0. pass.clone \in [RunIds -> RunRec]
    BY DEF TInv, TypeOK, PassRec
  <2>1. Cloned' = Cloned \cup {i}
    BY <2>0 DEF Cloned
  <2>2. ASSUME ~pass.moved, NEW j \in Cloned' PROVE Agrees(pass'.clone[j], mem'.run[j])
    <3>1. CASE j = i
      BY <2>0, <3>1
    <3>2. CASE j # i
      <4>1. j \in RunIds /\ j \in Cloned /\ pass'.clone[j] = pass.clone[j]
        BY <2>0, <2>1, <3>2 DEF Cloned
      <4>2. Agrees(pass.clone[j], mem.run[j])
        BY <2>2, <4>1 DEF Accord, ClonesHeld
      <4> QED BY <4>1, <4>2, AgreesLike
    <3> QED BY <3>1, <3>2
  <2>3. pass'.cur \in Cloned'
    BY <2>1
  <2>4. pc' \notin Forcing \cup {"relist", "remotes"}
    BY DEF Looping, Collected, Forcing
  <2> QED BY <2>2, <2>3, <2>4 DEF ClonesHeld, Forcing
<1>4. RoomHeld'
  BY DEF RoomHeld, Looping, Collected
<1> QED BY <1>1, <1>2, <1>3, <1>4 DEF Shrinks, Good, Accord

\* The run stays in hand and nothing is written.
LEMMA GoOnInHand ==
  ASSUME TInv, TInv', Accord, Keep, ~pass.moved,
         pc \in Looping \ {"visit"}, pc' \in Looping \ {"visit"}, pass' = pass
  PROVE  Shrinks
<1>1. pass.cur \in RunIds /\ pass.cur \in Cloned /\ pass.cur \notin pass.todo
  BY DEF Accord, ClonesHeld, TodoHeld, Looping, Holding, Cloned, Collected
<1>2. pass.clone \in [RunIds -> RunRec]
  BY DEF TInv, TypeOK, PassRec
<1>3. Agrees(pass.clone[pass.cur], mem.run[pass.cur]) /\ pass.clone[pass.cur].phase # "none"
  BY <1>1 DEF Accord, ClonesHeld, Cloned
<1>4. Synced'
  BY SyncedKeep DEF Accord, Looping, Collected
<1>5. Like(mem, mem') /\ mem' = mem
  BY LikeRefl DEF Keep
<1>6. pass'.todo = pass.todo \ {pass.cur}
  BY <1>1
<1>7. pass'.clone = [pass.clone EXCEPT ![pass.cur] = pass.clone[pass.cur]]
  BY <1>1, <1>2
<1> QED BY <1>1, <1>2, <1>3, <1>4, <1>5, <1>6, <1>7, InHand

LEMMA SkipGood ==
  ASSUME TInv, TInv', Accord, pc \in Looping, SkipRun, Keep
  PROVE  Shrinks
<1>1. pass \in PassRec
  BY DEF TInv, TypeOK
<1>2. /\ pass'.pool = pass.pool /\ pass'.ps = pass.ps /\ pass'.moved = pass.moved
      /\ pass'.todo = pass.todo /\ pass'.clone = NoPass.clone /\ pc' = "visit"
  BY <1>1 DEF SkipRun, Loose, PassRec
<1>3. Like(mem, mem') /\ Synced'
  BY <1>2, LikeRefl, SyncedKeep DEF Keep, Accord
<1> QED BY <1>2, <1>3, BackToVisit

LEMMA ErrorsGood ==
  ASSUME TInv, TInv', Accord, Errors
  PROVE  Shrinks
<1>0. pass.pool \in Pools
  BY DEF TInv, Shape, Errors, Fatal, Collected
<1>1. CASE PassEnds(mem, FALSE)
  BY <1>0, <1>1, PassEndsMem
<1>2. CASE pc \in Collected /\ SkipRun /\ Keep
  BY <1>2, SkipGood DEF Looping
<1> QED BY <1>1, <1>2 DEF Errors

-----------------------------------------------------------------------------
(* The steps that remove a pool or a run.                                  *)

LEMMA DeletePoolGood ==
  ASSUME TInv, Accord, pass.pool \in Pools, Emptied(pass.pool), DeletePool
  PROVE  Shrinks
<1> DEFINE gone == [mem EXCEPT !.pool[pass.pool] = Absent]
<1>0. mem \in States /\ disk \in States /\ gone \in States
  BY SetPoolType, ConstantTypes DEF TInv, TypeOK
<1>1. Sound(gone) /\ Forward(mem, gone) /\ Recorded(gone) = Recorded(mem)
  <2>1. gone.run = mem.run /\ Recorded(gone) = Recorded(mem)
    BY <1>0 DEF States, Recorded
  <2>2. \A i \in Recorded(mem) :
           mem.run[i].pool # pass.pool /\ mem.run[i].pool \in Existing(mem)
    BY DEF Emptied, RunsOf, Accord, Sound, Housed
  <2>3. \A p \in Pools : p # pass.pool => gone.pool[p] = mem.pool[p]
    BY <1>0 DEF States
  <2>4. Housed(gone)
    BY <2>1, <2>2, <2>3 DEF Housed, Existing
  <2>5. Draining(gone)
    BY <2>1, <2>2, <2>3 DEF Draining, Existing, Accord, Sound
  <2>6. Fits(gone)
    BY <2>1 DEF Fits, Accord, Sound
  <2>7. Forward(mem, gone)
    BY <2>1 DEF Forward
  <2> QED BY <2>1, <2>4, <2>5, <2>6, <2>7 DEF Sound
<1>2. Sound(disk) /\ Forward(mem, disk) /\ Recorded(disk) = Recorded(mem)
  BY <1>0, LikeDisk, LikeSame DEF Accord, TInv
<1>3. CASE PassEnds(mem, FALSE)
  BY <1>3, PassEndsMem
<1>4. CASE Save(gone) /\ pc' = "idle" /\ pass' = NoPass
  BY <1>1, <1>4, PassOver DEF Save, Shrinks, Good
<1>5. ASSUME NEW s \in {disk, gone}, Save(s), pc' = "down", pass' = NoPass
      PROVE  Shrinks
  <2>1. Sound(s) /\ Forward(mem, s) /\ Recorded(s) = Recorded(mem)
    BY <1>1, <1>2
  <2> QED BY <1>5, <2>1, PassOver DEF Save, Shrinks, Good
<1> QED BY <1>3, <1>4, <1>5 DEF DeletePool

LEMMA FinishRunGood ==
  ASSUME TInv, TInv', Accord, pc \in Looping \ {"visit"}, FinishRun(pass.cur)
  PROVE  Shrinks
<1> DEFINE i == pass.cur
<1>0. /\ i \in RunIds /\ i \notin pass.todo
      /\ mem \in States /\ mem' \in States /\ pass \in PassRec
  BY DEF Accord, ClonesHeld, TodoHeld, Looping, Holding, Cloned, Collected, TInv, TypeOK
<1>1. /\ mem' = [mem EXCEPT !.run[i] = NoRun] /\ disk' = mem' /\ pc' = "visit"
      /\ pass'.pool = pass.pool /\ pass'.ps = pass.ps /\ pass'.moved = pass.moved
      /\ pass'.todo = pass.todo /\ pass'.clone = NoPass.clone
  BY <1>0 DEF FinishRun, Save, Loose, PassRec
<1>2. mem'.pool = mem.pool /\ Recorded(mem') = Recorded(mem) \ {i}
  BY <1>0, <1>1 DEF States, Recorded, NoRun
<1>3. \A j \in Recorded(mem') : mem'.run[j] = mem.run[j]
  BY <1>0, <1>1, <1>2 DEF States, Recorded
<1>4. Sound(mem') /\ Forward(mem, mem')
  <2>1. Housed(mem') /\ Draining(mem')
    BY <1>2, <1>3 DEF Housed, Draining, Existing, Accord, Sound
  <2>2. IsFiniteSet(Recorded(mem)) /\ Cardinality(Recorded(mem)) \in Nat
    BY RunIdsAssumption, FS_Subset, FS_CardinalityType DEF Recorded
  <2>3. Cardinality(Recorded(mem')) \in Nat
        /\ Cardinality(Recorded(mem')) <= Cardinality(Recorded(mem))
    BY <1>2, <2>2, FS_Subset, FS_CardinalityType
  <2>4. Fits(mem')
    BY <2>2, <2>3, BoundsAssumption DEF Fits, Accord, Sound
  <2>5. Forward(mem, mem')
    BY <1>3 DEF Forward
  <2> QED BY <2>1, <2>4, <2>5 DEF Sound
<1>5. PoolHeld'
  BY <1>1, <1>2 DEF PoolHeld, Accord, Existing, Looping, Collected
<1>6. TodoHeld'
  BY <1>0, <1>1, <1>2, <1>3 DEF TodoHeld, Accord, RunsOf
<1>7. ClonesHeld'
  <2>1. Cloned' = {}
    BY <1>1 DEF Cloned, NoPass, NoRun
  <2> QED BY <1>1, <2>1 DEF ClonesHeld, Holding, Forcing, Collected
<1>8. Synced' /\ RoomHeld'
  BY <1>1 DEF Synced, RoomHeld
<1> QED BY <1>2, <1>4, <1>5, <1>6, <1>7, <1>8 DEF Shrinks, Good, Accord

LEMMA RemoveDirectoryGood ==
  ASSUME TInv, TInv', Accord, ~pass.moved, pc \in Looping \ {"visit"}, RemoveDirectory
  PROVE  Shrinks
<1>1. CASE FinishRun(pass.cur)
  BY <1>1, FinishRunGood
<1>2. CASE SkipRun /\ Keep
  BY <1>2, SkipGood
<1>3. CASE Goto("repair") /\ Keep
  BY <1>3, GoOnInHand DEF Goto, Looping, Collected
<1> QED BY <1>1, <1>2, <1>3 DEF RemoveDirectory

-----------------------------------------------------------------------------
(* The steps that write a clone back.                                      *)

LEMMA BeginCleanupGood ==
  ASSUME TInv, TInv', Accord, pc \in {"visit", "boot"}, NEW i \in RunIds, NEW r \in RunRec,
         NEW rebooted \in BOOLEAN, Agrees(r, mem.run[i]), BeginCleanup(i, r, rebooted)
  PROVE  Shrinks
<1>0. mem \in States /\ pass \in PassRec
  BY DEF TInv, TypeOK
<1>1. Cleanup(r) \in RunRec /\ Cleanup(r).phase # "none" /\ Agrees(Cleanup(r), mem.run[i])
  BY DEF Cleanup, RunRec, Phases, Agrees
<1>2. mem' = [mem EXCEPT !.run[i] = Cleanup(r)] /\ Synced'
  BY SyncedSave DEF BeginCleanup, Save
<1>3. Like(mem, mem')
  BY <1>0, <1>1, <1>2, LikeUpdate
<1>4. Agrees(Cleanup(r), mem'.run[i])
  BY <1>1, <1>3, AgreesLike
<1>5. CASE pass.moved
  <2>1. pc' = "visit" /\ pass' = [Passed(i) EXCEPT !.failed = TRUE]
    BY <1>5 DEF BeginCleanup
  <2>2. /\ pass'.pool = pass.pool /\ pass'.ps = pass.ps /\ pass'.moved = pass.moved
        /\ pass'.todo \subseteq pass.todo /\ pass'.clone = pass.clone
    BY <1>0, <2>1 DEF Passed, PassRec
  <2> QED BY <1>2, <1>3, <2>1, <2>2, BackToVisit DEF Looping
<1>6. CASE ~pass.moved
  <2>1. /\ pc' = IF r.logSaved THEN "remove" ELSE "archive"
        /\ pass' = [Take(i, Cleanup(r)) EXCEPT !.rebooted = rebooted]
    BY <1>6 DEF BeginCleanup
  <2>2. /\ pass'.pool = pass.pool /\ pass'.ps = pass.ps /\ pass'.moved = pass.moved
        /\ pass'.cur = i /\ pass'.todo = pass.todo \ {i}
        /\ pass'.clone = [pass.clone EXCEPT ![i] = Cleanup(r)]
    BY <1>0, <2>1 DEF Take, PassRec
  <2> QED BY <1>1, <1>2, <1>3, <1>4, <2>1, <2>2, InHand DEF Looping, Collected
<1> QED BY <1>5, <1>6

LEMMA ArchiveGood ==
  ASSUME TInv, TInv', Accord, Archive
  PROVE  Shrinks
<1> DEFINE i == pass.cur
           run == [pass.clone[i] EXCEPT !.logSaved = TRUE]
<1>0. pc = "archive" /\ pc' = "remove" /\ ~pass.moved /\ pass \in PassRec /\ mem \in States
  BY DEF Archive, Archived, Undisturbed, TInv, TypeOK
<1>1. i \in RunIds /\ i \notin pass.todo /\ pass.clone[i] \in RunRec
      /\ Agrees(pass.clone[i], mem.run[i]) /\ pass.clone[i].phase # "none"
  BY <1>0 DEF Accord, ClonesHeld, TodoHeld, Looping, Holding, Cloned, Collected, PassRec
<1>2. run \in RunRec /\ Agrees(run, mem.run[i]) /\ run.phase # "none"
  BY <1>1 DEF RunRec, Agrees
<1>3. mem' = [mem EXCEPT !.run[i] = run] /\ Synced'
  BY SyncedSave DEF Archive, Archived, Save
<1>4. Like(mem, mem')
  BY <1>0, <1>1, <1>2, <1>3, LikeUpdate
<1>4a. Agrees(run, mem'.run[i])
  BY <1>1, <1>2, <1>4, AgreesLike
<1>5. /\ pass'.pool = pass.pool /\ pass'.ps = pass.ps /\ pass'.moved = pass.moved
      /\ pass'.cur = i /\ pass'.todo = pass.todo \ {i}
      /\ pass'.clone = [pass.clone EXCEPT ![i] = run]
  BY <1>0, <1>1 DEF Archive, Archived, PassRec
<1> QED BY <1>0, <1>1, <1>2, <1>3, <1>4, <1>4a, <1>5, InHand DEF Looping, Collected

LEMMA StartContainerGood ==
  ASSUME TInv, TInv', Accord, StartContainer
  PROVE  Shrinks
<1> DEFINE i == pass.cur
           run == [pass.clone[i] EXCEPT !.phase = "live"]
<1>1. CASE Errors
  BY <1>1, ErrorsGood
<1>2. CASE ~Errors
  <2>0. /\ pc = "start" /\ pc' = "visit" /\ ~pass.moved /\ pass' = Loose
        /\ pass \in PassRec /\ mem \in States /\ Save([mem EXCEPT !.run[i] = run])
    BY <1>2 DEF StartContainer, Undisturbed, TInv, TypeOK
  <2>1. i \in RunIds /\ pass.clone[i] \in RunRec /\ Agrees(pass.clone[i], mem.run[i])
    BY <2>0 DEF Accord, ClonesHeld, Holding, Cloned, PassRec
  <2>2. run \in RunRec /\ Agrees(run, mem.run[i]) /\ run.phase # "none"
    BY <2>1, RunUpdateType DEF RunRec, Agrees
  <2>3. Like(mem, mem') /\ Synced'
    BY <2>0, <2>1, <2>2, LikeUpdate, SyncedSave DEF Save
  <2>4. /\ pass'.pool = pass.pool /\ pass'.ps = pass.ps /\ pass'.moved = pass.moved
        /\ pass'.todo = pass.todo /\ pass'.clone = NoPass.clone
    BY <2>0 DEF Loose, PassRec
  <2> QED BY <2>0, <2>3, <2>4, BackToVisit DEF Looping
<1> QED BY <1>1, <1>2

-----------------------------------------------------------------------------
(* The loop over the runs of the pool.                                     *)

LEMMA VisitGood ==
  ASSUME TInv, TInv', Accord, Visit
  PROVE  Shrinks
<1>0. /\ pc = "visit" /\ pass.pool \in Pools /\ mem \in States /\ pass \in PassRec
      /\ pass.todo \subseteq RunsOf(mem, pass.pool)
  BY DEF Visit, TInv, TypeOK, Shape, Accord, TodoHeld, Looping
<1>1. CASE pass.todo = {}
  <2>1. LoopEnds
    BY <1>1 DEF Visit
  <2>2. CASE \E ok \in BOOLEAN : PassEnds(mem, ok)
    BY <1>0, <2>2, PassEndsMem
  <2>3. CASE Emptied(pass.pool) /\ DeletePool
    BY <1>0, <2>3, DeletePoolGood
  <2>4. CASE /\ Cardinality(RunsOf(mem, pass.pool)) < Wanted(pass.ps) /\ HasRoom
             /\ Goto("image") /\ Keep
    <3>1. Like(mem, mem') /\ Synced' /\ mem' = mem /\ pass' = pass /\ pc' = "image"
      BY <2>4, LikeRefl, SyncedKeep DEF Goto, Keep, Accord
    <3>2. Sound(mem') /\ Forward(mem, mem') /\ PoolHeld'
      BY <1>0, <3>1, PassGoesOn
    <3>3. TodoHeld'
      BY <3>1 DEF TodoHeld, Looping, Collected
    <3>4. ClonesHeld'
      BY <3>1 DEF ClonesHeld, Accord, Cloned, Holding, Collected, Forcing
    <3>5. Cardinality(Recorded(mem)) \in Nat /\ pass.unknown \in Nat
      BY <1>0, RunIdsAssumption, FS_Subset, FS_CardinalityType DEF Recorded, PassRec
    <3>6. RoomHeld'
      BY <2>4, <3>1, <3>5, BoundsAssumption DEF RoomHeld, HasRoom
    <3> QED BY <3>1, <3>2, <3>3, <3>4, <3>6 DEF Shrinks, Good, Accord
  <2> QED BY <2>1, <2>2, <2>3, <2>4 DEF LoopEnds
<1>2. CASE pass.todo # {}
  <2>1. PICK i \in pass.todo :
          VisitRunning(i) \/ VisitStart(i) \/ VisitStopped(i) \/ VisitGone(i)
    BY <1>2 DEF Visit
  <2>2. /\ i \in RunIds /\ i \in Recorded(mem)
        /\ mem.run[i] \in RunRec /\ mem.run[i].phase # "none"
        /\ Agrees(mem.run[i], mem.run[i])
    BY <1>0 DEF RunsOf, Recorded, States, Agrees
  <2>3. /\ Passed(i).pool = pass.pool /\ Passed(i).ps = pass.ps
        /\ Passed(i).moved = pass.moved /\ Passed(i).todo \subseteq pass.todo
        /\ Passed(i).clone = pass.clone
    BY <1>0 DEF Passed, PassRec
  <2>4. ASSUME NEW r \in RunRec
        PROVE  /\ Take(i, r).pool = pass.pool /\ Take(i, r).ps = pass.ps
               /\ Take(i, r).moved = pass.moved /\ Take(i, r).cur = i
               /\ Take(i, r).todo = pass.todo \ {i}
               /\ Take(i, r).clone = [pass.clone EXCEPT ![i] = r]
    BY <1>0 DEF Take, PassRec
  <2>5. ASSUME Keep, pc' \notin {"idle", "down"}
        PROVE  Like(mem, mem') /\ Synced' /\ mem' = mem
    BY <2>5, LikeRefl, SyncedKeep DEF Keep, Accord
  <2>6. CASE PassEnds(mem, FALSE)
    BY <1>0, <2>6, PassEndsMem
  <2>7. CASE Keep /\ pc' = "visit" /\ pass' = Passed(i)
    BY <1>0, <2>3, <2>5, <2>7, BackToVisit DEF Looping
  <2>8. CASE VisitRunning(i)
    <3> DEFINE run == [mem.run[i] EXCEPT !.phase = "live"]
    <3>1. /\ mem' = [mem EXCEPT !.run[i].phase = "live"] /\ disk' = disk
          /\ pc' = "visit" /\ pass' = Passed(i)
      BY <2>8 DEF VisitRunning, Observe
    <3>2. mem' = [mem EXCEPT !.run[i] = run]
      BY <1>0, <2>2, <3>1 DEF States
    <3>3. run \in RunRec /\ Agrees(run, mem.run[i]) /\ run.phase # "none"
      BY <2>2, RunUpdateType DEF RunRec, Agrees
    <3>4. Like(mem, mem')
      BY <1>0, <2>2, <3>2, <3>3, LikeUpdate
    <3>5. Synced'
      <4>0. Synced /\ disk \in States /\ mem.pool = disk.pool
        BY DEF Accord, Synced, TInv, TypeOK
      <4>1. mem'.pool = disk'.pool /\ pc' = "visit"
        BY <1>0, <3>1, <3>2, <4>0 DEF States
      <4>2. ASSUME NEW j \in RunIds, j # i
            PROVE  \/ mem'.run[j] = disk'.run[j]
                   \/ j \in Recorded(disk') /\ mem'.run[j] = [disk'.run[j] EXCEPT !.phase = "live"]
        BY <1>0, <3>1, <3>2, <4>0, <4>2 DEF Synced, States
      <4>3. i \in Recorded(disk') /\ mem'.run[i] = [disk'.run[i] EXCEPT !.phase = "live"]
        <5>1. mem'.run[i] = run /\ disk'.run[i] = disk.run[i]
          BY <1>0, <2>2, <3>1, <3>2 DEF States
        <5>2. CASE mem.run[i] = disk.run[i]
          BY <2>2, <3>1, <5>1, <5>2 DEF Recorded
        <5>3. CASE i \in Recorded(disk) /\ mem.run[i] = [disk.run[i] EXCEPT !.phase = "live"]
          <6>1. disk.run[i] \in RunRec
            BY <2>2, <4>0 DEF States
          <6> QED BY <3>1, <5>1, <5>3, <6>1 DEF RunRec
        <5> QED BY <2>2, <4>0, <5>2, <5>3 DEF Synced
      <4> QED BY <4>1, <4>2, <4>3 DEF Synced
    <3> QED BY <1>0, <2>3, <3>1, <3>4, <3>5, BackToVisit DEF Looping
  <2>9. CASE VisitStart(i)
    <3>1. CASE Keep /\ pc' = "prepare" /\ pass' = Take(i, mem.run[i])
      BY <1>0, <2>2, <2>4, <2>5, <3>1, InHand DEF Looping
    <3> QED BY <2>6, <2>7, <2>9, <3>1 DEF VisitStart
  <2>10. CASE VisitStopped(i)
    <3> DEFINE run == [mem.run[i] EXCEPT !.completed = i \in marker]
               known == StoppedBefore(i, bootKnown)
    <3>0. (i \in marker) \in BOOLEAN /\ (Unexpected(run) /\ known) \in BOOLEAN
      BY DEF Unexpected
    <3>1. run \in RunRec /\ Agrees(run, mem.run[i]) /\ run.phase # "none"
      BY <2>2, <3>0, CompletedType DEF RunRec, Agrees
    <3>2. CASE BeginCleanup(i, run, Unexpected(run) /\ known)
      BY <1>0, <2>2, <3>0, <3>1, <3>2, BeginCleanupGood
    <3>3. CASE Keep /\ pc' = "boot" /\ pass' = Take(i, run)
      BY <1>0, <2>2, <2>4, <2>5, <3>1, <3>3, InHand DEF Looping
    <3> QED BY <2>6, <2>10, <3>2, <3>3 DEF VisitStopped
  <2>11. CASE VisitGone(i)
    <3>1. CASE Keep /\ pc' = "fresh" /\ pass' = Take(i, mem.run[i])
      BY <1>0, <2>2, <2>4, <2>5, <3>1, InHand DEF Looping, Collected
    <3>2. CASE Keep /\ pc' = "visit" /\ pass' = [Passed(i) EXCEPT !.failed = TRUE]
      <4>1. /\ pass'.pool = pass.pool /\ pass'.ps = pass.ps /\ pass'.moved = pass.moved
            /\ pass'.todo \subseteq pass.todo /\ pass'.clone = pass.clone
        BY <1>0, <3>2 DEF Passed, PassRec
      <4> QED BY <1>0, <2>5, <3>2, <4>1, BackToVisit DEF Looping
    <3> QED BY <2>11, <3>1, <3>2 DEF VisitGone
  <2> QED BY <2>1, <2>8, <2>9, <2>10, <2>11
<1> QED BY <1>1, <1>2

-----------------------------------------------------------------------------
(* The steps before the loop.                                              *)

\* The loop over the forced runs, on a state like the one before.
LEMMA StillForcing ==
  ASSUME TInv, TInv', Accord, Like(mem, mem'), Synced', ~pass.moved,
         pc \in Fatal \cup {"force"}, pc' \in Forcing \cup {"relist", "remotes"},
         pass'.pool = pass.pool, pass'.ps = pass.ps, pass'.moved = pass.moved,
         \A j \in Cloned' : Agrees(pass'.clone[j], mem'.run[j]),
         pc' = "force" => Cloned' = pass'.todo,
         pc' \in Forcing \ {"force"} =>
           Cloned' = pass'.todo \cup {pass'.cur} /\ pass'.cur \notin pass'.todo,
         pc' \in {"relist", "remotes"} => Cloned' = {}
  PROVE  Shrinks
<1>1. /\ Sound(mem') /\ Forward(mem, mem') /\ Recorded(mem') = Recorded(mem) /\ PoolHeld'
  BY PassGoesOn DEF Fatal, Forcing
<1>2. TodoHeld' /\ RoomHeld'
  BY DEF TodoHeld, RoomHeld, Looping, Collected, Forcing
<1>3. ClonesHeld'
  BY DEF ClonesHeld, Forcing, Holding, Collected
<1> QED BY <1>1, <1>2, <1>3 DEF Shrinks, Good, Accord

LEMMA ListGood ==
  ASSUME TInv, TInv', Accord, List
  PROVE  Shrinks
<1>0. /\ pc = "list" /\ pass.pool \in Pools /\ ~pass.moved
      /\ mem \in States /\ pass \in PassRec
  BY DEF List, Undisturbed, TInv, TypeOK, Shape
<1>1. CASE Emptied(pass.pool) /\ DeletePool
  BY <1>0, <1>1, DeletePoolGood
<1>2. CASE PassEnds(mem, TRUE)
  BY <1>0, <1>2, PassEndsMem
<1>3. CASE ~(Emptied(pass.pool) /\ ~pass.ps.running)
  <2> DEFINE forced == ForcedRuns(pass.pool)
  <2>1. /\ pc' = "force" /\ Keep
        /\ pass' = [pass EXCEPT !.snap = Snapshot, !.todo = forced,
               !.clone = [i \in RunIds |-> IF i \in forced THEN mem.run[i] ELSE NoRun],
               !.unknown = Cardinality({i \in RunIds \ Recorded(mem) : docker[i] # "none"})]
    BY <1>3 DEF List
  <2>2. /\ pass'.pool = pass.pool /\ pass'.ps = pass.ps /\ pass'.moved = pass.moved
        /\ pass'.todo = forced
        /\ pass'.clone = [i \in RunIds |-> IF i \in forced THEN mem.run[i] ELSE NoRun]
    BY <1>0, <2>1 DEF PassRec
  <2>3. Cloned' = forced
    BY <2>2 DEF Cloned, NoRun, ForcedRuns, RunsOf, Recorded
  <2>4. Like(mem, mem') /\ mem' = mem /\ Synced'
    BY <2>1, LikeRefl, SyncedKeep DEF Keep, Accord
  <2>5. ASSUME NEW j \in Cloned' PROVE Agrees(pass'.clone[j], mem'.run[j])
    <3>1. pass'.clone[j] = mem.run[j] /\ mem.run[j].phase # "none"
      BY <2>2, <2>3 DEF ForcedRuns, RunsOf, Recorded
    <3> QED BY <2>4, <3>1 DEF Agrees
  <2> QED BY <1>0, <2>1, <2>2, <2>3, <2>4, <2>5, StillForcing DEF Fatal, Forcing
<1> QED BY <1>1, <1>2, <1>3 DEF List

LEMMA ForceGood ==
  ASSUME TInv, TInv', Accord, ForceLoop
  PROVE  Shrinks
<1>0. /\ pc = "force" /\ ~pass.moved /\ mem \in States /\ pass \in PassRec
      /\ Cloned = pass.todo /\ \A j \in Cloned : Agrees(pass.clone[j], mem.run[j])
  BY DEF ForceLoop, TInv, TypeOK, Accord, ClonesHeld
<1>1. CASE ForceDone
  <2>1. /\ pc' \in {"relist", "remotes"} /\ Keep /\ pass' = pass /\ Cloned' = {}
    BY <1>0, <1>1 DEF ForceDone, Cloned
  <2>2. Like(mem, mem') /\ Synced'
    BY <2>1, LikeRefl, SyncedKeep DEF Keep, Accord
  <2> QED BY <1>0, <2>1, <2>2, StillForcing DEF Forcing
<1>2. ASSUME NEW i \in pass.todo, ForceNext(i) PROVE Shrinks
  <2> DEFINE run == [pass.clone[i] EXCEPT !.phase = "cleanup"]
  <2>1. /\ i \in RunIds /\ pass.clone[i] \in RunRec /\ Agrees(pass.clone[i], mem.run[i])
        /\ pass.clone[i].phase # "none"
    BY <1>0 DEF PassRec, Cloned
  <2>2. run \in RunRec /\ Agrees(run, mem.run[i]) /\ run.phase # "none"
    BY <2>1, RunUpdateType DEF RunRec, Agrees
  <2>3. /\ mem' = [mem EXCEPT !.run[i] = run] /\ Synced'
        /\ pc' \in {"forceRemove", "forceArchive"} /\ pass' = Take(i, run)
    BY <1>2, SyncedSave DEF ForceNext, Save
  <2>4. Like(mem, mem')
    BY <1>0, <2>1, <2>2, <2>3, LikeUpdate
  <2>5. /\ pass'.pool = pass.pool /\ pass'.ps = pass.ps /\ pass'.moved = pass.moved
        /\ pass'.todo = pass.todo \ {i} /\ pass'.cur = i
        /\ pass'.clone = [pass.clone EXCEPT ![i] = run]
    BY <1>0, <2>1, <2>3 DEF Take, PassRec
  <2>6. Cloned' = Cloned
    BY <1>0, <2>1, <2>2, <2>5 DEF Cloned, PassRec
  <2>7. ASSUME NEW j \in Cloned' PROVE Agrees(pass'.clone[j], mem'.run[j])
    <3>1. CASE j = i
      BY <1>0, <2>1, <2>2, <2>4, <2>5, <3>1, AgreesLike DEF PassRec
    <3>2. CASE j # i
      BY <1>0, <2>4, <2>5, <2>6, <3>2, AgreesLike DEF PassRec, Cloned
    <3> QED BY <3>1, <3>2
  <2> QED BY <1>0, <2>3, <2>4, <2>5, <2>6, <2>7, StillForcing DEF Forcing
<1> QED BY <1>0, <1>1, <1>2 DEF ForceLoop

LEMMA ForceArchiveGood ==
  ASSUME TInv, TInv', Accord, ForceArchive
  PROVE  Shrinks
<1> DEFINE i == pass.cur
           run == [pass.clone[i] EXCEPT !.logSaved = TRUE]
<1>0. /\ pc = "forceArchive" /\ pc' = "forceRemove" /\ ~pass.moved
      /\ mem \in States /\ pass \in PassRec
      /\ mem' = [mem EXCEPT !.run[i] = run] /\ Synced'
      /\ pass' = [pass EXCEPT !.clone[i] = run]
  BY SyncedSave DEF ForceArchive, Archived, Undisturbed, Save, TInv, TypeOK
<1>1. /\ Cloned = pass.todo \cup {i} /\ i \notin pass.todo
      /\ \A j \in Cloned : Agrees(pass.clone[j], mem.run[j])
  BY <1>0 DEF Accord, ClonesHeld, Forcing
<1>2. i \in RunIds /\ pass.clone[i] \in RunRec /\ pass.clone[i].phase # "none"
  BY <1>0, <1>1 DEF Cloned, PassRec
<1>3. run \in RunRec /\ Agrees(run, mem.run[i]) /\ run.phase # "none"
  BY <1>1, <1>2 DEF RunRec, Agrees
<1>4. Like(mem, mem')
  BY <1>0, <1>2, <1>3, LikeUpdate
<1>5. /\ pass'.pool = pass.pool /\ pass'.ps = pass.ps /\ pass'.moved = pass.moved
      /\ pass'.todo = pass.todo /\ pass'.cur = i
      /\ pass'.clone = [pass.clone EXCEPT ![i] = run]
  BY <1>0 DEF PassRec
<1>6. Cloned' = Cloned
  BY <1>0, <1>2, <1>3, <1>5 DEF Cloned, PassRec
<1>7. ASSUME NEW j \in Cloned' PROVE Agrees(pass'.clone[j], mem'.run[j])
  <2>1. CASE j = i
    <3>1. Agrees(run, mem'.run[i])
      BY <1>2, <1>3, <1>4, AgreesLike
    <3> QED BY <1>0, <1>2, <1>5, <2>1, <3>1 DEF PassRec
  <2>2. CASE j # i
    BY <1>0, <1>1, <1>4, <1>5, <1>6, <2>2, AgreesLike DEF PassRec, Cloned
  <2> QED BY <2>1, <2>2
<1> QED BY <1>0, <1>1, <1>4, <1>5, <1>6, <1>7, StillForcing DEF Forcing, Fatal

LEMMA ForceRemoveGood ==
  ASSUME TInv, TInv', Accord, ForceRemove
  PROVE  Shrinks
<1>1. CASE Errors
  BY <1>1, ErrorsGood
<1>2. CASE ~Errors
  <2> DEFINE i == pass.cur
  <2>0. /\ pc = "forceRemove" /\ pc' = "force" /\ ~pass.moved /\ Keep
        /\ pass \in PassRec /\ pass' = [pass EXCEPT !.cur = NoId, !.clone[i] = NoRun]
    BY <1>2 DEF ForceRemove, Undisturbed, TInv, TypeOK
  <2>1. /\ Cloned = pass.todo \cup {i} /\ i \notin pass.todo
        /\ \A j \in Cloned : Agrees(pass.clone[j], mem.run[j])
    BY <2>0 DEF Accord, ClonesHeld, Forcing
  <2>2. /\ pass'.pool = pass.pool /\ pass'.ps = pass.ps /\ pass'.moved = pass.moved
        /\ pass'.todo = pass.todo /\ pass'.clone = [pass.clone EXCEPT ![i] = NoRun]
    BY <2>0 DEF PassRec
  <2>3. Cloned' = pass.todo
    BY <2>0, <2>1, <2>2 DEF Cloned, PassRec, NoRun
  <2>4. Like(mem, mem') /\ mem' = mem /\ Synced'
    BY <2>0, LikeRefl, SyncedKeep DEF Keep, Accord
  <2>5. \A j \in Cloned' : Agrees(pass'.clone[j], mem'.run[j])
    BY <2>0, <2>1, <2>2, <2>3, <2>4 DEF PassRec
  <2> QED BY <2>0, <2>2, <2>3, <2>4, <2>5, StillForcing DEF Forcing, Fatal
<1> QED BY <1>1, <1>2

LEMMA RelistGood ==
  ASSUME TInv, TInv', Accord, Relist
  PROVE  Shrinks
<1>0. /\ pc = "relist" /\ pc' = "remotes" /\ ~pass.moved /\ Keep
      /\ pass \in PassRec /\ pass' = [pass EXCEPT !.snap = Snapshot] /\ Cloned = {}
  BY DEF Relist, Undisturbed, TInv, TypeOK, Accord, ClonesHeld
<1>1. /\ pass'.pool = pass.pool /\ pass'.ps = pass.ps /\ pass'.moved = pass.moved
      /\ pass'.clone = pass.clone
  BY <1>0 DEF PassRec
<1>2. Cloned' = {}
  BY <1>0, <1>1 DEF Cloned
<1>3. Like(mem, mem') /\ Synced'
  BY <1>0, LikeRefl, SyncedKeep DEF Keep, Accord
<1> QED BY <1>0, <1>1, <1>2, <1>3, StillForcing DEF Forcing, Fatal

\* Draining more runs keeps a state sound.
LEMMA MarkRetiringSound ==
  ASSUME NEW s \in States, NEW P, Sound(s)
  PROVE  LET t == MarkRetiring(s, P)
         IN  /\ t.pool = s.pool /\ Sound(t) /\ Forward(s, t) /\ Recorded(t) = Recorded(s)
             /\ \A i \in RunIds : t.run[i].pool = s.run[i].pool
<1> DEFINE t == MarkRetiring(s, P)
<1>1. t.pool = s.pool
  BY DEF MarkRetiring, States
<1>2. \A i \in RunIds : t.run[i] = s.run[i] \/ t.run[i] = [s.run[i] EXCEPT !.retiring = TRUE]
  BY DEF MarkRetiring, States
<1> HIDE DEF t
<1>3. \A i \in RunIds : /\ t.run[i].phase = s.run[i].phase /\ t.run[i].pool = s.run[i].pool
                        /\ t.run[i].force = s.run[i].force
                        /\ s.run[i].retiring => t.run[i].retiring
  BY <1>2 DEF States, RunRec
<1>4. Recorded(t) = Recorded(s)
  BY <1>3 DEF Recorded
<1>5. Forward(s, t)
  BY <1>3, <1>4 DEF Forward, Recorded
<1>6. Sound(t)
  <2>1. Housed(t)
    BY <1>1, <1>3, <1>4 DEF Sound, Housed, Existing, Recorded
  <2>2. Draining(t)
    BY <1>1, <1>3, <1>4 DEF Sound, Draining, Recorded
  <2>3. Fits(t)
    BY <1>4 DEF Sound, Fits
  <2> QED BY <2>1, <2>2, <2>3 DEF Sound
<1> QED BY <1>1, <1>3, <1>4, <1>5, <1>6 DEF t

LEMMA RemotesGood ==
  ASSUME TInv, TInv', Accord, Remotes
  PROVE  Shrinks
<1>0. /\ pc = "remotes" /\ pc' = "visit" /\ ~pass.moved /\ mem \in States /\ pass \in PassRec
      /\ mem' = MarkRetiring(mem, {pass.pool}) /\ Synced'
      /\ pass' = [pass EXCEPT !.todo = RunsOf(mem, pass.pool)] /\ Cloned = {}
  BY SyncedSave DEF Remotes, Undisturbed, Save, TInv, TypeOK, Accord, ClonesHeld
<1>1. /\ mem'.pool = mem.pool /\ Sound(mem') /\ Forward(mem, mem')
      /\ Recorded(mem') = Recorded(mem)
      /\ \A i \in RunIds : mem'.run[i].pool = mem.run[i].pool
  BY <1>0, MarkRetiringSound DEF Accord
<1>2. /\ pass'.pool = pass.pool /\ pass'.ps = pass.ps /\ pass'.moved = pass.moved
      /\ pass'.todo = RunsOf(mem, pass.pool) /\ pass'.clone = pass.clone
  BY <1>0 DEF PassRec
<1>3. PoolHeld'
  BY <1>0, <1>1, <1>2 DEF PoolHeld, Accord, Existing
<1>4. TodoHeld'
  BY <1>0, <1>1, <1>2 DEF TodoHeld, RunsOf, Recorded
<1>5. ClonesHeld'
  <2>1. Cloned' = {}
    BY <1>0, <1>2 DEF Cloned
  <2> QED BY <1>0, <2>1 DEF ClonesHeld, Forcing, Holding, Collected
<1>6. RoomHeld'
  BY <1>0 DEF RoomHeld
<1> QED BY <1>0, <1>1, <1>3, <1>4, <1>5, <1>6 DEF Shrinks, Good, Accord

\* The pass begins on the pool as it is.
LEMMA TickGood ==
  ASSUME TInv, TInv', Accord, NEW p \in Pools, Tick(p)
  PROVE  Shrinks
<1>0. /\ pc = "idle" /\ pc' = "list" /\ p \in Existing(mem) /\ mem' = mem /\ disk' = disk
      /\ pass' = [NoPass EXCEPT !.pool = p, !.ps = mem.pool[p], !.allow = ~Retrying(p)]
      /\ mem.pool[p] \in PoolRec
  BY DEF Tick, Owns, Keep, TInv, TypeOK, States
<1>1. pass'.pool = p /\ pass'.ps = mem.pool[p] /\ pass'.clone = NoPass.clone /\ ~pass'.moved
  BY <1>0 DEF NoPass
<1>2. Cloned' = {}
  BY <1>1 DEF Cloned, NoPass, NoRun
<1>3. PoolHeld'
  BY <1>0, <1>1 DEF PoolHeld, PoolRec
<1>4. Synced' /\ TodoHeld' /\ ClonesHeld' /\ RoomHeld'
  BY <1>0, <1>2 DEF Accord, Synced, TodoHeld, ClonesHeld, RoomHeld, Looping, Collected, Holding, Forcing
<1>5. Sound(mem') /\ Forward(mem, mem')
  BY <1>0 DEF Accord, Forward
<1> QED BY <1>0, <1>3, <1>4, <1>5 DEF Shrinks, Good, Accord

-----------------------------------------------------------------------------
(* A new run: the only step that records one.                              *)

LEMMA ReplenishGood ==
  ASSUME TInv, TInv', Accord, Replenish
  PROVE  /\ Good
         /\ \A i \in Recorded(mem') \ Recorded(mem) :
              /\ mem'.run[i].pool = pass.pool /\ mem'.run[i].gen = mem.pool[pass.pool].gen
              /\ pass.pool \in Existing(mem)
              /\ Cardinality(RunsOf(mem, pass.pool)) < Wanted(mem.pool[pass.pool])
<1>0. /\ pc = "image" /\ ~pass.moved /\ pass.pool \in Pools /\ pass.pool \in Existing(mem)
      /\ mem \in States /\ pass.ps \in PoolRec /\ mem.pool[pass.pool] \in PoolRec
      /\ mem.pool[pass.pool] = [pass.ps EXCEPT !.backoff = mem.pool[pass.pool].backoff]
      /\ Cardinality(Recorded(mem)) < MaxRunners
      /\ Cardinality(RunsOf(mem, pass.pool)) < Wanted(pass.ps)
  BY DEF Replenish, Undisturbed, TInv, TypeOK, Shape, PassRec, States, Accord, PoolHeld, RoomHeld
<1>1. PICK i \in RunIds, ok \in BOOLEAN :
        /\ i \notin Recorded(mem)
        /\ PassEnds([mem EXCEPT !.run[i] = NewRun(pass.pool, pass.ps.gen)], ok)
  BY DEF Replenish, Unused
<1> DEFINE s == [mem EXCEPT !.run[i] = NewRun(pass.pool, pass.ps.gen)]
<1>2. /\ pass.ps.gen = mem.pool[pass.pool].gen /\ pass.ps.gen \in Nat
      /\ Wanted(pass.ps) = Wanted(mem.pool[pass.pool])
  BY <1>0 DEF PoolRec, Wanted
<1>3. IsFiniteSet(Recorded(mem)) /\ Cardinality(Recorded(mem)) \in Nat
      /\ Cardinality(RunsOf(mem, pass.pool)) \in Nat
  BY RunIdsAssumption, FS_Subset, FS_CardinalityType DEF Recorded, RunsOf
<1>4. mem.pool[pass.pool].running /\ ~mem.pool[pass.pool].deleting
  BY <1>0, <1>2, <1>3 DEF Wanted, PoolRec
<1>5. NewRun(pass.pool, pass.ps.gen) \in RunRec
      /\ NewRun(pass.pool, pass.ps.gen).phase # "none"
      /\ NewRun(pass.pool, pass.ps.gen).pool = pass.pool
      /\ NewRun(pass.pool, pass.ps.gen).gen = pass.ps.gen
  BY <1>0, <1>2, ConstantTypes DEF NewRun, NoRun
<1>6. /\ s \in States /\ s.pool = mem.pool /\ s.run[i] = NewRun(pass.pool, pass.ps.gen)
      /\ \A j \in RunIds : j # i => s.run[j] = mem.run[j]
  BY <1>0, <1>5 DEF States
<1> HIDE DEF s
<1>7. Recorded(s) = Recorded(mem) \cup {i}
  BY <1>5, <1>6 DEF Recorded
<1>8. Sound(s)
  <2>1. Housed(s)
    BY <1>0, <1>1, <1>5, <1>6, <1>7 DEF Housed, Existing, Accord, Sound, Recorded
  <2>2. Draining(s)
    BY <1>1, <1>4, <1>5, <1>6, <1>7 DEF Draining, Accord, Sound, Recorded
  <2>3. Cardinality(Recorded(s)) = Cardinality(Recorded(mem)) + 1
    BY <1>1, <1>3, <1>7, FS_AddElement
  <2>4. Fits(s)
    BY <1>0, <1>3, <2>3, BoundsAssumption DEF Fits
  <2> QED BY <2>1, <2>2, <2>4 DEF Sound
<1>9. Forward(mem, s)
  BY <1>1, <1>6 DEF Forward, Recorded
<1>10. PassEnds(s, ok)
  BY <1>1 DEF s
<1>11. Good /\ Recorded(mem') = Recorded(s)
  BY <1>0, <1>6, <1>8, <1>9, <1>10, PassEndsGood
<1>12. mem'.run[i].pool = pass.pool /\ mem'.run[i].gen = pass.ps.gen
  <2>1. Like(s, mem')
    BY <1>0, <1>6, <1>10, LikeConcluded DEF PassEnds, Save
  <2> QED BY <1>5, <1>6, <2>1 DEF Like
<1> QED BY <1>0, <1>2, <1>7, <1>11, <1>12

\* Every step of a pass.
LEMMA PassGood ==
  ASSUME TInv, TInv', Accord, Pass
  PROVE  Good /\ (Recorded(mem') \subseteq Recorded(mem) \/ Replenish)
<1> USE DEF Shrinks
<1>1. ASSUME NEW p \in Pools, Tick(p) PROVE Shrinks
  BY <1>1, TickGood
<1>2. CASE CommandFails \/ CommandTimesOut
  BY <1>2, ErrorsGood DEF CommandFails, CommandTimesOut
<1>3. CASE ReadBoot
  <2>0. pc = "boot" /\ pass.pool \in Pools /\ pass.cur \in RunIds /\ pass.clone[pass.cur] \in RunRec
    BY <1>3 DEF ReadBoot, TInv, TypeOK, Shape, Holding, PassRec
  <2>1. CASE Undisturbed
    <3>1. PICK boot \in {bootKnown, hostBoot} :
            BeginCleanup(pass.cur, pass.clone[pass.cur], StoppedBefore(pass.cur, boot))
      BY <1>3, <2>1 DEF ReadBoot
    <3>2. Agrees(pass.clone[pass.cur], mem.run[pass.cur])
      BY <2>0, <2>1 DEF Undisturbed, Accord, ClonesHeld, Holding
    <3>3. StoppedBefore(pass.cur, boot) \in BOOLEAN
      BY DEF StoppedBefore
    <3> QED BY <2>0, <3>1, <3>2, <3>3, BeginCleanupGood
  <2>2. CASE ~Undisturbed
    BY <1>3, <2>0, <2>2, PassEndsMem DEF ReadBoot
  <2> QED BY <2>1, <2>2
<1>4. CASE Prepare
  BY <1>4, GoOnInHand DEF Prepare, Goto, Undisturbed, Looping
<1>5. CASE CreateContainer
  <2>1. CASE Errors
    BY <2>1, ErrorsGood
  <2>2. CASE Undisturbed /\ Goto("start") /\ Keep
    BY <1>5, <2>2, GoOnInHand DEF CreateContainer, Goto, Undisturbed, Looping
  <2> QED BY <1>5, <2>1, <2>2 DEF CreateContainer
<1>6. CASE RemoveContainer
  <2>1. CASE Errors
    BY <2>1, ErrorsGood
  <2>2. CASE Undisturbed /\ Goto("fresh") /\ Keep
    BY <1>6, <2>2, GoOnInHand DEF RemoveContainer, Goto, Undisturbed, Looping, Collected
  <2> QED BY <1>6, <2>1, <2>2 DEF RemoveContainer
<1>7. CASE FreshList
  <2>0. pc = "fresh" /\ pc \in Looping \ {"visit"} /\ ~pass.moved
    BY <1>7 DEF FreshList, Undisturbed, Looping, Collected
  <2>1. CASE RemoveDirectory
    BY <2>0, <2>1, RemoveDirectoryGood
  <2>2. CASE Goto("unregister") /\ Keep
    BY <2>0, <2>2, GoOnInHand DEF Goto, Looping, Collected
  <2> QED BY <1>7, <2>1, <2>2 DEF FreshList
<1>8. CASE Unregister
  <2>0. pc \in Looping \ {"visit"}
    BY <1>8 DEF Unregister, Looping, Collected
  <2>1. CASE Undisturbed /\ RemoveDirectory
    BY <2>0, <2>1, RemoveDirectoryGood DEF Undisturbed
  <2>2. CASE Errors
    BY <2>2, ErrorsGood
  <2> QED BY <1>8, <2>1, <2>2 DEF Unregister
<1>9. CASE Repair
  BY <1>9, FinishRunGood DEF Repair, Looping, Collected
<1>10. CASE Replenish
  BY <1>10, ReplenishGood
<1> QED
  BY <1>1, <1>2, <1>3, <1>4, <1>5, <1>6, <1>7, <1>8, <1>9, <1>10,
     ListGood, ForceGood, ForceArchiveGood, ForceRemoveGood, RelistGood, RemotesGood,
     VisitGood, StartContainerGood, ArchiveGood
  DEF Pass

-----------------------------------------------------------------------------
(* Requests: they keep the runs and their pools, and may move the epoch.   *)

Admits(s, t) ==
  /\ Sound(t) /\ Forward(s, t) /\ Recorded(t) = Recorded(s)
  /\ \A i \in RunIds : t.run[i].pool = s.run[i].pool
  /\ Existing(s) \subseteq Existing(t)

LEMMA HandledGood ==
  ASSUME TInv, Accord, NEW kind, NEW s \in States, Handled(kind, s), Admits(mem, s)
  PROVE  Shrinks
<1>0. /\ mem' = s /\ disk' = s /\ pc' = pc /\ MoveEpoch
      /\ pc \in InFlight \cup {"idle", "down"} /\ pass \in PassRec
  BY DEF Handled, Accepting, Save, TInv, TypeOK
<1>1. Sound(mem') /\ Forward(mem, mem') /\ Recorded(mem') = Recorded(mem) /\ Synced'
  BY <1>0 DEF Admits, Synced
<1>2. CASE pc \in InFlight
  <2>1. pc \notin {"idle", "down", "force", "visit"}
    BY <1>2 DEF InFlight, Fatal, Collected
  <2>2. pass' = [pass EXCEPT !.moved = TRUE]
    BY <1>0, <1>2 DEF MoveEpoch
  <2>3. /\ pass'.pool = pass.pool /\ pass'.moved /\ pass'.todo = pass.todo
        /\ pass'.cur = pass.cur /\ pass'.clone = pass.clone
    BY <1>0, <2>2 DEF PassRec
  <2>4. PoolHeld'
    BY <1>0, <2>1, <2>3 DEF PoolHeld, Accord, Admits
  <2>5. TodoHeld'
    <3>1. RunsOf(mem', pass'.pool) = RunsOf(mem, pass.pool)
      BY <1>0, <2>3 DEF Admits, RunsOf, Recorded
    <3> QED BY <1>0, <2>3, <3>1 DEF TodoHeld, Accord
  <2>6. ClonesHeld'
    <3>1. Cloned' = Cloned
      BY <2>3 DEF Cloned
    <3> QED BY <1>0, <2>1, <2>3, <3>1 DEF ClonesHeld, Accord
  <2>7. RoomHeld'
    BY <1>0, <1>1, <2>3 DEF RoomHeld, Accord
  <2> QED BY <1>1, <2>4, <2>5, <2>6, <2>7 DEF Shrinks, Good, Accord
<1>3. CASE pc \notin InFlight
  <2>1. pass' = NoPass /\ pc' \in {"idle", "down"}
    BY <1>0, <1>3 DEF MoveEpoch, TInv, Shape
  <2> QED BY <1>0, <1>1, <2>1, PassOver DEF Shrinks, Good
<1> QED BY <1>2, <1>3

\* A change of pools that drains none of them.
LEMMA PoolsAdmit ==
  ASSUME NEW s \in States, NEW t \in States, Sound(s), t.run = s.run,
         Existing(s) \subseteq Existing(t),
         \A p \in Existing(s) :
           (~t.pool[p].running \/ t.pool[p].deleting)
           => (~s.pool[p].running \/ s.pool[p].deleting)
  PROVE  Admits(s, t)
<1>1. Recorded(t) = Recorded(s) /\ Forward(s, t)
  BY DEF Recorded, Forward
<1>2. Housed(t)
  BY <1>1 DEF Sound, Housed, Recorded
<1>3. Draining(t)
  BY <1>1 DEF Sound, Housed, Draining, Recorded
<1>4. Fits(t)
  BY <1>1 DEF Sound, Fits
<1> QED BY <1>1, <1>2, <1>3, <1>4 DEF Admits, Sound

\* Stopping and removing: the runs of the pools drain with them.
LEMMA RetireAdmits ==
  ASSUME NEW s \in States, NEW u \in States, Sound(s), NEW P, NEW force \in BOOLEAN,
         u.run = s.run, Existing(s) \subseteq Existing(u),
         \A p \in Pools \ P : u.pool[p] = s.pool[p]
  PROVE  Admits(s, Retire(u, P, force))
<1> DEFINE t == Retire(u, P, force)
<1>1. t.pool = u.pool
  BY DEF Retire, States
<1>2. ASSUME NEW i \in RunIds
      PROVE  /\ t.run[i].phase = s.run[i].phase /\ t.run[i].pool = s.run[i].pool
             /\ s.run[i].retiring => t.run[i].retiring
             /\ s.run[i].force => t.run[i].force
             /\ t.run[i].force => s.run[i].force \/ t.run[i].retiring
             /\ i \in Recorded(s) /\ s.run[i].pool \in P => t.run[i].retiring
  <2>1. t.run[i] = IF i \in Recorded(u) /\ u.run[i].pool \in P
                   THEN [u.run[i] EXCEPT !.retiring = TRUE, !.force = @ \/ force] ELSE u.run[i]
    BY DEF Retire, States
  <2>2. u.run[i] = s.run[i] /\ s.run[i] \in RunRec /\ Recorded(u) = Recorded(s)
    BY DEF States, Recorded
  <2> HIDE DEF t
  <2>3. CASE i \in Recorded(s) /\ s.run[i].pool \in P
    <3>1. t.run[i] = [s.run[i] EXCEPT !.retiring = TRUE, !.force = @ \/ force]
      BY <2>1, <2>2, <2>3
    <3> QED BY <2>2, <3>1 DEF RunRec
  <2>4. CASE ~(i \in Recorded(s) /\ s.run[i].pool \in P)
    BY <2>1, <2>2, <2>4
  <2> QED BY <2>3, <2>4
<1> HIDE DEF t
<1>3. Recorded(t) = Recorded(s) /\ Forward(s, t)
  BY <1>2 DEF Recorded, Forward
<1>4. Housed(t)
  BY <1>1, <1>2, <1>3 DEF Sound, Housed, Existing, Recorded
<1>5. Draining(t)
  <2> SUFFICES ASSUME NEW i \in Recorded(t),
                      ~t.pool[t.run[i].pool].running \/ t.pool[t.run[i].pool].deleting
               PROVE  t.run[i].retiring
    BY DEF Draining
  <2>1. i \in RunIds /\ i \in Recorded(s) /\ s.run[i].pool \in Pools
    BY <1>3 DEF Sound, Housed, Existing, Recorded
  <2>2. CASE s.run[i].pool \in P
    BY <1>2, <2>1, <2>2
  <2>3. CASE s.run[i].pool \notin P
    <3>1. t.pool[t.run[i].pool] = s.pool[s.run[i].pool]
      BY <1>1, <1>2, <2>1, <2>3
    <3> QED BY <1>2, <2>1, <3>1 DEF Sound, Draining
  <2> QED BY <2>2, <2>3
<1>6. Fits(t)
  BY <1>3 DEF Sound, Fits
<1>7. Existing(s) \subseteq Existing(t)
  BY <1>1 DEF Existing
<1> QED BY <1>2, <1>3, <1>4, <1>5, <1>6, <1>7 DEF Admits, Sound, t

\* Scaling, upgrading and applying: marking follows.
LEMMA MarkAdmits ==
  ASSUME NEW s \in States, NEW t \in States, NEW P, Admits(s, t), t.run = s.run
  PROVE  Admits(s, MarkRetiring(t, P))
<1>1. LET u == MarkRetiring(t, P)
      IN  /\ u.pool = t.pool /\ Sound(u) /\ Forward(t, u) /\ Recorded(u) = Recorded(t)
          /\ \A i \in RunIds : u.run[i].pool = t.run[i].pool
  BY MarkRetiringSound DEF Admits
<1> QED BY <1>1 DEF Admits, Forward, Existing

LEMMA ConfiguredGood ==
  ASSUME TInv, Accord, NEW kind, NEW s \in States, NEW t \in States,
         Configured(kind, s, t), Admits(mem, s), Admits(mem, t)
  PROVE  Shrinks
<1>1. PICK written \in BOOLEAN : Handled(kind, IF written THEN t ELSE s)
  BY DEF Configured
<1> QED BY <1>1, HandledGood

\* The memory changes under the pass, whose epoch does not move.
LEMMA ReloadGood ==
  ASSUME TInv, TInv', Accord, Like(mem, mem'), Synced', UNCHANGED <<pc, pass>>
  PROVE  Shrinks
<1>1. /\ Sound(mem') /\ Forward(mem, mem') /\ Recorded(mem') = Recorded(mem)
      /\ \A p : RunsOf(mem', p) = RunsOf(mem, p)
  BY LikeSame DEF Accord, TInv, TypeOK
<1>2. CASE pc \in {"idle", "down"}
  BY <1>1, <1>2, PassOver DEF Shrinks, Good, TInv, Shape, Synced
<1>3. CASE pc \notin {"idle", "down"}
  <2>1. PoolHeld'
    BY <1>3, PassGoesOn
  <2>2. TodoHeld' /\ RoomHeld'
    BY <1>1 DEF TodoHeld, RoomHeld, Accord
  <2>3. ClonesHeld'
    <3>1. Cloned' = Cloned
      BY DEF Cloned
    <3>2. ASSUME ~pass.moved, NEW i \in Cloned PROVE Agrees(pass.clone[i], mem'.run[i])
      BY <3>2, AgreesLike DEF Accord, ClonesHeld, Cloned
    <3> QED BY <3>1, <3>2 DEF Accord, ClonesHeld
  <2> QED BY <1>1, <2>1, <2>2, <2>3 DEF Shrinks, Good, Accord
<1> QED BY <1>2, <1>3

LEMMA RequestGood ==
  ASSUME TInv, TInv', Accord, Request
  PROVE  Shrinks
<1>0. /\ mem \in States /\ disk \in States /\ Sound(mem)
      /\ \A p \in Pools : mem.pool[p] \in PoolRec
  BY DEF TInv, TypeOK, States, Accord
<1>1. ASSUME NEW P \in Targets, Start(P) PROVE Shrinks
  <2> DEFINE up == [p \in P |-> [mem.pool[p] EXCEPT !.running = TRUE, !.backoff = "none"]]
             t == WithPools(mem, up)
  <2>1. P \subseteq Pools /\ \A p \in P : ~mem.pool[p].deleting
    BY <1>1, TargetsType DEF TInv, Start
  <2>2. up \in [P -> PoolRec]
    BY <1>0, <2>1, PoolUpdateType
  <2>3. t \in States
    BY <1>0, <2>1, <2>2, WithPoolsType
  <2>4. t.run = mem.run /\ \A p \in Pools : t.pool[p] = IF p \in P THEN up[p] ELSE mem.pool[p]
    BY <1>0 DEF WithPools, States
  <2>5. \A p \in P : up[p].exists = mem.pool[p].exists /\ up[p].running /\ ~up[p].deleting
    BY <1>0, <2>1 DEF PoolRec
  <2>6. Handled("start", t)
    BY <1>1 DEF Start
  <2> HIDE DEF up, t
  <2>7. Existing(mem) \subseteq Existing(t)
    BY <2>4, <2>5 DEF Existing
  <2>8. Admits(mem, t)
    BY <1>0, <2>3, <2>4, <2>5, <2>7, PoolsAdmit DEF Existing
  <2> QED BY <2>3, <2>6, <2>8, HandledGood
<1>2. ASSUME NEW P \in Targets, NEW force \in Forces, Stop(P, force) PROVE Shrinks
  <2> DEFINE down == [p \in P |-> [mem.pool[p] EXCEPT !.running = FALSE,
                                                      !.backoff = Retry(p, force)]]
             u == WithPools(mem, down)
  <2>1. P \subseteq Pools /\ force \in BOOLEAN
    BY TargetsType DEF TInv, Forces
  <2>2. down \in [P -> PoolRec]
    BY <1>0, <2>1, PoolUpdateType, RetryType DEF TInv
  <2>3. u \in States
    BY <1>0, <2>1, <2>2, WithPoolsType
  <2>4. u.run = mem.run /\ \A p \in Pools : u.pool[p] = IF p \in P THEN down[p] ELSE mem.pool[p]
    BY <1>0 DEF WithPools, States
  <2>5. \A p \in P : down[p].exists = mem.pool[p].exists
    BY <1>0, <2>1 DEF PoolRec
  <2>6. Handled("stop", Retire(u, P, force))
    BY <1>2 DEF Stop
  <2> HIDE DEF down, u
  <2>7. Existing(mem) \subseteq Existing(u)
    BY <2>4, <2>5 DEF Existing
  <2>8. Admits(mem, Retire(u, P, force)) /\ Retire(u, P, force) \in States
    BY <1>0, <2>1, <2>3, <2>4, <2>7, RetireAdmits, RetireType
  <2> QED BY <2>6, <2>8, HandledGood
<1>3. ASSUME NEW p \in Pools, NEW force \in Forces, Remove(p, force) PROVE Shrinks
  <2> DEFINE dropped == [mem.pool[p] EXCEPT !.running = FALSE, !.deleting = TRUE,
                                            !.backoff = Retry(p, force)]
             u == [mem EXCEPT !.pool[p] = dropped]
  <2>1. force \in BOOLEAN
    BY DEF Forces
  <2>2. dropped \in PoolRec /\ dropped.exists = mem.pool[p].exists
    BY <1>0, <2>1, PoolUpdateType, RetryType DEF TInv, PoolRec
  <2>3. u \in States
    BY <1>0, <2>2, SetPoolType
  <2>4. u.run = mem.run /\ u.pool[p] = dropped /\ \A q \in Pools \ {p} : u.pool[q] = mem.pool[q]
    BY <1>0 DEF States
  <2>5. Handled("remove", Retire(u, {p}, force))
    BY <1>3 DEF Remove
  <2> HIDE DEF dropped, u
  <2>6. Existing(mem) \subseteq Existing(u)
    BY <2>2, <2>4 DEF Existing
  <2>7. Admits(mem, Retire(u, {p}, force)) /\ Retire(u, {p}, force) \in States
    BY <1>0, <2>1, <2>3, <2>4, <2>6, RetireAdmits, RetireType
  <2> QED BY <2>5, <2>7, HandledGood
<1>4. ASSUME NEW p \in Pools, NEW n \in 0 .. MaxRunners, Add(p, n) PROVE Shrinks
  <2> DEFINE s == [mem EXCEPT !.pool[p] = NewPool(n)]
  <2>1. s \in States
    BY <1>0, SetPoolType, ConstantTypes
  <2>2. s.run = mem.run /\ \A q \in Pools \ {p} : s.pool[q] = mem.pool[q]
    BY <1>0 DEF States
  <2>3. Configured("add", s, s) /\ p \notin Existing(mem)
    BY <1>4 DEF Add, Owns
  <2> HIDE DEF s
  <2>4. Existing(mem) \subseteq Existing(s)
    BY <2>2, <2>3 DEF Existing
  <2>5. Admits(mem, s)
    BY <1>0, <2>1, <2>2, <2>3, <2>4, PoolsAdmit DEF Existing
  <2> QED BY <2>1, <2>3, <2>5, ConfiguredGood
<1>5. ASSUME NEW p \in Pools, NEW n \in 0 .. MaxRunners, Scale(p, n) PROVE Shrinks
  <2> DEFINE s == [mem EXCEPT !.pool[p].replicas = n]
  <2>0. s = [mem EXCEPT !.pool[p] = [mem.pool[p] EXCEPT !.replicas = n]]
    BY <1>0 DEF States
  <2>1. s \in States
    BY <1>0, <2>0, PoolUpdateType, SetPoolType
  <2>2. /\ s.run = mem.run /\ \A q \in Pools \ {p} : s.pool[q] = mem.pool[q]
        /\ s.pool[p] = [mem.pool[p] EXCEPT !.replicas = n]
    BY <1>0, <2>0 DEF States
  <2>3. Configured("scale", s, MarkRetiring(s, {p}))
    BY <1>5 DEF Scale
  <2> HIDE DEF s
  <2>4. \A q \in Pools : /\ s.pool[q].exists = mem.pool[q].exists
                         /\ s.pool[q].running = mem.pool[q].running
                         /\ s.pool[q].deleting = mem.pool[q].deleting
    BY <1>0, <2>2 DEF PoolRec
  <2>5. Admits(mem, s)
    BY <1>0, <2>1, <2>2, <2>4, PoolsAdmit DEF Existing
  <2>6. Admits(mem, MarkRetiring(s, {p})) /\ MarkRetiring(s, {p}) \in States
    BY <1>0, <2>1, <2>2, <2>5, MarkAdmits, MarkRetiringType
  <2> QED BY <2>1, <2>3, <2>5, <2>6, ConfiguredGood
<1>6. ASSUME NEW p \in Pools, Upgrade(p) PROVE Shrinks
  <2> DEFINE s == [mem EXCEPT !.pool[p].gen = @ + 1]
  <2>0. s = [mem EXCEPT !.pool[p] = [mem.pool[p] EXCEPT !.gen = @ + 1]]
    BY <1>0 DEF States
  <2>1. s \in States
    BY <1>0, <2>0, PoolUpdateType, SetPoolType
  <2>2. /\ s.run = mem.run /\ \A q \in Pools \ {p} : s.pool[q] = mem.pool[q]
        /\ s.pool[p] = [mem.pool[p] EXCEPT !.gen = @ + 1]
    BY <1>0, <2>0 DEF States
  <2>3. Configured("upgrade", s, MarkRetiring(s, {p}))
    BY <1>6 DEF Upgrade
  <2> HIDE DEF s
  <2>4. \A q \in Pools : /\ s.pool[q].exists = mem.pool[q].exists
                         /\ s.pool[q].running = mem.pool[q].running
                         /\ s.pool[q].deleting = mem.pool[q].deleting
    BY <1>0, <2>2 DEF PoolRec
  <2>5. Admits(mem, s)
    BY <1>0, <2>1, <2>2, <2>4, PoolsAdmit DEF Existing
  <2>6. Admits(mem, MarkRetiring(s, {p})) /\ MarkRetiring(s, {p}) \in States
    BY <1>0, <2>1, <2>2, <2>5, MarkAdmits, MarkRetiringType
  <2> QED BY <2>1, <2>3, <2>5, <2>6, ConfiguredGood
<1>7. ASSUME NEW P \in SUBSET Existing(mem), Auth(P) PROVE Shrinks
  <2> DEFINE cleared == [p \in P |-> [mem.pool[p] EXCEPT !.backoff = "none"]]
             t == WithPools(mem, cleared)
  <2>1. P \subseteq Pools
    BY DEF Existing
  <2>2. cleared \in [P -> PoolRec]
    BY <1>0, <2>1, PoolUpdateType
  <2>3. t \in States
    BY <1>0, <2>1, <2>2, WithPoolsType
  <2>4. t.run = mem.run /\ \A p \in Pools : t.pool[p] = IF p \in P THEN cleared[p] ELSE mem.pool[p]
    BY <1>0 DEF WithPools, States
  <2>5. \A p \in P : /\ cleared[p].exists = mem.pool[p].exists
                     /\ cleared[p].running = mem.pool[p].running
                     /\ cleared[p].deleting = mem.pool[p].deleting
    BY <1>0, <2>1 DEF PoolRec
  <2>6. PICK written \in BOOLEAN : Handled("auth", IF written THEN t ELSE mem)
    BY <1>7 DEF Auth
  <2> HIDE DEF cleared, t
  <2>7. Admits(mem, t)
    BY <1>0, <2>1, <2>3, <2>4, <2>5, PoolsAdmit DEF Existing
  <2>8. Admits(mem, mem)
    BY <1>0 DEF Admits, Forward
  <2> QED BY <1>0, <2>3, <2>6, <2>7, <2>8, HandledGood
<1>8. ASSUME NEW replicas \in [Pools -> 0 .. MaxRunners],
             NEW added \in SUBSET (Pools \ Existing(mem)),
             NEW changed \in SUBSET Existing(mem), Apply(replicas, added, changed)
      PROVE  Shrinks
  <2> DEFINE new(p) == IF p \in added THEN NewPool(replicas[p])
                       ELSE IF p \in Existing(mem)
                       THEN [mem.pool[p] EXCEPT !.replicas = replicas[p],
                               !.gen = IF p \in changed THEN @ + 1 ELSE @]
                       ELSE mem.pool[p]
             s == [mem EXCEPT !.pool = [p \in Pools |-> new(p)]]
  <2>1. ASSUME NEW p \in Pools PROVE new(p) \in PoolRec
    <3>1. replicas[p] \in 0 .. MaxRunners /\ mem.pool[p] \in PoolRec
      BY <1>0
    <3>2. [mem.pool[p] EXCEPT !.replicas = replicas[p],
             !.gen = IF p \in changed THEN @ + 1 ELSE @] \in PoolRec
      <4>1. mem.pool[p].gen \in Nat /\ mem.pool[p].gen + 1 \in Nat
        BY <3>1 DEF PoolRec
      <4> QED BY <3>1, <4>1, PoolUpdateType
    <3> QED BY <3>1, <3>2, ConstantTypes
  <2>2. s \in States /\ s.run = mem.run /\ \A p \in Pools : s.pool[p] = new(p)
    BY <1>0, <2>1 DEF States
  <2>3. \A p \in Existing(mem) : /\ new(p).exists /\ new(p).running = mem.pool[p].running
                                 /\ new(p).deleting = mem.pool[p].deleting
    BY <1>0 DEF PoolRec, Existing
  <2>4. Configured("apply", s, MarkRetiring(s, Existing(s)))
    BY <1>8 DEF Apply
  <2> HIDE DEF new, s
  <2>5. Existing(mem) \subseteq Existing(s)
    BY <2>2, <2>3 DEF Existing
  <2>6. Admits(mem, s)
    BY <1>0, <2>2, <2>3, <2>5, PoolsAdmit DEF Existing
  <2>7. Admits(mem, MarkRetiring(s, Existing(s))) /\ MarkRetiring(s, Existing(s)) \in States
    BY <1>0, <2>2, <2>6, MarkAdmits, MarkRetiringType
  <2> QED BY <2>2, <2>4, <2>6, <2>7, ConfiguredGood
<1>9. Like(mem, disk)
  BY LikeDisk DEF TInv, Accord
<1>10. CASE Refused
  <2>1. Admits(mem, disk)
    BY <1>0, <1>9, LikeSame DEF Admits, Like
  <2> QED BY <1>0, <1>10, <2>1, HandledGood DEF Refused
<1>11. CASE RefusedStatus
  BY <1>0, <1>9, <1>11, ReloadGood DEF RefusedStatus, Synced
<1> QED
  BY <1>1, <1>2, <1>3, <1>4, <1>5, <1>6, <1>7, <1>8, <1>10, <1>11 DEF Request

-----------------------------------------------------------------------------
(* The manager process and its environment.                                *)

LEMMA CrashGood ==
  ASSUME TInv, Accord, Crash
  PROVE  Shrinks
<1>1. Like(mem, disk) /\ mem \in States /\ disk \in States /\ Sound(mem)
  BY LikeDisk DEF TInv, TypeOK, Accord
<1>2. mem' = disk /\ disk' = disk /\ pc' = "down" /\ pass' = NoPass
  BY DEF Crash
<1> QED BY <1>1, <1>2, LikeSame, PassOver DEF Shrinks, Good

LEMMA BackoffExpiresGood ==
  ASSUME TInv, TInv', Accord, NEW p \in Pools, BackoffExpires(p)
  PROVE  Shrinks
<1>0. /\ mem \in States /\ disk \in States
      /\ mem' = Arm(mem, p, "none") /\ disk' = Arm(disk, p, "none") /\ UNCHANGED <<pc, pass>>
  BY DEF BackoffExpires, TInv, TypeOK
<1>1. Like(mem, mem')
  BY <1>0, LikeArm DEF Backoffs
<1>2. mem'.run = mem.run /\ disk'.run = disk.run /\ Recorded(disk') = Recorded(disk)
  BY <1>0 DEF Arm, States, Recorded
<1>3. mem'.pool = disk'.pool
  BY <1>0 DEF Arm, States, Accord, Synced
<1>4. pc \in {"idle", "down"} => mem' = disk'
  BY <1>0 DEF Accord, Synced
<1>5. Synced'
  BY <1>0, <1>2, <1>3, <1>4 DEF Accord, Synced
<1> QED BY <1>0, <1>1, <1>5, ReloadGood

\* Accord is about the engine only: what happens around it leaves it alone.
LEMMA UntouchedGood ==
  ASSUME Accord, UNCHANGED <<mem, disk, pc, pass>>
  PROVE  Shrinks
<1>1. Synced' /\ Sound(mem') /\ PoolHeld'
  BY DEF Accord, Synced, PoolHeld
<1>2. TodoHeld' /\ RoomHeld'
  BY DEF Accord, TodoHeld, RoomHeld
<1>3. Cloned' = Cloned
  BY DEF Cloned
<1>4. ClonesHeld'
  BY <1>3 DEF Accord, ClonesHeld
<1>5. Forward(mem, mem')
  BY DEF Forward
<1> QED BY <1>1, <1>2, <1>4, <1>5 DEF Shrinks, Good, Accord

LEMMA RestartGood ==
  ASSUME TInv, Accord, Restart
  PROVE  Shrinks
<1>1. /\ mem' = mem /\ disk' = disk /\ mem = disk /\ pc' = "idle" /\ pass' = NoPass
  BY DEF Restart, TInv, Shape, Accord, Synced
<1>2. Sound(mem') /\ Forward(mem, mem')
  BY <1>1 DEF Accord, Forward
<1> QED BY <1>1, <1>2, PassOver DEF Shrinks, Good

LEMMA EnvironmentGood ==
  ASSUME TInv, TInv', Accord, Environment
  PROVE  Shrinks
<1>1. ASSUME NEW p \in Pools, BackoffExpires(p) PROVE Shrinks
  BY <1>1, BackoffExpiresGood
<1>2. ASSUME NEW i \in RunIds,
             \/ LateLands(i) \/ Registers(i) \/ JobCompletes(i)
             \/ GitHubForgets(i) \/ ContainerExits(i)
      PROVE  Shrinks
  BY <1>2, UntouchedGood DEF LateLands, Registers, JobCompletes, GitHubForgets, ContainerExits
<1>3. CASE HostReboots
  BY <1>3, UntouchedGood DEF HostReboots
<1> QED BY <1>1, <1>2, <1>3 DEF Environment

LEMMA StepGood ==
  ASSUME TInv, TInv', Accord, [Next]_vars
  PROVE  Good /\ (Recorded(mem') \subseteq Recorded(mem) \/ Replenish)
<1>1. CASE UNCHANGED vars
  BY <1>1, UntouchedGood DEF vars, Shrinks
<1>2. CASE Next
  BY <1>2, PassGood, RequestGood, CrashGood, RestartGood, EnvironmentGood DEF Next, Shrinks
<1> QED BY <1>1, <1>2

LEMMA AccordInit ==
  ASSUME Init
  PROVE  Accord
<1>1. mem = disk /\ pc = "idle" /\ pass = NoPass /\ Recorded(mem) = {}
  BY DEF Init, Recorded, NoRun
<1>2. Sound(mem)
  BY <1>1, FS_EmptySet, BoundsAssumption DEF Sound, Housed, Draining, Fits
<1>3. Cloned = {}
  BY <1>1 DEF Cloned, NoPass, NoRun
<1> QED BY <1>1, <1>2, <1>3
        DEF Accord, Synced, PoolHeld, TodoHeld, ClonesHeld, RoomHeld, Looping, Collected,
            Holding, Forcing

-----------------------------------------------------------------------------
(* The theorems.                                                           *)

\* What an answer is applied to is what the command was issued for, although
\* requests are accepted while it is in flight (external, manager.rs:160).
THEOREM AccordHolds == Spec => [](TInv /\ Accord)
<1>1. Init => TInv /\ Accord
  BY TypeInit, AccordInit
<1>2. TInv /\ Accord /\ [Next]_vars => (TInv /\ Accord)'
  BY TypeStep, StepGood DEF Good
<1> QED BY <1>1, <1>2, PTL DEF Spec

\* Runs are never more than max_runners, in memory and in the store: the
\* check of reconcile (manager.rs:732-737) and its later insert agree.
THEOREM CapacityHolds == Spec => []CapacityRespected
<1>1. TInv /\ Accord => CapacityRespected
  <2> SUFFICES ASSUME TInv, Accord PROVE CapacityRespected
    OBVIOUS
  <2>1. Recorded(disk) = Recorded(mem)
    BY LikeDisk, LikeSame DEF TInv, TypeOK, Accord
  <2> QED BY <2>1 DEF CapacityRespected, Accord, Sound, Fits
<1> QED BY <1>1, AccordHolds, PTL

\* A stopped or deleting pool keeps no run that takes work, whatever pass was
\* under way when the request came (docs/operations.md).
THEOREM StoppedPoolsDrain == Spec => []StoppedPoolDrains
<1>1. TInv /\ Accord => StoppedPoolDrains
  <2> SUFFICES ASSUME TInv, Accord PROVE StoppedPoolDrains
    OBVIOUS
  <2>1. Sound(disk) /\ Sound(mem)
    BY LikeDisk, LikeSame DEF TInv, TypeOK, Accord
  <2> QED BY <2>1 DEF StoppedPoolDrains, Sound, Draining
<1> QED BY <1>1, AccordHolds, PTL

\* A pool is removed from the state only after its last run.
THEOREM RunsAreHoused == Spec => []RunsHaveAPool
<1>1. TInv /\ Accord => RunsHaveAPool
  <2> SUFFICES ASSUME TInv, Accord PROVE RunsHaveAPool
    OBVIOUS
  <2>1. Sound(disk) /\ Sound(mem)
    BY LikeDisk, LikeSame DEF TInv, TypeOK, Accord
  <2> QED BY <2>1 DEF RunsHaveAPool, Sound, Housed
<1> QED BY <1>1, AccordHolds, PTL

\* A restarted manager finds everything but the observed phase of a run.
THEOREM NothingIsLost == Spec => []CrashLosesNothing
<1>1. TInv /\ Accord => CrashLosesNothing
  BY DEF Accord, Synced, CrashLosesNothing
<1> QED BY <1>1, AccordHolds, PTL

\* A drain or a force, once accepted, stays: no clone of a pass undoes it.
THEOREM DrainsAreFinal == Spec => DrainIsFinal
<1>1. /\ TInv /\ Accord /\ (TInv /\ Accord)' /\ [Next]_vars
      => [\A i \in Recorded(mem) \cap Recorded(mem') :
            /\ mem.run[i].retiring => mem'.run[i].retiring
            /\ mem.run[i].force => mem'.run[i].force]_vars
  BY StepGood DEF Good, Forward
<1> QED BY <1>1, AccordHolds, PTL DEF Spec, DrainIsFinal

\* A new run is recorded only for a pool that still wants one, although the
\* decision was taken before the image check (manager.rs:732-757).
THEOREM ProvisionsAreWanted == Spec => ProvisionIsWanted
<1>1. ASSUME TInv, Accord, TInv', Accord', [Next]_vars,
             NEW i \in Recorded(disk') \ Recorded(disk)
      PROVE  LET p == disk'.run[i].pool
             IN  /\ p \in Existing(mem)
                 /\ Cardinality(RunsOf(mem, p)) < Wanted(mem.pool[p])
                 /\ disk'.run[i].gen = mem.pool[p].gen
  <2>1. Recorded(disk) = Recorded(mem)
    BY <1>1, LikeDisk, LikeSame DEF TInv, TypeOK, Accord
  <2>2. Recorded(disk') = Recorded(mem') /\ Like(mem', disk')
    <3>1. TypeOK' /\ Synced'
      BY <1>1 DEF TInv, Accord
    <3>2. Like(mem', disk')
      BY <3>1, LikeObserved DEF TypeOK, Synced
    <3> QED BY <3>1, <3>2, LikeSame DEF TypeOK
  <2>3. Replenish
    BY <1>1, <2>1, <2>2, StepGood
  <2>4. /\ mem'.run[i].pool = pass.pool /\ mem'.run[i].gen = mem.pool[pass.pool].gen
        /\ pass.pool \in Existing(mem)
        /\ Cardinality(RunsOf(mem, pass.pool)) < Wanted(mem.pool[pass.pool])
    BY <1>1, <2>1, <2>2, <2>3, ReplenishGood
  <2>5. disk'.run[i].pool = mem'.run[i].pool /\ disk'.run[i].gen = mem'.run[i].gen
    BY <2>2 DEF Like, Recorded
  <2> QED BY <2>4, <2>5
<1>2. TInv /\ Accord /\ (TInv /\ Accord)' /\ [Next]_vars
      => [\A i \in Recorded(disk') \ Recorded(disk) :
            LET p == disk'.run[i].pool
            IN  /\ p \in Existing(mem)
                /\ Cardinality(RunsOf(mem, p)) < Wanted(mem.pool[p])
                /\ disk'.run[i].gen = mem.pool[p].gen]_vars
  BY <1>1
<1> QED BY <1>2, AccordHolds, PTL DEF Spec, ProvisionIsWanted
-----------------------------------------------------------------------------
(* Unexpected exits pause provisioning, except where they are forgotten.   *)

\* A pass that saw an exit is discarded by a request, or dies before it ends.
Forgotten == pass.exits # {} /\ pc' \in {"idle", "down"} /\ (pass.moved \/ pc' = "down")

\* An exit no backoff answered was seen by this pass, which records no run.
Owing ==
  /\ owed # {} => pass.exits # {} /\ owed \subseteq {pass.pool}
  /\ pc = "image" => pass.exits = {}

\* The pass goes on and has seen no further exit.
GoesOn == pass'.pool = pass.pool /\ pass'.exits = pass.exits /\ owed' = owed /\ pc' # "image"

LEMMA GoesOnOwing == ASSUME Owing, GoesOn PROVE Owing'
BY DEF Owing, GoesOn

\* No pass: the exits it saw are forgotten, which none may be, or backed off.
LEMMA OverOwing ==
  ASSUME Owing, pass' = NoPass, pc' \in {"idle", "down"}, ~Forgotten,
         \/ owed' = {}
         \/ owed' = owed /\ (pass.moved \/ pass.exits = {} \/ pc' = "down")
         \/ owed' = owed \ {pass.pool}
  PROVE  Owing'
<1>1. owed' = {}
  BY DEF Owing, Forgotten
<1> QED BY <1>1 DEF Owing

LEMMA EndsOwing ==
  ASSUME Owing, NEW s, NEW ok, PassEnds(s, ok), ~Forgotten
  PROVE  Owing'
<1>1. \/ owed' = owed /\ (pass.moved \/ pass.exits = {} \/ pc' = "down")
      \/ owed' = owed \ {pass.pool}
  BY DEF PassEnds
<1> QED BY <1>1, OverOwing DEF PassEnds

LEMMA SkipOwing ==
  ASSUME TypeOK, Owing, SkipRun, owed' = owed
  PROVE  Owing'
<1>1. GoesOn
  BY DEF GoesOn, SkipRun, Loose, TypeOK, PassRec
<1> QED BY <1>1, GoesOnOwing

LEMMA ErrorsOwing ==
  ASSUME TypeOK, Owing, Errors, ~Forgotten
  PROVE  Owing'
BY EndsOwing, SkipOwing DEF Errors

LEMMA DeletePoolOwing ==
  ASSUME Owing, DeletePool, ~Forgotten
  PROVE  Owing'
<1>1. CASE PassEnds(mem, FALSE)
  BY <1>1, EndsOwing
<1>2. CASE /\ pc' \in {"idle", "down"} /\ pass' = NoPass
           /\ \/ owed' = owed \ {pass.pool}
              \/ owed' = owed /\ pc' = "down"
  BY <1>2, OverOwing
<1> QED BY <1>1, <1>2 DEF DeletePool

LEMMA GotoOwing ==
  ASSUME Owing, NEW next, Goto(next), owed' = owed,
         next = "image" => pass.exits = {}
  PROVE  Owing'
BY DEF Owing, Goto

LEMMA FinishOwing ==
  ASSUME TypeOK, Owing, NEW i \in RunIds, FinishRun(i)
  PROVE  Owing'
<1> DEFINE counts == Unexpected(pass.clone[i]) /\ ~pass.rebooted
<1>1. /\ pc' = "visit" /\ pass'.pool = pass.pool
      /\ pass'.exits = IF counts THEN pass.exits \cup {i} ELSE pass.exits
      /\ owed' = IF counts THEN owed \cup {pass.pool} ELSE owed
  BY DEF FinishRun, Loose, TypeOK, PassRec
<1> HIDE DEF counts
<1> QED BY <1>1 DEF Owing

LEMMA RemoveDirectoryOwing ==
  ASSUME TypeOK, Owing, pass.cur \in RunIds, RemoveDirectory
  PROVE  Owing'
BY FinishOwing, SkipOwing, GotoOwing DEF RemoveDirectory

LEMMA CleanupOwing ==
  ASSUME TypeOK, Owing, NEW i, NEW run, NEW rebooted, BeginCleanup(i, run, rebooted)
  PROVE  Owing'
<1>1. GoesOn
  BY DEF GoesOn, BeginCleanup, Passed, Take, TypeOK, PassRec
<1> QED BY <1>1, GoesOnOwing

LEMMA ArchivedOwing ==
  ASSUME TypeOK, Owing, NEW next, Archived(next), next # "image"
  PROVE  Owing'
<1>1. GoesOn
  BY DEF GoesOn, Archived, ghosts, TypeOK, PassRec
<1> QED BY <1>1, GoesOnOwing

LEMMA VisitOwing ==
  ASSUME TypeOK, Owing, Visit, ~Forgotten
  PROVE  Owing'
<1>1. CASE pass.todo = {}
  <2>1. LoopEnds
    BY <1>1 DEF Visit
  <2>2. ASSUME Replenishes, Goto("image"), owed' = owed PROVE Owing'
    BY <2>2, GotoOwing DEF Replenishes
  <2> QED BY <2>1, <2>2, EndsOwing, DeletePoolOwing DEF LoopEnds
<1>2. CASE pass.todo # {}
  <2>1. PICK i \in pass.todo :
          VisitRunning(i) \/ VisitStart(i) \/ VisitStopped(i) \/ VisitGone(i)
    BY <1>2 DEF Visit
  <2>2. ASSUME ghosts' = ghosts, pc' # "image",
               \/ pass' = Passed(i)
               \/ pass' = [Passed(i) EXCEPT !.failed = TRUE]
               \/ \E run : pass' = Take(i, run)
        PROVE  Owing'
    <3>1. GoesOn
      BY <2>2 DEF GoesOn, Passed, Take, ghosts, TypeOK, PassRec
    <3> QED BY <3>1, GoesOnOwing
  <2>3. CASE VisitRunning(i)
    BY <2>2, <2>3 DEF VisitRunning
  <2>4. CASE VisitStart(i)
    BY <2>2, <2>4, EndsOwing DEF VisitStart
  <2>5. CASE VisitStopped(i)
    BY <2>2, <2>5, EndsOwing, CleanupOwing DEF VisitStopped
  <2>6. CASE VisitGone(i)
    BY <2>2, <2>6 DEF VisitGone
  <2> QED BY <2>1, <2>3, <2>4, <2>5, <2>6
<1> QED BY <1>1, <1>2

LEMMA ListOwing ==
  ASSUME TypeOK, Owing, List, ~Forgotten
  PROVE  Owing'
<1>1. CASE Emptied(pass.pool) /\ ~pass.ps.running
  BY <1>1, EndsOwing, DeletePoolOwing DEF List
<1>2. CASE ~(Emptied(pass.pool) /\ ~pass.ps.running)
  <2> DEFINE forced == ForcedRuns(pass.pool)
             clone == [i \in RunIds |-> IF i \in forced THEN mem.run[i] ELSE NoRun]
             unknown == Cardinality({i \in RunIds \ Recorded(mem) : docker[i] # "none"})
  <2>1. /\ owed' = owed /\ pc' = "force"
        /\ pass' = [pass EXCEPT !.snap = Snapshot, !.todo = forced, !.clone = clone,
                                !.unknown = unknown]
    BY <1>2 DEF List
  <2>2. GoesOn
    <3> HIDE DEF forced, clone, unknown
    <3> QED BY <2>1 DEF GoesOn, TypeOK, PassRec
  <2> QED BY <2>2, GoesOnOwing
<1> QED BY <1>1, <1>2

LEMMA PassOwing ==
  ASSUME TInv, Accord, Owing, Pass, ~Forgotten
  PROVE  Owing'
<1>0. TypeOK /\ pass \in PassRec
  BY DEF TInv, TypeOK
<1>1. ASSUME NEW p \in Pools, Tick(p) PROVE Owing'
  <2>1. pass = NoPass /\ owed' = owed /\ pc' = "list" /\ pass'.pool = p
    BY <1>1 DEF Tick, ghosts, TInv, Shape, NoPass
  <2>2. owed = {}
    BY <2>1 DEF Owing, NoPass
  <2> QED BY <2>1, <2>2 DEF Owing
<1>2. CASE CommandFails
  BY <1>0, <1>2, ErrorsOwing DEF CommandFails
<1>3. CASE CommandTimesOut
  BY <1>0, <1>3, ErrorsOwing DEF CommandTimesOut
<1>4. CASE List
  BY <1>0, <1>4, ListOwing
<1>5. CASE ForceLoop
  <2>1. GoesOn
    BY <1>0, <1>5 DEF GoesOn, ForceLoop, ForceDone, ForceNext, Take, ghosts, PassRec
  <2> QED BY <2>1, GoesOnOwing
<1>6. CASE ForceArchive
  BY <1>0, <1>6, ArchivedOwing DEF ForceArchive
<1>7. CASE ForceRemove
  <2>1. ASSUME pc' = "force", owed' = owed, pass' = [pass EXCEPT !.cur = NoId, !.clone[pass.cur] = NoRun]
        PROVE  GoesOn
    BY <1>0, <2>1 DEF GoesOn, PassRec
  <2> QED BY <1>0, <1>7, <2>1, GoesOnOwing, ErrorsOwing DEF ForceRemove
<1>8. CASE Relist
  <2>1. GoesOn
    BY <1>0, <1>8 DEF GoesOn, Relist, ghosts, PassRec
  <2> QED BY <2>1, GoesOnOwing
<1>9. CASE Remotes
  <2>1. GoesOn
    BY <1>0, <1>9 DEF GoesOn, Remotes, ghosts, PassRec
  <2> QED BY <2>1, GoesOnOwing
<1>10. CASE Visit
  BY <1>0, <1>10, VisitOwing
<1>11. CASE ReadBoot
  BY <1>0, <1>11, CleanupOwing, EndsOwing DEF ReadBoot
<1>12. CASE Prepare
  BY <1>12, GotoOwing DEF Prepare, ghosts
<1>13. CASE CreateContainer
  BY <1>0, <1>13, GotoOwing, ErrorsOwing DEF CreateContainer
<1>14. CASE StartContainer
  <2>1. ASSUME owed' = owed, pc' = "visit", pass' = Loose PROVE GoesOn
    BY <1>0, <2>1 DEF GoesOn, Loose, PassRec
  <2> QED BY <1>0, <1>14, <2>1, GoesOnOwing, ErrorsOwing DEF StartContainer
<1>15. CASE Archive
  BY <1>0, <1>15, ArchivedOwing DEF Archive
<1>16. CASE RemoveContainer
  BY <1>0, <1>16, GotoOwing, ErrorsOwing DEF RemoveContainer
<1>17. CASE FreshList
  <2>1. pass.cur \in RunIds
    BY <1>17 DEF FreshList, TInv, Shape, Holding, Collected
  <2> QED BY <1>0, <1>17, <2>1, GotoOwing, RemoveDirectoryOwing DEF FreshList
<1>18. CASE Unregister
  <2>1. pass.cur \in RunIds
    BY <1>18 DEF Unregister, TInv, Shape, Holding, Collected
  <2> QED BY <1>0, <1>18, <2>1, ErrorsOwing, RemoveDirectoryOwing DEF Unregister
<1>19. CASE Repair
  <2>1. pass.cur \in RunIds
    BY <1>19 DEF Repair, TInv, Shape, Holding, Collected
  <2> QED BY <1>0, <1>19, <2>1, FinishOwing DEF Repair
<1>20. CASE Replenish
  BY <1>20, EndsOwing DEF Replenish
<1> QED BY <1>1, <1>2, <1>3, <1>4, <1>5, <1>6, <1>7, <1>8, <1>9, <1>10, <1>11, <1>12, <1>13,
           <1>14, <1>15, <1>16, <1>17, <1>18, <1>19, <1>20 DEF Pass

\* A request answers exits by restarting a pool, and hears of none.
LEMMA RequestOwing ==
  ASSUME TInv, Owing, Request
  PROVE  Owing'
<1>1. owed' \subseteq owed /\ pc' = pc /\ (pass' = pass \/ pass' = [pass EXCEPT !.moved = TRUE])
  BY Zenon DEF Request, Start, Stop, Remove, Add, Scale, Upgrade, Auth, Apply, Refused,
               RefusedStatus, Configured, Handled, MoveEpoch, ghosts
<1>2. pass'.pool = pass.pool /\ pass'.exits = pass.exits
  BY <1>1 DEF TInv, TypeOK, PassRec
<1> QED BY <1>1, <1>2 DEF Owing

LEMMA StepOwing ==
  ASSUME TInv, Accord, Owing, [Next]_vars, [~Forgotten]_vars
  PROVE  Owing'
<1>1. ASSUME owed' = owed, pass' = pass, pc' = pc \/ pc' = "idle" PROVE Owing'
  BY <1>1 DEF Owing
<1>2. CASE UNCHANGED vars
  BY <1>1, <1>2 DEF vars
<1>3. CASE ~Forgotten /\ Pass
  BY <1>3, PassOwing
<1>4. CASE Request
  BY <1>4, RequestOwing
<1>5. CASE ~Forgotten /\ Crash
  BY <1>5, OverOwing DEF Crash, ghosts
<1>6. CASE Restart
  BY <1>1, <1>6 DEF Restart, ghosts
<1>7. CASE Environment
  BY <1>1, <1>7 DEF Environment, BackoffExpires, LateLands, Registers, JobCompletes,
                    GitHubForgets, ContainerExits, HostReboots, ghosts
<1> QED BY <1>2, <1>3, <1>4, <1>5, <1>6, <1>7 DEF Next

\* docs/operations.md promises that unexpected exits pause provisioning.  It
\* holds of every behaviour in which no pass that saw one is discarded by a
\* request (manager.rs:479-485) or lost with the manager before it ends.
THEOREM ExitsPauseUnlessForgotten ==
  Spec /\ [][~Forgotten]_vars => ExitsPauseProvisioning
<1>1. ASSUME TInv, Accord, TInv', Accord', Owing, [Next]_vars,
             NEW i \in Recorded(disk') \ Recorded(disk)
      PROVE  disk'.run[i].pool \notin owed
  <2>1. Recorded(disk) = Recorded(mem) /\ Recorded(disk') = Recorded(mem')
    <3>1. TypeOK' /\ Synced'
      BY <1>1 DEF TInv, Accord
    <3>2. Like(mem', disk')
      BY <3>1, LikeObserved DEF TypeOK, Synced
    <3> QED BY <1>1, <3>1, <3>2, LikeDisk, LikeSame DEF TInv, TypeOK, Accord
  <2>2. Replenish
    BY <1>1, <2>1, StepGood
  <2> QED BY <1>1, <2>2 DEF Replenish, Owing
<1>2. /\ TInv /\ Accord /\ (TInv /\ Accord)' /\ Owing /\ [Next]_vars
      => [\A i \in Recorded(disk') \ Recorded(disk) : disk'.run[i].pool \notin owed]_vars
  BY <1>1
<1>3. Init => Owing
  BY DEF Init, Owing
<1>4. TInv /\ Accord /\ Owing /\ [Next]_vars /\ [~Forgotten]_vars => Owing'
  BY StepOwing
<1> QED BY <1>2, <1>3, <1>4, AccordHolds, PTL DEF Spec, ExitsPauseProvisioning

-----------------------------------------------------------------------------
(* mark_retiring leaves no runner too many.                                *)

\* A set of numbers has a least element: initial segments are well-founded.
LEMMA LeastNatural ==
  ASSUME NEW T \in SUBSET Nat, T # {}
  PROVE  \E m \in T : \A n \in T : m <= n
  <1>. DEFINE R == StrictSubsetOrdering(Nat)
              I == {0 .. n : n \in T}
  <1>1. I \subseteq FiniteSubsetsOf(Nat) /\ I # {}
    <2>1. ASSUME NEW n \in T PROVE IsFiniteSet(0 .. n) /\ 0 .. n \subseteq Nat
      BY FS_Interval
    <2>. QED
      BY <2>1 DEF FiniteSubsetsOf
  <1>2. \E i \in I : \A j \in I : <<j, i>> \notin R
    <2>1. IsWellFoundedOn(R, FiniteSubsetsOf(Nat))
      BY FS_StrictSubsetOrderingWellFounded
    <2>. HIDE DEF R, I
    <2>. QED
      BY <1>1, <2>1, WFMin
  <1>3. PICK m \in T : \A n \in T : <<0 .. n, 0 .. m>> \notin R
    BY <1>2
  <1>4. ASSUME NEW n \in T, n < m PROVE FALSE
    <2>1. 0 .. n \subseteq 0 .. m /\ m \in 0 .. m /\ m \notin 0 .. n
      BY <1>4
    <2>2. 0 .. n \in SUBSET Nat /\ 0 .. m \in SUBSET Nat
      OBVIOUS
    <2>3. <<0 .. n, 0 .. m>> \in R
      BY <2>1, <2>2 DEF StrictSubsetOrdering
    <2>. QED
      BY <2>3, <1>3
  <1>5. ASSUME NEW n \in T PROVE m <= n
    BY <1>4
  <1>. QED
    BY <1>5

\* The oldest run that stays comes after all the others that stay.
LEMMA MarkedFit ==
  ASSUME NEW s \in States, NEW P, NEW p \in Pools, p \in P
  PROVE  Cardinality(Serving(MarkRetiring(s, P), p)) <= Wanted(s.pool[p])
<1> DEFINE t == MarkRetiring(s, P)
           K == {i \in RunsOf(s, p) : ~Surplus(s, i)}
           w == Wanted(s.pool[p])
<1>1. Serving(t, p) \subseteq K /\ K \subseteq RunIds
  <2>1. \A i \in RunIds : t.run[i] = IF i \in Recorded(s) /\ s.run[i].pool \in P /\ Surplus(s, i)
                                     THEN [s.run[i] EXCEPT !.retiring = TRUE] ELSE s.run[i]
    BY DEF MarkRetiring, States
  <2> HIDE DEF t
  <2>2. ASSUME NEW i \in Serving(t, p) PROVE i \in K
    <3>1. i \in RunIds /\ t.run[i].phase # "none" /\ t.run[i].pool = p /\ ~t.run[i].retiring
      BY DEF Serving, RunsOf, Recorded
    <3>2. s.run[i] \in RunRec
      BY <3>1 DEF States
    <3>3. CASE i \in Recorded(s) /\ s.run[i].pool \in P /\ Surplus(s, i)
      <4>1. t.run[i].retiring
        BY <2>1, <3>1, <3>2, <3>3 DEF RunRec
      <4> QED BY <3>1, <4>1
    <3>4. CASE ~(i \in Recorded(s) /\ s.run[i].pool \in P /\ Surplus(s, i))
      <4>1. t.run[i] = s.run[i]
        BY <2>1, <3>1, <3>4
      <4> QED BY <3>1, <3>4, <4>1 DEF RunsOf, Recorded
    <3> QED BY <3>3, <3>4
  <2> QED BY <2>2 DEF RunsOf, Recorded
<1>2. IsFiniteSet(K) /\ w \in Nat
  BY <1>1, RunIdsAssumption, FS_Subset, BoundsAssumption DEF States, PoolRec, Wanted
<1>3. Cardinality(K) <= w
  <2>1. CASE K = {}
    BY <1>2, <2>1, FS_EmptySet
  <2>2. CASE K # {}
    <3>1. PICK m \in K : \A j \in K : m <= j
      <4>1. K \in SUBSET Nat
        BY <1>1, RunIdsAssumption
      <4> HIDE DEF K
      <4> QED BY <2>2, <4>1, LeastNatural
    <3>2. \A j \in K : s.run[j].pool = p /\ s.run[j].gen = s.pool[p].gen
      BY DEF Surplus, RunsOf
    <3>3. Cardinality(Before(s, m)) < w
      <4>1. ~(Cardinality(Before(s, m)) >= w)
        BY <3>1, <3>2 DEF Surplus
      <4>2. Cardinality(Before(s, m)) \in Nat
        BY RunIdsAssumption, FS_Subset, FS_CardinalityType DEF Before, RunsOf, Recorded
      <4> QED BY <1>2, <4>1, <4>2
    <3>4. K \ {m} \subseteq Before(s, m)
      <4>1. ASSUME NEW j \in K, j # m PROVE j \in Before(s, m)
        <5>1. j \in Nat /\ m \in Nat /\ m <= j
          BY <1>1, <3>1, RunIdsAssumption
        <5>2. j > m
          BY <4>1, <5>1
        <5> QED BY <3>1, <3>2, <5>2 DEF Before
      <4> QED BY <4>1
    <3>5. IsFiniteSet(Before(s, m))
      BY RunIdsAssumption, FS_Subset DEF Before, RunsOf, Recorded
    <3> HIDE DEF K, w
    <3>6. Cardinality(K \ {m}) = Cardinality(K) - 1
      BY <1>2, <3>1, FS_RemoveElement
    <3>7. Cardinality(K \ {m}) <= Cardinality(Before(s, m))
      BY <3>4, <3>5, FS_Subset
    <3>8. Cardinality(K) \in Nat /\ Cardinality(Before(s, m)) \in Nat
      BY <1>2, <3>5, FS_CardinalityType
    <3> QED BY <1>2, <3>3, <3>6, <3>7, <3>8
  <2> QED BY <2>1, <2>2
<1>4. Cardinality(Serving(t, p)) <= Cardinality(K)
  <2> HIDE DEF t, K
  <2> QED BY <1>1, <1>2, FS_Subset
<1>5. Cardinality(K) \in Nat /\ Cardinality(Serving(t, p)) \in Nat
  <2> HIDE DEF t, K
  <2> QED BY <1>1, <1>2, FS_Subset, FS_CardinalityType
<1> QED BY <1>2, <1>3, <1>4, <1>5

\* The loop goes on, in the pass that marked the pool.
Along ==
  /\ pc \in Looping \cup {"image"} /\ ~pass.moved
  /\ pass'.pool = pass.pool /\ pass'.ps = pass.ps

Loops == pc' \in Looping \cup {"image"} /\ ~pass'.moved

LEMMA ErrorsAlong ==
  ASSUME pass \in PassRec, Errors, Loops
  PROVE  Along
<1>1. pc \in Collected /\ SkipRun
  BY DEF Errors, PassEnds, Loops, Looping, Collected
<1> QED BY <1>1 DEF Loops, Along, SkipRun, Loose, Looping, PassRec

LEMMA EndsLoop ==
  ASSUME Loops, pc' \in {"idle", "down", "list", "force", "forceRemove", "forceArchive", "relist", "remotes"}
  PROVE  FALSE
BY DEF Loops, Looping, Collected

LEMMA VisitAlong ==
  ASSUME pass \in PassRec, Visit, Loops
  PROVE  Along
<1>0. pc \in Looping
  BY DEF Visit, Looping
<1>1. CASE pass.todo = {}
  <2>1. LoopEnds
    BY <1>1 DEF Visit
  <2>2. pc' \notin {"idle", "down"}
    BY EndsLoop
  <2>3. Goto("image")
    BY <2>1, <2>2 DEF LoopEnds, DeletePool, PassEnds
  <2> QED BY <1>0, <2>3 DEF Goto, Loops, Along
<1>2. CASE pass.todo # {}
  <2>1. PICK i \in pass.todo :
          VisitRunning(i) \/ VisitStart(i) \/ VisitStopped(i) \/ VisitGone(i)
    BY <1>2 DEF Visit
  <2>2. ASSUME \/ pass' = Passed(i)
               \/ pass' = [Passed(i) EXCEPT !.failed = TRUE]
               \/ \E run : \/ pass' = Take(i, run)
                           \/ \E b : pass' = [Take(i, run) EXCEPT !.rebooted = b]
        PROVE  Along
    BY <1>0, <2>2 DEF Along, Loops, Passed, Take, PassRec
  <2>3. ~PassEnds(mem, FALSE)
    BY EndsLoop DEF PassEnds
  <2>4. CASE VisitRunning(i)
    BY <2>2, <2>4 DEF VisitRunning
  <2>5. CASE VisitStart(i)
    BY <2>2, <2>3, <2>5 DEF VisitStart
  <2>6. CASE VisitStopped(i)
    BY <2>2, <2>3, <2>6 DEF VisitStopped, BeginCleanup
  <2>7. CASE VisitGone(i)
    BY <2>2, <2>7 DEF VisitGone
  <2> QED BY <2>1, <2>4, <2>5, <2>6, <2>7
<1> QED BY <1>1, <1>2

LEMMA RemoveDirectoryAlong ==
  ASSUME pass \in PassRec, pc \in {"fresh", "unregister"}, RemoveDirectory, Loops
  PROVE  Along
BY DEF RemoveDirectory, FinishRun, SkipRun, Loose, Goto, Loops, Along, Looping, Collected, PassRec

LEMMA PassAlong ==
  ASSUME TypeOK, Pass, Loops
  PROVE  Along \/ Remotes
<1>0. pass \in PassRec
  BY DEF TypeOK
<1>1. ~ \E p \in Pools : Tick(p)
  BY EndsLoop DEF Tick
<1>2. ~List
  BY EndsLoop DEF List, PassEnds, DeletePool
<1>3. ~(ForceLoop \/ ForceArchive \/ Relist \/ Replenish)
  BY EndsLoop DEF ForceLoop, ForceDone, ForceNext, ForceArchive, Archived, Relist, Replenish, PassEnds
<1>4. CASE CommandFails \/ CommandTimesOut
  BY <1>0, <1>4, ErrorsAlong DEF CommandFails, CommandTimesOut
<1>5. CASE ForceRemove
  BY <1>0, <1>5, EndsLoop, ErrorsAlong DEF ForceRemove
<1>6. CASE Visit
  BY <1>0, <1>6, VisitAlong
<1>7. CASE ReadBoot
  <2>1. \E b : BeginCleanup(pass.cur, pass.clone[pass.cur], b)
    BY <1>7, EndsLoop DEF ReadBoot, PassEnds
  <2> QED BY <1>0, <1>7, <2>1 DEF BeginCleanup, ReadBoot, Passed, Take, Loops, Along, Looping, PassRec
<1>8. CASE Prepare
  BY <1>8 DEF Prepare, Goto, Loops, Along, Looping
<1>9. CASE CreateContainer
  BY <1>0, <1>9, ErrorsAlong DEF CreateContainer, Goto, Loops, Along, Looping
<1>10. CASE StartContainer
  <2>1. ASSUME pass' = Loose PROVE Along
    BY <1>0, <1>10, <2>1 DEF StartContainer, Loose, Loops, Along, Looping, PassRec
  <2> QED BY <1>0, <1>10, <2>1, ErrorsAlong DEF StartContainer
<1>11. CASE Archive
  BY <1>0, <1>11 DEF Archive, Archived, Loops, Along, Looping, Collected, PassRec
<1>12. CASE RemoveContainer
  BY <1>0, <1>12, ErrorsAlong DEF RemoveContainer, Goto, Loops, Along, Looping, Collected
<1>13. CASE FreshList
  <2>1. ASSUME Goto("unregister") PROVE Along
    BY <1>13, <2>1 DEF FreshList, Goto, Loops, Along, Looping, Collected
  <2> QED BY <1>0, <1>13, <2>1, RemoveDirectoryAlong DEF FreshList
<1>14. CASE Unregister
  BY <1>0, <1>14, RemoveDirectoryAlong, ErrorsAlong DEF Unregister
<1>15. CASE Repair
  BY <1>0, <1>15 DEF Repair, FinishRun, Loose, Loops, Along, Looping, Collected, PassRec
<1> QED BY <1>1, <1>2, <1>3, <1>4, <1>5, <1>6, <1>7, <1>8, <1>9, <1>10, <1>11, <1>12, <1>13,
           <1>14, <1>15 DEF Pass

LEMMA StepAlong ==
  ASSUME TInv, [Next]_vars, Loops
  PROVE  Along \/ Remotes
<1>0. pass \in PassRec
  BY DEF TInv, TypeOK
<1>1. ASSUME pc' = pc, pass' = pass PROVE Along
  BY <1>1 DEF Along, Loops
<1>2. CASE UNCHANGED vars
  BY <1>1, <1>2 DEF vars
<1>3. CASE Pass
  BY <1>3, PassAlong DEF TInv
<1>4. CASE Request
  <2>1. pc' = pc /\ (pass' = pass \/ pass' = [pass EXCEPT !.moved = TRUE])
    BY <1>4, Zenon DEF Request, Start, Stop, Remove, Add, Scale, Upgrade, Auth, Apply, Refused,
                       RefusedStatus, Configured, Handled, MoveEpoch
  <2>2. pass' # [pass EXCEPT !.moved = TRUE]
    BY <1>0 DEF Loops, PassRec
  <2> QED BY <1>1, <2>1, <2>2
<1>5. CASE Crash \/ Restart
  BY <1>5, EndsLoop DEF Crash, Restart
<1>6. CASE Environment
  BY <1>1, <1>6 DEF Environment, BackoffExpires, LateLands, Registers, JobCompletes,
                    GitHubForgets, ContainerExits, HostReboots
<1> QED BY <1>2, <1>3, <1>4, <1>5, <1>6 DEF Next

LEMMA TrimmedStep ==
  ASSUME TInv, TInv', Accord, Accord', Trimmed, [Next]_vars
  PROVE  Trimmed'
<1> SUFFICES ASSUME Loops
             PROVE  Cardinality(Serving(mem', pass'.pool)) <= Wanted(mem'.pool[pass'.pool])
  BY DEF Trimmed, Trim, Loops
<1>1. CASE Remotes
  <2>1. /\ pass.pool \in Pools /\ mem \in States /\ mem' = MarkRetiring(mem, {pass.pool})
        /\ pass'.pool = pass.pool
    BY <1>1 DEF Remotes, Save, TInv, TypeOK, Shape, PassRec
  <2>2. mem'.pool = mem.pool
    BY <2>1 DEF MarkRetiring, States
  <2> QED BY <2>1, <2>2, MarkedFit
<1>2. CASE Along
  <2>1. pc \notin {"idle", "down"} /\ pc' \notin {"idle", "down"} /\ pc' # "idle"
    BY <1>2 DEF Along, Loops, Looping, Collected
  <2>2. /\ Wanted(mem.pool[pass.pool]) = Wanted(pass.ps)
        /\ Wanted(mem'.pool[pass.pool]) = Wanted(pass.ps)
    <3>1. /\ mem.pool[pass.pool] = [pass.ps EXCEPT !.backoff = mem.pool[pass.pool].backoff]
          /\ mem'.pool[pass.pool] = [pass.ps EXCEPT !.backoff = mem'.pool[pass.pool].backoff]
      BY <1>2, <2>1 DEF Along, Loops, Accord, PoolHeld
    <3>2. pass.ps \in PoolRec
      BY DEF TInv, TypeOK, PassRec
    <3> QED BY <3>1, <3>2 DEF Wanted, PoolRec
  <2>3. Recorded(mem') \subseteq Recorded(mem) /\ Forward(mem, mem')
    <3>1. ~Replenish
      BY <2>1 DEF Replenish, PassEnds
    <3> QED BY <3>1, StepGood DEF Good
  <2>4. Serving(mem', pass.pool) \subseteq Serving(mem, pass.pool)
    BY <2>3 DEF Serving, RunsOf, Forward
  <2>5. IsFiniteSet(Serving(mem, pass.pool))
    BY RunIdsAssumption, FS_Subset DEF Serving, RunsOf, Recorded
  <2>6. /\ Cardinality(Serving(mem', pass.pool)) <= Cardinality(Serving(mem, pass.pool))
        /\ Cardinality(Serving(mem, pass.pool)) \in Nat
        /\ Cardinality(Serving(mem', pass.pool)) \in Nat
    BY <2>4, <2>5, FS_Subset, FS_CardinalityType
  <2>7. Cardinality(Serving(mem, pass.pool)) <= Wanted(mem.pool[pass.pool])
    BY <1>2 DEF Along, Trimmed, Trim
  <2>8. Wanted(pass.ps) \in Nat
    BY BoundsAssumption DEF TInv, TypeOK, PassRec, PoolRec, Wanted
  <2>9. pass'.pool = pass.pool
    BY <1>2 DEF Along
  <2> QED BY <2>2, <2>6, <2>7, <2>8, <2>9
<1> QED BY <1>1, <1>2, StepAlong

\* manager.rs:581: inside a pass, from the marking to the new run, and as long
\* as no request is accepted, the pool of the pass has no more runs that take
\* work than it wants. (When it can get more than that otherwise is theorem
\* SurplusComesUnmarked.)
THEOREM MarkedPoolsAreTrimmed == Spec => []Trimmed
<1>1. Init => Trimmed
  BY DEF Init, Trimmed, Looping, Collected
<1>2. TInv /\ Accord /\ (TInv /\ Accord)' /\ Trimmed /\ [Next]_vars => Trimmed'
  BY TrimmedStep
<1> QED BY <1>1, <1>2, AccordHolds, PTL DEF Spec

-----------------------------------------------------------------------------
(* A pass ends: every command it issues leaves less to do.                 *)

\* The parts of reconcile still to come after command c: the listing, the
\* forced runs, the second listing, GitHub's list, the loop, the new run.
PartsLeft(c) ==
  CASE c = "list" -> 6
    [] c \in Forcing -> 5
    [] c = "relist" -> 4
    [] c = "remotes" -> 3
    [] c \in Looping -> 2
    [] c = "image" -> 1
    [] OTHER -> 0

\* The commands that may still be issued for the run in hand.
StepsLeft(c) ==
  CASE c = "boot" -> 6
    [] c = "archive" -> 5
    [] c = "remove" -> 4
    [] c \in {"fresh", "prepare"} -> 3
    [] c \in {"unregister", "create", "forceArchive"} -> 2
    [] c \in {"repair", "start", "forceRemove"} -> 1
    [] OTHER -> 0

\* What a pass has left to do.
Work ==
  7 * (PartsLeft(pc) * (Cardinality(RunIds) + 1) + Cardinality(pass.todo)) + StepsLeft(pc)

Over == pc' \in {"idle", "down"}

\* The pass moves on: to a further part, a further run, or a further command.
MovesOn ==
  \/ PartsLeft(pc') < PartsLeft(pc)
  \/ /\ PartsLeft(pc') = PartsLeft(pc)
     /\ \/ pass'.todo \subseteq pass.todo /\ pass'.todo # pass.todo
        \/ pass'.todo = pass.todo /\ StepsLeft(pc') < StepsLeft(pc)

LEMMA LeftRange ==
  ASSUME NEW c
  PROVE  PartsLeft(c) \in 0 .. 6 /\ StepsLeft(c) \in 0 .. 6
BY DEF PartsLeft, StepsLeft, Forcing, Looping, Collected

LEMMA ErrorsMoveOn ==
  ASSUME TInv, Errors
  PROVE  Over \/ MovesOn
<1>1. CASE pc \in Collected /\ SkipRun
  <2>1. pc' = "visit" /\ pass'.todo = pass.todo
    BY <1>1 DEF SkipRun, Loose, TInv, TypeOK, PassRec
  <2> QED BY <1>1, <2>1 DEF MovesOn, PartsLeft, StepsLeft, Collected, Forcing, Looping
<1> QED BY <1>1 DEF Errors, PassEnds, Over

LEMMA CleanupMovesOn ==
  ASSUME TInv, Accord, pc \in {"visit", "boot"}, NEW i \in RunIds, NEW r, NEW rebooted,
         pc = "visit" => i \in pass.todo, pc = "boot" => i = pass.cur, BeginCleanup(i, r, rebooted)
  PROVE  MovesOn
<1>1. pass'.todo = pass.todo \ {i} /\ pc' \in {"visit", "remove", "archive"}
  BY DEF BeginCleanup, Passed, Take, TInv, TypeOK, PassRec
<1>2. pc = "boot" => i \notin pass.todo /\ (~pass.moved \/ pc' = "visit")
  BY DEF Accord, TodoHeld, Looping, BeginCleanup
<1> QED BY <1>1, <1>2 DEF MovesOn, PartsLeft, StepsLeft, Forcing, Looping, Collected

LEMMA RemoveDirectoryMovesOn ==
  ASSUME TInv, pc \in {"fresh", "unregister"}, RemoveDirectory
  PROVE  MovesOn
<1>1. pc' \in {"visit", "repair"} /\ pass'.todo = pass.todo
  BY DEF RemoveDirectory, FinishRun, SkipRun, Goto, Loose, TInv, TypeOK, PassRec
<1> QED BY <1>1 DEF MovesOn, PartsLeft, StepsLeft, Forcing, Looping, Collected

LEMMA VisitMovesOn ==
  ASSUME TInv, Accord, Visit
  PROVE  Over \/ MovesOn
<1>0. pc = "visit" /\ pass \in PassRec /\ pass.todo \subseteq RunIds
  BY DEF Visit, TInv, TypeOK, PassRec
<1>1. CASE pass.todo = {}
  <2>1. Over \/ pc' = "image"
    BY <1>1 DEF Visit, LoopEnds, DeletePool, PassEnds, Goto, Over
  <2> QED BY <1>0, <2>1 DEF MovesOn, PartsLeft, Forcing, Looping, Collected
<1>2. CASE pass.todo # {}
  <2>1. PICK i \in pass.todo :
          VisitRunning(i) \/ VisitStart(i) \/ VisitStopped(i) \/ VisitGone(i)
    BY <1>2 DEF Visit
  <2>2. ASSUME pc' \in Looping,
               \/ pass' = Passed(i)
               \/ pass' = [Passed(i) EXCEPT !.failed = TRUE]
               \/ \E run : pass' = Take(i, run)
        PROVE  MovesOn
    <3>1. pass'.todo = pass.todo \ {i}
      BY <1>0, <2>2 DEF Passed, Take, PassRec
    <3>2. PartsLeft(pc') = PartsLeft(pc)
      BY <1>0, <2>2 DEF PartsLeft, Forcing, Looping, Collected
    <3> QED BY <3>1, <3>2 DEF MovesOn
  <2>3. CASE VisitRunning(i)
    BY <2>2, <2>3 DEF VisitRunning, Looping
  <2>4. CASE VisitStart(i)
    BY <2>2, <2>4 DEF VisitStart, PassEnds, Over, Looping
  <2>5. CASE VisitStopped(i)
    BY <1>0, <2>2, <2>5, CleanupMovesOn DEF VisitStopped, PassEnds, Over, Looping
  <2>6. CASE VisitGone(i)
    BY <2>2, <2>6 DEF VisitGone, Looping, Collected
  <2> QED BY <2>1, <2>3, <2>4, <2>5, <2>6
<1> QED BY <1>1, <1>2

LEMMA PassMovesOn ==
  ASSUME TInv, Accord, Pass, pc # "idle"
  PROVE  Over \/ MovesOn
<1>0. pass \in PassRec
  BY DEF TInv, TypeOK
<1> DEFINE Leads(C, D) == pc \in C /\ pc' \in D /\ pass'.todo = pass.todo
<1>a. ASSUME \/ Leads({"list"}, {"force"}) \/ Leads({"force"}, {"relist", "remotes"})
             \/ Leads({"forceArchive"}, {"forceRemove"}) \/ Leads({"forceRemove"}, {"force"})
             \/ Leads({"relist"}, {"remotes"}) \/ Leads({"prepare"}, {"create", "start"})
             \/ Leads({"create"}, {"start"}) \/ Leads({"start", "repair", "unregister"}, {"visit"})
             \/ Leads({"archive"}, {"remove"}) \/ Leads({"remove"}, {"fresh"})
             \/ Leads({"fresh"}, {"unregister"})
      PROVE  MovesOn
  BY <1>a DEF MovesOn, PartsLeft, StepsLeft, Forcing, Looping, Collected
<1>1. ~ \E p \in Pools : Tick(p)
  BY DEF Tick
<1>2. CASE CommandFails \/ CommandTimesOut
  BY <1>2, ErrorsMoveOn DEF CommandFails, CommandTimesOut
<1>3. CASE List
  <2>1. CASE Emptied(pass.pool) /\ ~pass.ps.running
    BY <1>3, <2>1 DEF List, DeletePool, PassEnds, Over
  <2>2. CASE ~(Emptied(pass.pool) /\ ~pass.ps.running)
    <3>0. pc = "list"
      BY <1>3 DEF List
    <3>1. pc' = "force"
      BY <1>3, <2>2 DEF List
    <3> QED BY <3>0, <3>1 DEF MovesOn, PartsLeft, Forcing, Looping, Collected
  <2> QED BY <2>1, <2>2
<1>4. CASE ForceLoop
  <2>1. CASE ForceDone
    BY <1>a, <1>4, <2>1 DEF ForceLoop, ForceDone
  <2>2. ASSUME NEW i \in pass.todo, ForceNext(i) PROVE MovesOn
    <3> DEFINE r == [pass.clone[i] EXCEPT !.phase = "cleanup"]
    <3>1. pc = "force" /\ pc' \in Forcing /\ pass' = Take(i, r)
      BY <1>4, <2>2 DEF ForceLoop, ForceNext, Forcing
    <3> HIDE DEF r
    <3>2. pass'.todo = pass.todo \ {i}
      BY <1>0, <3>1 DEF Take, PassRec
    <3> QED BY <3>1, <3>2 DEF MovesOn, PartsLeft, Forcing, Looping, Collected
  <2> QED BY <1>4, <2>1, <2>2 DEF ForceLoop
<1>5. CASE ForceArchive
  BY <1>0, <1>a, <1>5 DEF ForceArchive, Archived, PassRec
<1>6. CASE ForceRemove
  <2>1. ASSUME pc' = "force", pass' = [pass EXCEPT !.cur = NoId, !.clone[pass.cur] = NoRun]
        PROVE  MovesOn
    BY <1>0, <1>a, <1>6, <2>1 DEF ForceRemove, PassRec
  <2> QED BY <1>6, <2>1, ErrorsMoveOn DEF ForceRemove
<1>7. CASE Relist
  BY <1>0, <1>a, <1>7 DEF Relist, PassRec
<1>8. CASE Remotes
  <2>1. pc = "remotes" /\ pc' = "visit"
    BY <1>8 DEF Remotes
  <2> QED BY <2>1 DEF MovesOn, PartsLeft, Forcing, Looping, Collected
<1>9. CASE Visit
  BY <1>9, VisitMovesOn
<1>10. CASE ReadBoot
  <2>1. pc = "boot" /\ pass.cur \in RunIds
    BY <1>10 DEF ReadBoot, TInv, Shape, Holding
  <2>2. CASE \E r, b : BeginCleanup(pass.cur, r, b)
    BY <2>1, <2>2, CleanupMovesOn
  <2> QED BY <1>10, <2>2 DEF ReadBoot, PassEnds, Over
<1>11. CASE Prepare
  BY <1>a, <1>11 DEF Prepare, Goto
<1>12. CASE CreateContainer
  BY <1>a, <1>12, ErrorsMoveOn DEF CreateContainer, Goto
<1>13. CASE StartContainer
  <2>1. ASSUME pc' = "visit", pass' = Loose PROVE MovesOn
    BY <1>0, <1>a, <1>13, <2>1 DEF StartContainer, Loose, PassRec
  <2> QED BY <1>13, <2>1, ErrorsMoveOn DEF StartContainer
<1>14. CASE Archive
  BY <1>0, <1>a, <1>14 DEF Archive, Archived, PassRec
<1>15. CASE RemoveContainer
  BY <1>a, <1>15, ErrorsMoveOn DEF RemoveContainer, Goto
<1>16. CASE FreshList
  BY <1>a, <1>16, RemoveDirectoryMovesOn DEF FreshList, Goto
<1>17. CASE Unregister
  BY <1>17, ErrorsMoveOn, RemoveDirectoryMovesOn DEF Unregister
<1>18. CASE Repair
  BY <1>0, <1>a, <1>18 DEF Repair, FinishRun, Loose, PassRec
<1>19. CASE Replenish
  BY <1>19 DEF Replenish, PassEnds, Over
<1> QED BY <1>1, <1>2, <1>3, <1>4, <1>5, <1>6, <1>7, <1>8, <1>9, <1>10, <1>11, <1>12, <1>13,
           <1>14, <1>15, <1>16, <1>17, <1>18, <1>19 DEF Pass

\* Less to do is less work.
LEMMA MovingOnIsWork ==
  ASSUME TInv, TInv', MovesOn
  PROVE  Work' < Work
<1> DEFINE N == Cardinality(RunIds)
           n == Cardinality(pass.todo)
           m == Cardinality(pass'.todo)
<1>1. pass.todo \subseteq RunIds /\ pass'.todo \subseteq RunIds
  BY DEF TInv, TypeOK, PassRec
<1>2. N \in Nat /\ n \in 0 .. N /\ m \in 0 .. N
  BY <1>1, RunIdsAssumption, FS_Subset, FS_CardinalityType
<1>3. pass'.todo \subseteq pass.todo /\ pass'.todo # pass.todo => m < n
  BY <1>1, RunIdsAssumption, FS_Subset, FS_CardinalityType
<1>4. ASSUME NEW a \in 0 .. 6, NEW b \in 0 .. 6, NEW e \in 0 .. 6, NEW f \in 0 .. 6,
             b < a \/ (b = a /\ m < n) \/ (b = a /\ m = n /\ f < e)
      PROVE  7 * (b * (N + 1) + m) + f < 7 * (a * (N + 1) + n) + e
  <2> HIDE DEF N, n, m
  <2>1. b < a => b * (N + 1) + (N + 1) <= a * (N + 1)
    <3>1. ASSUME b < a PROVE (b + 1) * (N + 1) <= a * (N + 1)
      <4>1. PICK k \in Nat : a = b + 1 + k
        <5>1. a - (b + 1) \in Nat /\ a = b + 1 + (a - (b + 1))
          BY <3>1
        <5> QED BY <5>1
      <4>2. k * (N + 1) \in Nat /\ (b + 1) * (N + 1) \in Nat
        BY <1>2, <4>1
      <4>3. a * (N + 1) = (b + 1) * (N + 1) + k * (N + 1)
        BY <1>2, <4>1
      <4> QED BY <4>2, <4>3
    <3>2. (b + 1) * (N + 1) = b * (N + 1) + (N + 1)
      BY <1>2
    <3> QED BY <3>1, <3>2
  <2>2. a * (N + 1) \in Nat /\ b * (N + 1) \in Nat
    BY <1>2
  <2> QED BY <1>2, <1>4, <2>1, <2>2
<1>5. /\ PartsLeft(pc) \in 0 .. 6 /\ StepsLeft(pc) \in 0 .. 6
      /\ PartsLeft(pc') \in 0 .. 6 /\ StepsLeft(pc') \in 0 .. 6
  BY LeftRange
<1>6. \/ PartsLeft(pc') < PartsLeft(pc)
      \/ PartsLeft(pc') = PartsLeft(pc) /\ m < n
      \/ PartsLeft(pc') = PartsLeft(pc) /\ m = n /\ StepsLeft(pc') < StepsLeft(pc)
  BY <1>3 DEF MovesOn
<1> HIDE DEF N, n, m
<1>7. 7 * (PartsLeft(pc') * (N + 1) + m) + StepsLeft(pc')
      < 7 * (PartsLeft(pc) * (N + 1) + n) + StepsLeft(pc)
  BY <1>4, <1>5, <1>6
<1> QED BY <1>7 DEF Work, N, n, m

\* Nothing but the pass itself changes what is left to do.
LEMMA OthersKeepWork ==
  ASSUME TInv, [Next]_vars, ~Pass
  PROVE  Over \/ Work' = Work
<1>1. ASSUME pc' = pc, pass'.todo = pass.todo PROVE Work' = Work
  BY <1>1 DEF Work
<1>2. CASE UNCHANGED vars
  BY <1>1, <1>2 DEF vars
<1>3. CASE Request
  <2>1. pc' = pc /\ (pass' = pass \/ pass' = [pass EXCEPT !.moved = TRUE])
    BY <1>3, Zenon DEF Request, Start, Stop, Remove, Add, Scale, Upgrade, Auth, Apply, Refused,
                       RefusedStatus, Configured, Handled, MoveEpoch
  <2>2. pass'.todo = pass.todo
    BY <2>1 DEF TInv, TypeOK, PassRec
  <2> QED BY <1>1, <2>1, <2>2
<1>4. CASE Crash \/ Restart
  BY <1>4 DEF Crash, Restart, Over
<1>5. CASE Environment
  BY <1>1, <1>5 DEF Environment, BackoffExpires, LateLands, Registers, JobCompletes,
                    GitHubForgets, ContainerExits, HostReboots
<1> QED BY <1>2, <1>3, <1>4, <1>5 DEF Next

WorkFalls ==
  /\ Pass /\ pc # "idle" => Over \/ Work' < Work
  /\ ~Pass => Over \/ Work' = Work

\* reconcile ends, in memory and on the way: every command of a pass, and every
\* turn of its loops (manager.rs:533, 585), ends the pass or leaves it less to
\* do, and no request, crash or late answer ever gives it more.  The work is at
\* most a few commands for each run and part, so a pass issues no more.
THEOREM PassesTerminate ==
  Spec => /\ [](Work \in Nat)
          /\ [][WorkFalls]_vars
<1>1. TInv => Work \in Nat
  <2> SUFFICES ASSUME TInv PROVE Work \in Nat
    OBVIOUS
  <2>1. pass.todo \subseteq RunIds
    BY DEF TInv, TypeOK, PassRec
  <2>2. Cardinality(RunIds) \in Nat /\ Cardinality(pass.todo) \in Nat
    BY <2>1, RunIdsAssumption, FS_Subset, FS_CardinalityType
  <2>3. PartsLeft(pc) \in Nat /\ StepsLeft(pc) \in Nat
    BY LeftRange
  <2> QED BY <2>2, <2>3 DEF Work
<1>2. TInv /\ Accord /\ (TInv /\ Accord)' /\ [Next]_vars => [WorkFalls]_vars
  <2> SUFFICES ASSUME TInv, Accord, TInv', [Next]_vars PROVE WorkFalls
    OBVIOUS
  <2>1. ASSUME Pass, pc # "idle" PROVE Over \/ Work' < Work
    BY <2>1, PassMovesOn, MovingOnIsWork
  <2> QED BY <2>1, OthersKeepWork DEF WorkFalls
<1> QED BY <1>1, <1>2, AccordHolds, PTL DEF Spec

-----------------------------------------------------------------------------
(* What the loop over the runs of the pool has achieved when it ends.      *)

\* The pass has nothing more to do for run i: its container was running when
\* it was listed, or it is a run that takes work and had not been started yet.
\* That one was started, unless the pool backs off.
Settled(i) ==
  \/ pass.snap[i] = "running"
  \/ /\ ~mem.run[i].retiring /\ pass.snap[i] \in {"none", "created"}
     /\ pass.allow => disk.run[i].phase = "live"

\* The loop invariant of manager.rs:585-725: every run of the pool that the
\* loop has gone past, without an error and without a request, is settled.
AtHand == IF pc = "visit" THEN {} ELSE {pass.cur}
Thorough ==
  pc \in Looping /\ ~pass.moved /\ ~pass.failed =>
    \A i \in RunsOf(mem, pass.pool) \ (pass.todo \cup AtHand) : Settled(i)

\* A run whose start is under way takes work and had not been started.
Starting ==
  pc \in {"prepare", "create", "start"} /\ ~pass.moved /\ ~pass.failed =>
    pass.snap[pass.cur] \in {"none", "created"} /\ ~mem.run[pass.cur].retiring

\* The loop goes on, and only run i was seen to.
Leaves(i) ==
  \A j \in RunIds \ {i} :
    /\ j \in RunsOf(mem', pass.pool) => j \in RunsOf(mem, pass.pool)
    /\ mem'.run[j].retiring = mem.run[j].retiring
    /\ disk.run[j].phase = "live" => disk'.run[j].phase = "live"
Handles(i) ==
  /\ pass'.pool = pass.pool /\ pass'.snap = pass.snap /\ pass'.allow = pass.allow
  /\ Leaves(i)
  /\ pass.todo \subseteq pass'.todo \cup {i} /\ AtHand \subseteq AtHand' \cup {i}
  /\ i \in RunsOf(mem', pass.pool) => i \in pass'.todo \cup AtHand' \/ Settled(i)'
  /\ pc \in Looping /\ ~pass.moved /\ ~pass.failed

LEMMA HandlesThorough ==
  ASSUME Thorough, NEW i, Handles(i)
  PROVE  Thorough'
<1> SUFFICES ASSUME NEW j \in RunsOf(mem', pass'.pool) \ (pass'.todo \cup AtHand')
             PROVE  Settled(j)'
  BY DEF Thorough
<1>1. j \in RunIds /\ pass'.pool = pass.pool
  BY DEF Handles, RunsOf, Recorded
<1>2. CASE j = i
  BY <1>1, <1>2 DEF Handles
<1>3. CASE j # i
  <2>1. Settled(j)
    BY <1>1, <1>3 DEF Thorough, Handles, Leaves
  <2> QED BY <1>1, <1>3, <2>1 DEF Settled, Handles, Leaves
<1> QED BY <1>2, <1>3

LEMMA LeavesOthers ==
  ASSUME TInv, Accord, NEW i \in RunIds, NEW r, mem' = [mem EXCEPT !.run[i] = r],
         disk' \in {disk, mem'}
  PROVE  Leaves(i)
<1>1. mem.run \in [RunIds -> RunRec] /\ disk.run \in [RunIds -> RunRec] /\ mem \in States
  BY DEF TInv, TypeOK, States
<1>2. ASSUME NEW j \in RunIds \ {i} PROVE mem'.run[j] = mem.run[j]
  BY <1>1 DEF States
<1>3. ASSUME NEW j \in RunIds, disk.run[j].phase = "live" PROVE mem.run[j].phase = "live"
  BY <1>1, <1>3 DEF Accord, Synced, RunRec
<1> QED BY <1>2, <1>3 DEF Leaves, RunsOf, Recorded

LEMMA LeavesAll ==
  ASSUME TInv, Accord, NEW i, mem' \in {mem, disk}, disk' = disk
  PROVE  Leaves(i)
<1>1. ASSUME NEW j \in RunIds, mem' = disk
      PROVE  /\ mem'.run[j].phase = "none" <=> mem.run[j].phase = "none"
             /\ mem'.run[j].pool = mem.run[j].pool
             /\ mem'.run[j].retiring = mem.run[j].retiring
  BY <1>1, LikeDisk DEF TInv, Accord, Like
<1> QED BY <1>1 DEF Leaves, RunsOf, Recorded

\* The loop is gone through, so far without an error and without a request.
Through == pc' \in Looping /\ ~pass'.moved /\ ~pass'.failed
Wise == Thorough /\ Starting
Sees == (\E i : Handles(i)) /\ Starting'

LEMMA NotThrough ==
  ASSUME TInv, Errors \/ SkipRun \/ (\E s, ok : PassEnds(s, ok)) \/ DeletePool
  PROVE  ~Through
<1>1. SkipRun => pass'.failed
  BY DEF SkipRun, Loose, TInv, TypeOK, PassRec
<1> QED BY <1>1 DEF Errors, PassEnds, DeletePool, Through, Looping, Collected

\* The run stays in hand, or is taken.
LEMMA HandlesInHand ==
  ASSUME TInv, Accord, Through, pc \in Looping, NEW i \in RunIds, pc = "visit" \/ i = pass.cur,
         pc' # "visit", pass'.cur = i, pass'.pool = pass.pool, pass'.snap = pass.snap,
         pass'.allow = pass.allow, pass'.moved = pass.moved, pass'.failed = pass.failed,
         pass.todo \subseteq pass'.todo \cup {i}, Leaves(i)
  PROVE  Handles(i)
BY DEF Handles, AtHand, Through

LEMMA CleanupSees ==
  ASSUME TInv, Accord, Through, pc \in {"visit", "boot"}, NEW i \in RunIds, NEW r, NEW rebooted,
         pc = "visit" \/ i = pass.cur, BeginCleanup(i, r, rebooted)
  PROVE  Sees
<1>0. pass \in PassRec
  BY DEF TInv, TypeOK
<1>1. ~pass.moved
  BY <1>0 DEF BeginCleanup, Through, Passed, PassRec
<1>2. /\ pc' \in {"remove", "archive"} /\ pass' = [Take(i, Cleanup(r)) EXCEPT !.rebooted = rebooted]
      /\ mem' = [mem EXCEPT !.run[i] = Cleanup(r)] /\ disk' = mem'
  BY <1>1 DEF BeginCleanup, Save
<1>3. /\ pass'.cur = i /\ pass'.pool = pass.pool /\ pass'.snap = pass.snap
      /\ pass'.allow = pass.allow /\ pass'.moved = pass.moved /\ pass'.failed = pass.failed
      /\ pass'.todo = pass.todo \ {i}
  BY <1>0, <1>2 DEF Take, PassRec
<1>4. Handles(i)
  BY <1>2, <1>3, HandlesInHand, LeavesOthers DEF Looping
<1> QED BY <1>2, <1>4 DEF Sees, Starting

LEMMA VisitSees ==
  ASSUME TInv, Accord, Through, Visit
  PROVE  Sees
<1>0. pc = "visit" /\ pc \in Looping /\ pass \in PassRec /\ pass.todo \subseteq RunIds
  BY DEF Visit, TInv, TypeOK, PassRec, Looping
<1>1. pass.todo # {}
  BY NotThrough DEF Visit, LoopEnds, Goto, Through, Looping, Collected
<1>2. PICK i \in pass.todo :
        VisitRunning(i) \/ VisitStart(i) \/ VisitStopped(i) \/ VisitGone(i)
  BY <1>1 DEF Visit
<1>3. ASSUME NEW r, pass' = Take(i, r), Keep, pc' # "visit",
             pc' = "prepare" => NeedsStart(i), pc' \notin {"create", "start"}
      PROVE  Sees
  <2>1. /\ pass'.cur = i /\ pass'.pool = pass.pool /\ pass'.snap = pass.snap
        /\ pass'.allow = pass.allow /\ pass'.moved = pass.moved /\ pass'.failed = pass.failed
        /\ pass'.todo = pass.todo \ {i}
    BY <1>0, <1>3 DEF Take, PassRec
  <2>2. Handles(i)
    BY <1>0, <1>3, <2>1, HandlesInHand, LeavesAll DEF Keep
  <2>3. Starting'
    BY <1>3, <2>1 DEF Starting, NeedsStart, Keep
  <2> QED BY <2>2, <2>3 DEF Sees
<1>4. ASSUME pass' = Passed(i), Leaves(i), pc' = "visit",
             pass.snap[i] = "running" \/ (NeedsStart(i) /\ ~pass.allow /\ mem' = mem)
      PROVE  Sees
  <2>1. /\ pass'.pool = pass.pool /\ pass'.snap = pass.snap
        /\ pass'.allow = pass.allow /\ pass'.moved = pass.moved /\ pass'.failed = pass.failed
        /\ pass'.todo = pass.todo \ {i}
    BY <1>0, <1>4 DEF Passed, PassRec
  <2>2. Settled(i)'
    BY <1>4, <2>1 DEF Settled, NeedsStart
  <2>3. Handles(i)
    BY <1>0, <1>4, <2>1, <2>2 DEF Handles, AtHand, Through
  <2> QED BY <1>4, <2>3 DEF Sees, Starting
<1>5. CASE VisitRunning(i)
  <2>1. mem' = [mem EXCEPT !.run[i] = [mem.run[i] EXCEPT !.phase = "live"]] /\ disk' = disk
    BY <1>0, <1>5 DEF VisitRunning, Observe, TInv, TypeOK, States
  <2>2. Leaves(i)
    BY <1>0, <2>1, LeavesOthers
  <2> QED BY <1>4, <1>5, <2>2 DEF VisitRunning
<1>6. CASE VisitStart(i)
  <2>1. CASE ~pass.allow
    <3>1. Leaves(i)
      BY <1>6, <2>1, LeavesAll DEF VisitStart, Keep
    <3> QED BY <1>4, <1>6, <2>1, <3>1 DEF VisitStart, Keep
  <2>2. CASE pass.allow
    BY <1>3, <1>6, <2>2, NotThrough DEF VisitStart
  <2> QED BY <2>1, <2>2
<1>7. CASE VisitStopped(i)
  BY <1>0, <1>3, <1>7, NotThrough, CleanupSees DEF VisitStopped
<1>8. CASE VisitGone(i)
  <2>1. pass'.failed => ~Through
    BY DEF Through
  <2>2. [Passed(i) EXCEPT !.failed = TRUE].failed
    BY <1>0 DEF Passed, PassRec
  <2> QED BY <1>3, <1>8, <2>1, <2>2 DEF VisitGone
<1> QED BY <1>2, <1>5, <1>6, <1>7, <1>8

\* The commands issued for the run in hand.
LEMMA GotoSees ==
  ASSUME TInv, Accord, Wise, Through, pc \in Looping \ {"visit"}, NEW next, Goto(next), Keep,
         next # "visit", next \in {"prepare", "create", "start"} => pc \in {"prepare", "create"}
  PROVE  Sees
<1>0. PICK i \in RunIds : i = pass.cur
  BY DEF TInv, Shape, Looping, Holding, Collected
<1>1. mem' = mem /\ disk' = disk /\ pass' = pass /\ pc' = next
  BY DEF Goto, Keep
<1>2. Handles(i)
  BY <1>0, <1>1, HandlesInHand, LeavesAll
<1>3. Starting'
  BY <1>1 DEF Starting, Wise
<1> QED BY <1>2, <1>3 DEF Sees

LEMMA FinishSees ==
  ASSUME TInv, Accord, Through, pc \in Looping \ {"visit"}, FinishRun(pass.cur)
  PROVE  Sees
<1>0. PICK i \in RunIds : i = pass.cur
  BY DEF TInv, Shape, Looping, Holding, Collected
<1>1. pass \in PassRec /\ mem \in States
  BY DEF TInv, TypeOK
<1>2. /\ mem' = [mem EXCEPT !.run[i] = NoRun] /\ disk' = mem' /\ pc' = "visit"
      /\ pass'.pool = pass.pool /\ pass'.snap = pass.snap /\ pass'.allow = pass.allow
      /\ pass'.moved = pass.moved /\ pass'.failed = pass.failed /\ pass'.todo = pass.todo
  BY <1>0, <1>1 DEF FinishRun, Save, Loose, PassRec
<1>3. i \notin RunsOf(mem', pass.pool)
  BY <1>0, <1>1, <1>2 DEF RunsOf, Recorded, NoRun, States
<1>4. Leaves(i)
  BY <1>0, <1>1, <1>2, LeavesOthers
<1>5. Handles(i)
  BY <1>0, <1>2, <1>3, <1>4 DEF Handles, AtHand, Through
<1> QED BY <1>2, <1>5 DEF Sees, Starting

LEMMA RemoveDirectorySees ==
  ASSUME TInv, Accord, Wise, Through, pc \in {"fresh", "unregister"}, RemoveDirectory
  PROVE  Sees
BY NotThrough, FinishSees, GotoSees DEF RemoveDirectory, Looping, Collected

LEMMA StartSees ==
  ASSUME TInv, Accord, Wise, Through, StartContainer
  PROVE  Sees
<1>a. PICK i \in RunIds : i = pass.cur
  BY DEF StartContainer, TInv, Shape, Holding
<1> DEFINE run == [pass.clone[i] EXCEPT !.phase = "live"]
<1>0. pc = "start" /\ pass \in PassRec /\ mem \in States /\ i = pass.cur
  BY <1>a DEF StartContainer, TInv, TypeOK
<1>1. /\ mem' = [mem EXCEPT !.run[i] = run] /\ disk' = mem' /\ pc' = "visit"
      /\ pass' = Loose /\ ~pass.moved
  BY <1>a, NotThrough DEF StartContainer, Save, Undisturbed
<1>2. /\ pass'.pool = pass.pool /\ pass'.snap = pass.snap /\ pass'.allow = pass.allow
      /\ pass'.moved = pass.moved /\ pass'.failed = pass.failed /\ pass'.todo = pass.todo
  BY <1>0, <1>1 DEF Loose, PassRec
<1>3. pass.clone[i] \in RunRec /\ Agrees(pass.clone[i], mem.run[i])
  BY <1>0, <1>1 DEF Accord, ClonesHeld, Holding, Cloned, PassRec
<1>4. mem'.run[i].phase = "live" /\ mem'.run[i].retiring = mem.run[i].retiring
  BY <1>0, <1>1, <1>3 DEF States, RunRec, Agrees
<1>5. Settled(i)'
  BY <1>0, <1>1, <1>2, <1>4 DEF Settled, Wise, Starting, Through
<1>6. Leaves(i)
  BY <1>0, <1>1, LeavesOthers
<1>7. Handles(i)
  BY <1>0, <1>1, <1>2, <1>5, <1>6 DEF Handles, AtHand, Through, Looping
<1> QED BY <1>1, <1>7 DEF Sees, Starting

LEMMA ArchiveSees ==
  ASSUME TInv, Accord, Through, Archive
  PROVE  Sees
<1>a. PICK i \in RunIds : i = pass.cur
  BY DEF Archive, Archived, TInv, Shape, Holding, Collected
<1> DEFINE run == [pass.clone[i] EXCEPT !.logSaved = TRUE]
<1>0. pc = "archive" /\ pc' = "remove" /\ pass \in PassRec /\ i = pass.cur
  BY <1>a DEF Archive, Archived, TInv, TypeOK
<1>1. mem' = [mem EXCEPT !.run[i] = run] /\ disk' = mem' /\ pass' = [pass EXCEPT !.clone[i] = run]
  BY <1>a DEF Archive, Archived, Save
<1>2. /\ pass'.pool = pass.pool /\ pass'.snap = pass.snap /\ pass'.allow = pass.allow
      /\ pass'.moved = pass.moved /\ pass'.failed = pass.failed /\ pass'.todo = pass.todo
      /\ pass'.cur = i
  BY <1>0, <1>1 DEF PassRec
<1>3. Handles(i)
  BY <1>0, <1>1, <1>2, HandlesInHand, LeavesOthers DEF Looping, Collected
<1> QED BY <1>0, <1>3 DEF Sees, Starting

LEMMA PassSees ==
  ASSUME TInv, Accord, Wise, Through, Pass
  PROVE  Sees \/ Remotes
<1>1. ~ \E p \in Pools : Tick(p)
  BY DEF Tick, Through, Looping, Collected
<1>2. ~(CommandFails \/ CommandTimesOut)
  BY NotThrough DEF CommandFails, CommandTimesOut
<1>3. ~List
  BY NotThrough DEF List, Through, Looping, Collected
<1>4. ~(ForceLoop \/ ForceArchive \/ Relist)
  BY DEF ForceLoop, ForceDone, ForceNext, ForceArchive, Archived, Relist, Through, Looping, Collected
<1>5. ~(ForceRemove \/ Replenish)
  BY NotThrough DEF ForceRemove, Replenish, Through, Looping, Collected
<1>6. CASE Visit
  BY <1>6, VisitSees
<1>7. CASE ReadBoot
  <2>1. pc = "boot" /\ pass.cur \in RunIds
    BY <1>7 DEF ReadBoot, TInv, Shape, Holding
  <2> QED BY <1>7, <2>1, NotThrough, CleanupSees DEF ReadBoot
<1>8. CASE Prepare
  BY <1>8, GotoSees DEF Prepare, Looping
<1>9. CASE CreateContainer
  BY <1>9, GotoSees, NotThrough DEF CreateContainer, Looping
<1>10. CASE StartContainer
  BY <1>10, StartSees
<1>11. CASE Archive
  BY <1>11, ArchiveSees
<1>12. CASE RemoveContainer
  BY <1>12, GotoSees, NotThrough DEF RemoveContainer, Looping, Collected
<1>13. CASE FreshList
  BY <1>13, GotoSees, RemoveDirectorySees DEF FreshList, Looping, Collected
<1>14. CASE Unregister
  BY <1>14, NotThrough, RemoveDirectorySees DEF Unregister
<1>15. CASE Repair
  BY <1>15, FinishSees DEF Repair, Looping, Collected
<1> QED BY <1>1, <1>2, <1>3, <1>4, <1>5, <1>6, <1>7, <1>8, <1>9, <1>10, <1>11, <1>12, <1>13,
           <1>14, <1>15 DEF Pass

LEMMA StepSees ==
  ASSUME TInv, Accord, Wise, Through, [Next]_vars
  PROVE  Sees \/ Remotes
<1>1. ASSUME pc' = pc, pass' = pass, mem' \in {mem, disk}, disk' = disk PROVE Sees
  <2>0. PICK i : i = pass.cur
    OBVIOUS
  <2>1. Handles(i)
    <3>1. Leaves(i)
      BY <1>1, LeavesAll
    <3>2. AtHand' = AtHand
      BY <2>0, <1>1 DEF AtHand
    <3>3. i \in RunsOf(mem', pass.pool) => i \in pass'.todo \cup AtHand' \/ Settled(i)'
      <4>1. CASE pc = "visit"
        <5> SUFFICES ASSUME i \in RunsOf(mem', pass.pool), i \notin pass.todo
                     PROVE  Settled(i)'
          BY <2>0, <1>1
        <5>1. /\ i \in RunIds
              /\ mem'.run[i].phase = "none" <=> mem.run[i].phase = "none"
              /\ mem'.run[i].pool = mem.run[i].pool
              /\ mem'.run[i].retiring = mem.run[i].retiring
          BY <2>0, <1>1, LikeDisk DEF TInv, Accord, Like, RunsOf, Recorded
        <5>2. Settled(i)
          BY <2>0, <1>1, <4>1, <5>1 DEF Wise, Thorough, Through, AtHand, RunsOf, Recorded
        <5> QED BY <2>0, <1>1, <5>1, <5>2 DEF Settled
      <4>2. CASE pc # "visit"
        BY <2>0, <1>1, <4>2 DEF AtHand
      <4> QED BY <4>1, <4>2
    <3> QED BY <2>0, <1>1, <3>1, <3>2, <3>3 DEF Handles, Through
  <2>2. Starting'
    <3>1. ASSUME pass.cur \in RunIds PROVE mem'.run[pass.cur].retiring = mem.run[pass.cur].retiring
      BY <1>1, <3>1, LikeDisk DEF TInv, Accord, Like
    <3> QED BY <1>1, <3>1 DEF Starting, Wise, TInv, Shape, Holding
  <2> QED BY <2>1, <2>2 DEF Sees
<1>2. CASE UNCHANGED vars
  BY <1>1, <1>2 DEF vars
<1>3. CASE Pass
  BY <1>3, PassSees
<1>4. CASE Request
  <2>1. CASE RefusedStatus
    BY <1>1, <2>1 DEF RefusedStatus
  <2>2. CASE ~RefusedStatus
    <3>1. MoveEpoch /\ pc' = pc /\ Accepting
      BY <1>4, <2>2, Zenon DEF Request, Start, Stop, Remove, Add, Scale, Upgrade, Auth, Apply, Refused,
                             Configured, Handled
    <3>2. pc \in InFlight
      BY <3>1 DEF Accepting, Through, Looping, Collected
    <3>3. pass'.moved
      BY <3>1, <3>2 DEF MoveEpoch, TInv, TypeOK, PassRec
    <3> QED BY <3>3 DEF Through
  <2> QED BY <2>1, <2>2
<1>5. CASE Crash \/ Restart
  BY <1>5 DEF Crash, Restart, Through, Looping, Collected
<1>6. ASSUME NEW p \in Pools, BackoffExpires(p) PROVE Sees
  <2>1. mem'.run = mem.run /\ disk'.run = disk.run /\ UNCHANGED <<pc, pass>>
    BY <1>6 DEF BackoffExpires, Arm, TInv, TypeOK, States
  <2>2. RunsOf(mem', pass.pool) = RunsOf(mem, pass.pool) /\ AtHand' = AtHand
    BY <2>1 DEF RunsOf, Recorded, AtHand
  <2>3. \A j : Settled(j)' <=> Settled(j)
    BY <2>1 DEF Settled
  <2>0. PICK i : i = pass.cur
    OBVIOUS
  <2>4. Handles(i)
    <3>1. i \in RunsOf(mem', pass.pool) => i \in pass'.todo \cup AtHand' \/ Settled(i)'
      BY <2>1, <2>2, <2>3 DEF Wise, Thorough, Through
    <3> QED BY <2>1, <2>2, <3>1 DEF Handles, Leaves, Through
  <2>5. Starting'
    BY <2>1 DEF Starting, Wise
  <2> QED BY <2>4, <2>5 DEF Sees
<1>7. CASE Environment
  BY <1>1, <1>6, <1>7 DEF Environment, LateLands, Registers, JobCompletes,
                    GitHubForgets, ContainerExits, HostReboots
<1> QED BY <1>2, <1>3, <1>4, <1>5, <1>7 DEF Next

LEMMA WiseStep ==
  ASSUME TInv, Accord, Wise, [Next]_vars
  PROVE  Wise'
<1>1. CASE Through
  <2>1. CASE Sees
    BY <2>1, HandlesThorough DEF Sees, Wise
  <2>2. CASE Remotes
    <3>1. /\ pc' = "visit" /\ mem' = MarkRetiring(mem, {pass.pool})
          /\ pass' = [pass EXCEPT !.todo = RunsOf(mem, pass.pool)]
      BY <2>2 DEF Remotes, Save
    <3>2. pass'.pool = pass.pool /\ pass'.todo = RunsOf(mem, pass.pool)
      BY <3>1 DEF TInv, TypeOK, PassRec
    <3>3. RunsOf(mem', pass.pool) = RunsOf(mem, pass.pool)
      <4>1. mem \in States /\ Sound(mem)
        BY DEF Accord, TInv, TypeOK
      <4>2. /\ Recorded(mem') = Recorded(mem)
            /\ \A i \in RunIds : mem'.run[i].pool = mem.run[i].pool
        BY <3>1, <4>1, MarkRetiringSound
      <4> QED BY <4>2 DEF RunsOf, Recorded
    <3> QED BY <3>1, <3>2, <3>3 DEF Wise, Thorough, Starting
  <2> QED BY <1>1, <2>1, <2>2, StepSees
<1>2. CASE ~Through
  <2>1. Thorough'
    BY <1>2 DEF Thorough, Through
  <2>2. Starting'
    BY <1>2 DEF Starting, Through, Looping
  <2> QED BY <2>1, <2>2 DEF Wise
<1> QED BY <1>1, <1>2

\* manager.rs:585-725: whatever an undisturbed pass has gone past without an
\* error is settled: reconcile forgets no run and leaves none half done.
THEOREM PassesAreThorough == Spec => []Thorough
<1>1. Init => Wise
  BY DEF Init, Wise, Thorough, Starting, Looping, Collected
<1>2. TInv /\ Accord /\ Wise /\ [Next]_vars => Wise'
  BY WiseStep
<1>3. Wise => Thorough
  BY DEF Wise
<1> QED BY <1>1, <1>2, <1>3, AccordHolds, PTL DEF Spec

\* The loop of a pass over a pool that wants no runners is over, and none of
\* its containers was running when they were listed.
Drained ==
  /\ pc = "visit" /\ pass.todo = {} /\ ~pass.moved /\ ~pass.failed
  /\ Wanted(pass.ps) = 0
  /\ \A i \in RunsOf(mem, pass.pool) : pass.snap[i] # "running"

\* One undisturbed pass is enough to clean up after a drained pool: at the end
\* of its loop no run of the pool is left, and a deleting pool goes
\* (manager.rs:724).  What RemovalCompletes promises in the end, this step does.
THEOREM DrainedPoolsEmpty == Spec => [](Drained => Emptied(pass.pool))
<1>1. ASSUME TInv, Accord, Trimmed, Thorough, Drained PROVE RunsOf(mem, pass.pool) = {}
  <2>1. pc \in Looping /\ pass.pool \in Pools /\ pass.ps \in PoolRec
    BY <1>1 DEF Drained, Looping, TInv, TypeOK, Shape, PassRec
  <2>2. Wanted(mem.pool[pass.pool]) = 0
    <3>1. mem.pool[pass.pool] = [pass.ps EXCEPT !.backoff = mem.pool[pass.pool].backoff]
      BY <1>1 DEF Drained, Accord, PoolHeld
    <3> QED BY <1>1, <2>1, <3>1 DEF Wanted, PoolRec, Drained
  <2>3. Serving(mem, pass.pool) = {}
    <3>1. Cardinality(Serving(mem, pass.pool)) <= 0
      BY <1>1, <2>1, <2>2 DEF Trimmed, Trim, Drained
    <3>2. IsFiniteSet(Serving(mem, pass.pool)) /\ Cardinality(Serving(mem, pass.pool)) \in Nat
      BY RunIdsAssumption, FS_Subset, FS_CardinalityType DEF Serving, RunsOf, Recorded
    <3> QED BY <3>1, <3>2, FS_EmptySet
  <2>4. ASSUME NEW i \in RunsOf(mem, pass.pool) PROVE FALSE
    <3>1. Settled(i) /\ pass.snap[i] # "running"
      BY <1>1, <2>1 DEF Thorough, Drained, AtHand
    <3>2. i \in Serving(mem, pass.pool)
      BY <3>1 DEF Settled, Serving
    <3> QED BY <2>3, <3>2
  <2> QED BY <2>4
<1>2. TInv /\ Accord /\ Trimmed /\ Thorough => (Drained => Emptied(pass.pool))
  BY <1>1 DEF Emptied
<1> QED BY <1>2, AccordHolds, MarkedPoolsAreTrimmed, PassesAreThorough, PTL
=============================================================================
