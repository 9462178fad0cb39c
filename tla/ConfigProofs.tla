---------------------------- MODULE ConfigProofs ----------------------------
(***************************************************************************)
(* What ConfigCommit says of the store and config.toml, for any pools and  *)
(* any bounds.                                                             *)
(***************************************************************************)
EXTENDS ConfigCommit, FiniteSetTheorems, TLAPS

\* What is in memory differs from the store only inside a handler, and then
\* only in the pools that its commit will add or remove.
Together ==
  /\ SamePools(disk)
  /\ pc # "save" => mem = disk
  /\ pc = "save" => /\ mem.config = disk.config /\ mem.revision = disk.revision
                    /\ mem.file_hash = disk.file_hash
                    /\ mem.runs = disk.runs
                    /\ DOMAIN task.config.pools = DOMAIN mem.pools
                    /\ Validated(task.config)

\* An edit that waits is in the file and is not what the store accepted, so
\* that no commit but its own gets past the check of the file.
EditsWait ==
  /\ edit # NoText => file = edit /\ edit # disk.file_hash
  /\ pc = "write" => edit = NoText
  /\ pc = "save" /\ task.by # "apply" => edit = NoText

\* A revision stands for one configuration.
Informed ==
  /\ client.pc # "none" => /\ client.revision \in Int /\ client.revision <= disk.revision
                           /\ client.revision = disk.revision => shown = disk.config
  /\ pc = "save" /\ task.by = "apply" => shown = disk.config

\* What runs rely on, of a configuration and the states of its pools.
Fits(config, pools, runs) ==
  \A run \in runs :
     /\ run.pool \in DOMAIN config.pools
     /\ run.auth = config.pools[run.pool].auth
     /\ run.gen <= pools[run.pool].gen
     /\ run.gen = pools[run.pool].gen => run.image = config.pools[run.pool].image

\* Every generation began with a commit.
Counted(pools, revision) == \A p \in DOMAIN pools : pools[p].gen <= revision

\* The runs fit what is stored and what is about to be; a pass is void, or
\* what it read is still so.
Tenants ==
  /\ Fits(disk.config, disk.pools, disk.runs)
  /\ Counted(disk.pools, disk.revision)
  /\ pc = "save" => /\ Fits(task.config, mem.pools, mem.runs)
                    /\ Counted(mem.pools, mem.revision + 1)
  /\ pass # NoPass => /\ pc = "idle" /\ pass.pool \in DOMAIN mem.pools
                      /\ pass.settings = mem.config.pools[pass.pool]
                      /\ pass.ps = mem.pools[pass.pool]

IInv == TypeOK /\ Together /\ EditsWait /\ Informed /\ Tenants

\* The parts of a stored state.
LEMMA StateParts ==
  ASSUME NEW s \in States
  PROVE  /\ s.config \in Configs /\ s.config.auth \subseteq Profiles
         /\ DOMAIN s.config.pools \subseteq Pools
         /\ s.config.pools \in [DOMAIN s.config.pools -> Settings]
         /\ DOMAIN s.pools \subseteq Pools /\ s.pools \in [DOMAIN s.pools -> PoolState]
         /\ s.runs \subseteq Runs /\ s.revision \in 1..MaxRevision /\ s.file_hash \in Texts
         /\ Valid(s.config)
BY DEF States, Configs, PoolStates

\* And what makes one of them.
LEMMA ConfigIs ==
  ASSUME NEW auth \in SUBSET Profiles, NEW P \in SUBSET Pools, NEW pools \in [P -> Settings]
  PROVE  [auth |-> auth, pools |-> pools] \in Configs
BY DEF Configs

LEMMA PoolsAre ==
  ASSUME NEW P \in SUBSET Pools, NEW pools \in [P -> PoolState]
  PROVE  pools \in PoolStates
BY DEF PoolStates

LEMMA CommittedIsState ==
  ASSUME IInv, pc = "save"
  PROVE  /\ Committed \in States
         /\ SamePools(Committed)
         /\ Committed.revision = disk.revision + 1
         /\ Committed.config = task.config
         /\ Committed.pools = mem.pools /\ Committed.runs = mem.runs
<1>1. /\ mem \in States /\ disk \in States /\ task.config \in Configs
      /\ Valid(task.config) /\ mem.revision < MaxRevision
      /\ mem.revision = disk.revision
      /\ DOMAIN task.config.pools = DOMAIN mem.pools
  BY DEF IInv, TypeOK, Together, Validated
<1>2. ToToml(task.config) \in Texts
  BY <1>1 DEF ToToml, Texts
<1>3. mem.revision + 1 \in 1..MaxRevision
  BY <1>1, BoundsAssumption DEF States
<1>4. Committed = [config |-> task.config, revision |-> mem.revision + 1,
                   file_hash |-> ToToml(task.config), pools |-> mem.pools, runs |-> mem.runs]
  <2>1. mem = [config |-> mem.config, revision |-> mem.revision, file_hash |-> mem.file_hash,
               pools |-> mem.pools, runs |-> mem.runs]
    BY <1>1 DEF States
  <2> DEFINE first == [mem EXCEPT !.config = task.config]
             second == [first EXCEPT !.revision = first.revision + 1]
  <2>2. first = [config |-> task.config, revision |-> mem.revision, file_hash |-> mem.file_hash,
                 pools |-> mem.pools, runs |-> mem.runs]
    BY <2>1
  <2>3. Committed = [second EXCEPT !.file_hash = ToToml(task.config)]
    BY DEF Committed, NextRevision
  <2> HIDE DEF first
  <2>4. second = [config |-> task.config, revision |-> mem.revision + 1,
                  file_hash |-> mem.file_hash, pools |-> mem.pools, runs |-> mem.runs]
    BY <2>2
  <2> HIDE DEF second
  <2> QED BY <2>3, <2>4
<1>5. Committed \in States
  BY <1>1, <1>2, <1>3, <1>4 DEF States
<1> QED BY <1>1, <1>4, <1>5 DEF SamePools

\* The common part of the handlers: one begins with a configuration and the
\* pools that go with it.
LEMMA BeginsCommit ==
  ASSUME IInv, pc = "idle",
         NEW config \in Configs, NEW pools \in PoolStates, NEW by \in {"request", "pass", "apply"},
         DOMAIN config.pools = DOMAIN pools,
         Fits(config, pools, mem.runs), Counted(pools, mem.revision + 1),
         Commits(config, pools, by),
         by # "apply" => CleanFile,
         client' = client \/ client' = NoClient,
         by = "apply" => shown = disk.config
  PROVE  IInv'
<1>1. mem \in States /\ mem = disk /\ SamePools(disk)
  BY DEF IInv, TypeOK, Together
<1>2. mem' \in States /\ mem'.pools = pools /\ mem'.runs = mem.runs
      /\ mem'.config = mem.config /\ mem'.revision = mem.revision
      /\ mem'.file_hash = mem.file_hash
  BY <1>1 DEF Commits, States
<1>3. /\ task'.config = config /\ task'.by = by /\ pc' = "save" /\ pass' = NoPass
      /\ Validated(config) /\ UNCHANGED <<disk, file, shown, edit, torn>>
  BY DEF Commits, Voided
<1>4. TypeOK'
  BY <1>2, <1>3 DEF IInv, TypeOK, Commits, NoClient
<1>5. Together'
  BY <1>1, <1>2, <1>3 DEF Together, Validated
<1>6. EditsWait'
  BY <1>1, <1>3 DEF IInv, EditsWait, CleanFile
<1>7. Informed'
  BY <1>3 DEF IInv, Informed, NoClient
<1>8. Tenants'
  BY <1>1, <1>2, <1>3 DEF IInv, Tenants
<1> QED BY <1>4, <1>5, <1>6, <1>7, <1>8 DEF IInv

\* A handler or a pass that saves what it changed of pools and runs.
LEMMA SavedState ==
  ASSUME IInv, pc = "idle", NEW pools \in PoolStates, NEW runs \in SUBSET Runs,
         DOMAIN pools = DOMAIN mem.pools,
         Fits(mem.config, pools, runs), Counted(pools, mem.revision),
         mem' = [mem EXCEPT !.pools = pools, !.runs = runs], disk' = mem',
         pass' = NoPass \/ (pass' = pass /\ pools = mem.pools),
         UNCHANGED <<file, pc, task, client, shown, edit, torn>>
  PROVE  IInv'
<1>1. mem \in States /\ mem = disk /\ SamePools(disk)
  BY DEF IInv, TypeOK, Together
<1>2. mem' \in States /\ mem'.pools = pools /\ mem'.runs = runs
      /\ mem'.config = mem.config /\ mem'.revision = mem.revision
      /\ mem'.file_hash = mem.file_hash
  BY <1>1 DEF States
<1>3. TypeOK'
  BY <1>2 DEF IInv, TypeOK
<1>4. Together'
  BY <1>1, <1>2 DEF Together, SamePools
<1>5. EditsWait' /\ Informed'
  BY <1>1, <1>2 DEF IInv, EditsWait, Informed
<1>6. Tenants'
  BY <1>1, <1>2 DEF IInv, Tenants
<1> QED BY <1>3, <1>4, <1>5, <1>6 DEF IInv

LEMMA AtRest ==
  ASSUME IInv, pc = "idle"
  PROVE  /\ mem = disk /\ mem \in States /\ DOMAIN mem.config.pools = DOMAIN mem.pools
         /\ Fits(mem.config, mem.pools, mem.runs) /\ Counted(mem.pools, mem.revision)
         /\ mem.revision \in Int /\ mem.pools \in [DOMAIN mem.pools -> PoolState]
         /\ mem.config.pools \in [DOMAIN mem.pools -> Settings] /\ DOMAIN mem.pools \subseteq Pools
         /\ mem.config.auth \subseteq Profiles /\ mem.config \in Configs /\ mem.runs \subseteq Runs
<1>1. mem = disk /\ mem \in States /\ SamePools(mem)
  BY DEF IInv, Together, TypeOK
<1> QED BY <1>1, StateParts DEF IInv, Tenants, SamePools

\* Another intent leaves the generations alone.
LEMMA IntentsSaved ==
  ASSUME IInv, pc = "idle", NEW targets, NEW intent \in {"running", "stopped", "deleting"},
         Saves(WithIntent(targets, intent))
  PROVE  IInv'
<1> DEFINE pools == [p \in DOMAIN mem.pools |->
                       IF p \in targets THEN [mem.pools[p] EXCEPT !.intent = intent]
                                        ELSE mem.pools[p]]
<1>1. pools \in [DOMAIN mem.pools -> PoolState] /\ DOMAIN pools = DOMAIN mem.pools
      /\ \A p \in DOMAIN mem.pools : pools[p].gen = mem.pools[p].gen
  <2> SUFFICES ASSUME NEW p \in DOMAIN mem.pools
               PROVE  pools[p] \in PoolState /\ pools[p].gen = mem.pools[p].gen
    OBVIOUS
  <2> QED BY AtRest DEF PoolState
<1>2. pools \in PoolStates
  BY <1>1, AtRest, PoolsAre
<1>3. mem' = [mem EXCEPT !.pools = pools, !.runs = mem.runs] /\ disk' = mem' /\ pass' = NoPass
      /\ UNCHANGED <<file, pc, task, client, shown, edit, torn>>
  BY AtRest DEF Saves, WithIntent, Voided, States
<1> HIDE DEF pools
<1>4. Fits(mem.config, pools, mem.runs) /\ Counted(pools, mem.revision)
  BY <1>1, AtRest DEF Fits, Counted
<1> QED BY <1>1, <1>2, <1>3, <1>4, AtRest, SavedState

LEMMA ScaleStep ==
  ASSUME IInv, NEW p \in Pools, NEW n \in 0..MaxReplicas, Scale(p, n)
  PROVE  IInv'
<1> DEFINE config == [mem.config EXCEPT !.pools[p].replicas = n]
<1>1. /\ pc = "idle" /\ CleanFile /\ p \in DOMAIN mem.pools /\ client' = client
      /\ Commits(config, mem.pools, "request")
  BY DEF Scale, Kept
<1>2. mem.config = [auth |-> mem.config.auth, pools |-> mem.config.pools]
  BY <1>1, AtRest DEF Configs
<1>3. config = [auth |-> mem.config.auth, pools |-> [mem.config.pools EXCEPT ![p].replicas = n]]
  BY <1>2
<1>4. [mem.config.pools EXCEPT ![p].replicas = n] \in [DOMAIN mem.pools -> Settings]
  BY <1>1, AtRest DEF Settings
<1>5. config \in Configs /\ DOMAIN config.pools = DOMAIN mem.pools
  BY <1>1, <1>3, <1>4, AtRest, ConfigIs
<1>6. \A q \in DOMAIN mem.pools : /\ config.pools[q].auth = mem.config.pools[q].auth
                                  /\ config.pools[q].image = mem.config.pools[q].image
  BY <1>1, <1>3, AtRest DEF Settings
<1> HIDE DEF config
<1>7. Fits(config, mem.pools, mem.runs) /\ Counted(mem.pools, mem.revision + 1)
  BY <1>1, <1>5, <1>6, AtRest DEF Fits, Counted, PoolState, Generations
<1>8. mem.pools \in PoolStates
  BY <1>1, AtRest, PoolsAre
<1> QED BY <1>1, <1>5, <1>7, <1>8, BeginsCommit

\* What Upgrade and Apply do to a pool whose runs they outdate.
LEMMA Outdated ==
  ASSUME IInv, pc = "idle", mem.revision < MaxRevision, NEW p \in DOMAIN mem.pools
  PROVE  /\ NextGeneration(mem.pools[p]) \in PoolState
         /\ NextGeneration(mem.pools[p]).gen = mem.pools[p].gen + 1
         /\ mem.pools[p].gen + 1 <= mem.revision + 1 /\ mem.pools[p].gen \in Int
<1>1. mem.pools[p] \in PoolState /\ mem.pools[p].gen <= mem.revision /\ mem.revision \in Int
  BY AtRest DEF Counted
<1>2. mem.pools[p].gen + 1 \in Generations
  BY <1>1, BoundsAssumption DEF PoolState, Generations
<1> QED BY <1>1, <1>2 DEF NextGeneration, PoolState, Generations

LEMMA UpgradeStep ==
  ASSUME IInv, NEW p \in Pools, NEW image \in Images, Upgrade(p, image)
  PROVE  IInv'
<1> DEFINE config == [mem.config EXCEPT !.pools[p].image = image]
           pools == [mem.pools EXCEPT ![p] = NextGeneration(@)]
<1>1. /\ pc = "idle" /\ CleanFile /\ p \in DOMAIN mem.pools /\ client' = client
      /\ Commits(config, pools, "request") /\ mem.revision < MaxRevision
  BY DEF Upgrade, Kept, Commits, Validated
<1>2. mem.config = [auth |-> mem.config.auth, pools |-> mem.config.pools]
  BY <1>1, AtRest DEF Configs
<1>3. config = [auth |-> mem.config.auth, pools |-> [mem.config.pools EXCEPT ![p].image = image]]
  BY <1>2
<1>4. [mem.config.pools EXCEPT ![p].image = image] \in [DOMAIN mem.pools -> Settings]
  BY <1>1, AtRest DEF Settings
<1>5. config \in Configs /\ DOMAIN config.pools = DOMAIN mem.pools
  BY <1>1, <1>3, <1>4, AtRest, ConfigIs
<1>6. \A q \in DOMAIN mem.pools : /\ config.pools[q].auth = mem.config.pools[q].auth
                                  /\ q # p => config.pools[q] = mem.config.pools[q]
  BY <1>1, <1>3, AtRest DEF Settings
<1>7. /\ pools \in [DOMAIN mem.pools -> PoolState] /\ DOMAIN pools = DOMAIN mem.pools
      /\ pools[p].gen = mem.pools[p].gen + 1
      /\ \A q \in DOMAIN mem.pools : q # p => pools[q] = mem.pools[q]
  BY <1>1, AtRest, Outdated
<1> HIDE DEF config, pools
<1>8. Fits(config, pools, mem.runs)
  <2> SUFFICES ASSUME NEW run \in mem.runs
               PROVE  /\ run.pool \in DOMAIN mem.pools
                      /\ run.auth = config.pools[run.pool].auth
                      /\ run.gen <= pools[run.pool].gen
                      /\ run.gen = pools[run.pool].gen => run.image = config.pools[run.pool].image
    BY <1>5 DEF Fits
  <2>1. /\ run.pool \in DOMAIN mem.pools /\ run.auth = mem.config.pools[run.pool].auth
        /\ run.gen <= mem.pools[run.pool].gen /\ run.gen \in Int
        /\ run.gen = mem.pools[run.pool].gen => run.image = mem.config.pools[run.pool].image
    BY <1>1, AtRest DEF Fits, Runs, Generations
  <2>2. CASE run.pool = p
    BY <1>1, <1>6, <1>7, <2>1, <2>2, Outdated
  <2>3. CASE run.pool # p
    BY <1>6, <1>7, <2>1, <2>3
  <2> QED BY <2>2, <2>3
<1>9. Counted(pools, mem.revision + 1)
  <2> SUFFICES ASSUME NEW q \in DOMAIN mem.pools PROVE pools[q].gen <= mem.revision + 1
    BY <1>7 DEF Counted
  <2> QED BY <1>1, <1>7, AtRest, Outdated DEF Counted
<1>10. pools \in PoolStates
  BY <1>1, <1>7, AtRest, PoolsAre
<1> QED BY <1>1, <1>5, <1>7, <1>8, <1>9, <1>10, BeginsCommit

\* More pools and profiles take nothing from the runs.
LEMMA FitsMore ==
  ASSUME IInv, pc = "idle", NEW config, NEW pools,
         DOMAIN mem.pools \subseteq DOMAIN config.pools,
         \A q \in DOMAIN mem.pools : config.pools[q] = mem.config.pools[q] /\ pools[q] = mem.pools[q]
  PROVE  Fits(config, pools, mem.runs)
BY AtRest DEF Fits

LEMMA AddStep ==
  ASSUME IInv, NEW p \in Pools, NEW settings \in Settings, Add(p, settings)
  PROVE  IInv'
<1> DEFINE all == [q \in DOMAIN mem.config.pools \cup {p} |->
                     IF q = p THEN settings ELSE mem.config.pools[q]]
           config == [mem.config EXCEPT !.pools = all]
           pools == [q \in DOMAIN mem.pools \cup {p} |-> IF q = p THEN NewPool ELSE mem.pools[q]]
<1>1. /\ pc = "idle" /\ CleanFile /\ p \notin DOMAIN mem.pools /\ client' = client
      /\ Commits(config, pools, "request")
  BY DEF Add
<1>2. mem.config = [auth |-> mem.config.auth, pools |-> mem.config.pools]
  BY <1>1, AtRest DEF Configs
<1>3. config = [auth |-> mem.config.auth, pools |-> all]
  BY <1>2
<1>4. all \in [DOMAIN mem.pools \cup {p} -> Settings]
  BY <1>1, AtRest
<1>5. config \in Configs /\ config.pools = all /\ DOMAIN config.pools = DOMAIN mem.pools \cup {p}
  BY <1>1, <1>3, <1>4, AtRest, ConfigIs
<1>6. NewPool \in PoolState /\ NewPool.gen = 1
  BY BoundsAssumption DEF NewPool, PoolState, Generations
<1>7. pools \in [DOMAIN mem.pools \cup {p} -> PoolState] /\ DOMAIN pools = DOMAIN mem.pools \cup {p}
  BY <1>1, <1>6, AtRest
<1>8. \A q \in DOMAIN mem.pools : config.pools[q] = mem.config.pools[q] /\ pools[q] = mem.pools[q]
  BY <1>1, <1>5, AtRest
<1>9. pools[p] = NewPool
  OBVIOUS
<1> HIDE DEF config, pools
<1>10. Fits(config, pools, mem.runs)
  BY <1>1, <1>5, <1>8, FitsMore
<1>11. Counted(pools, mem.revision + 1)
  <2>1. mem.revision >= 1
    BY <1>1, AtRest, StateParts
  <2> SUFFICES ASSUME NEW q \in DOMAIN mem.pools \cup {p} PROVE pools[q].gen <= mem.revision + 1
    BY <1>7 DEF Counted
  <2>2. CASE q = p
    BY <1>1, <1>6, <1>9, <2>1, <2>2, AtRest
  <2>3. CASE q # p
    BY <1>1, <1>8, <2>3, AtRest DEF Counted, PoolState, Generations
  <2> QED BY <2>2, <2>3
<1>12. pools \in PoolStates
  BY <1>1, <1>7, AtRest, PoolsAre
<1> QED BY <1>1, <1>5, <1>7, <1>10, <1>11, <1>12, BeginsCommit

LEMMA AuthStep ==
  ASSUME IInv, NEW profile \in Profiles, Auth(profile)
  PROVE  IInv'
<1> DEFINE config == [mem.config EXCEPT !.auth = @ \cup {profile}]
<1>1. /\ pc = "idle" /\ CleanFile /\ client' = client /\ Commits(config, mem.pools, "request")
  BY DEF Auth
<1>2. mem.config = [auth |-> mem.config.auth, pools |-> mem.config.pools]
  BY <1>1, AtRest DEF Configs
<1>3. config = [auth |-> mem.config.auth \cup {profile}, pools |-> mem.config.pools]
  BY <1>2
<1>4. config \in Configs /\ config.pools = mem.config.pools
  BY <1>1, <1>3, AtRest, ConfigIs
<1> HIDE DEF config
<1>5. Fits(config, mem.pools, mem.runs) /\ Counted(mem.pools, mem.revision + 1)
  BY <1>1, <1>4, AtRest DEF Fits, Counted, PoolState, Generations
<1>6. mem.pools \in PoolStates
  BY <1>1, AtRest, PoolsAre
<1> QED BY <1>1, <1>4, <1>5, <1>6, AtRest, BeginsCommit

LEMMA ApplyStep ==
  ASSUME IInv, Apply
  PROVE  IInv'
<1> DEFINE config == client.text.config
           pools == Known(config)
<1>1. /\ pc = "idle" /\ Commits(config, pools, "apply") /\ client' = NoClient
      /\ client.pc = "sent" /\ client.revision = mem.revision /\ client.text \in Texts
      /\ Applicable(client.text) /\ mem.revision < MaxRevision
  BY DEF Apply, IInv, TypeOK, Commits, Validated
<1>2. shown = disk.config
  BY <1>1, AtRest DEF IInv, Informed
<1>3. config \in Configs /\ DOMAIN config.pools \subseteq Pools
      /\ DOMAIN mem.pools \subseteq DOMAIN config.pools
  BY <1>1, AtRest DEF Texts, Configs, Applicable
<1>4. NewPool \in PoolState /\ NewPool.gen = 1 /\ mem.revision >= 1
  BY <1>1, AtRest, StateParts, BoundsAssumption DEF NewPool, PoolState, Generations
<1>5. ASSUME NEW q \in DOMAIN config.pools
      PROVE  /\ pools[q] \in PoolState /\ pools[q].gen <= mem.revision + 1
             /\ q \in DOMAIN mem.pools =>
                  \/ pools[q].gen = mem.pools[q].gen + 1
                  \/ pools[q] = mem.pools[q] /\ config.pools[q].image = mem.config.pools[q].image
  <2>1. CASE q \notin DOMAIN mem.pools
    <3>1. pools[q] = NewPool
      BY <2>1 DEF Known
    <3> QED BY <1>1, <1>4, <2>1, <3>1, AtRest
  <2>2. CASE q \in DOMAIN mem.pools /\ config.pools[q].image = mem.config.pools[q].image
    <3>1. pools[q] = mem.pools[q]
      BY <2>2 DEF Known
    <3>2. mem.pools[q] \in PoolState /\ mem.pools[q].gen <= mem.revision /\ mem.revision \in Int
      BY <1>1, <2>2, AtRest DEF Counted
    <3> QED BY <2>2, <3>1, <3>2 DEF PoolState, Generations
  <2>3. CASE q \in DOMAIN mem.pools /\ config.pools[q].image # mem.config.pools[q].image
    <3>1. pools[q] = NextGeneration(mem.pools[q])
      BY <2>3 DEF Known
    <3> QED BY <1>1, <2>3, <3>1, Outdated
  <2> QED BY <2>1, <2>2, <2>3
<1>6. pools \in [DOMAIN config.pools -> PoolState] /\ DOMAIN pools = DOMAIN config.pools
  <2>1. pools = [q \in DOMAIN config.pools |-> pools[q]]
    BY DEF Known
  <2> QED BY <1>5, <2>1
<1>7. ASSUME NEW run \in mem.runs
      PROVE  /\ run.pool \in DOMAIN config.pools
             /\ run.auth = config.pools[run.pool].auth
             /\ run.gen <= pools[run.pool].gen
             /\ run.gen = pools[run.pool].gen => run.image = config.pools[run.pool].image
  <2>1. /\ run.pool \in DOMAIN mem.pools /\ run.auth = mem.config.pools[run.pool].auth
        /\ run.gen <= mem.pools[run.pool].gen /\ run.gen \in Int
        /\ run.gen = mem.pools[run.pool].gen => run.image = mem.config.pools[run.pool].image
        /\ mem.pools[run.pool].gen \in Int
    BY <1>1, AtRest DEF Fits, Runs, Generations, PoolState
  <2>2. run.pool \in DOMAIN config.pools
    BY <1>3, <2>1
  <2>3. config.pools[run.pool].auth = mem.config.pools[run.pool].auth
    BY <1>1, <2>1, AtRest DEF Applicable, MayBecome, RunsOf
  <2> HIDE DEF pools, config
  <2>4. \/ pools[run.pool].gen = mem.pools[run.pool].gen + 1
        \/ /\ pools[run.pool] = mem.pools[run.pool]
           /\ config.pools[run.pool].image = mem.config.pools[run.pool].image
    BY <1>5, <2>1, <2>2
  <2> QED BY <2>1, <2>2, <2>3, <2>4
<1> HIDE DEF config, pools
<1>8. Fits(config, pools, mem.runs) /\ Counted(pools, mem.revision + 1)
  BY <1>5, <1>6, <1>7 DEF Fits, Counted
<1>9. pools \in PoolStates
  BY <1>3, <1>6, PoolsAre
<1> QED BY <1>1, <1>2, <1>3, <1>6, <1>8, <1>9, BeginsCommit

\* The pass.
LEMMA ForgetsStep ==
  ASSUME IInv, NEW run \in mem.runs, ForgetsRun(run)
  PROVE  IInv'
<1>1. /\ pc = "idle" /\ pass' = pass /\ disk' = mem'
      /\ mem' = [mem EXCEPT !.pools = mem.pools, !.runs = mem.runs \ {run}]
      /\ UNCHANGED <<file, pc, task, client, shown, edit, torn>>
  BY AtRest DEF ForgetsRun, States
<1>2. Fits(mem.config, mem.pools, mem.runs \ {run}) /\ mem.runs \ {run} \in SUBSET Runs
  BY <1>1, AtRest DEF Fits
<1>3. mem.pools \in PoolStates
  BY <1>1, AtRest, PoolsAre
<1> QED BY <1>1, <1>2, <1>3, AtRest, SavedState

LEMMA RecordsStep ==
  ASSUME IInv, RecordsRun
  PROVE  IInv'
<1> DEFINE run == [pool |-> pass.pool, auth |-> pass.settings.auth,
                   image |-> pass.settings.image, gen |-> pass.ps.gen]
<1>1. /\ pc = "idle" /\ pass # NoPass /\ Saves([mem EXCEPT !.runs = @ \cup {run}])
  BY DEF RecordsRun
<1>2. /\ pass.pool \in DOMAIN mem.pools /\ pass.settings = mem.config.pools[pass.pool]
      /\ pass.ps = mem.pools[pass.pool]
  BY <1>1 DEF IInv, Tenants
<1>3. pass.settings \in Settings /\ pass.ps \in PoolState /\ pass.pool \in Pools
  BY <1>1, <1>2, AtRest
<1>4. run \in Runs /\ run.gen \in Int
  BY <1>3 DEF Runs, Settings, PoolState, Generations
<1>5. /\ run.pool = pass.pool /\ run.auth = mem.config.pools[run.pool].auth
      /\ run.image = mem.config.pools[run.pool].image /\ run.gen = mem.pools[run.pool].gen
  BY <1>2
<1> HIDE DEF run
<1>6. /\ mem' = [mem EXCEPT !.pools = mem.pools, !.runs = mem.runs \cup {run}]
      /\ disk' = mem' /\ pass' = NoPass
      /\ UNCHANGED <<file, pc, task, client, shown, edit, torn>>
  BY <1>1, AtRest DEF Saves, Voided, States
<1>7. Fits(mem.config, mem.pools, mem.runs \cup {run}) /\ mem.runs \cup {run} \in SUBSET Runs
  BY <1>1, <1>2, <1>4, <1>5, AtRest DEF Fits
<1>8. mem.pools \in PoolStates
  BY <1>1, AtRest, PoolsAre
<1> QED BY <1>1, <1>6, <1>7, <1>8, AtRest, SavedState

LEMMA DeleteStep ==
  ASSUME IInv, Delete
  PROVE  IInv'
<1> DEFINE p == pass.pool
           all == Without(mem.config.pools, p)
           config == [mem.config EXCEPT !.pools = all]
           pools == Without(mem.pools, p)
<1>1. /\ pc = "idle" /\ CleanFile /\ client' = client /\ Commits(config, pools, "pass")
      /\ RunsOf(p) = {}
  BY DEF Delete
<1>2. mem.config = [auth |-> mem.config.auth, pools |-> mem.config.pools]
  BY <1>1, AtRest DEF Configs
<1>3. config = [auth |-> mem.config.auth, pools |-> all]
  BY <1>2
<1>4. all \in [DOMAIN mem.pools \ {p} -> Settings] /\ pools \in [DOMAIN mem.pools \ {p} -> PoolState]
  BY <1>1, AtRest DEF Without
<1>5. config \in Configs /\ config.pools = all /\ DOMAIN config.pools = DOMAIN mem.pools \ {p}
      /\ DOMAIN pools = DOMAIN mem.pools \ {p}
  BY <1>1, <1>3, <1>4, AtRest, ConfigIs
<1>6. \A q \in DOMAIN mem.pools \ {p} : config.pools[q] = mem.config.pools[q] /\ pools[q] = mem.pools[q]
  BY <1>1, <1>5, AtRest DEF Without
<1>7. \A run \in mem.runs : run.pool # p
  BY <1>1 DEF RunsOf
<1> HIDE DEF config, pools, all, p
<1>8. Fits(config, pools, mem.runs)
  BY <1>1, <1>5, <1>6, <1>7, AtRest DEF Fits
<1>9. Counted(pools, mem.revision + 1)
  BY <1>1, <1>5, <1>6, AtRest DEF Counted, PoolState, Generations
<1>10. pools \in PoolStates
  BY <1>1, <1>4, AtRest, PoolsAre
<1> QED BY <1>1, <1>5, <1>8, <1>9, <1>10, BeginsCommit

LEMMA PassSteps ==
  ASSUME IInv, Passed
  PROVE  IInv'
<1>1. ASSUME NEW p \in Pools, PassBegins(p) PROVE IInv'
  <2>1. /\ pc = "idle" /\ p \in DOMAIN mem.pools
        /\ pass' = [pool |-> p, settings |-> mem.config.pools[p], ps |-> mem.pools[p]]
        /\ UNCHANGED <<file, disk, mem, pc, task, client, shown, edit, torn>>
    BY <1>1 DEF PassBegins
  <2>2. mem.config.pools[p] \in Settings /\ mem.pools[p] \in PoolState
    BY <2>1, AtRest
  <2>3. TypeOK'
    BY <2>1, <2>2 DEF IInv, TypeOK
  <2> QED BY <2>1, <2>3 DEF IInv, Together, EditsWait, Informed, Tenants
<1>2. CASE PassEnds
  <2>1. TypeOK'
    BY <1>2 DEF PassEnds, IInv, TypeOK
  <2> QED BY <1>2, <2>1 DEF PassEnds, IInv, Together, EditsWait, Informed, Tenants
<1> QED BY <1>1, <1>2, ForgetsStep, RecordsStep, DeleteStep DEF Passed

LEMMA RequestSteps ==
  ASSUME IInv, Requested
  PROVE  IInv'
<1>1. CASE Start \/ Stop \/ \E p \in Pools : Remove(p)
  BY <1>1, IntentsSaved DEF Start, Stop, Remove
<1>2. CASE ApplyFails
  <2>1. TypeOK'
    BY <1>2 DEF ApplyFails, IInv, TypeOK, NoClient
  <2> QED BY <1>2, <2>1 DEF ApplyFails, IInv, Together, EditsWait, Informed, Tenants, NoClient,
                            Validated
<1> QED BY <1>1, <1>2, ScaleStep, UpgradeStep, AddStep, AuthStep, ApplyStep DEF Requested

LEMMA InitHolds == Init => IInv
<1> SUFFICES ASSUME Init PROVE IInv
  OBVIOUS
<1> DEFINE pools == [p \in DOMAIN file.config.pools |-> NewPool]
<1>1. /\ file \in Texts /\ Valid(file.config) /\ file.config \in Configs
      /\ disk = NewState(file) /\ mem = disk /\ pc = "idle" /\ pass = NoPass
  BY DEF Init, Texts
<1>2. DOMAIN file.config.pools \subseteq Pools
  BY <1>1 DEF Configs
<1>3. NewPool \in PoolState /\ NewPool.gen = 1
  BY BoundsAssumption DEF NewPool, PoolState, Generations
<1>4. pools \in [DOMAIN file.config.pools -> PoolState]
  BY <1>3
<1>5. pools \in PoolStates
  BY <1>2, <1>4, PoolsAre
<1>6. /\ disk = [config |-> file.config, revision |-> 1, file_hash |-> file,
                 pools |-> pools, runs |-> {}]
  BY <1>1 DEF NewState
<1>7. disk \in States /\ SamePools(disk) /\ disk.runs = {} /\ disk.revision = 1
  BY <1>1, <1>5, <1>6, BoundsAssumption DEF States, SamePools
<1>8. Counted(disk.pools, disk.revision)
  BY <1>3, <1>6 DEF Counted
<1>9. /\ client = NoClient /\ shown = file.config /\ edit = NoText /\ torn = FALSE
  BY <1>6 DEF Init
<1>10. client.pc = "none"
  BY <1>9 DEF NoClient
<1>11. mem \in States
  BY <1>1, <1>7
<1> HIDE DEF pools
<1>12. TypeOK
  BY <1>1, <1>7, <1>9, <1>10, <1>11 DEF TypeOK
<1> QED BY <1>1, <1>7, <1>8, <1>9, <1>12 DEF Init, IInv, Together, EditsWait, Informed, Tenants, Fits, NoClient

LEMMA StepHolds == IInv /\ [Next]_vars => IInv'
<1> SUFFICES ASSUME IInv, [Next]_vars PROVE IInv'
  OBVIOUS
<1>1. CASE Requested
  BY <1>1, RequestSteps
<1>2. CASE Passed
  BY <1>2, PassSteps
<1>3. CASE Stored
  <2>1. /\ Committed \in States /\ SamePools(Committed)
        /\ Committed.revision = disk.revision + 1 /\ Committed.config = task.config
        /\ Committed.pools = mem.pools /\ Committed.runs = mem.runs
        /\ mem.revision = disk.revision
    BY <1>3, CommittedIsState DEF Stored, IInv, Together
  <2>2. TypeOK'
    BY <1>3, <2>1 DEF Stored, IInv, TypeOK
  <2>3. Together'
    BY <1>3, <2>1 DEF Stored, Together, SamePools
  <2>4. EditsWait'
    BY <1>3 DEF Stored, IInv, EditsWait
  <2>5. Informed'
    BY <1>3, <2>1 DEF Stored, IInv, Informed, TypeOK, States
  <2>6. Tenants'
    BY <1>3, <2>1 DEF Stored, IInv, Tenants
  <2> QED BY <2>2, <2>3, <2>4, <2>5, <2>6 DEF IInv
<1>4. CASE Written
  <2>1. file' \in Texts
    BY <1>4 DEF Written, ToToml, Texts, IInv, TypeOK
  <2>2. TypeOK'
    BY <1>4, <2>1 DEF Written, IInv, TypeOK
  <2> QED BY <1>4, <2>2 DEF Written, IInv, Together, EditsWait, Informed, Tenants, SamePools
<1>5. CASE Fails
  <2>1. file' \in Texts /\ torn' \in BOOLEAN
    <3>1. pc = "write" => ToToml(task.config) \in Texts
      BY DEF ToToml, Texts, IInv, TypeOK
    <3> QED BY <1>5, <3>1 DEF Fails, IInv, TypeOK
  <2>2. TypeOK'
    BY <1>5, <2>1 DEF Fails, Reload, IInv, TypeOK
  <2> QED BY <1>5, <2>2 DEF Fails, Reload, IInv, Together, EditsWait, Informed, Tenants, SamePools
<1>6. CASE Crash \/ Restart
  <2>1. TypeOK'
    BY <1>6 DEF Crash, Restart, Reload, IInv, TypeOK
  <2> QED BY <1>6, <2>1 DEF Crash, Restart, Reload, IInv, Together, EditsWait, Informed, Tenants,
                            SamePools
<1>7. CASE Operated
  <2>1. ASSUME NEW text \in Texts, Edit(text)
        PROVE  IInv'
    <3>1. TypeOK'
      BY <2>1 DEF Edit, IInv, TypeOK
    <3> QED BY <2>1, <3>1 DEF Edit, IInv, Together, EditsWait, Informed, Tenants, SamePools, Validated
  <2>2. CASE AskRevision
    <3>1. TypeOK'
      BY <2>2 DEF AskRevision, IInv, TypeOK, States
    <3>2. Informed'
      BY <2>2 DEF AskRevision, IInv, TypeOK, Together, States, Informed
    <3> QED BY <2>2, <3>1, <3>2 DEF AskRevision, IInv, Together, EditsWait, Tenants, SamePools
  <2>3. CASE ReadFile
    <3>1. TypeOK'
      BY <2>3 DEF ReadFile, IInv, TypeOK
    <3>2. Informed'
      BY <2>3 DEF ReadFile, IInv, Informed
    <3> QED BY <2>3, <3>1, <3>2 DEF ReadFile, IInv, Together, EditsWait, Tenants, SamePools, Validated
  <2>4. ASSUME NEW config \in Drafts, NEW by \in {"toml", "operator"}
        PROVE  [config |-> config, by |-> by] \in Texts
    BY DraftsAssumption DEF Texts
  <2> QED BY <1>7, <2>1, <2>2, <2>3, <2>4 DEF Operated
<1>8. CASE UNCHANGED vars
  BY <1>8 DEF vars, IInv, TypeOK, Together, EditsWait, Informed, Tenants, SamePools, Validated
<1> QED BY <1>1, <1>2, <1>3, <1>4, <1>5, <1>6, <1>7, <1>8 DEF Next

\* The inductive invariant: the store, the memory, the file and the client
\* of an apply fit together at every step of every commit.
THEOREM Invariant == Spec => []IInv
BY InitHolds, StepHolds, PTL DEF Spec

\* The types of the store, the memory and the file (Engine::open, commit_config).
THEOREM ConfigTypes == Spec => []TypeOK
BY Invariant, PTL DEF IInv

\* manager.rs:194: a request meets pool states and a configuration with the
\* same names, also after a failed or interrupted commit.
THEOREM PoolsAlwaysMatch == Spec => []PoolsMatch
<1>1. IInv => PoolsMatch
  BY DEF IInv, Together, PoolsMatch
<1> QED BY <1>1, Invariant, PTL

\* manager.rs:96, 110: no commit, restart or failure overwrites an edit of
\* config.toml that was there before it.
THEOREM EditsAreSafe == Spec => []EditsSurvive
<1>1. IInv => EditsSurvive
  BY DEF IInv, EditsWait, EditsSurvive
<1> QED BY <1>1, Invariant, PTL

\* manager.rs:110: the configuration of the store can be applied when no pool
\* is being deleted.
THEOREM StoreIsApplicable == Spec => []StoreCanBeApplied
<1>1. ASSUME IInv PROVE StoreCanBeApplied
  <2> SUFFICES ASSUME pc = "idle", \A p \in DOMAIN mem.pools : Kept(p),
                      NEW text \in Texts, text.config = mem.config
               PROVE  Applicable(text)
    BY DEF StoreCanBeApplied
  <2>1. Valid(mem.config) /\ DOMAIN mem.config.pools = DOMAIN mem.pools
    BY <1>1, AtRest, StateParts
  <2>2. \A run \in mem.runs : run.auth \in mem.config.auth
    BY <1>1, <2>1, AtRest DEF Fits, Valid
  <2>3. \A p \in DOMAIN mem.config.pools : MayBecome(p, mem.config.pools[p])
    BY DEF MayBecome
  <2> QED BY <2>1, <2>2, <2>3 DEF Applicable
<1> QED BY <1>1, Invariant, PTL

\* manager.rs:665, 675: the scope and the profile of a pool are those that its
\* runs registered with, so that every clean-up looks in the right place.
THEOREM RunsStayInScope == Spec => []ScopesHold
<1>1. IInv => ScopesHold
  BY DEF IInv, Tenants, Fits, ScopesHold
<1> QED BY <1>1, Invariant, PTL

\* manager.rs:418: two kinds of runs never share a generation.
THEOREM GenerationsAreTold == Spec => []GenerationsTell
<1>1. IInv => GenerationsTell
  BY DEF IInv, Tenants, Fits, GenerationsTell
<1> QED BY <1>1, Invariant, PTL

\* manager.rs:333: the configuration that an apply replaces is the one that
\* went with the revision its operator was told.
THEOREM AppliesAreInformed == Spec => ApplyReplacesWhatWasShown
<1>1. IInv /\ [Next]_vars =>
        [disk' # disk /\ pc = "save" /\ task.by = "apply" => shown = disk.config]_vars
  BY DEF IInv, Informed
<1> QED BY <1>1, Invariant, PTL DEF Spec, ApplyReplacesWhatWasShown

-----------------------------------------------------------------------------
(* The pools as module PoolLife sees them.                                 *)

Tenanting(runs, p) == {run \in runs : run.pool = p}

\* PoolSeen, of the parts of a state.
Shown(pools, settings, runs, p) ==
  IF p \in DOMAIN pools
  THEN [intent |-> pools[p].intent, gen |-> pools[p].gen, replicas |-> settings[p].replicas,
        runs |-> Cardinality(Tenanting(runs, p))]
  ELSE [intent |-> "absent", gen |-> 0, replicas |-> 0, runs |-> 0]

Moved(r, s) == s = r \/ Outside!Step(r, s)

\* What is about to be stored is a step of every pool.
Promised ==
  pc = "save" => \A p \in Pools : Moved(PoolSeen(disk, p),
                                        Shown(mem.pools, task.config.pools, disk.runs, p))

Refining == IInv /\ IsFiniteSet(disk.runs) /\ Promised

LEMMA SeenIsShown ==
  ASSUME NEW s, NEW p
  PROVE  PoolSeen(s, p) = Shown(s.pools, s.config.pools, s.runs, p)
BY DEF PoolSeen, Shown, Tenanting

LEMMA TenantsCount ==
  ASSUME NEW runs, IsFiniteSet(runs), NEW p
  PROVE  /\ IsFiniteSet(Tenanting(runs, p)) /\ Cardinality(Tenanting(runs, p)) \in Nat
         /\ Tenanting(runs, p) = {} => Cardinality(Tenanting(runs, p)) = 0
         /\ Tenanting(runs, p) # {} => Cardinality(Tenanting(runs, p)) > 0
<1>1. IsFiniteSet(Tenanting(runs, p))
  BY FS_Subset DEF Tenanting
<1>2. Cardinality(Tenanting(runs, p)) \in Nat
  BY <1>1, FS_CardinalityType
<1> QED BY <1>1, <1>2, FS_EmptySet

LEMMA SeenType ==
  ASSUME NEW s \in States, SamePools(s), IsFiniteSet(s.runs), NEW p \in Pools
  PROVE  PoolSeen(s, p) \in Outside!Lives
<1>1. Cardinality(Tenanting(s.runs, p)) \in Nat
  BY TenantsCount
<1>2. CASE p \in DOMAIN s.pools
  <2>1. s.pools[p] \in PoolState /\ s.config.pools[p] \in Settings
    BY <1>2, StateParts DEF SamePools
  <2>2. /\ s.pools[p].intent \in {"running", "stopped", "deleting"} /\ s.pools[p].gen \in Nat
        /\ s.config.pools[p].replicas \in Nat
    BY <2>1, BoundsAssumption DEF PoolState, Generations, Settings
  <2> QED BY <1>1, <1>2, <2>2, SeenIsShown DEF Shown, Outside!Lives
<1>3. CASE p \notin DOMAIN s.pools
  BY <1>3 DEF PoolSeen, Outside!Lives
<1> QED BY <1>2, <1>3

\* What a commit may make of a pool.
Alters(p, settings, pools) ==
  \/ p \notin DOMAIN mem.pools /\ p \notin DOMAIN pools
  \/ p \notin DOMAIN mem.pools /\ p \in DOMAIN pools /\ pools[p] = NewPool
  \/ /\ p \in DOMAIN mem.pools /\ p \in DOMAIN pools /\ pools[p] = mem.pools[p]
     /\ settings[p].replicas = mem.config.pools[p].replicas
  \/ /\ p \in DOMAIN mem.pools /\ p \in DOMAIN pools /\ Kept(p)
     /\ pools[p].intent = mem.pools[p].intent
     /\ pools[p].gen \in {mem.pools[p].gen, mem.pools[p].gen + 1}
  \/ p \in DOMAIN mem.pools /\ p \notin DOMAIN pools /\ mem.pools[p].intent = "deleting" /\ RunsOf(p) = {}

LEMMA AltersMoves ==
  ASSUME Refining, pc = "idle", NEW p \in Pools, NEW settings, NEW pools, Alters(p, settings, pools)
  PROVE  Moved(PoolSeen(disk, p), Shown(pools, settings, disk.runs, p))
<1> DEFINE n == Cardinality(Tenanting(disk.runs, p))
           r == PoolSeen(disk, p)
           s == Shown(pools, settings, disk.runs, p)
<1>0. /\ mem = disk /\ DOMAIN mem.config.pools = DOMAIN mem.pools
      /\ r = Shown(mem.pools, mem.config.pools, mem.runs, p)
      /\ mem.pools \in [DOMAIN mem.pools -> PoolState]
      /\ n \in Nat /\ (Tenanting(mem.runs, p) = {} => n = 0)
  BY AtRest, SeenIsShown, TenantsCount DEF Refining
<1>1. CASE p \notin DOMAIN mem.pools /\ p \notin DOMAIN pools
  BY <1>0, <1>1 DEF Moved, Shown
<1>2. CASE p \notin DOMAIN mem.pools /\ p \in DOMAIN pools /\ pools[p] = NewPool
  <2>1. Tenanting(mem.runs, p) = {}
    BY <1>0, <1>2, AtRest DEF Refining, Fits, Tenanting
  <2>2. /\ r = Outside!Unborn
        /\ s = [intent |-> "stopped", gen |-> 1, replicas |-> settings[p].replicas, runs |-> 0]
    BY <1>0, <1>2, <2>1 DEF Shown, NewPool, Outside!Unborn
  <2>3. s.replicas = settings[p].replicas
    BY <2>2
  <2> HIDE DEF r, s
  <2>4. Outside!Add(r, s)
    BY <2>2, <2>3 DEF Outside!Add
  <2> QED BY <2>4 DEF Moved, Outside!Step, r, s
<1>3. CASE /\ p \in DOMAIN mem.pools /\ p \in DOMAIN pools /\ pools[p] = mem.pools[p]
           /\ settings[p].replicas = mem.config.pools[p].replicas
  BY <1>0, <1>3 DEF Moved, Shown
<1>4. CASE /\ p \in DOMAIN mem.pools /\ p \in DOMAIN pools /\ Kept(p)
           /\ pools[p].intent = mem.pools[p].intent
           /\ pools[p].gen \in {mem.pools[p].gen, mem.pools[p].gen + 1}
  <2>1. mem.pools[p].intent \in {"stopped", "running"}
    BY <1>0, <1>4 DEF Kept, PoolState
  <2>2. /\ r.intent \in {"stopped", "running"} /\ s.gen \in {r.gen, r.gen + 1}
        /\ s.intent = r.intent /\ s.runs = r.runs
    BY <1>0, <1>4, <2>1 DEF Shown
  <2> HIDE DEF r, s
  <2>3. Outside!Configure(r, s)
    BY <2>2 DEF Outside!Configure
  <2> QED BY <2>3 DEF Moved, Outside!Step, r, s
<1>5. CASE /\ p \in DOMAIN mem.pools /\ p \notin DOMAIN pools
           /\ mem.pools[p].intent = "deleting" /\ RunsOf(p) = {}
  <2>1. n = 0
    BY <1>0, <1>5 DEF RunsOf, Tenanting
  <2>2. r.intent = "deleting" /\ r.runs = 0 /\ s = Outside!Unborn
    BY <1>0, <1>5, <2>1 DEF Shown, Outside!Unborn
  <2> HIDE DEF r, s
  <2>3. Outside!Vanish(r, s)
    BY <2>2 DEF Outside!Vanish
  <2> QED BY <2>3 DEF Moved, Outside!Step, r, s
<1> QED BY <1>1, <1>2, <1>3, <1>4, <1>5 DEF Alters

\* A handler promises what its commit will store.
LEMMA CommitPromises ==
  ASSUME Refining, pc = "idle", NEW config, NEW pools, NEW by, Commits(config, pools, by),
         \A p \in Pools : Alters(p, config.pools, pools)
  PROVE  Promised' /\ disk' = disk
<1>1. /\ mem \in States /\ mem'.pools = pools /\ task'.config = config /\ disk' = disk
  BY AtRest DEF Commits, Refining, States
<1>2. Promised' = (pc' = "save" => \A p \in Pools :
                     Moved(PoolSeen(disk', p), Shown(mem'.pools, task'.config.pools, disk'.runs, p)))
  BY DEF Promised
<1> QED BY <1>1, <1>2, AltersMoves

LEMMA CommitsPromise ==
  ASSUME Refining,
         \/ \E p \in Pools : \/ \E n \in 0..MaxReplicas : Scale(p, n)
                             \/ \E image \in Images : Upgrade(p, image)
                             \/ \E settings \in Settings : Add(p, settings)
         \/ \E profile \in Profiles : Auth(profile)
         \/ Apply \/ Delete
  PROVE  Promised' /\ disk' = disk
<1>0. pc = "idle"
  BY DEF Scale, Upgrade, Add, Auth, Apply, Delete
<1>a. /\ DOMAIN mem.config.pools = DOMAIN mem.pools
      /\ mem.pools \in [DOMAIN mem.pools -> PoolState]
      /\ mem.config.pools \in [DOMAIN mem.pools -> Settings]
      /\ mem.config = [auth |-> mem.config.auth, pools |-> mem.config.pools]
  BY <1>0, AtRest DEF Refining, Configs
<1>1. ASSUME NEW p \in Pools, NEW n \in 0..MaxReplicas, Scale(p, n)
      PROVE  Promised' /\ disk' = disk
  <2> DEFINE config == [mem.config EXCEPT !.pools[p].replicas = n]
  <2>1. Commits(config, mem.pools, "request") /\ Kept(p)
    BY <1>1 DEF Scale
  <2>2. config.pools = [mem.config.pools EXCEPT ![p].replicas = n]
    BY <1>a
  <2> HIDE DEF config
  <2>3. ASSUME NEW q \in Pools PROVE Alters(q, config.pools, mem.pools)
    BY <1>a, <2>1, <2>2 DEF Alters
  <2> QED BY <1>0, <2>1, <2>3, CommitPromises
<1>2. ASSUME NEW p \in Pools, NEW image \in Images, Upgrade(p, image)
      PROVE  Promised' /\ disk' = disk
  <2> DEFINE config == [mem.config EXCEPT !.pools[p].image = image]
             pools == [mem.pools EXCEPT ![p] = NextGeneration(@)]
  <2>1. Commits(config, pools, "request") /\ Kept(p)
    BY <1>2 DEF Upgrade
  <2>2. config.pools = [mem.config.pools EXCEPT ![p].image = image]
    BY <1>a
  <2>3. /\ DOMAIN pools = DOMAIN mem.pools
        /\ \A q \in DOMAIN mem.pools : q # p => pools[q] = mem.pools[q]
        /\ p \in DOMAIN mem.pools => /\ pools[p].intent = mem.pools[p].intent
                                     /\ pools[p].gen = mem.pools[p].gen + 1
    BY <1>a DEF NextGeneration, PoolState
  <2>4. \A q \in DOMAIN mem.pools : config.pools[q].replicas = mem.config.pools[q].replicas
    BY <1>a, <2>2 DEF Settings
  <2> HIDE DEF config, pools
  <2>5. ASSUME NEW q \in Pools PROVE Alters(q, config.pools, pools)
    BY <2>1, <2>3, <2>4 DEF Alters
  <2> QED BY <1>0, <2>1, <2>5, CommitPromises
<1>3. ASSUME NEW p \in Pools, NEW settings \in Settings, Add(p, settings)
      PROVE  Promised' /\ disk' = disk
  <2> DEFINE all == [q \in DOMAIN mem.config.pools \cup {p} |->
                       IF q = p THEN settings ELSE mem.config.pools[q]]
             config == [mem.config EXCEPT !.pools = all]
             pools == [q \in DOMAIN mem.pools \cup {p} |-> IF q = p THEN NewPool ELSE mem.pools[q]]
  <2>1. Commits(config, pools, "request") /\ p \notin DOMAIN mem.pools
    BY <1>3 DEF Add
  <2>2. config.pools = all
    BY <1>a
  <2>3. /\ DOMAIN pools = DOMAIN mem.pools \cup {p} /\ pools[p] = NewPool
        /\ \A q \in DOMAIN mem.pools : pools[q] = mem.pools[q] /\ all[q] = mem.config.pools[q]
    BY <1>a, <2>1
  <2> HIDE DEF config, pools, all
  <2>4. ASSUME NEW q \in Pools PROVE Alters(q, config.pools, pools)
    BY <2>1, <2>2, <2>3 DEF Alters
  <2> QED BY <1>0, <2>1, <2>4, CommitPromises
<1>4. ASSUME NEW profile \in Profiles, Auth(profile)
      PROVE  Promised' /\ disk' = disk
  <2> DEFINE config == [mem.config EXCEPT !.auth = @ \cup {profile}]
  <2>1. Commits(config, mem.pools, "request")
    BY <1>4 DEF Auth
  <2>2. config.pools = mem.config.pools
    BY <1>a
  <2> HIDE DEF config
  <2>3. ASSUME NEW q \in Pools PROVE Alters(q, config.pools, mem.pools)
    BY <2>2 DEF Alters
  <2> QED BY <1>0, <2>1, <2>3, CommitPromises
<1>5. CASE Apply
  <2> DEFINE config == client.text.config
             pools == Known(config)
  <2>1. Commits(config, pools, "apply") /\ Applicable(client.text)
    BY <1>5 DEF Apply
  <2>2. DOMAIN pools = DOMAIN config.pools /\ DOMAIN mem.pools \subseteq DOMAIN pools
        /\ \A q \in DOMAIN mem.pools : Kept(q)
    BY <1>a, <2>1 DEF Known, Applicable
  <2>3. ASSUME NEW q \in DOMAIN pools
        PROVE  \/ q \notin DOMAIN mem.pools /\ pools[q] = NewPool
               \/ q \in DOMAIN mem.pools /\ pools[q] \in {mem.pools[q], NextGeneration(mem.pools[q])}
    BY DEF Known
  <2>4. \A q \in DOMAIN mem.pools : /\ NextGeneration(mem.pools[q]).intent = mem.pools[q].intent
                                    /\ NextGeneration(mem.pools[q]).gen = mem.pools[q].gen + 1
    BY <1>a DEF NextGeneration, PoolState
  <2> HIDE DEF config, pools
  <2>5. ASSUME NEW q \in Pools PROVE Alters(q, config.pools, pools)
    BY <2>2, <2>3, <2>4 DEF Alters
  <2> QED BY <1>0, <2>1, <2>5, CommitPromises
<1>6. CASE Delete
  <2> DEFINE p == pass.pool
             config == [mem.config EXCEPT !.pools = Without(@, p)]
             pools == Without(mem.pools, p)
  <2>1. Commits(config, pools, "pass") /\ RunsOf(p) = {} /\ pass # NoPass /\ pass.ps.intent = "deleting"
    BY <1>6 DEF Delete
  <2>2. config.pools = Without(mem.config.pools, p)
    BY <1>a
  <2>3. p \in DOMAIN mem.pools /\ mem.pools[p].intent = "deleting"
    BY <2>1 DEF Refining, IInv, Tenants
  <2>4. /\ DOMAIN pools = DOMAIN mem.pools \ {p}
        /\ \A q \in DOMAIN mem.pools \ {p} : /\ pools[q] = mem.pools[q]
                                             /\ config.pools[q] = mem.config.pools[q]
    BY <1>a, <2>2 DEF Without
  <2> HIDE DEF config, pools
  <2>5. ASSUME NEW q \in Pools PROVE Alters(q, config.pools, pools)
    BY <2>1, <2>3, <2>4 DEF Alters
  <2> QED BY <1>0, <2>1, <2>5, CommitPromises
<1> QED BY <1>1, <1>2, <1>3, <1>4, <1>5, <1>6

\* What a step makes of what the store shows.
Onward == /\ IsFiniteSet(disk'.runs)
          /\ \A p \in Pools : Moved(PoolSeen(disk, p), PoolSeen(disk', p))

LEMMA OnwardSame == ASSUME Refining, disk' = disk PROVE Onward
BY DEF Onward, Refining, Moved

\* Start, Stop and Remove.
LEMMA IntentsOnward ==
  ASSUME Refining, pc = "idle", NEW targets, NEW intent \in {"running", "stopped", "deleting"},
         intent # "deleting" => \A p \in targets : Kept(p),
         Saves(WithIntent(targets, intent))
  PROVE  Onward /\ Promised'
<1> DEFINE pools == [p \in DOMAIN mem.pools |->
                       IF p \in targets THEN [mem.pools[p] EXCEPT !.intent = intent]
                                        ELSE mem.pools[p]]
<1>0. /\ mem = disk /\ mem \in States /\ mem.pools \in [DOMAIN mem.pools -> PoolState]
      /\ DOMAIN mem.config.pools = DOMAIN mem.pools
  BY AtRest DEF Refining
<1>1. /\ disk'.pools = pools /\ disk'.config = disk.config /\ disk'.runs = disk.runs /\ pc' = pc
  BY <1>0 DEF Saves, WithIntent, States
<1>2. ASSUME NEW p \in Pools PROVE Moved(PoolSeen(disk, p), PoolSeen(disk', p))
  <2> DEFINE n == Cardinality(Tenanting(disk.runs, p))
             r == PoolSeen(disk, p)
             s == PoolSeen(disk', p)
  <2>1. /\ r = Shown(mem.pools, mem.config.pools, mem.runs, p)
        /\ s = Shown(pools, mem.config.pools, mem.runs, p)
    BY <1>0, <1>1, SeenIsShown
  <2>2. CASE p \notin DOMAIN mem.pools
    BY <2>1, <2>2 DEF Shown, Moved
  <2>3. CASE p \in DOMAIN mem.pools /\ (p \notin targets \/ mem.pools[p].intent = "deleting")
    <3>1. pools[p] = mem.pools[p]
      <4>1. mem.pools[p].intent = "deleting" /\ p \in targets => intent = "deleting"
        BY DEF Kept
      <4>2. mem.pools[p] \in PoolState
        BY <1>0, <2>3
      <4> QED BY <2>3, <4>1, <4>2 DEF PoolState
    <3> QED BY <2>1, <2>3, <3>1 DEF Shown, Moved
  <2>4. CASE p \in DOMAIN mem.pools /\ p \in targets /\ mem.pools[p].intent # "deleting"
    <3>1. /\ mem.pools[p].intent \in {"running", "stopped"} /\ pools[p].intent = intent
          /\ pools[p].gen = mem.pools[p].gen
      BY <1>0, <2>4 DEF PoolState
    <3> HIDE DEF pools
    <3>2. p \in DOMAIN pools
      BY <2>4 DEF pools
    <3>3. s = [r EXCEPT !.intent = intent] /\ s.intent = intent /\ r.intent = mem.pools[p].intent
      BY <2>1, <2>4, <3>1, <3>2 DEF Shown
    <3> HIDE DEF r, s
    <3>4. Outside!Turn(r, s)
      BY <3>1, <3>3 DEF Outside!Turn
    <3> QED BY <3>4 DEF Moved, Outside!Step, r, s
  <2> QED BY <2>2, <2>3, <2>4
<1> QED BY <1>1, <1>2 DEF Onward, Promised, Refining

\* One run more or less.
LEMMA RunsOnward ==
  ASSUME Refining, pc = "idle", pc' = "idle", NEW runs, IsFiniteSet(runs),
         mem' = [mem EXCEPT !.runs = runs], disk' = mem',
         \A p \in Pools :
            \/ Tenanting(runs, p) = Tenanting(mem.runs, p)
            \/ \E run \in Tenanting(mem.runs, p) : Tenanting(runs, p) = Tenanting(mem.runs, p) \ {run}
            \/ \E run : /\ Tenanting(runs, p) = Tenanting(mem.runs, p) \cup {run}
                        /\ p \in DOMAIN mem.pools /\ mem.pools[p].intent = "running"
                        /\ Cardinality(Tenanting(mem.runs, p)) < mem.config.pools[p].replicas
  PROVE  Onward /\ Promised'
<1>0. /\ mem = disk /\ mem \in States /\ DOMAIN mem.config.pools = DOMAIN mem.pools
      /\ Fits(mem.config, mem.pools, mem.runs) /\ IsFiniteSet(mem.runs)
  BY AtRest DEF Refining
<1>1. /\ disk'.pools = mem.pools /\ disk'.config = mem.config /\ disk'.runs = runs
  BY <1>0 DEF States
<1>2. ASSUME NEW p \in Pools PROVE Moved(PoolSeen(disk, p), PoolSeen(disk', p))
  <2> DEFINE n == Cardinality(Tenanting(mem.runs, p))
             m == Cardinality(Tenanting(runs, p))
             r == PoolSeen(disk, p)
             s == PoolSeen(disk', p)
  <2>0. n \in Nat /\ IsFiniteSet(Tenanting(mem.runs, p))
    BY <1>0, TenantsCount
  <2>1. /\ r = Shown(mem.pools, mem.config.pools, mem.runs, p)
        /\ s = Shown(mem.pools, mem.config.pools, runs, p)
    BY <1>0, <1>1, SeenIsShown
  <2>2. CASE Tenanting(runs, p) = Tenanting(mem.runs, p)
    BY <2>1, <2>2 DEF Shown, Moved
  <2>3. ASSUME NEW run \in Tenanting(mem.runs, p),
               Tenanting(runs, p) = Tenanting(mem.runs, p) \ {run}
        PROVE  Moved(r, s)
    <3>1. m = n - 1
      <4> DEFINE T == Tenanting(mem.runs, p)
      <4>1. IsFiniteSet(T) /\ run \in T
        BY <2>0, <2>3
      <4> HIDE DEF T
      <4>2. Cardinality(T \ {run}) = Cardinality(T) - 1
        BY <4>1, FS_RemoveElement
      <4> QED BY <2>3, <4>2 DEF T
    <3>2. n > 0
      BY <1>0, <2>3, TenantsCount
    <3>3. p \in DOMAIN mem.pools
      BY <1>0, <2>3 DEF Fits, Tenanting
    <3> HIDE DEF n, m
    <3>4. r.runs = n /\ s = [r EXCEPT !.runs = n - 1]
      BY <2>1, <3>1, <3>3 DEF Shown, n, m
    <3> HIDE DEF r, s
    <3>5. Outside!Leave(r, s)
      BY <3>2, <3>4 DEF Outside!Leave
    <3> QED BY <3>5 DEF Moved, Outside!Step
  <2>4. ASSUME NEW run, Tenanting(runs, p) = Tenanting(mem.runs, p) \cup {run},
               p \in DOMAIN mem.pools, mem.pools[p].intent = "running",
               n < mem.config.pools[p].replicas
        PROVE  Moved(r, s)
    <3>1. m = n \/ m = n + 1
      BY <2>0, <2>4, FS_AddElement
    <3> HIDE DEF n, m
    <3>2. /\ r.runs = n /\ r.intent = "running" /\ r.replicas = mem.config.pools[p].replicas
          /\ s = [r EXCEPT !.runs = m] /\ (m = n => s = r)
      BY <2>1, <2>4 DEF Shown, n, m
    <3> HIDE DEF r, s
    <3>3. m = n + 1 => Outside!Hire(r, s)
      BY <2>4, <3>2 DEF Outside!Hire
    <3> QED BY <3>1, <3>2, <3>3 DEF Moved, Outside!Step
  <2> QED BY <2>2, <2>3, <2>4
<1> QED BY <1>1, <1>2 DEF Onward, Promised

LEMMA RecordsOnward ==
  ASSUME Refining, RecordsRun
  PROVE  Onward /\ Promised'
<1> DEFINE run == [pool |-> pass.pool, auth |-> pass.settings.auth,
                   image |-> pass.settings.image, gen |-> pass.ps.gen]
           runs == mem.runs \cup {run}
<1>1. /\ pc = "idle" /\ pc' = "idle" /\ mem' = [mem EXCEPT !.runs = runs] /\ disk' = mem'
      /\ pass.ps.intent = "running" /\ run.pool = pass.pool
      /\ Cardinality(RunsOf(pass.pool)) < pass.settings.replicas
  BY AtRest DEF RecordsRun, Saves, Refining, States
<1>2. /\ pass.pool \in DOMAIN mem.pools /\ pass.settings = mem.config.pools[pass.pool]
      /\ pass.ps = mem.pools[pass.pool]
  BY DEF RecordsRun, Refining, IInv, Tenants
<1>3. IsFiniteSet(runs)
  BY <1>1, AtRest, FS_AddElement DEF Refining
<1> HIDE DEF run
<1>4. RunsOf(pass.pool) = Tenanting(mem.runs, pass.pool)
  BY DEF RunsOf, Tenanting
<1>5. \A p \in Pools :
         \/ p # pass.pool /\ Tenanting(runs, p) = Tenanting(mem.runs, p)
         \/ p = pass.pool /\ Tenanting(runs, p) = Tenanting(mem.runs, p) \cup {run}
  BY <1>1 DEF Tenanting
<1> HIDE DEF runs
<1> QED BY <1>1, <1>2, <1>3, <1>4, <1>5, RunsOnward

LEMMA ForgetsOnward ==
  ASSUME Refining, NEW run \in mem.runs, ForgetsRun(run)
  PROVE  Onward /\ Promised'
<1> DEFINE runs == mem.runs \ {run}
<1>1. pc = "idle" /\ pc' = "idle" /\ mem' = [mem EXCEPT !.runs = runs] /\ disk' = mem'
  BY DEF ForgetsRun
<1>2. IsFiniteSet(runs)
  BY <1>1, AtRest, FS_RemoveElement DEF Refining
<1>3. \A p \in Pools : \/ run.pool # p /\ Tenanting(runs, p) = Tenanting(mem.runs, p)
                       \/ /\ run \in Tenanting(mem.runs, p)
                          /\ Tenanting(runs, p) = Tenanting(mem.runs, p) \ {run}
  BY DEF Tenanting
<1> HIDE DEF runs
<1> QED BY <1>1, <1>2, <1>3, RunsOnward

\* The store takes the step that was promised.
LEMMA StoredOnward ==
  ASSUME Refining, Stored
  PROVE  Onward /\ Promised'
<1>1. /\ disk'.pools = mem.pools /\ disk'.config = task.config /\ disk'.runs = disk.runs
      /\ pc = "save" /\ pc' = "write"
  BY CommittedIsState DEF Stored, Refining, IInv, Together
<1>2. \A p \in Pools : PoolSeen(disk', p) = Shown(mem.pools, task.config.pools, disk.runs, p)
  BY <1>1, SeenIsShown
<1> QED BY <1>1, <1>2 DEF Onward, Promised, Refining

LEMMA StepOnward ==
  ASSUME Refining, [Next]_vars
  PROVE  Onward /\ Promised'
<1>a. ASSUME disk' = disk, pc' # "save" \/ UNCHANGED <<pc, mem, task>> PROVE Onward /\ Promised'
  BY <1>a, OnwardSame DEF Promised, Refining
<1>1. CASE Requested
  <2>1. CASE Start \/ Stop \/ \E p \in Pools : Remove(p)
    BY <2>1, IntentsOnward DEF Start, Stop, Remove
  <2>2. CASE ApplyFails
    BY <2>2, <1>a DEF ApplyFails
  <2> QED BY <1>1, <2>1, <2>2, CommitsPromise, OnwardSame DEF Requested
<1>2. CASE Passed
  <2>1. CASE \E p \in Pools : PassBegins(p)
    BY <2>1, <1>a DEF PassBegins
  <2>2. CASE PassEnds
    BY <2>2, <1>a DEF PassEnds
  <2> QED BY <1>2, <2>1, <2>2, RecordsOnward, ForgetsOnward, CommitsPromise, OnwardSame DEF Passed
<1>3. CASE Written \/ Fails \/ Crash \/ Restart
  BY <1>3, <1>a DEF Written, Fails, Crash, Restart
<1>4. CASE Operated
  BY <1>4, <1>a DEF Operated, Edit, AskRevision, ReadFile
<1>5. CASE UNCHANGED vars
  BY <1>5, <1>a DEF vars
<1> QED BY <1>1, <1>2, <1>3, <1>4, <1>5, StoredOnward DEF Next

LEMMA StepRefines ==
  ASSUME Refining, IInv', [Next]_vars
  PROVE  Refining' /\ [Outside!Next]_([p \in Pools |-> PoolSeen(disk, p)])
<1> DEFINE life == [p \in Pools |-> PoolSeen(disk, p)]
           next == [p \in Pools |-> PoolSeen(disk', p)]
<1>1. Onward /\ Refining'
  BY StepOnward DEF Refining, Onward
<1>2. ASSUME NEW p \in Pools PROVE PoolSeen(disk', p) \in Outside!Lives
  BY <1>1, SeenType DEF Onward, IInv, TypeOK, Together
<1>3. next \in [Pools -> Outside!Lives]
      /\ \A p \in Pools : next[p] = life[p] \/ Outside!Step(life[p], next[p])
  BY <1>1, <1>2 DEF Onward, Moved
<1>4. life' = next
  OBVIOUS
<1> QED BY <1>1, <1>3, <1>4 DEF Outside!Next

LEMMA InitRefines ==
  ASSUME Init
  PROVE  Refining /\ Outside!Init
<1>1. /\ IInv /\ disk = NewState(file) /\ disk.runs = {} /\ pc = "idle"
  BY InitHolds DEF Init, NewState
<1>2. IsFiniteSet(disk.runs) /\ disk \in States /\ SamePools(disk)
  BY <1>1, FS_EmptySet DEF IInv, TypeOK, Together
<1>3. ASSUME NEW p \in Pools
      PROVE  \/ PoolSeen(disk, p) = Outside!Unborn
             \/ /\ PoolSeen(disk, p) \in Outside!Lives
                /\ Outside!Add(Outside!Unborn, PoolSeen(disk, p))
  <2> DEFINE s == PoolSeen(disk, p)
  <2>1. Cardinality(Tenanting(disk.runs, p)) = 0
    BY <1>1, FS_EmptySet DEF Tenanting
  <2>2. CASE p \notin DOMAIN disk.pools
    BY <2>2 DEF PoolSeen, Outside!Unborn
  <2>3. CASE p \in DOMAIN disk.pools
    <3>1. disk.pools[p] = NewPool
      BY <1>1, <2>3 DEF NewState
    <3>2. s = [intent |-> "stopped", gen |-> 1, replicas |-> disk.config.pools[p].replicas,
               runs |-> 0]
      BY <2>1, <2>3, <3>1, SeenIsShown DEF Shown, NewPool
    <3>3. s.replicas = disk.config.pools[p].replicas /\ s \in Outside!Lives
      BY <1>2, <3>2, SeenType
    <3> HIDE DEF s
    <3> QED BY <3>2, <3>3 DEF Outside!Add, s
  <2> QED BY <2>2, <2>3
<1> QED BY <1>1, <1>2, <1>3 DEF Refining, Promised, Outside!Init

\* The store implements module PoolLife: one write of it is one step of a
\* pool's life, whatever failure, crash or edit of the file comes between the
\* writes of a commit (manager.rs:110, 194).
THEOREM CommitsRefinePools == Spec => PoolsLiveAsPromised
<1>1. Init => Refining /\ Outside!Init
  BY InitRefines
<1>2. Refining /\ IInv' /\ [Next]_vars
      => Refining' /\ [Outside!Next]_([p \in Pools |-> PoolSeen(disk, p)])
  BY StepRefines
<1> QED BY <1>1, <1>2, Invariant, PTL DEF Spec, PoolsLiveAsPromised, Outside!Spec
=============================================================================
