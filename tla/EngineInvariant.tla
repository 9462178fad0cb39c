-------------------------- MODULE EngineInvariant --------------------------
(***************************************************************************)
(* The inductive invariant behind the theorems of EngineProofs: what the   *)
(* store holds of the memory, and what the locals of a pass still say of   *)
(* the state while requests are accepted between its commands.             *)
(***************************************************************************)
EXTENDS Engine

\* The store and the memory differ in the observed phase of runs at most.
Synced ==
  /\ pc \in {"idle", "down"} => mem = disk
  /\ mem.pool = disk.pool
  /\ \A i \in RunIds :
       \/ mem.run[i] = disk.run[i]
       \/ i \in Recorded(disk) /\ mem.run[i] = [disk.run[i] EXCEPT !.phase = "live"]

\* Every run has a pool, drains if its pool does, and fits in max_runners.
Housed(s) == \A i \in Recorded(s) : s.run[i].pool \in Existing(s)
Draining(s) ==
  \A i \in Recorded(s) :
     LET ps == s.pool[s.run[i].pool]
     IN  (~ps.running \/ ps.deleting) => s.run[i].retiring
Fits(s) == Cardinality(Recorded(s)) <= MaxRunners
Sound(s) == Housed(s) /\ Draining(s) /\ Fits(s)

\* The pool the pass read at its start is still the one in memory.
PoolHeld ==
  pc \notin {"idle", "down"} =>
    /\ pass.pool \in Existing(mem)
    /\ ~pass.moved => mem.pool[pass.pool] = [pass.ps EXCEPT !.backoff = mem.pool[pass.pool].backoff]

\* The runs the loop still has to visit are recorded, and not the one in hand.
Looping == Collected \cup {"visit", "boot", "prepare", "create", "start"}
TodoHeld ==
  pc \in Looping =>
    /\ pass.todo \subseteq RunsOf(mem, pass.pool)
    /\ pc # "visit" => pass.cur \notin pass.todo

\* A clone agrees with the record it will be written back to, unless a request
\* came in between: then it is never written back.
Agrees(r, run) ==
  /\ run.phase # "none" /\ r.pool = run.pool /\ r.gen = run.gen
  /\ r.retiring = run.retiring /\ r.force = run.force
Cloned == {i \in RunIds : pass.clone[i].phase # "none"}
Forcing == {"force", "forceArchive", "forceRemove"}
Holding == Collected \cup {"boot", "forceArchive", "forceRemove", "prepare", "create", "start"}
ClonesHeld ==
  /\ ~pass.moved => \A i \in Cloned : Agrees(pass.clone[i], mem.run[i])
  /\ pc \in Holding => pass.cur \in Cloned
  /\ pc = "force" => ~pass.moved /\ Cloned = pass.todo
  /\ pc \in Forcing \ {"force"} => Cloned = pass.todo \cup {pass.cur} /\ pass.cur \notin pass.todo
  /\ pc \in {"relist", "remotes"} => Cloned = {}

\* A new run still has room, and its pool is still short of runners.
RoomHeld ==
  pc = "image" =>
    /\ Cardinality(Recorded(mem)) < MaxRunners
    /\ ~pass.moved => Cardinality(RunsOf(mem, pass.pool)) < Wanted(pass.ps)

\* manager.rs:160: what an answer is applied to is what the command was issued
\* for, although `external' accepts requests while the command is in flight.
Accord == Synced /\ Sound(mem) /\ PoolHeld /\ TodoHeld /\ ClonesHeld /\ RoomHeld

-----------------------------------------------------------------------------
(* What mark_retiring is for: runs that a pool has no use for drain.       *)

\* Pool p has no more runs that take new work than it wants.
Trim(s, p) == Cardinality(Serving(s, p)) <= Wanted(s.pool[p])

\* From the marking to the end of the loop the pass works on a pool that has
\* no runner too many, unless a request came in between.
Trimmed == pc \in Looping \cup {"image"} /\ ~pass.moved => Trim(mem, pass.pool)

\* commit_config changes the record of pool p and no run is marked after it, as
\* when config.toml cannot be written.
Unmarked(p) ==
  /\ mem'.run = mem.run
  /\ \/ Upgrade(p) \/ \E n \in 0 .. MaxRunners : Scale(p, n)
     \/ \E replicas \in [Pools -> 0 .. MaxRunners],
           added \in SUBSET (Pools \ Existing(mem)),
           changed \in SUBSET Existing(mem) : Apply(replicas, added, changed)

\* manager.rs:114, 265, 283, 383: a pool gets more runs that take work than it
\* wants in one way only: a request commits a new configuration and fails
\* before the runs are marked. No pass, no other request, no crash and nothing
\* around the engine does it.
SurplusIsUnmarked ==
  [][\A p \in Pools : Trim(mem, p) => Trim(mem', p) \/ Unmarked(p)]_vars
=============================================================================
