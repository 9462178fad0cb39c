---------------------------- MODULE WaiterProofs ----------------------------
(***************************************************************************)
(* What the command line reports of a clean-up it waited for is true, for  *)
(* every set of pools and runs, and stays true.                            *)
(***************************************************************************)
EXTENDS WorldProofs, Waiter

\* The runs asked about that are still recorded belong to the pools waited for.
Waiting ==
  /\ waiter \in WaiterRec
  /\ waiter.at = "waiting" =>
       \A i \in waiter.asked \cap Recorded(mem) : mem.run[i].pool \in waiter.targets
  /\ waiter.at = "complete" => waiter.asked \cap Recorded(mem) = {}

\* Waiting is nothing to the engine: its requests are the ordinary ones.
LEMMA EngineGoesOn ==
  ASSUME [WaiterNext]_wvars
  PROVE  [Next]_vars
<1>1. ASSUME NEW force \in Forces, NEW P \in Targets, Stop(P, force) PROVE Next
  BY <1>1 DEF Next, Request
<1>2. ASSUME NEW force \in Forces, NEW p \in Pools, Remove(p, force) PROVE Next
  BY <1>2 DEF Next, Request
<1>3. Existing(mem) \in Targets /\ \A p \in Existing(mem) : {p} \in Targets
  BY DEF Targets
<1>4. Goes => Next
  BY DEF Goes
<1>5. NamesPools \/ Completes \/ GivesUp => UNCHANGED vars
  BY DEF NamesPools, Completes, GivesUp
<1>6. UNCHANGED wvars => UNCHANGED vars
  BY DEF wvars
<1> QED BY <1>1, <1>2, <1>3, <1>4, <1>5, <1>6
        DEF WaiterNext, Waits, StopAndWait, RemoveAndWait

\* A recorded run was recorded before, for the same pool, or is a new one.
LEMMA RunsStay ==
  ASSUME TInv, TInv', Accord, Accord', [Next]_vars, NEW i \in Recorded(mem')
  PROVE  \/ i \in Recorded(disk') \ Recorded(disk)
         \/ i \in Recorded(mem) /\ mem'.run[i].pool = mem.run[i].pool
<1>1. Recorded(disk) = Recorded(mem)
  BY LikeDisk, LikeSame DEF TInv, TypeOK, Accord
<1>2. Recorded(disk') = Recorded(mem')
  <2>1. TypeOK' /\ Synced'
    BY DEF TInv, Accord
  <2>2. Like(mem', disk')
    BY <2>1, LikeObserved DEF TypeOK, Synced
  <2> QED BY <2>1, <2>2, LikeSame DEF TypeOK
<1>3. Forward(mem, mem')
  BY StepGood DEF Good
<1> QED BY <1>1, <1>2, <1>3 DEF Forward

LEMMA WaitingStarts ==
  ASSUME TInv, TInv', Accord, Accord', [Next]_vars,
         NEW P \in SUBSET Pools, NEW removed \in BOOLEAN, WaitsFor(P, removed)
  PROVE  Waiting'
<1>1. /\ waiter'.at = "waiting" /\ waiter'.targets = P /\ waiter'.removed = removed
      /\ waiter'.asked = UNION {RunsOf(mem, p) : p \in P}
      /\ waiter' = [at |-> waiter'.at, targets |-> waiter'.targets,
                    removed |-> waiter'.removed, asked |-> waiter'.asked]
  BY DEF WaitsFor
<1>2. waiter'.asked \subseteq RunIds
  BY <1>1 DEF RunsOf, Recorded
<1>3. waiter' \in WaiterRec
  BY <1>1, <1>2 DEF WaiterRec
<1>4. ASSUME NEW i \in waiter'.asked \cap Recorded(mem') PROVE mem'.run[i].pool \in waiter'.targets
  <2>1. i \in Recorded(mem) /\ mem.run[i].pool \in P
    BY <1>1, <1>4 DEF RunsOf
  <2>2. Forward(mem, mem')
    BY StepGood DEF Good
  <2> QED BY <1>1, <1>4, <2>1, <2>2 DEF Forward
<1> QED BY <1>1, <1>3, <1>4 DEF Waiting

LEMMA WaitingCompletes ==
  ASSUME TInv, Accord, Waiting, Completes
  PROVE  Waiting'
<1>1. /\ waiter' = [at |-> "complete", targets |-> {}, removed |-> FALSE, asked |-> waiter.asked]
      /\ waiter.at = "waiting" /\ mem' = mem
  BY DEF Completes, NoWaiter, vars
<1>2. waiter' \in WaiterRec
  BY <1>1 DEF Waiting, WaiterRec
<1>3. ASSUME NEW i \in waiter.asked \cap Recorded(mem) PROVE FALSE
  <2>1. mem.run[i].pool \in waiter.targets /\ mem.run[i].pool \in Existing(mem)
    BY <1>1 DEF Waiting, Accord, Sound, Housed
  <2>2. RunsOf(mem, mem.run[i].pool) = {}
    BY <2>1 DEF Completes, Clean
  <2> QED BY <2>2 DEF RunsOf
<1> QED BY <1>1, <1>2, <1>3 DEF Waiting, Recorded

LEMMA WaitingStep ==
  ASSUME TInv, TInv', Accord, Accord', Waiting, [WaiterNext]_wvars
  PROVE  Waiting'
<1>0. [Next]_vars
  BY EngineGoesOn
<1>1. CASE Goes
  <2>1. /\ waiter'.at = waiter.at /\ waiter'.targets = waiter.targets
        /\ waiter'.asked = waiter.asked \ (Recorded(disk') \ Recorded(disk))
        /\ waiter' \in WaiterRec
    BY <1>1 DEF Goes, Waiting, WaiterRec
  <2>2. ASSUME NEW i \in waiter'.asked \cap Recorded(mem')
        PROVE  i \in waiter.asked \cap Recorded(mem) /\ mem'.run[i].pool = mem.run[i].pool
    BY <1>0, <2>1, RunsStay
  <2> QED BY <2>1, <2>2 DEF Waiting
<1>2. ASSUME NEW force \in Forces, StopAndWait(force) PROVE Waiting'
  <2>1. Existing(mem) \subseteq Pools /\ waiter.targets \subseteq Pools
    BY DEF Existing, Waiting, WaiterRec
  <2> QED BY <1>0, <1>2, <2>1, WaitingStarts DEF StopAndWait
<1>3. ASSUME NEW force \in Forces, NEW p \in Pools, RemoveAndWait(p, force) PROVE Waiting'
  BY <1>0, <1>3, WaitingStarts DEF RemoveAndWait
<1>4. CASE NamesPools
  <2>1. /\ waiter'.at = "named" /\ waiter' \in WaiterRec
    BY <1>4 DEF NamesPools, Waiting, WaiterRec, Existing
  <2> QED BY <2>1 DEF Waiting
<1>5. CASE GivesUp
  BY <1>5 DEF GivesUp, Waiting, NoWaiter, WaiterRec
<1>6. CASE UNCHANGED wvars
  BY <1>6 DEF wvars, vars, Waiting, Recorded
<1> QED BY <1>1, <1>2, <1>3, <1>4, <1>5, <1>6, WaitingCompletes DEF WaiterNext, Waits

\* What `Cleanup complete.' says of the runs of a stopped or removed pool is
\* true and stays true (wait_for_cleanup, main.rs:589; docs/operations.md:33).
THEOREM CleanupsAreComplete == WaiterSpec => []CleanupIsComplete
<1>1. WaiterSpec => Spec
  <2>1. WaiterInit => Init
    BY DEF WaiterInit
  <2>2. [WaiterNext]_wvars => [Next]_vars
    BY EngineGoesOn
  <2> QED BY <2>1, <2>2, PTL DEF WaiterSpec, Spec
<1>2. WaiterInit => Waiting
  BY DEF WaiterInit, NoWaiter, Waiting, WaiterRec
<1>3. TInv /\ Accord /\ (TInv /\ Accord)' /\ Waiting /\ [WaiterNext]_wvars => Waiting'
  BY WaitingStep
<1>4. TInv /\ Accord /\ World /\ Waiting => CleanupIsComplete
  <2> SUFFICES ASSUME TInv, Accord, World, Waiting, waiter.at = "complete",
                      NEW i \in waiter.asked
               PROVE  /\ i \notin Recorded(mem) /\ i \notin Recorded(disk)
                      /\ docker[i] # "running" /\ i \notin registered
    BY DEF CleanupIsComplete
  <2>1. i \in RunIds /\ i \notin Recorded(mem)
    BY DEF Waiting, WaiterRec
  <2>2. Recorded(disk) = Recorded(mem)
    BY LikeDisk, LikeSame DEF TInv, TypeOK, Accord
  <2>3. Gone(i) /\ i \notin registered
    BY <2>1 DEF World, Containers
  <2> QED BY <2>1, <2>2, <2>3 DEF Gone
<1> QED BY <1>1, <1>2, <1>3, <1>4, WorldHolds, PTL DEF WaiterSpec
=============================================================================
