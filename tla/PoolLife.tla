------------------------------ MODULE PoolLife ------------------------------
(***************************************************************************)
(* What the manager promises of every pool, whoever edits, interrupts or   *)
(* restarts it: its record changes by one request at a time, only a        *)
(* running pool that is short of runners gets a new one, a deletion is     *)
(* never taken back, and the pool goes only after the last of its runs.    *)
(*                                                                         *)
(* Module Engine implements this with requests and passes that interrupt   *)
(* each other, ConfigCommit with commits that fail between two writes.     *)
(***************************************************************************)
EXTENDS Naturals

CONSTANT Pools

VARIABLE life   \* of each pool: what the store holds for it

Lives == [intent : {"absent", "stopped", "running", "deleting"},
          gen : Nat,       \* its generation
          replicas : Nat,  \* the runners it should have
          runs : Nat]      \* the runs recorded for it

Unborn == [intent |-> "absent", gen |-> 0, replicas |-> 0, runs |-> 0]

\* One step of one pool, from r to s.
Add(r, s) ==
  r = Unborn /\ s = [intent |-> "stopped", gen |-> 1, replicas |-> s.replicas, runs |-> 0]

Init == \A p \in Pools : life[p] = Unborn \/ (life[p] \in Lives /\ Add(Unborn, life[p]))

\* Start, stop and remove.
Turn(r, s) ==
  /\ r.intent \in {"stopped", "running"} /\ s.intent # "absent"
  /\ s = [r EXCEPT !.intent = s.intent]

\* Scale, upgrade and apply.  A generation is never skipped or taken back.
Configure(r, s) ==
  /\ r.intent \in {"stopped", "running"} /\ s.gen \in {r.gen, r.gen + 1}
  /\ s.intent = r.intent /\ s.runs = r.runs

Hire(r, s) == r.intent = "running" /\ r.runs < r.replicas /\ s = [r EXCEPT !.runs = @ + 1]

Leave(r, s) == r.runs > 0 /\ s = [r EXCEPT !.runs = @ - 1]

Vanish(r, s) == r.intent = "deleting" /\ r.runs = 0 /\ s = Unborn

Step(r, s) ==
  Add(r, s) \/ Turn(r, s) \/ Configure(r, s) \/ Hire(r, s) \/ Leave(r, s) \/ Vanish(r, s)

\* A request for all pools, or an apply, may be a step of several pools.
Next ==
  /\ life' \in [Pools -> Lives]
  /\ \A p \in Pools : life'[p] = life[p] \/ Step(life[p], life'[p])

Spec == Init /\ [][Next]_life
=============================================================================
