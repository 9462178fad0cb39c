------------------------------- MODULE Waiter -------------------------------
(***************************************************************************)
(* `stop --wait' and `pool remove --wait' of src/src/main.rs beside the    *)
(* engine of module Engine: the command line sends its request and then    *)
(* asks for the status once a second until nothing is left of the pools.   *)
(*                                                                         *)
(* Without a manager the command line is an engine of its own, and then it *)
(* does not wait; such a request is an ordinary one of Engine.             *)
(***************************************************************************)
EXTENDS Engine

VARIABLE waiter   \* the invocation that waits: run and wait_for_cleanup

wvars == <<vars, waiter>>

\* `named': the pools of --all are known and the request is not sent yet.
WaiterRec == [at : {"off", "named", "waiting", "complete"},
              targets : SUBSET Pools,   \* the pools it waits for
              removed : BOOLEAN,        \* they are to disappear
              asked : SUBSET RunIds]    \* history: their runs when the request was handled

NoWaiter == [at |-> "off", targets |-> {}, removed |-> FALSE, asked |-> {}]

Managed == Accepting /\ pc # "down"

\* The engine and everything around it go on.  An id that is recorded again
\* is another run.
Goes ==
  /\ Next
  /\ waiter' = [waiter EXCEPT !.asked = @ \ (Recorded(disk') \ Recorded(disk))]

\* stop --all: the status before the request names the pools.
NamesPools ==
  /\ "stop" \in Commands /\ Accepting /\ waiter.at = "off"
  /\ waiter' = [waiter EXCEPT !.at = "named", !.targets = Existing(mem)]
  /\ UNCHANGED vars

WaitsFor(P, removed) ==
  /\ Managed
  /\ waiter' = [at |-> "waiting", targets |-> P, removed |-> removed,
                asked |-> UNION {RunsOf(mem, p) : p \in P}]

StopAndWait(force) ==
  \/ waiter.at = "off" /\ \E p \in Existing(mem) : Stop({p}, force) /\ WaitsFor({p}, FALSE)
  \/ waiter.at = "named" /\ Stop(Existing(mem), force) /\ WaitsFor(waiter.targets, FALSE)

RemoveAndWait(p, force) ==
  waiter.at = "off" /\ Remove(p, force) /\ WaitsFor({p}, TRUE)

\* Mutant: the runners that drain are not active any more.
CleanIfDrained(p) == p \in Existing(mem) => \A i \in RunsOf(mem, p) : mem.run[i].retiring

\* What the status says of the pool: it is not there, or has no runs.
Clean(p) == p \in Existing(mem) => ~waiter.removed /\ RunsOf(mem, p) = {}

\* A status without the pools' runs ends the wait; with any, it is asked again.
Completes ==
  /\ waiter.at = "waiting" /\ Managed
  /\ \A p \in waiter.targets : Clean(p)
  /\ waiter' = [NoWaiter EXCEPT !.at = "complete", !.asked = waiter.asked]
  /\ UNCHANGED vars

\* The deadline, ctrl-c, a status without a manager, a request that failed.
GivesUp ==
  /\ waiter.at \in {"named", "waiting"}
  /\ waiter' = NoWaiter
  /\ UNCHANGED vars

Waits ==
  \/ NamesPools \/ Completes \/ GivesUp
  \/ \E force \in Forces : \/ StopAndWait(force)
                           \/ \E p \in Pools : RemoveAndWait(p, force)

WaiterInit == Init /\ waiter = NoWaiter
WaiterNext == Goes \/ Waits
WaiterSpec == WaiterInit /\ [][WaiterNext]_wvars

-----------------------------------------------------------------------------
\* docs/operations.md:33: what `Cleanup complete.' says stays true, whatever
\* crashes, lands late or is started again afterwards: nothing of the runs
\* that the request was about is left in the store, in Docker or at GitHub.
CleanupIsComplete ==
  waiter.at = "complete" =>
    \A i \in waiter.asked :
      /\ i \notin Recorded(mem) /\ i \notin Recorded(disk)
      /\ docker[i] # "running" /\ i \notin registered
=============================================================================
