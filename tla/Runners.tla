------------------------------ MODULE Runners ------------------------------
(***************************************************************************)
(* What the engine promises of every runner, whoever interrupts, repeats   *)
(* or restarts it: its container is created once and runs under a record,  *)
(* only force ends its work, its log is archived before its container is   *)
(* removed, and its record outlives its container and its registration.    *)
(*                                                                         *)
(* Module Engine implements this with requests, reconciliation passes and  *)
(* commands whose answers are lost, late or void.                          *)
(***************************************************************************)
CONSTANT RunIds

VARIABLE life   \* of each run: what the store, Docker and GitHub hold for it

Lives == [record : {"none", "serving", "draining", "forced"},
          box : {"none", "created", "running", "exited"},   \* its container
          ran : BOOLEAN,      \* the container has been started
          saved : BOOLEAN,    \* its log is archived
          worker : BOOLEAN]   \* it is registered at GitHub

Unborn == [record |-> "none", box |-> "none", ran |-> FALSE, saved |-> FALSE, worker |-> FALSE]

Init == life = [i \in RunIds |-> Unborn]

\* One step of one run, from r to s.
Record(r, s) == r = Unborn /\ s = [r EXCEPT !.record = "serving"]

Drain(r, s) == r.record = "serving" /\ s = [r EXCEPT !.record = "draining"]

Force(r, s) == r.record \in {"serving", "draining"} /\ s = [r EXCEPT !.record = "forced"]

\* Also after its record is gone: a create that was asked for before.
Create(r, s) == r.box = "none" /\ ~r.ran /\ s = [r EXCEPT !.box = "created"]

StartBox(r, s) ==
  r.record # "none" /\ r.box \in {"created", "exited"} /\ s = [r EXCEPT !.box = "running", !.ran = TRUE]

Register(r, s) == r.box = "running" /\ s = [r EXCEPT !.worker = TRUE]

Unregister(r, s) == s = [r EXCEPT !.worker = FALSE]

ExitBox(r, s) == r.box = "running" /\ s = [r EXCEPT !.box = "exited"]

Archive(r, s) == r.record # "none" /\ s = [r EXCEPT !.saved = TRUE]

RemoveBox(r, s) ==
  /\ r.box # "none" /\ r.saved /\ (r.box = "running" => r.record = "forced")
  /\ s = [r EXCEPT !.box = "none"]

\* The registration goes with the record, if it has not gone before.
Forget(r, s) ==
  /\ r.box = "none" \/ (r.box = "created" /\ ~r.ran)
  /\ s = [Unborn EXCEPT !.box = r.box]

Step(r, s) ==
  \/ Record(r, s) \/ Drain(r, s) \/ Force(r, s)
  \/ Create(r, s) \/ StartBox(r, s) \/ ExitBox(r, s) \/ RemoveBox(r, s)
  \/ Register(r, s) \/ Unregister(r, s) \/ Archive(r, s) \/ Forget(r, s)

\* A request, or a reboot of the host, may be a step of several runs.
Next ==
  /\ life' \in [RunIds -> Lives]
  /\ \A i \in RunIds : life'[i] = life[i] \/ Step(life[i], life'[i])

Spec == Init /\ [][Next]_life
=============================================================================
