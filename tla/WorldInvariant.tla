--------------------------- MODULE WorldInvariant ---------------------------
(***************************************************************************)
(* The inductive invariant behind the theorems of WorldProofs: what Docker *)
(* and GitHub hold for each run of Engine, while the answers of a pass are *)
(* lost, commands land late and the host reboots, and what a pass may rely *)
(* on of the listing it took at its start.                                 *)
(***************************************************************************)
EXTENDS EngineInvariant

\* No container of run i runs, or ever will without a new start.
Gone(i) == docker[i] \in {"none", "created"} /\ late[i] # "start"

\* What exists for a run nobody remembers is a container that never started:
\* a create that was carried out late.
Containers ==
  \A i \in RunIds :
    /\ i \notin Recorded(mem) => Gone(i) /\ i \notin registered
    /\ late[i] = "start" => docker[i] = "created"
    /\ late[i] = "create" => docker[i] \in {"none", "created"}
    /\ docker[i] = "created" \/ late[i] = "create" => startEra[i] = 0
    /\ docker[i] = "none" /\ startEra[i] # 0 => mem.run[i].phase = "cleanup"

\* The listing and the containers: only this pass takes one away.
SeenGone(i) == pass.snap[i] = "none" => Gone(i)
SeenThere(i) == pass.snap[i] # "none" => docker[i] # "none"
Listing ==
  /\ pc \in Forcing =>
       \A i \in RunsOf(mem, pass.pool) : SeenGone(i) /\ (SeenThere(i) \/ mem.run[i].force)
  /\ pc = "remotes" => \A i \in RunsOf(mem, pass.pool) : SeenGone(i) /\ SeenThere(i)
  /\ pc \in Looping => \A i \in pass.todo : SeenGone(i) /\ SeenThere(i)

\* What the command in flight was issued for still holds, also when requests
\* were accepted since.
Removing == {"archive", "remove", "forceArchive", "forceRemove"}
InFlightHeld ==
  LET i == pass.cur
  IN  /\ pc \in Holding => i \in Recorded(mem)
      /\ pc = "force" => \A j \in pass.todo : mem.run[j].force
      /\ pc \in {"forceArchive", "forceRemove"} =>
           mem.run[i].force /\ \A j \in pass.todo : mem.run[j].force
      /\ pc \in Removing => mem.run[i].phase = "cleanup" /\ pass.clone[i].phase = "cleanup"
      /\ pc \in {"remove", "forceRemove"} => mem.run[i].logSaved
      /\ pc \in {"fresh", "unregister", "repair"} => Gone(i)
      /\ pc = "repair" => i \notin registered
      /\ pc = "prepare" => pass.snap[i] \in {"none", "created"}
      /\ pc = "create" => pass.snap[i] = "none"
      /\ pc \in {"prepare", "create"} /\ pass.snap[i] = "none" => Gone(i) /\ startEra[i] = 0

\* Nothing is started for a pool that backs off or a run that is outdated.
Current(i) == ~mem.run[i].retiring => mem.run[i].gen = mem.pool[pass.pool].gen
StartsHeld ==
  /\ pass.allow /\ ~pass.moved /\ pc \notin {"idle", "down"} =>
       mem.pool[pass.pool].backoff = "none"
  /\ pc \in {"prepare", "image"} => pass.allow
  /\ pc \in Looping /\ ~pass.moved => \A i \in RunsOf(mem, pass.pool) : Current(i)
  /\ pc \in {"prepare", "create", "start"} /\ ~pass.moved =>
       mem.run[pass.cur].pool = pass.pool /\ ~mem.run[pass.cur].retiring

\* A clone knows whether the log was archived: writing it back never loses that.
Notes == \A i \in Cloned : pass.clone[i].logSaved = mem.run[i].logSaved

World == Containers /\ Listing /\ InFlightHeld /\ StartsHeld
-----------------------------------------------------------------------------
(* What a pass may conclude of a run whose container is gone.              *)

\* Such a run did not complete a job and has no way left to: its container
\* ended and nothing brings it back.
Ended(i) == i \notin marker /\ docker[i] \in {"none", "exited"} /\ late[i] # "create"

\* The store says that run i is cleaned up and that its exit is unexpected.
Doubted(i) == disk.run[i].phase = "cleanup" /\ Unexpected(disk.run[i])
Judged == \A i \in RunIds : Doubted(i) => Ended(i)

\* What the listing tells of a container that was started, or not yet.
Sighted(i) ==
  /\ pass.snap[i] = "exited" => startEra[i] # 0 /\ docker[i] \in {"none", "exited"}
  /\ pass.snap[i] = "created" => ~Doubted(i)
Sightings ==
  /\ pc \in Forcing \cup {"remotes"} => \A i \in RunsOf(mem, pass.pool) : Sighted(i)
  /\ pc \in Looping => \A i \in pass.todo : Sighted(i)

\* The clone in hand, whose exit FinishRun will judge.
HandJudged ==
  LET i == pass.cur
  IN  /\ pc \in {"boot", "archive", "remove"} =>
           (Unexpected(pass.clone[i]) => Ended(i))
      /\ pc \in {"fresh", "unregister", "repair"} =>
           (i \in marker => ~Unexpected(pass.clone[i]))
      /\ pc \in {"prepare", "create", "start"} => ~Doubted(i)

\* A container that ran, or a job that completed, leaves the boot it ran in.
Marked == \A i \in RunIds : i \in marker \/ docker[i] \in {"running", "exited"} => startEra[i] # 0

\* A run whose exit was reported is forgotten, with its directory.
Reported == \A i \in pass.exits : i \notin Recorded(mem) /\ i \notin marker

Verdicts ==
  /\ Judged /\ Sightings /\ HandJudged /\ Marked /\ Reported /\ hostBoot # 0
=============================================================================
