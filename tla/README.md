# A verification project for runnerctl

runnerctl keeps pools of ephemeral GitHub Actions runners on one Docker host.
This directory holds TLA+ modules that model its manager, the way of a request
to it, its configuration and its GitHub client, the TLC configurations that check them on small instances, and proofs,
checked by TLAPS, of theorems about them for every size. Paths below are those
of the repository; line numbers are those of the commit modelled.

    tlc  -workers 2 -config MCEngine_requests.cfg MCEngine.tla
    tlapm WorldProofs.tla

`PROJECT.json` lists the runs, the lines each definition stands for, the
mutants that each property is known to reject, the hazards and the findings.

## 1. The system

| Part | State | Operations | Interacts with |
| --- | --- | --- | --- |
| Engine, requests (`src/manager.rs` 130-394) | `State`: pools, runs, configuration, revision; `epoch` | add, start, stop, scale, upgrade, remove, auth, apply, status | saves to the store, clears the GitHub client, interrupts the pass |
| Engine, reconciliation pass (`src/manager.rs` 424-798) | locals of `tick` and `reconcile`; `boot_time` | one pass over one pool per second: list, force, retire, visit each run, delete the pool, record one new run | Docker and GitHub through `external`, which accepts requests while a command is in flight |
| Store (`src/state.rs`) | one SQLite row | load, save | the only thing that survives the manager |
| Docker adapter (`src/docker.rs`) | none; containers with labels on the daemon's side | list, create, start, rm, rm --force, logs, cp, boot time | kills its client after 30 s; the daemon may go on |
| GitHub client (`src/github.rs`) | `Cache`: lists, blocks, installation tokens, generation | list, token, remove, clear | shared by the pass and all Doctor connections |
| Configuration (`src/config.rs`) | `config.toml`, its hash in the state | parse, validate, atomic write | committed to the store before the file |
| Control channel (`src/ipc.rs`, `serve`, `serve_connection`) | queue of 128 envelopes, 64 permits, the state snapshot | accept, read, queue, reply | engine; Doctor and Logs run beside it |
| Command line (`src/main.rs`) | none | dispatch to the manager, or to an engine of its own under the lock; wait for clean-up | control channel |
| Runner image (`runner/`) | registration, `completed` marker | register, run one job, exit | GitHub, the manager through the run's directory |
| Images, services, Windows support, release script | none of the manager's | pull and compare, install units, ACLs | out of scope, see section 8 |

What makes it correct:

* the engine never has more than `max_runners` runs, never forgets a run whose
  container or registration may still exist, never kills work unless it was
  told `--force`, archives logs before it removes a container;
* a stopped, deleted, shrunk or upgraded pool drains although a pass was under
  way when the request came, and no accepted intent is written over;
* a crash between any two steps loses nothing that recovery needs;
* unexpected exits and failed observations back off what they should, and a
  pool nevertheless serves, drains and disappears in the end;
* the GitHub client respects the waits it is told and forgets on a clear;
* one engine at a time changes the store, and what the command line reports of
  a request is true;
* the store and `config.toml` are brought together again after an interrupted
  write, without losing an edit.

What makes that hard is that `external` (`manager.rs` 160-183) interleaves
requests with every command of a pass; that Docker carries out commands after
their client gave up; that removal takes four commands which fail one by one;
and that the process may die between any two of them.

## 2. The modules

| Module | What it is |
| --- | --- |
| `Runners` | an abstract specification of the engine: the life of every runner, seen from outside |
| `PoolLife` | an abstract specification of the store: the life of every pool, from its `add` to its disappearance |
| `Engine` | requests, reconciliation pass, store, crash and restart, Docker, GitHub and runners as environment; properties; the refinement mappings to `Runners` and `PoolLife` |
| `EngineInvariant`, `WorldInvariant` | the inductive invariants `Accord` (requests and passes), `Trimmed` (from its marking on, a pass works on a pool without surplus), `World` (Docker and GitHub) and `Verdicts` (what a pass concludes of an exit) |
| `EngineProofs` | type correctness of `Engine` |
| `AccordProofs` | `Accord` is inductive; the safety theorems that follow; passes end and are thorough |
| `WorldProofs` | `World` and `Verdicts` are inductive; the theorems that follow; `Engine` implements `Runners` and `PoolLife` |
| `MCEngine` | the module TLC runs for the five `MCEngine_*.cfg` |
| `Waiter` | `Engine` together with an invocation of `stop --wait` or `pool remove --wait` |
| `WaiterProofs` | what that invocation reports is true for good |
| `MCWaiter` | the module TLC runs for `MCWaiter.cfg` |
| `Backoff` | the backoff of one pool with its durations and its count of failures |
| `BackoffProofs` | it is bounded and never shortened by a failure; `Engine`'s timer stands for it |
| `GithubClient` | `src/github.rs` under concurrent calls; properties and the invariants `Fence` and `Accounts` |
| `GithubProofs` | types, that a clear is final, and what lists of numbered pages show |
| `MCGithubClient` | the module TLC runs for the three `MCGithubClient_*.cfg` |
| `Authority` | the abstract specification of the channel: one store, and what every invocation is told of it |
| `ControlChannel` | socket, lock, select loop and connections of managers, and the command line's `dispatch`; properties; the refinement mapping to `Authority` |
| `ChannelProofs` | types, an inductive invariant of `ControlChannel` and what follows; it implements `Authority`; nobody waits in vain and nobody is overtaken |
| `MCControlChannel` | the module TLC runs for `MCControlChannel.cfg` |
| `ConfigCommit` | the store and `config.toml`: commits, failures, edits, `config apply`; properties; the refinement mapping to `PoolLife` |
| `ConfigProofs` | an inductive invariant of `ConfigCommit` and what follows from it; it implements `PoolLife` |
| `MCConfigCommit` | the module TLC runs for the two `MCConfigCommit_*.cfg` |

`Waiter` extends `Engine` with one variable; `Runners`, `PoolLife` and
`Authority` are instantiated with state functions of `Engine`, of `Engine` and
`ConfigCommit`, and of `ControlChannel`. The others share no variables. `Engine` is one engine with all it does to
runs, and leaves to chance whether a request comes and whether `config.toml`
can be used; `ConfigCommit` says what becomes of that file, `ControlChannel`
how a request comes to an engine and that there is one at a time, and
`GithubClient` what the client answers when several tasks share it.

### Engine

`mem` is `Engine.state`, `disk` the SQLite row, `pass` the locals of `tick` and
`reconcile`, and `pc` the external command in flight. One action is what the
code does when the answer of that command arrives, up to the next command,
because nothing else runs in between:

| `pc` | command in flight | answer handled by | code |
| --- | --- | --- | --- |
| `idle` | none: between two ticks | `Tick` | 424-442 |
| `list` | `Docker::list` | `List` | 512-540 |
| `force` | (loop over forced runs) | `ForceLoop` | 541-562 |
| `forceArchive`, `forceRemove` | logs; `rm --force` | `ForceArchive`, `ForceRemove` | 549-550 |
| `relist`, `remotes` | the second list; GitHub's list | `Relist`, `Remotes` | 553-582 |
| `visit` | (loop over the runs and what follows it) | `Visit` | 584-604, 642-665, 715-763 |
| `boot` | the host's boot time | `ReadBoot` | 766-776 |
| `prepare`, `create`, `start` | image and token; create; start | `Prepare`, `CreateContainer`, `StartContainer` | 609-641 |
| `archive`, `remove` | logs; `rm` | `Archive`, `RemoveContainer` | 656-663, 777-798 |
| `fresh`, `unregister`, `repair` | fresh list; DELETE; chown | `FreshList`, `Unregister`, `Repair` | 665-713 |
| `image` | image check of a new run | `Replenish` | 738-762 |

Each command may also fail (`CommandFails`), time out with a late effect
(`CommandTimesOut`, then `LateLands`), or succeed after the epoch moved; the
effect on Docker happens and the answer becomes `ReconcileInterrupted`. What an
error does depends on where it is raised: `Fatal` commands end the pass,
`Collected` ones go on with the next run (`Errors`). `pass.moved` is the
comparison of `reconcile_epoch` with `epoch`. `Request` has one action per
mutating request, each with its save, the epoch it moves and the reload after
a refusal; configuration changes may stop half-way, when `config.toml` cannot
be written after the store was (`Configured`).

Data the decisions do not depend on is abstracted:

* the phases starting, idle, busy and unknown are one phase `live`;
* `retry_at` and `retry_scope` are one field `backoff`: none, or in force with
  its scope; `BackoffExpires` is the passing of `retry_at`. Durations and
  `failures` are the matter of `Backoff`;
* runs are numbered in the order of `(created_at, id)`; an id may be used again
  when nothing of its former run is left, which stands for a fresh UUID;
* the order of the runs in a pass and of the pools in `tick` is any order;
* log retention, error texts, the token file and `observed_at` are left out,
  the failures they can cause are not (`LoopEnds`, `Replenish`).

What the model assumes of the outside: the daemon carries out the commands on
one container one after the other, so that a command that timed out is over
before a later one on the same container succeeds, and a late start can only
start a container that never ran; containers and directories are not removed
by others; a runner registers only while its container runs;
`max_runners` does not change; a fresh list shows the runner it is asked for
when that is registered (`GithubClient` says when that is so, and finding 4 when
it is not).

A save that fails inside `reconcile` is an error of the pass like any other: `tick`
records it (`manager.rs` 460-465), and its own save at the end (481) decides. If
that fails as well, `tick` returns the error and `serve` ends, which is `Crash`. If it
succeeds, it writes what memory has, the change that the failed save was to
write included, together with the backoff. The model has no such pass: the store gets the change
at once, and what fails next is a command (section 8).

History variables: `owed` holds pools with an unexpected exit that no backoff
has answered, `spared` the runs recognised as stopped by a reboot; they occur
in no guard. `startEra` stands for the container's `StartedAt`.

### Runners

`life[i]` is what the store (`record`, `saved`), Docker (`box`, `ran`) and GitHub
(`worker`) hold for run `i`; its steps say in what order they may change, whoever
causes it. `Engine!Life` is the mapping: `draining` and `forced` are the flags
`retiring` and `force` of the stored record, `ran` is a container that has been
started. The specification allows what the engine cannot exclude (a container
created for a record that is gone, by a late `docker create`) and nothing that
a reader of `docs/operations.md` would call wrong.

### PoolLife

`life[p]` is what the row of the store says of pool `p`: what is intended with
it (`absent`, `stopped`, `running`, `deleting`), its generation, its replicas,
and how many runs are recorded for it. Its steps are the documented ones:
`Add`, `Turn` (start, stop, remove), `Configure` (scale, upgrade, apply: a
generation at most one further), `Hire` (a new run, only while the pool runs
and is short of runs), `Leave` (a run is forgotten) and `Vanish` (the pool goes, only
when it was told to and has no run left). No step leads out of `deleting` but
`Vanish`. Two modules implement it that divide the code between them:
`Engine!PoolSeen` reads a pool off the store under interrupted passes,
`ConfigCommit!PoolSeen` off the store that commits and their failures leave.
An `Init` with pools is that of a first start with a configuration.

### Waiter

`waiter.at` is where an invocation with `--wait` is: `named` once `--all` has
asked for the names of the pools (`main.rs` 444-450), `waiting` from the
moment its request is handled, `complete` when it has printed `Cleanup complete.`
`Completes` is a status in which no pool waited for has a run (or, after a
removal, exists); a status in which one has is a stutter. `GivesUp` is a deadline,
an interrupt, or a status without a manager. `asked` is history: the runs that the
pools had when the request was handled. Because `--all` names its pools
before it stops them, a pool that is added and started in between is
stopped and not waited for; `asked` holds the runs of the pools that are waited for.

### Backoff

`Engine` knows of a backoff only its kind. `Backoff` has what `PoolState` has
of it (`retry_at`, `retry_scope`, `failures`), in seconds of a clock that is
never set back, and of the passes over that pool only what bears on it: a pass
is `free` when it found no backoff, `held` when it found one for provisioning,
and `void` once a request came in, because `tick` drops its report then. `RecordFailure` is
`record_failure` with the delay of `retry_delay`, jitter included; `Reset` is
what Start, Auth, and Stop and Remove with force do. `Kind` is the
`backoff` of `Engine`, and `KindAsInEngine` says that it changes as there.
The module has theorems and no run of TLC: between two failures hundreds of
seconds pass, and the theorems hold for every time, count and jitter. Their one
hypothesis, `WideEnough`, is that `failures` (a `u32`) can count to 7.

### GithubClient

`cache`, `blocked`, `tokens` and `generation` are the struct `Cache`. `call`
holds what each task is doing: the pass (one call at a time, of every kind) and
Doctor connections (`list` with ttl 0). `Lookup`, `Check` and `AccessToken`
are the parts of `list`, `request` and `access_token` up to their next await;
`TokenArrives`, `PageArrives`, `RegistrationToken` and `RunnerRemoved` handle
answers, `Refused` is `response_error`. Two adjacent lock acquisitions, a
lookup and the reading of the generation for the next request, are one step: a
clear in between would find the same misses as one before both. `Clear` comes from
the task of the pass, at one of its awaits. A list asks for numbered pages of
`PageSize` runners until one is not full; a page holds the runners that have a
place on it when it is served, in the order of their ids. (The code stops after
10 000 pages with an error; that many are not modelled.) `must` holds the runners that were
registered ever since the list was asked for, and `shifted` that a runner left
a page already read, which moves the later ones up; these, the version `by` of
the secret that an entry was learnt with, `baseline` and `told` are history.

### ControlChannel

A request is a client, that is one invocation of the command line, and the
store is the set of the requests that an engine has taken in; what a request
does to the state is the matter of `Engine`. `mgr[m]` is where `serve` is:
`opened` (lock held, state read), `serving`, `saved` (a request is handled and
not answered yet), `ending`, `unbound` (the socket is removed), `off`. `conn`
is a connection with a request, from the backlog of the socket (`backlog`)
through `read_request` (`open`), the channel to the engine (`sending`,
`queued`) to its answer, `gone` when it broke. `probe` is the connection with
which `dispatch` finds out whether there is a manager; it costs a permit like
any other. `pc[c]` is the client's step, at the end what it reports: `unsent`
and `refused` are errors after which the request cannot be handled any more,
`error` is the engine's, `unknown` is a broken connection, a timeout or a client
that was stopped. `queries` are the invocations that ask for Doctor or Logs and
are answered from the published copy; Status goes through the engine like a change.

An error of `accept` ends the task that accepts, and the listener with it, while the
engine goes on (`manager.rs` 992-1006): it keeps the lock and
serves the connections it has, and ends when the last is done, as no request
can come any more. `deaf` are the managers to which this happened
(`AcceptFails`); a client that connects then is refused by the socket and finds the lock
taken.

A crash may come at any step, and so may the operator's patience end. The
image check of an Upgrade and a request that does not arrive within 5 s are
refusals. The handling of requests inside a pass (`external`) differs from that
in the select loop in nothing this module can see. Only the Unix socket is
modelled, not the named pipe of Windows.

`Authority` has none of this: a store, and for each invocation whether its
request is in it, what it was told, and for a query what it saw. The mapping
`ControlChannel!Promise` takes `disk` for the store, `Told(c)` (the report, or
`asked` while there is none) for `told`, `before` for `since` and the view of
an answered query for `seen`. A save of a request is `TakeIn`, the end of an
invocation is `Report`; an engine of the client's own saves and reports in one
step; everything else is a stutter.

### ConfigCommit

`file` is `config.toml`, with its text standing for its hash: the same
configuration as `toml` writes it and as an operator does are two texts. `disk`
and `mem` are `State` with what a commit touches or relies on: the
configuration, the revision, the accepted hash, the intent and generation of
every pool, and which kinds of runs are recorded. In a pool's configuration
`auth` stands for profile and scope, which change under one rule, and `image`
for all that makes a generation of runs (`manager.rs` 362-368). `Valid` has the
two rules of `validate` that relate parts of a configuration. `pc` is the next
write of `commit_config`; `Stored` and `Written` are the two, `Fails` is an
error of either, with the reload of `handle_local` (or, for a deletion, the end
of the manager: `record_failure` no longer finds the pool), `Crash` a kill
between them. An error of the second write may come after the rename. The
requests have one action each. `pass` is what `reconcile` read of a pool at its
start; a request or a commit makes it void, as the epoch does, and
`RecordsRun`, `ForgetsRun` and `Delete` are what a pass does to the state in the
end; its commands are in `Engine`. The operator writes the file at any time,
with one of `Drafts`; `client` is `config apply`, which asks for the revision,
reads the file and sends both.

## 3. What is checked

Each run finishes within a minute and a quarter on two workers.

| Run | Instance | Checks |
| --- | --- | --- |
| `requests` | 1 pool, 2 ids, limit 2; start, stop, force, remove, auth, refused requests, status; crash, late commands | `TypeOK`, `Accord`, `World`, `RunnersRecorded`, `StoppedPoolDrains`, `CrashLosesNothing`, `BackoffHolds`, `DrainIsFinal`, `OnlyForceKills`, `LogsBeforeRemoval` |
| `docker` | 1 pool, 1 id, 2 boots; start, stop, remove, force, and one invocation that waits; crash, late commands, registration | `NoLeakedRegistration`, `CleanupIsComplete`, `CompletedIsExpected`, `LivesAsPromised` |
| `pools` | 2 pools, 2 ids, limit 1; start, stop, remove, add, scale, apply; the pools symmetric | `CapacityRespected`, `StartIsWanted`, `PoolsLiveAsPromised` |
| `progress` | 1 pool, 1 id, 2 generations, 2 boots; start, stop, remove, force, upgrade; crash, registration; fair | `ProvisionIsWanted`, `ForceStopsRunners`, `RemovalCompletes`, `PoolServes` |
| `github_clear` | pass, 1 Doctor, 1 App key, 2 secrets, 1 clear, 1 runner on pages of 1 (lists of one and of two pages) | `TypeOK`, `ClearForgets`, `MissesOnlyShifted` |
| `channel` | 2 managers, 2 invocations (one may be a query), 2 permits, room for 1 request; fair | `TypeOK`, `NothingOverwritten`, `AtMostOnce`, `ReportsAreTrue`, `QueriesSeeReports`, `Reachable`, `Answered`, `KeepsThePromise` |
| `commit` | 1 pool, 2 profiles, 2 images, 1 kind of runs at a time, 2 commits, a file edited at will to one of 3 drafts | `TypeOK`, `PoolsMatch`, `EditsSurvive`, `StoreCanBeApplied`, `ScopesHold`, `GenerationsTell`, `ApplyReplacesWhatWasShown`, `PoolsLiveAsPromised` |
| `reboot`, `dropped_exit`, `block`, `pages`, `stuck_delete` | smallest that shows it | section 6 |

The bounds suffice for the cases the properties are about. Two ids with a limit
of 2 let one run drain or be terminated while its replacement is recorded, and a
pass go wrong on one run and go on with the other; two ids with a limit of 1,
in `pools`, let the second wait for the room of the first; two pools are what
sharing a limit or a deletion beside other work needs, and passes never handle
two pools at once. `pools` takes the two for interchangeable: no action or
property of it chooses or orders pools, and its properties are about states and
steps (a symmetry would not be sound for liveness).
What the properties of `docker` say of a run depends on no other run (registration,
exit, clean-up and the life of one container), so one id is enough there and
leaves room for late commands, registrations, crashes and a reboot at once.
`MaxGen` 2, in `progress`, gives an old and a current generation, which is all
`mark_retiring` compares; `MaxBoots` 2, in `docker`, `progress` and `reboot`, gives a boot before and
after the start of a container. `progress` leaves out late commands: a container that one of
them creates for a run already forgotten never starts, but nothing removes it either, and it
would keep the only id taken for ever. Crashes, requests and failures are not bounded. The commands of
a run are those that can matter to its properties; together the runs issue all
of them. The theorems of section 5 hold without any of these bounds. No run
turns off the deadlock check. One clear and two versions of a secret are the
least with which an answer can be older than the clear; the proof covers the
rest. In `channel` two managers are one that ends and its successor, in any
overlap; two invocations are a query and a change, or two changes that compete
for the queue (the specification of the run, `AskerSpec`, leaves out that the other one is the query, which is the same,
and two queries, which never meet a change); with 2 permits for up to 4 connections and room for 1 request
both limits are reached; the listener of one of the two managers may fail (`Frail`), which the
other meets as its predecessor or its successor. In `commit` two commits on top of the first
configuration give a client three revisions to be wrong about; the drafts are a
configuration without the pool, with it, and with it moved to another profile
and to another image. A personal access token takes a part of an App key's path (it skips
`tokens` and `mint`); `block` and `pages` use one.

`PoolServes`, `RemovalCompletes` and `ForceStopsRunners` are stated for
behaviours in which operators, crashes, reboots and failures cease at some
point (`Quiet`), the last one while GitHub goes on failing for ever
(`QuietButGitHub`). In the first two, runners also come to an end by themselves
(`Drains`, see section 4).

## 4. Fairness

* `WF(Pass)`: `serve` polls `tick` every second and every command ends within
  its timeout (30 s for Docker, 15 s for GitHub).
* `SF(Tick(p))`: the cursor of `tick` goes round all pools, so a pool that is
  out of its backoff again and again gets its turn.
* `WF(Restart)`: the installed services restart a failed manager
  (`src/service.rs` 56, 142, 223).
* `WF(BackoffExpires(p))`: time passes and delays are at most 600 s.
* that a container exits is no fairness of the specification; where a
  property needs running work to end it says so (`Drains`): a job ends, and an ephemeral runner takes one job. The
  documentation says as much of a drain: an idle runner waits for a last job.

* `WF(Loop(m))` and `SF(Connection(c))` of `ControlChannel`: the tasks of a
  manager run, and the socket, the semaphore and the channel of tokio serve
  those who wait in their order, so that a step that is possible again and
  again is taken in the end. Nothing is assumed of a manager that ends or
  whose listener fails.

No fairness is assumed of operators, crashes, late commands or GitHub.

## 5. What is proved

For all sets of pools and runs (finite), all limits and all numbers of
generations, boots, tasks, credentials, clears, managers, invocations, permits
and seconds, from the named assumptions
on the constants only:

| Theorem | Says |
| --- | --- |
| `EngineProofs!TypeCorrect` | `Spec => []TypeOK` |
| `AccordProofs!AccordHolds` | `Accord` is an invariant |
| `AccordProofs!CapacityHolds` | `[]CapacityRespected` |
| `AccordProofs!StoppedPoolsDrain` | `[]StoppedPoolDrains` |
| `AccordProofs!RunsAreHoused` | `[]RunsHaveAPool` (of the proof only) |
| `AccordProofs!NothingIsLost` | `[]CrashLosesNothing` |
| `AccordProofs!DrainsAreFinal` | `DrainIsFinal`, an action property |
| `AccordProofs!ProvisionsAreWanted` | `ProvisionIsWanted`, an action property |
| `AccordProofs!MarkedPoolsAreTrimmed` | `[]Trimmed`: from the marking to a new run, and until a request is accepted, the pool of a pass has no more runs that take work than it wants |
| `AccordProofs!ExitsPauseUnlessForgotten` | `ExitsPauseProvisioning` while no pass forgets what it saw (see section 6) |
| `AccordProofs!PassesTerminate` | every step of a pass ends it or leaves it less to do, and nothing else adds to it |
| `AccordProofs!PassesAreThorough` | what the loop of a pass has gone past without error or request is settled |
| `AccordProofs!DrainedPoolsEmpty` | after one such loop over a drained pool, no run of it is left |
| `WorldProofs!WorldHolds` | `World` is an invariant |
| `WorldProofs!RunnersAreRecorded` | `[]RunnersRecorded` |
| `WorldProofs!NoRegistrationLeaks` | `[]NoLeakedRegistration` |
| `WorldProofs!WorkSurvives` | `OnlyForceKills`, an action property |
| `WorldProofs!LogsAreSaved` | `LogsBeforeRemoval`, an action property |
| `WorldProofs!NoRunIsRecreated` | `NeverRecreated`, an action property (of the proof only) |
| `WorldProofs!BackoffsHold` | `BackoffHolds`, an action property |
| `WorldProofs!StartsAreWanted` | `StartIsWanted`, an action property |
| `WorldProofs!ForceComesFirst` | whatever is to be terminated is gone before a pass asks GitHub for anything |
| `WorldProofs!HostIsNotOverrun` | never more containers run than `max_runners` |
| `WorldProofs!VerdictsHold` | `Verdicts` is an invariant |
| `WorldProofs!CompletionsAreExpected` | `CompletedIsExpected`, an action property |
| `WorldProofs!EngineRefinesRunners` | `LivesAsPromised`: `Engine` implements `Runners` |
| `WorldProofs!EngineRefinesPools` | `PoolsLiveAsPromised`: `Engine` implements `PoolLife` |
| `WorldProofs!SurplusComesUnmarked` | `SurplusIsUnmarked`, an action property: outside a pass, too, a pool gets a surplus only when scale, upgrade or apply fails after its commit |
| `WorldProofs!RebootsAreExpectedUnlessCutShort` | `[]RebootIsExpected` while no clean-up is cut short after its container is gone and every boot time can be read (see section 6) |
| `WaiterProofs!CleanupsAreComplete` | `[]CleanupIsComplete` |
| `BackoffProofs!BackoffsAreBounded` | `[](TypeOK /\ Bounded)`: a backoff is never more than 600 s away |
| `BackoffProofs!BackoffsAreNotShortened` | `NeverShortened`, an action property |
| `BackoffProofs!TimerIsSound` | `KindAsInEngine`, an action property |
| `ChannelProofs!TypeCorrect` | `Spec => []TypeOK` of the channel |
| `ChannelProofs!SingleWriter` | `NothingOverwritten`, an action property |
| `ChannelProofs!TakenInOnce` | `[]AtMostOnce` |
| `ChannelProofs!TruthfulReports` | `[]ReportsAreTrue` |
| `ChannelProofs!QueriesAreCurrent` | `[]QueriesSeeReports` |
| `ChannelProofs!ServingIsReachable` | `[]Reachable` |
| `ChannelProofs!ChannelRefinesAuthority` | `KeepsThePromise`: `ControlChannel` implements `Authority` |
| `ChannelProofs!WaitersCanBeServed` | permits, connections and the queue never wait on each other in a circle |
| `ChannelProofs!QueueIsInOrder` | nobody gets in front of a queued request, and every answer brings it nearer to its turn |
| `GithubProofs!ClientTypes` | `Spec => []TypeOK` of the client |
| `GithubProofs!ClearIsFinal` | `[]ClearForgets` |
| `GithubProofs!FreshListsAreComplete` | `[]MissesOnlyShifted`, for lists of any number of pages |
| `GithubProofs!ShortListsAreComplete` | `[]FreshSees` while no scope fills a page (see section 6) |
| `GithubProofs!WaitsHoldWhenAlone` | `[]BlockHolds` while each credential is used by one call at a time (see section 6) |
| `ConfigProofs!ConfigTypes` | `Spec => []TypeOK` of `ConfigCommit` |
| `ConfigProofs!PoolsAlwaysMatch` | `[]PoolsMatch` |
| `ConfigProofs!EditsAreSafe` | `[]EditsSurvive` |
| `ConfigProofs!StoreIsApplicable` | `[]StoreCanBeApplied` |
| `ConfigProofs!RunsStayInScope` | `[]ScopesHold` |
| `ConfigProofs!GenerationsAreTold` | `[]GenerationsTell` |
| `ConfigProofs!AppliesAreInformed` | `ApplyReplacesWhatWasShown`, an action property |
| `ConfigProofs!CommitsRefinePools` | `PoolsLiveAsPromised`: `ConfigCommit` implements `PoolLife` |

None of the safety properties is inductive. A pass reads the pool and the runs,
issues a command, and writes back a clone when the answer comes; in between
any request may change everything. `Accord` says what the pass may still rely
on. `Synced`: store and memory differ in an observed phase at most, so that a
crash or a reload changes no intent. `PoolHeld`: the pool of the pass exists,
and is the one the pass read unless `pass.moved`. `TodoHeld`: the runs still to
visit are recorded (the code indexes `runs[&id]`, `manager.rs` 585).
`ClonesHeld`: a clone agrees with its record in all that requests change,
unless `pass.moved`, and then it is never written back. `RoomHeld`: the room
and the demand seen at 732-737 are still there at 758. With these `Sound` (the
capacity, the draining of stopped pools, runs with a pool) is preserved: the
proof has one lemma per action. `TInv` in `EngineProofs` strengthens the types
by which locals are set at which `pc`.

`Trimmed` is what `mark_retiring` is for: from the marking to the end of the
pass, the pool has no more runs that take work than it wants, unless a request
came in between. The code sorts the runs and keeps a prefix; the proof must show that a
prefix of n runs has at most n members (`MarkedFit`), whatever the numbers of
the runs are. That is an induction over the runs, which the provers cannot do;
`MarkedFit` argues instead with the run of the highest rank among those kept, which
exists because every nonempty set of numbers has a least element
(`LeastNatural`, from the library's fact that finite sets are well-founded by
inclusion). `StartIsWanted` follows from `Trimmed` and from `StartsHeld` below.

Between passes a pool can have a surplus, in one way: `commit_config`
has stored the new number or generation when its write of `config.toml` fails
(`manager.rs` 114), and scale, upgrade or apply returns (265, 283, 383) before
`mark_retiring`. The surplus stays until a pass over the pool comes to its own marking (581)
or a later request to one. `SurplusIsUnmarked` says that this is the only way: a pool without a surplus
gets none by any other step, of a request, a pass, a crash, or anything around
the engine. Its proof compares what a request makes of a pool with the runs it
had (`Roomy`), and takes the rest from `Edited` and `RunsMove` of the next
paragraph. No run checks it; it was first checked by TLC, on the instance of `pools` and
on one pool with two generations, upgrades and crashes, where the surplus does arise.

The refinement to `PoolLife` needs one thing that `Accord` does not say:
`Doomed`, that a pass which found its pool to be deleted is right even after it
was interrupted, as no request takes a deletion back. The steps are sorted by what they do to
the record of a pool (`Edited` by a request, the same otherwise, gone only in
`Vanishing`) and to the set of its runs (`RunsMove`: unchanged but for `FinishRun`
and `Replenish`); a step does one or the other, which is what makes
`PoolLife!Step` a disjunction.

`World` adds Docker and GitHub. `Containers` says what may exist for a run that
nobody remembers (a container that was created late and never starts) and that
an ended run whose container is gone is in its clean-up. `Listing`: the list
that a pass took is out of date in one direction only, since nothing but the pass takes
containers away or starts them. `InFlightHeld`: what a command was issued for
still holds when it lands, whatever was requested since; a container is removed
only with its log saved, and nothing in `force` without that order. `StartsHeld`: what
is about to be started is wanted, unless `pass.moved`. The refinement to
`Runners` goes action by action through the same invariants: each step changes
the life of one run at most in each of its parts, and an auxiliary conjunct
(`Notes`) says that writing a clone back never forgets that its log was saved.

`Verdicts` says why an exit is judged rightly, though the pass judges it on a
clone, from a listing and a marker file that were read at other times. `Judged`:
a run that the store calls cleaned up with an unexpected exit has no completion marker and
no way to get one, as its container ended and no late command brings it back.
`Sightings`: what the listing shows as exited did run and stays ended, so
that looking for the marker after the listing is the right order.
`HandJudged` carries this along the commands for the run in hand, and `Reported`
beyond its end: a run whose exit was counted is forgotten, marker and all.

`RebootIsExpected` has a premise about two events, and no more: no clean-up of a run recognised
as stopped by a reboot is `CutShort` after its container is gone, and no boot
time is unread (`BootUnread`). Requests, interruptions, failed
commands up to the removal, crashes and further reboots may come at any time.
The invariant is `RebootsHeld`: every run that was once recognised is `Excused`
(forgotten, or to drain or be terminated, which is never counted), or its
container still stands with the evidence (`Rebooted`) and no pass sees it as
anything but exited (`InView`), so that any later pass finds the same verdict
again, or its container is gone and the pass that removed it has the verdict in
hand (`Settling`). The two events are what leaves a run in none of the three. TLC found a
counterexample with either half of the premise left out.

Four theorems are the safety half of the liveness properties that the prover
cannot reach: they say what fairness has left to do. `PassesTerminate` gives a
measure, `Work`: the parts of `reconcile` still to come, the runs still to
visit, the commands still to be issued for the run in hand. Every step of a pass
lowers it or ends the pass, and no request, crash or late answer raises it, so
that a pass that is given its turns ends, and issues no more commands than the
measure counts. `PassesAreThorough` says that it does not end in vain: a run that the
loop went past in an undisturbed pass without an error was running, or takes
work and is started (unless the pool backs off). Nothing that drains and does
not run is left, so with `Trimmed` one such pass empties a drained pool
(`DrainedPoolsEmpty`): `RemovalCompletes` needs one quiet pass after the last
job. `ForceComesFirst` is that half of `ForceStopsRunners`: of the runs to be terminated,
those not in the clones of the pass are gone, and from the second listing on
all are (`ForceHeld`); nothing brings them back, since a start is issued only for a
run that takes work, and a run to be terminated does not (`ForceDrains`).
No run checks these four: their definitions are in the proof modules, and each
was first checked by TLC on the instance of `requests`.

`CleanupIsComplete` rests on one invariant of the invocation: the runs that it asked for and
that are still recorded belong to pools it still waits for. For the backoff, `Counted` bounds a
backoff in force by the delay of the failures counted so far, so that one more
failure can only reach further, and `PassTells` says what a pass whose result
is not void still knows of it.

For the channel, the invariant has four parts. `OneEngine`: at most one manager, or one
invocation with an engine of its own, holds the lock, and only that one's state and socket count.
`Queues`: what an engine has in its queue and its hand is on a connection to it.
`Requests`: where each request is, from the client through connection
and queue to the store, so that it is nowhere twice and is known not to be taken in where the
client reports so. `Answers`: what the published copy and each
answered query contain. The refinement follows from them step by step.

Two theorems on the channel are the safety half of `Answered`. `Attended` says that what waits with a manager
waits where its tasks will find it: a connection not yet accepted or queued
belongs to a manager that still serves, and a queued one is in its queue or in its hand.
`WaitersCanBeServed` follows: whatever a connection waits for, either it is
there or another task of the same manager can take a step towards it, so that
64 connections with a permit and a full queue never block each other.
`QueueIsInOrder` is the measure of the wait in the queue: those in front of a
request (`InFront`) only become fewer, and each answer takes one of them away.
These, too, are in the proof module and were first checked by TLC, with three invocations and a
queue of two.

For the client, `Fence` says that a call which still holds the current
generation holds a secret no older than the last clear, and that so does every
entry; a clear makes every generation held by a call an old one.

For lists, `Accounts` says that a runner which a call must show was found or is
still to come: its rank among the runners of the scope is beyond the pages read.
A registration moves later ranks up by one and the end of one moves them down,
which is harmless unless it was on a page already read (`shifted`). When a
page is not full, nothing is to come: ranks have no gaps (`LowCount`,
`PageBeforeIsFull`), again by a least counterexample. This holds for
lists of any number of pages, any page size and any concurrent calls.

For the configuration, `Together` says that memory and store differ only while a
commit has not written the store, and then only in the pools that its
configuration brings or takes; `EditsWait` that an edit which waits is in the
file and differs from the accepted text, so that `clean_file` stops every commit
but its own; `Informed` that a client's revision is not ahead of the store's and, where
equal, stands for what it was shown. `Tenants` that the runs fit what is stored and what
is about to be (their pool is there with their scope, their generation is not ahead of its pool's, and
equal generations have equal images), and that a pass is void or holds what is still so.
For the refinement to `PoolLife`, `Promised` says of a commit under way that
what it is about to store is a step of every pool from what the store holds. A
handler establishes it (`CommitsPromise`), nothing but `Stored` consumes it, and a failure or
a crash gives it up together with the memory.

Four theorems mark the boundary of the findings of section 6: each states the
property that the run of a finding violates, under a premise that the counterexample
breaks, so that the finding is seen to need it. The premises are properties of
behaviours, not assumptions on constants.

## 6. Findings

1. `reboot`: whether a reboot stopped a run is a local variable of one pass
   (`manager.rs` 594). If its clean-up needs a second pass after its container
   is gone, the exit is counted as unexpected. There is one other way: the
   pass does not finish, the manager restarts, and the new one cannot read
   the boot time (`manager.rs` 766-775); then, as the comment at 772 says, the exit counts as a
   failure, although the reboot was recognised before. Without these two it
   never is, whatever else is interrupted or fails (`RebootsAreExpectedUnlessCutShort`).
2. `dropped_exit`: a pass that is interrupted by any mutating request drops its
   report (`manager.rs` 445) after it forgot the run; the unexpected exit
   never pauses provisioning. With neither such an interruption nor a crash
   between the two, it does (`ExitsPauseUnlessForgotten`).
3. `block`: a later refusal shortens the wait of an earlier one
   (`github.rs` 296). It takes two calls in flight with one credential
   (`WaitsHoldWhenAlone`).
4. `pages`: a list that takes several pages can miss a runner
   (`github.rs` 318), also the fresh list on which the removal of a
   registration relies. It misses one only when a runner leaves a page already read
   (`FreshListsAreComplete`), and none while a scope has less than a page
   of runners (`ShortListsAreComplete`).
5. `stuck_delete`: after an interrupted commit and a `pool remove`, in either
   order, `config apply` refuses every file (`manager.rs` 347, 354) and the
   deletion waits for a file (`manager.rs` 725) that only the manager could
   write. Without a deletion under way the configuration of the store can
   always be applied (`StoreIsApplicable`).

## 7. Only model-checked

* the liveness properties (`ForceStopsRunners`, `RemovalCompletes`,
  `PoolServes`, `Answered`): fairness and ENABLED are beyond the prover. What
  they need of single steps is proved (section 5).

Every other property of a passing run is a theorem, for all values of the
constants. `RunsHaveAPool` and `NeverRecreated` are theorems that no run
checks: the runs check `Accord` and `LivesAsPromised`, from which they follow.

## 8. Not modelled

A save that fails inside `reconcile` while the one at the end of `tick`
succeeds (`manager.rs` 460-481) is not modelled. Until the second one the memory is ahead of the
store, with no command in between but in one case: the save in `archive` (796), whose
error is collected, so that the loop goes on to the next run while
the store does not know yet that a log was saved. The run itself is skipped and its container
stays, and a crash at that moment has the log saved a second time.

The named pipe of Windows, `init` and `auth login` (which write new files and
read no state), and a clock that is set back while a backoff is in force are not
modelled. Argument lists of Docker, image inspection, JWT signing, HTTP
redirects, validation of names and labels, service units, Windows access
control, image version comparison and the release script hold no state of the
manager and are left out. `Doctor` and `Logs` read snapshots and change nothing
but the GitHub client's cache, where `GithubClient` has them.

## 9. What could be added

1. `Waiter` as an implementation of a small abstract specification of an
   invocation that waits, beside `CleanupIsComplete`.
2. The order of acceptance: `ControlChannel` accepts any connection that
   waits, and `Fairness` stands for the order of arrival, as only the queue has
   its order in the model.
3. The properties that only findings violate could be checked again, without
   their premises, when the code changes.
