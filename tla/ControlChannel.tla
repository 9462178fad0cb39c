--------------------------- MODULE ControlChannel ---------------------------
(***************************************************************************)
(* The way of a request to the one engine that may change the store: the   *)
(* connections and the select loop of a manager (serve, serve_connection   *)
(* in src/src/manager.rs), the socket (src/src/ipc.rs), the lock file, and *)
(* the command line, which asks the manager if it can be reached and is    *)
(* the engine itself otherwise (dispatch in src/src/main.rs).              *)
(*                                                                         *)
(* What a request does to the state is module Engine's matter: the store   *)
(* is here the set of the requests it has taken in.                        *)
(***************************************************************************)
EXTENDS Integers, Sequences, FiniteSets

CONSTANTS
  Managers,   \* manager processes; each may end and be started again
  Clients,    \* invocations of the command line, with one request each
  Nobody,     \* "no process"
  Permits,    \* connections served at a time (64)
  QueueSize   \* room in the channel to the engine (128)

ASSUME NobodyAssumption == Nobody \notin Managers \cup Clients
ASSUME ProcessesAssumption == Managers \cap Clients = {}
ASSUME LimitsAssumption == Permits \in Nat \ {0} /\ QueueSize \in Nat \ {0}

VARIABLES
  queries,   \* the invocations that ask for Doctor or Logs
  mgr,       \* what a manager process is doing
  lock,      \* holder of manager.lock
  socket,    \* the process that bound manager.sock, also after its end
  deaf,      \* managers whose listener failed
  disk,      \* the store
  mem,       \* Engine.state of a manager, or of a client that is the engine
  snapshot,  \* the state that a manager's connections see
  queue,     \* requests sent to a manager's engine
  hand,      \* the request its engine is handling, Nobody for none
  outcome,   \* the result of that request
  pc,        \* what a client is doing, or what it reported
  conn,      \* the connection of a client's request
  probe,     \* the connection with which it tried the socket
  at,        \* the manager these lead to
  reply,     \* the answer on the connection
  times,     \* history: how often a request was taken in
  before,    \* history: the requests reported done when a query started
  view       \* history: the state a query was answered from

process == <<mgr, lock, socket, deaf, mem, snapshot, queue, hand, outcome>>
channel == <<conn, probe, at, reply>>
history == <<queries, times, before, view>>
vars == <<process, disk, pc, channel, history>>

Stages == {"off", "opened", "serving", "saved", "ending", "unbound"}
Loops == {"serving", "saved"}
Steps == {"start", "probed", "waiting", "offline", "engine", "ok", "error", "refused", "unsent", "unknown"}
Links == {"none", "backlog", "open", "sending", "queued", "answered", "gone"}
Replies == {"none", "ok", "error", "refused"}

-----------------------------------------------------------------------------
(* The processes of the operating system: the lock and the socket.         *)

\* Mutant: the lock is not looked at.
TryLockAnyway(h) == lock' = h

\* lock: try_lock_exclusive, given up when the holder ends.
TryLock(h) == lock = Nobody /\ lock' = h

Unlock(h) == lock' = IF lock = h THEN Nobody ELSE lock

\* A connect succeeds while the process that bound the socket listens.
Listening == socket \notin deaf \cup {Nobody} /\ mgr[socket] \in Loops \cup {"ending"}

\* The connections of a process break when it ends; what a client has not
\* read by then is lost.
Broken(m) ==
  /\ conn' = [c \in Clients |-> IF at[c] # m THEN conn[c]
                               ELSE IF pc[c] = "waiting" THEN "gone" ELSE "none"]
  /\ reply' = [c \in Clients |-> IF at[c] = m THEN "none" ELSE reply[c]]
  /\ probe' = [c \in Clients |-> IF at[c] = m THEN "none" ELSE probe[c]]
  /\ at' = [c \in Clients |-> IF at[c] = m THEN Nobody ELSE at[c]]

-----------------------------------------------------------------------------
(* A manager.                                                              *)

Start(m) ==
  /\ mgr[m] = "off" /\ TryLock(m)
  /\ mgr' = [mgr EXCEPT ![m] = "opened"]
  /\ mem' = [mem EXCEPT ![m] = disk] /\ snapshot' = [snapshot EXCEPT ![m] = disk]
  /\ UNCHANGED <<socket, deaf, queue, hand, outcome, disk, pc, channel, history>>

\* Listener::bind replaces a socket that is still there.
Bind(m) ==
  /\ mgr[m] = "opened"
  /\ mgr' = [mgr EXCEPT ![m] = "serving"] /\ socket' = m
  /\ UNCHANGED <<lock, deaf, mem, snapshot, queue, hand, outcome, disk, pc, channel, history>>

\* A request is taken in by engine h, or not: the whole state is saved.
TakesIn(h, c) ==
  /\ mem' = [mem EXCEPT ![h] = @ \cup {c}]
  /\ disk' = mem[h] \cup {c}
  /\ times' = [times EXCEPT ![c] = @ + 1]

\* Mutant: the result of the save is not looked at.
HandledAnyway(h, c, result) == TakesIn(h, c) \/ UNCHANGED <<disk, mem, times>>

\* An error may also follow the save, when config.toml cannot be written.
Handled(h, c, result) ==
  \/ TakesIn(h, c)
  \/ result = "error" /\ UNCHANGED <<disk, mem, times>>

\* serve and external: take a request from the queue and handle it.
Handle(m) ==
  /\ mgr[m] = "serving" /\ queue[m] # <<>>
  /\ \E result \in {"ok", "error"} :
       /\ Handled(m, Head(queue[m]), result)
       /\ outcome' = [outcome EXCEPT ![m] = result]
  /\ hand' = [hand EXCEPT ![m] = Head(queue[m])]
  /\ queue' = [queue EXCEPT ![m] = Tail(@)]
  /\ mgr' = [mgr EXCEPT ![m] = "saved"]
  /\ UNCHANGED <<lock, socket, deaf, snapshot, pc, channel, queries, before, view>>

\* Mutant: connections go on with the state they were started with.
PublishNothing(m) == UNCHANGED snapshot

Published(m) == snapshot' = [snapshot EXCEPT ![m] = mem[m]]

\* The state is published and the reply sent, to a connection that waits.
Answer(m) ==
  /\ mgr[m] = "saved" /\ mgr' = [mgr EXCEPT ![m] = "serving"]
  /\ Published(m)
  /\ LET c == hand[m]
     IN  IF conn[c] = "queued" /\ at[c] = m
         THEN /\ conn' = [conn EXCEPT ![c] = "answered"]
              /\ reply' = [reply EXCEPT ![c] = outcome[m]]
         ELSE UNCHANGED <<conn, reply>>
  /\ hand' = [hand EXCEPT ![m] = Nobody] /\ outcome' = [outcome EXCEPT ![m] = "none"]
  /\ UNCHANGED <<lock, socket, deaf, mem, queue, disk, pc, probe, at, history>>

Queued(m) == {c \in Clients : at[c] = m /\ conn[c] = "queued"}

\* The loop ends, on a signal, an error of tick or as no request can come any
\* more: the requests still queued are dropped, which their connections report,
\* and nobody is accepted.
Ends(m) ==
  /\ mgr[m] = "serving" /\ mgr' = [mgr EXCEPT ![m] = "ending"]
  /\ queue' = [queue EXCEPT ![m] = <<>>]
  /\ conn' = [c \in Clients |->
                IF c \in Queued(m) THEN "answered"
                ELSE IF at[c] = m /\ conn[c] = "backlog" THEN "gone" ELSE conn[c]]
  /\ reply' = [c \in Clients |-> IF c \in Queued(m) THEN "refused" ELSE reply[c]]
  /\ probe' = [c \in Clients |->
                 IF at[c] = m /\ probe[c] = "backlog" THEN "none" ELSE probe[c]]
  /\ UNCHANGED <<lock, socket, deaf, mem, snapshot, hand, outcome, disk, pc, at, history>>

\* Mutant: the lock is given up before the socket is removed.
TidiedOrNot(m) == mgr[m] \in {"ending", "unbound"}

Tidied(m) == mgr[m] = "unbound"

\* remove_file, then the lock is dropped with the return of serve.
Unbind(m) ==
  /\ mgr[m] = "ending" /\ mgr' = [mgr EXCEPT ![m] = "unbound"]
  /\ socket' = Nobody /\ deaf' = deaf \ {m}
  /\ UNCHANGED <<lock, mem, snapshot, queue, hand, outcome, disk, pc, channel, history>>

Release(m) ==
  /\ lock = m /\ Tidied(m) /\ Unlock(m)
  /\ UNCHANGED <<mgr, socket, deaf, mem, snapshot, queue, hand, outcome, disk, pc, channel, history>>

Gone(m) ==
  /\ mgr' = [mgr EXCEPT ![m] = "off"]
  /\ queue' = [queue EXCEPT ![m] = <<>>] /\ hand' = [hand EXCEPT ![m] = Nobody]
  /\ outcome' = [outcome EXCEPT ![m] = "none"]
  /\ mem' = [mem EXCEPT ![m] = {}] /\ snapshot' = [snapshot EXCEPT ![m] = {}]
  /\ Broken(m) /\ Unlock(m) /\ deaf' = deaf \ {m}
  /\ UNCHANGED <<socket, disk, pc, history>>

\* The process ends when main returns; until then connections still answer.
Exit(m) == mgr[m] = "unbound" /\ lock # m /\ Gone(m)

\* It is killed, or cannot save.
Crash(m) == mgr[m] # "off" /\ Gone(m)

-----------------------------------------------------------------------------
(* The connections of a manager, tasks of their own.                       *)

Alive(m) == mgr[m] \in Loops \cup {"ending", "unbound"}

Open(m) == {c \in Clients : at[c] = m /\ conn[c] \in {"open", "sending", "queued"}}
Probing(m) == {c \in Clients : at[c] = m /\ probe[c] = "open"}
HasPermit(m) == Cardinality(Open(m)) + Cardinality(Probing(m)) < Permits

Accept(c) ==
  LET m == at[c]
  IN  /\ m # Nobody /\ mgr[m] \in Loops /\ m \notin deaf /\ HasPermit(m)
      /\ \/ conn[c] = "backlog" /\ conn' = [conn EXCEPT ![c] = "open"] /\ UNCHANGED probe
         \/ probe[c] = "backlog" /\ probe' = [probe EXCEPT ![c] = "open"] /\ UNCHANGED conn
      /\ UNCHANGED <<process, disk, pc, at, reply, history>>

\* An error of accept ends the task that accepts and closes its listener.  The
\* engine keeps the lock and goes on with the connections there are; Ends is
\* what follows when the last of them is done.
AcceptFails(m) ==
  /\ mgr[m] \in Loops /\ m \notin deaf /\ HasPermit(m)
  /\ deaf' = deaf \cup {m}
  /\ conn' = [c \in Clients |-> IF at[c] = m /\ conn[c] = "backlog" THEN "gone" ELSE conn[c]]
  /\ probe' = [c \in Clients |->
                 IF at[c] = m /\ probe[c] = "backlog" THEN "none" ELSE probe[c]]
  /\ UNCHANGED <<mgr, lock, socket, mem, snapshot, queue, hand, outcome, disk, pc, at, reply,
                 history>>

\* Mutant: a connection without a request keeps its permit.
StaysOpen(c) == FALSE

\* read_request finds the end of a connection that only tried the socket.
EndsAtOnce(c) == probe[c] = "open"

CloseProbe(c) ==
  /\ EndsAtOnce(c) /\ probe' = [probe EXCEPT ![c] = "none"]
  /\ UNCHANGED <<process, disk, pc, conn, at, reply, history>>

Respond(c, r) ==
  /\ conn' = [conn EXCEPT ![c] = "answered"] /\ reply' = [reply EXCEPT ![c] = r]

\* serve_connection: the request does not arrive in time or names an image
\* that is not there, is answered from the snapshot, or is for the engine.
Serve(c) ==
  LET m == at[c]
  IN  /\ m # Nobody /\ Alive(m) /\ conn[c] = "open"
      /\ \/ Respond(c, "refused") /\ UNCHANGED view
         \/ /\ c \in queries /\ \E r \in {"ok", "error"} : Respond(c, r)
            /\ view' = [view EXCEPT ![c] = snapshot[m]]
         \/ c \notin queries /\ conn' = [conn EXCEPT ![c] = "sending"] /\ UNCHANGED <<reply, view>>
      /\ UNCHANGED <<process, disk, pc, probe, at, queries, times, before>>

\* Mutant: a channel without a limit.
RoomForAll(m) == TRUE

HasRoom(m) == Len(queue[m]) < QueueSize

\* The channel to the engine: it has room, is full, or its engine is gone.
Enqueue(c) ==
  LET m == at[c]
  IN  /\ m # Nobody /\ conn[c] = "sending"
      /\ \/ /\ mgr[m] \in Loops /\ HasRoom(m)
            /\ queue' = [queue EXCEPT ![m] = Append(@, c)]
            /\ conn' = [conn EXCEPT ![c] = "queued"] /\ UNCHANGED reply
         \/ /\ mgr[m] \in {"ending", "unbound"}
            /\ Respond(c, "refused") /\ UNCHANGED queue
      /\ UNCHANGED <<mgr, lock, socket, deaf, mem, snapshot, hand, outcome, disk, pc, probe, at,
                     history>>

-----------------------------------------------------------------------------
(* The command line.                                                       *)

Became(c, step) == pc' = [pc EXCEPT ![c] = step]

Reported == {c \in Clients \ queries : pc[c] = "ok"}

\* dispatch tries the socket first, with a connection of its own.
Try(c) ==
  /\ pc[c] = "start"
  /\ before' = [before EXCEPT ![c] = IF c \in queries THEN Reported ELSE {}]
  /\ IF Listening
     THEN /\ Became(c, "probed")
          /\ at' = [at EXCEPT ![c] = socket]
          /\ probe' = [probe EXCEPT ![c] = IF mgr[socket] = "ending" THEN "none" ELSE "backlog"]
     ELSE Became(c, "offline") /\ UNCHANGED <<at, probe>>
  /\ UNCHANGED <<process, disk, conn, reply, queries, times, view>>

\* send: a second connection carries the request.
Send(c) ==
  /\ pc[c] = "probed"
  /\ IF Listening
     THEN /\ Became(c, "waiting")
          /\ at' = [at EXCEPT ![c] = socket]
          /\ conn' = [conn EXCEPT ![c] = IF mgr[socket] = "ending" THEN "gone" ELSE "backlog"]
          /\ probe' = [probe EXCEPT ![c] = IF at[c] = socket THEN @ ELSE "none"]
     ELSE Became(c, "unsent") /\ UNCHANGED <<at, conn, probe>>
  /\ UNCHANGED <<process, disk, reply, history>>

Receive(c) ==
  /\ pc[c] = "waiting" /\ conn[c] = "answered" /\ Became(c, reply[c])
  /\ conn' = [conn EXCEPT ![c] = "none"] /\ reply' = [reply EXCEPT ![c] = "none"]
  /\ UNCHANGED <<process, disk, probe, at, history>>

\* Mutant: a request that got no answer is handled here.
FallsBack == "offline"

\* Mutant: the client says that the manager cannot be reached.
GivesUpUnsent == "unsent"

GivesUp == "unknown"

\* No answer: the connection broke, the time is up, or the operator leaves.
\* The manager may still handle the request.
Lose(c) ==
  /\ pc[c] = "waiting" /\ Became(c, GivesUp)
  /\ UNCHANGED <<process, disk, channel, history>>

\* Without a manager the client is the engine, if it gets the lock.
BeEngine(c) ==
  /\ pc[c] = "offline"
  /\ \/ TryLock(c) /\ Became(c, "engine") /\ mem' = [mem EXCEPT ![c] = disk]
     \/ lock # Nobody /\ Became(c, "unsent") /\ UNCHANGED <<lock, mem>>
  /\ UNCHANGED <<mgr, socket, deaf, snapshot, queue, hand, outcome, disk, channel, history>>

Finish(c) ==
  /\ pc[c] = "engine" /\ Unlock(c)
  /\ \E result \in {"ok", "error"} :
       /\ Became(c, result)
       /\ \/ c \in queries /\ view' = [view EXCEPT ![c] = mem[c]] /\ UNCHANGED <<disk, mem, times>>
          \/ c \notin queries /\ Handled(c, c, result) /\ UNCHANGED view
  /\ UNCHANGED <<mgr, socket, deaf, snapshot, queue, hand, outcome, channel, queries, before>>

\* The operator ends it before the request is saved.
Abandon(c) ==
  /\ pc[c] = "engine" /\ Became(c, "unknown") /\ Unlock(c)
  /\ UNCHANGED <<mgr, socket, deaf, mem, snapshot, queue, hand, outcome, disk, channel, history>>

-----------------------------------------------------------------------------
Engines == Managers \cup Clients

Init ==
  /\ queries \in SUBSET Clients
  /\ mgr = [m \in Managers |-> "off"] /\ lock = Nobody /\ socket = Nobody /\ deaf = {}
  /\ disk = {} /\ mem = [h \in Engines |-> {}] /\ snapshot = [m \in Managers |-> {}]
  /\ queue = [m \in Managers |-> <<>>] /\ hand = [m \in Managers |-> Nobody]
  /\ outcome = [m \in Managers |-> "none"]
  /\ pc = [c \in Clients |-> "start"]
  /\ conn = [c \in Clients |-> "none"] /\ probe = [c \in Clients |-> "none"]
  /\ at = [c \in Clients |-> Nobody] /\ reply = [c \in Clients |-> "none"]
  /\ times = [c \in Clients |-> 0]
  /\ before = [c \in Clients |-> {}] /\ view = [c \in Clients |-> {}]

Connection(c) == Accept(c) \/ CloseProbe(c) \/ Serve(c) \/ Enqueue(c)
Loop(m) == Handle(m) \/ Answer(m)
Shutdown(m) == AcceptFails(m) \/ Ends(m) \/ Crash(m)

Next ==
  \/ \E m \in Managers : \/ Start(m) \/ Bind(m) \/ Loop(m) \/ Shutdown(m)
                         \/ Unbind(m) \/ Release(m) \/ Exit(m)
  \/ \E c \in Clients : \/ Connection(c)
                        \/ Try(c) \/ Send(c) \/ Receive(c) \/ Lose(c)
                        \/ BeEngine(c) \/ Finish(c) \/ Abandon(c)

Spec == Init /\ [][Next]_vars

\* The tasks of a manager run. Connections are accepted in the order of their
\* arrival and the semaphore and the channel serve their waiters in turn, so
\* that a step that is possible again and again is taken.
Fairness ==
  /\ \A m \in Managers : WF_vars(Loop(m))
  /\ \A c \in Clients : SF_vars(Connection(c))

FairSpec == Spec /\ Fairness

-----------------------------------------------------------------------------
TypeOK ==
  /\ queries \subseteq Clients
  /\ mgr \in [Managers -> Stages]
  /\ lock \in Engines \cup {Nobody} /\ socket \in Managers \cup {Nobody}
  /\ deaf \subseteq Managers
  /\ disk \subseteq Clients
  /\ mem \in [Engines -> SUBSET Clients] /\ snapshot \in [Managers -> SUBSET Clients]
  /\ queue \in [Managers -> Seq(Clients)] /\ \A m \in Managers : Len(queue[m]) <= QueueSize
  /\ hand \in [Managers -> Clients \cup {Nobody}] /\ outcome \in [Managers -> Replies]
  /\ pc \in [Clients -> Steps]
  /\ conn \in [Clients -> Links] /\ probe \in [Clients -> {"none", "backlog", "open"}]
  /\ at \in [Clients -> Managers \cup {Nobody}] /\ reply \in [Clients -> Replies]
  /\ times \in [Clients -> Nat]
  /\ before \in [Clients -> SUBSET Clients] /\ view \in [Clients -> SUBSET Clients]

\* manager.rs:158, `State has a single writer': no engine saves a state that
\* lacks what another one has saved.
NothingOverwritten == [][disk \subseteq disk']_vars

\* main.rs:216: an invocation never has its request taken in twice, whatever
\* is lost or restarted on the way.
AtMostOnce == \A c \in Clients : times[c] <= 1

\* manager.rs:1074, main.rs:216: a client that reports success has its request in the
\* store; one that reports that it was not sent, or not handled, has not, and
\* it never will be.
ReportsAreTrue ==
  \A c \in Clients \ queries :
     /\ pc[c] = "ok" => c \in disk
     /\ pc[c] \in {"unsent", "refused"} =>
          c \notin disk /\ \A m \in Managers : \A k \in DOMAIN queue[m] : queue[m][k] # c

\* manager.rs:92, 1060: a query sees every request that was reported done
\* before it was asked, also while a manager is replaced.
QueriesSeeReports ==
  \A c \in queries : pc[c] = "ok" => before[c] \subseteq view[c]

\* ipc.rs:22, manager.rs:1025: the socket of a manager that serves leads to
\* it, and the end of another one does not remove it.
Reachable == \A m \in Managers : mgr[m] \in Loops => socket = m

\* manager.rs:984, 993: a connection to a manager that stays gets an answer;
\* probes, slow clients and a full queue cannot keep it waiting for ever.
Answered ==
  \A c \in Clients : conn[c] = "backlog" ~> conn[c] \in {"answered", "gone", "none"}
-----------------------------------------------------------------------------
\* What an invocation has reported, in the words of module Authority.
Told(c) ==
  CASE pc[c] = "start" -> "nothing"
    [] pc[c] \in {"probed", "waiting", "offline", "engine"} -> "asked"
    [] OTHER -> pc[c]

Promise == INSTANCE Authority WITH
  store <- disk,
  told  <- [c \in Clients |-> Told(c)],
  since <- before,
  seen  <- [c \in Clients |-> IF c \in queries /\ pc[c] = "ok" THEN view[c] ELSE {}]

\* main.rs:216, manager.rs:158: managers that come and go, the lock, the
\* socket and the connections together keep the promise of one store that
\* every invocation of the command line is told the truth about.
KeepsThePromise == Promise!Spec
=============================================================================
