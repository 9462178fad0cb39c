--------------------------- MODULE ChannelProofs ---------------------------
(***************************************************************************)
(* Theorems about module ControlChannel, for every number of managers and  *)
(* invocations, every limit on connections and every queue size.           *)
(*                                                                         *)
(* The invariants follow the lock (who may be the engine), the published   *)
(* state (what a query is answered from) and, above all, the one place     *)
(* where a request is: with its invocation, on its connection, in a queue, *)
(* or in the hand of an engine. The last part is about waiting: for a      *)
(* permit, for room in the queue and for the engine.                       *)
(***************************************************************************)
EXTENDS ControlChannel, FiniteSetTheorems, TLAPS

\* The stages in which a manager has the lock.
Held == {"opened", "serving", "saved", "ending"}

Listens == Loops \cup {"ending"}

Waiting == {"backlog", "open", "sending"}

InHand == {"start", "probed", "offline", "engine", "unsent", "refused"}

\* Request c is in no store, no queue and no engine's hand.
Fresh(c) ==
  /\ c \notin disk
  /\ \A m \in Managers : hand[m] # c /\ \A k \in DOMAIN queue[m] : queue[m][k] # c

\* Request c is in the state that a manager's connections see.
Known(c) == c \in disk /\ \A m \in Managers : mgr[m] \in Held => c \in snapshot[m]

\* One engine at a time, and it has the newest state.
OneEngine ==
  /\ \A m \in Managers : mgr[m] \in Held => lock = m /\ mem[m] = disk
  /\ \A c \in Clients : pc[c] = "engine" => lock = c /\ mem[c] = disk
  /\ \A m \in Managers : mgr[m] \in Listens => socket = m
  /\ \A m \in Managers : snapshot[m] \subseteq disk

\* What an engine has in its queue and in its hand is on a connection to it.
Queues ==
  \A m \in Managers :
    /\ mgr[m] \notin Loops => queue[m] = <<>>
    /\ \A k \in DOMAIN queue[m] :
         /\ queue[m][k] \notin queries \cup disk
         /\ conn[queue[m][k]] = "queued" /\ at[queue[m][k]] = m
         /\ \A l \in DOMAIN queue[m] : queue[m][k] = queue[m][l] => k = l
    /\ mgr[m] # "saved" => hand[m] = Nobody
    /\ mgr[m] = "saved" =>
         /\ hand[m] \in Clients \ queries /\ outcome[m] \in {"ok", "error"}
         /\ conn[hand[m]] = "queued" /\ at[hand[m]] = m
         /\ outcome[m] = "ok" => hand[m] \in disk
         /\ \A k \in DOMAIN queue[m] : queue[m][k] # hand[m]

\* Where a request is.
Requests ==
  \A c \in Clients :
    /\ times[c] = IF c \in disk THEN 1 ELSE 0
    /\ conn[c] # "none" => pc[c] \in {"waiting", "unknown"}
    /\ conn[c] \in Waiting \cup {"queued"} => at[c] \in Managers
    /\ c \in queries => Fresh(c) /\ conn[c] \notin {"sending", "queued"}
    /\ conn[c] \in Waiting \/ pc[c] \in InHand => Fresh(c)
    /\ conn[c] = "queued" /\ hand[at[c]] # c => c \notin disk
    /\ conn[c] = "answered" => reply[c] \in {"ok", "error", "refused"}
    /\ conn[c] = "answered" /\ reply[c] = "refused" => Fresh(c)
    /\ c \notin queries /\ pc[c] = "ok" => Known(c)
    /\ c \notin queries /\ conn[c] = "answered" /\ reply[c] = "ok" => Known(c)

\* What a query was, or will be, answered from.
Answers ==
  \A c \in queries :
    /\ \A d \in before[c] : Known(d)
    /\ conn[c] \in {"backlog", "open"} => before[c] \subseteq snapshot[at[c]]
    /\ conn[c] = "answered" /\ reply[c] = "ok" => before[c] \subseteq view[c]
    /\ pc[c] = "ok" => before[c] \subseteq view[c]
    /\ view[c] \subseteq disk

IInv == TypeOK /\ OneEngine /\ Queues /\ Requests /\ Answers

-----------------------------------------------------------------------------
LEMMA StartStep ==
  ASSUME IInv, NEW m \in Managers, Start(m)
  PROVE  IInv'
  <1>0. TypeOK
    BY DEF IInv
  <1>1. TypeOK'
    BY <1>0 DEF TypeOK, Start, TryLock, Stages, Steps, Engines, process, channel, history
  <1>2. OneEngine'
    BY <1>0, NobodyAssumption, ProcessesAssumption
       DEF IInv, TypeOK, OneEngine, Start, TryLock, Held, Loops, Listens, Engines, process, channel, history
  <1>3. Queues'
    BY <1>0 DEF IInv, TypeOK, Queues, Start, TryLock, Loops, process, channel, history
  <1>4. Requests'
    BY <1>0 DEF IInv, TypeOK, OneEngine, Requests, Fresh, Known, Start, TryLock, Held, Waiting, InHand, process, channel, history
  <1>5. Answers'
    BY <1>0 DEF IInv, TypeOK, OneEngine, Answers, Known, Start, TryLock, Held, process, channel, history
  <1> QED BY <1>1, <1>2, <1>3, <1>4, <1>5 DEF IInv

LEMMA BindStep ==
  ASSUME IInv, NEW m \in Managers, Bind(m)
  PROVE  IInv'
  <1>0. TypeOK
    BY DEF IInv
  <1>1. TypeOK'
    BY <1>0 DEF TypeOK, Bind, Stages, Steps, Engines, process, channel, history
  <1>2. OneEngine'
    BY <1>0, NobodyAssumption, ProcessesAssumption
       DEF IInv, TypeOK, OneEngine, Bind, Held, Loops, Listens, Engines, process, channel, history
  <1>3. Queues'
    BY <1>0 DEF IInv, TypeOK, Queues, Bind, Loops, process, channel, history
  <1>4. Requests'
    BY <1>0 DEF IInv, TypeOK, OneEngine, Requests, Fresh, Known, Bind, Held, Waiting, InHand, process, channel, history
  <1>5. Answers'
    BY <1>0 DEF IInv, TypeOK, OneEngine, Answers, Known, Bind, Held, process, channel, history
  <1> QED BY <1>1, <1>2, <1>3, <1>4, <1>5 DEF IInv

LEMMA HandleStep ==
  ASSUME IInv, NEW m \in Managers, Handle(m)
  PROVE  IInv'
  <1> DEFINE c == Head(queue[m])
             rest == Tail(queue[m])
  <1>0. TypeOK
    BY DEF IInv
  <1>1. /\ c \in Clients /\ rest \in Seq(Clients) /\ Len(rest) <= QueueSize
        /\ 1 \in DOMAIN queue[m] /\ c = queue[m][1]
        /\ \A k \in DOMAIN rest : k + 1 \in DOMAIN queue[m] /\ rest[k] = queue[m][k + 1] /\ k # 0
    <2>1. queue[m] \in Seq(Clients) /\ queue[m] # <<>> /\ Len(queue[m]) <= QueueSize
      BY <1>0 DEF TypeOK, Handle
    <2>2. QueueSize \in Nat
      BY LimitsAssumption
    <2> QED BY <2>1, <2>2
  <1>2. /\ c \notin queries \cup disk /\ conn[c] = "queued" /\ at[c] = m
        /\ \A k \in DOMAIN rest : rest[k] # c
    BY <1>1 DEF IInv, Queues
  <1>3. \/ /\ mem' = [mem EXCEPT ![m] = mem[m] \cup {c}] /\ disk' = mem[m] \cup {c}
           /\ times' = [times EXCEPT ![c] = times[c] + 1]
        \/ disk' = disk /\ mem' = mem /\ times' = times /\ outcome'[m] = "error"
    BY <1>0 DEF TypeOK, Handle, Handled, TakesIn
  <1>4. /\ mgr' = [mgr EXCEPT ![m] = "saved"] /\ hand' = [hand EXCEPT ![m] = c]
        /\ queue' = [queue EXCEPT ![m] = rest]
        /\ \E result \in {"ok", "error"} : outcome' = [outcome EXCEPT ![m] = result]
        /\ mgr[m] = "serving"
        /\ UNCHANGED <<lock, socket, deaf, snapshot, pc, channel, queries, before, view>>
    BY DEF Handle
  <1>5. mem[m] = disk /\ lock = m
    BY <1>4 DEF IInv, OneEngine, Held
  <1> HIDE DEF c, rest
  <1>6. TypeOK'
    <2>1. mem' \in [Engines -> SUBSET Clients] /\ disk' \subseteq Clients
      <3>1. m \in Engines /\ mem \in [Engines -> SUBSET Clients] /\ disk \subseteq Clients
        BY <1>0 DEF TypeOK, Engines
      <3>2. mem[m] \cup {c} \in SUBSET Clients
        BY <1>1, <3>1
      <3> QED BY <1>3, <3>1, <3>2
    <2>2. times' \in [Clients -> Nat]
      <3>1. times \in [Clients -> Nat]
        BY <1>0 DEF TypeOK
      <3> QED BY <1>1, <1>3, <3>1
    <2>3. queue' \in [Managers -> Seq(Clients)] /\ \A n \in Managers : Len(queue'[n]) <= QueueSize
      BY <1>0, <1>1, <1>4 DEF TypeOK
    <2> QED BY <1>0, <1>1, <1>4, <2>1, <2>2, <2>3 DEF TypeOK, Stages, Replies, channel
  <1>7. OneEngine'
    BY <1>0, <1>3, <1>4, <1>5, NobodyAssumption, ProcessesAssumption
       DEF IInv, TypeOK, OneEngine, Engines, Held, Loops, Listens
  <1>8. Queues'
    <2>1. /\ mem[m] = disk /\ UNCHANGED <<queries, conn, at>>
          /\ \A n \in Managers : /\ mgr'[n] = IF n = m THEN "saved" ELSE mgr[n]
                                 /\ hand'[n] = IF n = m THEN c ELSE hand[n]
                                 /\ queue'[n] = IF n = m THEN rest ELSE queue[n]
                                 /\ n # m => outcome'[n] = outcome[n]
          /\ outcome'[m] \in {"ok", "error"}
      BY <1>0, <1>4, <1>5 DEF TypeOK, channel
    <2>2. /\ disk' = disk \cup {c} \/ (disk' = disk /\ outcome'[m] = "error")
          /\ outcome'[m] = "ok" => c \in disk'
      BY <1>3, <2>1
    <2>3. /\ \A k \in DOMAIN rest : /\ rest[k] \notin queries \cup disk \cup {c}
                                   /\ conn[rest[k]] = "queued" /\ at[rest[k]] = m
          /\ \A k, l \in DOMAIN rest : rest[k] = rest[l] => k = l
      BY <1>1, <1>2 DEF IInv, Queues
    <2>4. \A n \in Managers \ {m} : /\ hand[n] # c /\ \A k \in DOMAIN queue[n] : queue[n][k] # c
      BY <1>1, <1>2, NobodyAssumption DEF IInv, Queues
    <2> QED BY <1>1, <1>2, <1>4, <2>1, <2>2, <2>3, <2>4 DEF IInv, Queues, Loops
  <1>9. Requests'
    <2>1. \A d \in Clients : d # c => (d \in disk' <=> d \in disk) /\ times'[d] = times[d]
      <3>1. times \in [Clients -> Nat]
        BY <1>0 DEF TypeOK
      <3> QED BY <1>1, <1>3, <1>5, <3>1
    <2>2. \A d \in Clients : Fresh(d) /\ d # c => Fresh(d)'
      BY <1>0, <1>1, <1>4, <2>1 DEF Fresh, TypeOK
    <2>3. \A d \in Clients : Known(d) => Known(d)'
      BY <1>0, <1>3, <1>4, <1>5 DEF Known, TypeOK, Held
    <2>4. times'[c] = IF c \in disk' THEN 1 ELSE 0
      <3>1. times \in [Clients -> Nat]
        BY <1>0 DEF TypeOK
      <3>2. times[c] = 0
        BY <1>1, <1>2 DEF IInv, Requests
      <3> QED BY <1>1, <1>2, <1>3, <3>1, <3>2
    <2>5. \A d \in Clients : conn[d] = "queued" /\ hand'[at[d]] # d => d \notin disk'
      <3>1. hand[m] = Nobody /\ hand' = [hand EXCEPT ![m] = c] /\ hand \in [Managers -> Clients \cup {Nobody}]
        BY <1>0, <1>4 DEF IInv, TypeOK, Queues
      <3>2. \A d \in Clients : conn[d] = "queued" => at[d] \in Managers
        BY DEF IInv, Requests
      <3>3. \A d \in Clients : conn[d] = "queued" /\ hand[at[d]] # d => d \notin disk
        BY DEF IInv, Requests
      <3> QED BY <1>1, <1>2, <2>1, <3>1, <3>2, <3>3, NobodyAssumption
    <2>6. pc[c] \in {"waiting", "unknown"} /\ conn[c] = "queued"
      BY <1>1, <1>2 DEF IInv, Requests
    <2> QED BY <1>1, <1>2, <1>4, <2>1, <2>2, <2>3, <2>4, <2>5, <2>6
            DEF IInv, Requests, Waiting, InHand, channel
  <1>10. Answers'
    <2>1. \A d \in Clients : Known(d) => Known(d)'
      BY <1>0, <1>3, <1>4, <1>5 DEF Known, TypeOK, Held
    <2>2. disk \subseteq disk'
      BY <1>3, <1>5
    <2> QED BY <1>0, <1>4, <2>1, <2>2 DEF IInv, TypeOK, Answers, channel
  <1> QED BY <1>6, <1>7, <1>8, <1>9, <1>10 DEF IInv

LEMMA AnswerStep ==
  ASSUME IInv, NEW m \in Managers, Answer(m)
  PROVE  IInv'
  <1> DEFINE c == hand[m]
  <1>0. TypeOK
    BY DEF IInv
  <1>1. c \in Clients \ queries /\ conn[c] = "queued" /\ at[c] = m /\ outcome[m] \in {"ok", "error"}
    BY DEF IInv, Queues, Answer
  <1>2. conn' = [conn EXCEPT ![c] = "answered"] /\ reply' = [reply EXCEPT ![c] = outcome[m]]
    BY <1>1 DEF Answer
  <1>3. TypeOK'
    <2>1. conn' \in [Clients -> Links] /\ reply' \in [Clients -> Replies]
      <3>1. conn \in [Clients -> Links] /\ reply \in [Clients -> Replies]
        BY <1>0 DEF TypeOK
      <3> QED BY <1>1, <1>2, <3>1 DEF Links, Replies
    <2>2. snapshot' \in [Managers -> SUBSET Clients]
      BY <1>0 DEF TypeOK, Answer, Published, Engines
    <2> QED BY <1>0, <2>1, <2>2 DEF TypeOK, Answer, Stages, Replies, history
  <1>4. OneEngine'
    BY <1>0 DEF IInv, TypeOK, OneEngine, Answer, Published, Held, Loops, Listens
  <1>5. Queues'
    BY <1>0, <1>1, <1>2 DEF IInv, TypeOK, Queues, Answer, Loops, history
  <1>6. Requests'
    <2>1. mem[m] = disk /\ mgr[m] \in Held /\ \A n \in Managers \ {m} : mgr[n] \notin Held
      BY DEF IInv, OneEngine, Answer, Held
    <2>2. \A d \in Clients : (Fresh(d) => Fresh(d)') /\ (Known(d) => Known(d)')
      BY <1>0, <2>1, NobodyAssumption DEF TypeOK, Fresh, Known, Answer, Published, Held
    <2>3. \A d \in Clients : d = c /\ outcome[m] = "ok" => d \in disk /\ Known(d)'
      BY <1>0, <1>1, <2>1 DEF IInv, TypeOK, Queues, Known, Answer, Published, Held
    <2> QED BY <1>0, <1>1, <1>2, <2>2, <2>3
            DEF IInv, TypeOK, Queues, Requests, Answer, Waiting, InHand, history
  <1>7. Answers'
    BY <1>0, <1>1, <1>2 DEF IInv, TypeOK, OneEngine, Answers, Known, Answer, Published, Held, history
  <1> QED BY <1>3, <1>4, <1>5, <1>6, <1>7 DEF IInv

LEMMA AcceptFailsStep ==
  ASSUME IInv, NEW m \in Managers, AcceptFails(m)
  PROVE  IInv'
  <1>0. TypeOK
    BY DEF IInv
  <1>1. /\ UNCHANGED <<mgr, lock, socket, mem, snapshot, queue, hand, outcome, disk, pc, at, reply,
                      history>>
        /\ \A c \in Clients : conn'[c] = conn[c] \/ (conn[c] = "backlog" /\ conn'[c] = "gone")
    BY <1>0 DEF TypeOK, AcceptFails
  <1>2. TypeOK'
    <2>1. conn' \in [Clients -> Links] /\ probe' \in [Clients -> {"none", "backlog", "open"}]
      BY <1>0 DEF TypeOK, AcceptFails, Links
    <2>2. deaf' \subseteq Managers
      BY <1>0 DEF TypeOK, AcceptFails
    <2> QED BY <1>0, <1>1, <2>1, <2>2 DEF TypeOK, history
  <1>3. OneEngine'
    BY <1>1 DEF IInv, OneEngine
  <1>4. Queues'
    BY <1>0, <1>1 DEF IInv, TypeOK, Queues, history
  <1>5. Requests'
    BY <1>1 DEF IInv, Requests, Fresh, Known, Waiting, InHand, history
  <1>6. Answers'
    BY <1>0, <1>1 DEF IInv, TypeOK, Answers, Known, history
  <1> QED BY <1>2, <1>3, <1>4, <1>5, <1>6 DEF IInv

LEMMA EndsStep ==
  ASSUME IInv, NEW m \in Managers, Ends(m)
  PROVE  IInv'
  <1>0. TypeOK
    BY DEF IInv
  <1>1. TypeOK'
    <2>1. queue' \in [Managers -> Seq(Clients)] /\ \A n \in Managers : Len(queue'[n]) <= QueueSize
      <3>1. <<>> \in Seq(Clients) /\ Len(<<>>) = 0 /\ QueueSize \in Nat
        BY LimitsAssumption
      <3> QED BY <1>0, <3>1 DEF TypeOK, Ends
    <2> QED BY <1>0, <2>1 DEF TypeOK, Ends, Stages, Links, Replies, history
  <1>2. OneEngine'
    BY <1>0 DEF IInv, TypeOK, OneEngine, Ends, Held, Loops, Listens
  <1>3. Queues'
    BY <1>0 DEF IInv, TypeOK, Queues, Ends, Queued, Loops, history
  <1>4. Requests'
    BY <1>0, NobodyAssumption
       DEF IInv, TypeOK, Queues, Requests, Fresh, Known, Ends, Queued, Held, Waiting, InHand, history
  <1>5. Answers'
    BY <1>0 DEF IInv, TypeOK, Answers, Known, Ends, Queued, Held, history
  <1> QED BY <1>1, <1>2, <1>3, <1>4, <1>5 DEF IInv

LEMMA UnbindStep ==
  ASSUME IInv, NEW m \in Managers, Unbind(m)
  PROVE  IInv'
  <1>0. TypeOK
    BY DEF IInv
  <1>1. TypeOK'
    BY <1>0 DEF TypeOK, Unbind, Stages, Steps, Engines, process, channel, history
  <1>2. OneEngine'
    BY <1>0, NobodyAssumption, ProcessesAssumption
       DEF IInv, TypeOK, OneEngine, Unbind, Held, Loops, Listens, Engines, process, channel, history
  <1>3. Queues'
    BY <1>0 DEF IInv, TypeOK, Queues, Unbind, Loops, process, channel, history
  <1>4. Requests'
    BY <1>0 DEF IInv, TypeOK, OneEngine, Requests, Fresh, Known, Unbind, Held, Waiting, InHand, process, channel, history
  <1>5. Answers'
    BY <1>0 DEF IInv, TypeOK, OneEngine, Answers, Known, Unbind, Held, process, channel, history
  <1> QED BY <1>1, <1>2, <1>3, <1>4, <1>5 DEF IInv

LEMMA ReleaseStep ==
  ASSUME IInv, NEW m \in Managers, Release(m)
  PROVE  IInv'
  <1>0. TypeOK
    BY DEF IInv
  <1>1. TypeOK'
    BY <1>0 DEF TypeOK, Release, Tidied, Unlock, Stages, Steps, Engines, process, channel, history
  <1>2. OneEngine'
    BY <1>0, NobodyAssumption, ProcessesAssumption
       DEF IInv, TypeOK, OneEngine, Release, Tidied, Unlock, Held, Loops, Listens, Engines, process, channel, history
  <1>3. Queues'
    BY <1>0 DEF IInv, TypeOK, Queues, Release, Tidied, Unlock, Loops, process, channel, history
  <1>4. Requests'
    BY <1>0 DEF IInv, TypeOK, OneEngine, Requests, Fresh, Known, Release, Tidied, Unlock, Held, Waiting, InHand, process, channel, history
  <1>5. Answers'
    BY <1>0 DEF IInv, TypeOK, OneEngine, Answers, Known, Release, Tidied, Unlock, Held, process, channel, history
  <1> QED BY <1>1, <1>2, <1>3, <1>4, <1>5 DEF IInv

LEMMA GoneStep ==
  ASSUME IInv, NEW m \in Managers, mgr[m] # "off", Gone(m)
  PROVE  IInv'
  <1>0. TypeOK
    BY DEF IInv
  <1>1. TypeOK'
    <2>1. queue' \in [Managers -> Seq(Clients)] /\ \A n \in Managers : Len(queue'[n]) <= QueueSize
      <3>1. <<>> \in Seq(Clients) /\ Len(<<>>) = 0 /\ QueueSize \in Nat
        BY LimitsAssumption
      <3> QED BY <1>0, <3>1 DEF TypeOK, Gone
    <2>2. mem' \in [Engines -> SUBSET Clients] /\ snapshot' \in [Managers -> SUBSET Clients]
      BY <1>0 DEF TypeOK, Gone, Engines
    <2>3. conn' \in [Clients -> Links] /\ probe' \in [Clients -> {"none", "backlog", "open"}]
      BY <1>0 DEF TypeOK, Gone, Broken, Links
    <2>4. at' \in [Clients -> Managers \cup {Nobody}] /\ reply' \in [Clients -> Replies]
      BY <1>0 DEF TypeOK, Gone, Broken, Replies
    <2> QED BY <1>0, <2>1, <2>2, <2>3, <2>4 DEF TypeOK, Gone, Unlock, Stages, Replies, Engines, history
  <1>2. OneEngine'
    BY <1>0, NobodyAssumption, ProcessesAssumption
       DEF IInv, TypeOK, OneEngine, Gone, Unlock, Held, Loops, Listens, Engines
  <1>3. Queues'
    BY <1>0 DEF IInv, TypeOK, Queues, Gone, Broken, Loops, history
  <1>4. Requests'
    BY <1>0, NobodyAssumption
       DEF IInv, TypeOK, Queues, Requests, Fresh, Known, Gone, Broken, Held, Waiting, InHand, history
  <1>5. Answers'
    BY <1>0 DEF IInv, TypeOK, Answers, Known, Gone, Broken, Held, history
  <1> QED BY <1>1, <1>2, <1>3, <1>4, <1>5 DEF IInv

LEMMA AcceptStep ==
  ASSUME IInv, NEW c \in Clients, Accept(c)
  PROVE  IInv'
  <1>0. TypeOK
    BY DEF IInv
  <1>1. /\ \/ conn[c] = "backlog" /\ conn' = [conn EXCEPT ![c] = "open"] /\ UNCHANGED probe
           \/ probe[c] = "backlog" /\ probe' = [probe EXCEPT ![c] = "open"] /\ UNCHANGED conn
        /\ UNCHANGED <<process, disk, pc, at, reply, history>>
    BY DEF Accept
  <1>2. \A d \in Clients : \/ conn'[d] = conn[d]
                           \/ d = c /\ conn[c] = "backlog" /\ conn'[d] = "open"
    <2>1. conn \in [Clients -> Links]
      BY <1>0 DEF TypeOK
    <2> QED BY <1>1, <2>1
  <1>3. TypeOK'
    <2>1. conn' \in [Clients -> Links] /\ probe' \in [Clients -> {"none", "backlog", "open"}]
      <3>1. conn \in [Clients -> Links] /\ probe \in [Clients -> {"none", "backlog", "open"}]
        BY <1>0 DEF TypeOK
      <3> QED BY <1>1, <3>1 DEF Links
    <2> QED BY <1>0, <1>1, <2>1 DEF TypeOK, process, history
  <1>4. OneEngine'
    BY <1>1 DEF IInv, OneEngine, process, history
  <1>5. Queues'
    BY <1>0, <1>1, <1>2 DEF IInv, TypeOK, Queues, process, history
  <1>6. Requests'
    BY <1>1, <1>2 DEF IInv, Requests, Fresh, Known, Waiting, process, history
  <1>7. Answers'
    BY <1>0, <1>1, <1>2 DEF IInv, TypeOK, Answers, Known, process, history
  <1> QED BY <1>3, <1>4, <1>5, <1>6, <1>7 DEF IInv

LEMMA CloseProbeStep ==
  ASSUME IInv, NEW c \in Clients, CloseProbe(c)
  PROVE  IInv'
  <1>0. TypeOK
    BY DEF IInv
  <1>1. TypeOK'
    BY <1>0 DEF TypeOK, CloseProbe, EndsAtOnce, Stages, Steps, Engines, process, channel, history
  <1>2. OneEngine'
    BY <1>0, NobodyAssumption, ProcessesAssumption
       DEF IInv, TypeOK, OneEngine, CloseProbe, EndsAtOnce, Held, Loops, Listens, Engines, process, channel, history
  <1>3. Queues'
    BY <1>0 DEF IInv, TypeOK, Queues, CloseProbe, EndsAtOnce, Loops, process, channel, history
  <1>4. Requests'
    BY <1>0 DEF IInv, TypeOK, OneEngine, Requests, Fresh, Known, CloseProbe, EndsAtOnce, Held, Waiting, InHand, process, channel, history
  <1>5. Answers'
    BY <1>0 DEF IInv, TypeOK, OneEngine, Answers, Known, CloseProbe, EndsAtOnce, Held, process, channel, history
  <1> QED BY <1>1, <1>2, <1>3, <1>4, <1>5 DEF IInv

LEMMA ServeStep ==
  ASSUME IInv, NEW c \in Clients, Serve(c)
  PROVE  IInv'
  <1>0. TypeOK
    BY DEF IInv
  <1>1. \/ \E r \in {"refused", "ok", "error"} :
             /\ conn' = [conn EXCEPT ![c] = "answered"] /\ reply' = [reply EXCEPT ![c] = r]
             /\ \/ r = "refused" /\ UNCHANGED view
                \/ c \in queries /\ view' = [view EXCEPT ![c] = snapshot[at[c]]]
        \/ /\ c \notin queries /\ conn' = [conn EXCEPT ![c] = "sending"]
           /\ UNCHANGED <<reply, view>>
    BY DEF Serve, Respond
  <1>2. /\ conn[c] = "open" /\ at[c] \in Managers
        /\ UNCHANGED <<process, disk, pc, probe, at, queries, times, before>>
    BY DEF Serve, IInv, Requests, Waiting
  <1>3. /\ \A d \in Clients \ {c} : conn'[d] = conn[d] /\ reply'[d] = reply[d] /\ view'[d] = view[d]
        /\ conn'[c] \in {"answered", "sending"}
        /\ conn'[c] = "answered" => \/ reply'[c] = "refused" /\ view'[c] = view[c]
                                    \/ /\ c \in queries /\ reply'[c] \in {"refused", "ok", "error"}
                                       /\ view'[c] = snapshot[at[c]]
        /\ conn'[c] = "sending" => c \notin queries /\ view'[c] = view[c]
    BY <1>0, <1>1 DEF TypeOK
  <1>4. TypeOK'
    <2>1. conn' \in [Clients -> Links] /\ reply' \in [Clients -> Replies]
      <3>1. conn \in [Clients -> Links] /\ reply \in [Clients -> Replies]
        BY <1>0 DEF TypeOK
      <3> QED BY <1>1, <3>1 DEF Links, Replies
    <2>2. view' \in [Clients -> SUBSET Clients]
      <3>1. view \in [Clients -> SUBSET Clients] /\ snapshot[at[c]] \in SUBSET Clients
        BY <1>0, <1>2 DEF TypeOK
      <3> QED BY <1>1, <3>1
    <2> QED BY <1>0, <1>2, <2>1, <2>2 DEF TypeOK, process
  <1>5. OneEngine'
    BY <1>2 DEF IInv, OneEngine, process
  <1>6. Queues'
    BY <1>0, <1>2, <1>3 DEF IInv, TypeOK, Queues, process
  <1>7. Requests'
    <2>1. \A d \in Clients : (Fresh(d) => Fresh(d)') /\ (Known(d) => Known(d)')
      BY <1>2 DEF Fresh, Known, process
    <2>2. Fresh(c) /\ pc[c] \in {"waiting", "unknown"}
      BY <1>2 DEF IInv, Requests, Waiting
    <2> QED BY <1>2, <1>3, <2>1, <2>2 DEF IInv, Requests, Waiting, process
  <1>8. Answers'
    <2>1. \A d \in Clients : Known(d) => Known(d)'
      BY <1>2 DEF Known, process
    <2>2. pc[c] # "ok"
      BY <1>2 DEF IInv, Requests
    <2>3. c \in queries => /\ \A d \in before[c] : Known(d)
                           /\ before[c] \subseteq snapshot[at[c]]
                           /\ view[c] \subseteq disk
      BY <1>2 DEF IInv, Answers
    <2>4. snapshot[at[c]] \subseteq disk
      BY <1>0, <1>2 DEF IInv, TypeOK, OneEngine
    <2>5. ASSUME c \in queries
          PROVE  /\ \A d \in before[c] : Known(d)'
                 /\ conn'[c] \notin {"backlog", "open"}
                 /\ conn'[c] = "answered" /\ reply'[c] = "ok" => before[c] \subseteq view'[c]
                 /\ view'[c] \subseteq disk
      BY <1>0, <1>3, <2>1, <2>3, <2>4, <2>5 DEF TypeOK
    <2>6. ASSUME NEW e \in queries, e # c
          PROVE  /\ \A d \in before[e] : Known(d)'
                 /\ conn'[e] \in {"backlog", "open"} => before[e] \subseteq snapshot[at[e]]
                 /\ conn'[e] = "answered" /\ reply'[e] = "ok" => before[e] \subseteq view'[e]
                 /\ pc[e] = "ok" => before[e] \subseteq view'[e]
                 /\ view'[e] \subseteq disk
      BY <1>0, <1>3, <2>1, <2>6 DEF IInv, TypeOK, Answers
    <2> QED BY <1>2, <2>2, <2>5, <2>6 DEF Answers, process
  <1> QED BY <1>4, <1>5, <1>6, <1>7, <1>8 DEF IInv

LEMMA EnqueueStep ==
  ASSUME IInv, NEW c \in Clients, Enqueue(c)
  PROVE  IInv'
  <1> DEFINE m == at[c]
             longer == Append(queue[m], c)
  <1>0. TypeOK
    BY DEF IInv
  <1>1. /\ m \in Managers /\ conn[c] = "sending" /\ c \notin queries /\ Fresh(c)
        /\ UNCHANGED <<mgr, lock, socket, deaf, mem, snapshot, hand, outcome, disk, pc, probe, at,
                       history>>
    BY DEF Enqueue, IInv, Requests, Waiting
  <1>2. OneEngine'
    BY <1>1 DEF IInv, OneEngine
  <1>3. CASE /\ conn' = [conn EXCEPT ![c] = "answered"] /\ reply' = [reply EXCEPT ![c] = "refused"]
             /\ UNCHANGED queue
    <2>1. TypeOK'
      BY <1>0, <1>1, <1>3 DEF TypeOK, Links, Replies, history
    <2>2. Queues'
      BY <1>0, <1>1, <1>3 DEF IInv, TypeOK, Queues, history
    <2>3. Requests'
      BY <1>0, <1>1, <1>3 DEF IInv, TypeOK, Requests, Fresh, Known, Waiting, history
    <2>4. Answers'
      BY <1>0, <1>1, <1>3 DEF IInv, TypeOK, Answers, Known, history
    <2> QED BY <1>2, <2>1, <2>2, <2>3, <2>4 DEF IInv
  <1>4. CASE /\ mgr[m] \in Loops /\ Len(queue[m]) < QueueSize
             /\ queue' = [queue EXCEPT ![m] = longer]
             /\ conn' = [conn EXCEPT ![c] = "queued"] /\ UNCHANGED reply
    <2>1. /\ longer \in Seq(Clients) /\ Len(longer) <= QueueSize
          /\ \A k \in DOMAIN longer : \/ k \in DOMAIN queue[m] /\ longer[k] = queue[m][k]
                                      \/ k = Len(queue[m]) + 1 /\ longer[k] = c
      <3>1. queue[m] \in Seq(Clients) /\ QueueSize \in Nat
        BY <1>0, <1>1, LimitsAssumption DEF TypeOK
      <3> QED BY <1>4, <3>1
    <2> HIDE DEF longer
    <2>2. TypeOK'
      BY <1>0, <1>1, <1>4, <2>1 DEF TypeOK, Links, history
    <2>3. Queues'
      BY <1>0, <1>1, <1>4, <2>1 DEF IInv, TypeOK, Queues, Fresh, history
    <2>4. Requests'
      <3>1. \A d \in Clients : (Known(d) => Known(d)') /\ (Fresh(d) /\ d # c => Fresh(d)')
        BY <1>0, <1>1, <1>4, <2>1 DEF TypeOK, Fresh, Known
      <3>2. pc[c] \in {"waiting", "unknown"} /\ c \notin disk
        BY <1>1 DEF IInv, Requests, Fresh
      <3> QED BY <1>0, <1>1, <1>4, <3>1, <3>2 DEF IInv, TypeOK, Requests, Waiting, InHand, history
    <2>5. Answers'
      BY <1>0, <1>1, <1>4 DEF IInv, TypeOK, Answers, Known, history
    <2> QED BY <1>2, <2>2, <2>3, <2>4, <2>5 DEF IInv
  <1> QED BY <1>3, <1>4 DEF Enqueue, Respond, HasRoom

LEMMA TryStep ==
  ASSUME IInv, NEW c \in Clients, Try(c)
  PROVE  IInv'
  <1>0. TypeOK
    BY DEF IInv
  <1>1. /\ pc[c] = "start" /\ conn[c] = "none" /\ Fresh(c)
        /\ UNCHANGED <<process, disk, conn, reply, queries, times, view>>
        /\ before' = [before EXCEPT ![c] = IF c \in queries THEN Reported ELSE {}]
    BY <1>0 DEF Try, IInv, TypeOK, Requests, InHand, Links
  <1>2. \/ /\ pc' = [pc EXCEPT ![c] = "probed"] /\ socket \in Managers
           /\ at' = [at EXCEPT ![c] = socket]
           /\ probe' = [probe EXCEPT ![c] = IF mgr[socket] = "ending" THEN "none" ELSE "backlog"]
        \/ pc' = [pc EXCEPT ![c] = "offline"] /\ UNCHANGED <<at, probe>>
    BY <1>0 DEF Try, Became, Listening, TypeOK
  <1>3. \A d \in Clients : (Known(d) => Known(d)') /\ (Fresh(d) => Fresh(d)')
    BY <1>1 DEF Known, Fresh, process
  <1>4. pc'[c] \in {"probed", "offline"} /\ \A d \in Clients \ {c} : pc'[d] = pc[d] /\ at'[d] = at[d]
    BY <1>0, <1>2 DEF TypeOK
  <1>5. TypeOK'
    <2>1. pc' \in [Clients -> Steps] /\ at' \in [Clients -> Managers \cup {Nobody}]
      <3>1. pc \in [Clients -> Steps] /\ at \in [Clients -> Managers \cup {Nobody}]
        BY <1>0 DEF TypeOK
      <3> QED BY <1>2, <3>1 DEF Steps
    <2>2. probe' \in [Clients -> {"none", "backlog", "open"}]
      BY <1>0, <1>2 DEF TypeOK
    <2>3. before' \in [Clients -> SUBSET Clients]
      BY <1>0, <1>1 DEF Reported, TypeOK
    <2> QED BY <1>0, <1>1, <2>1, <2>2, <2>3 DEF TypeOK, process
  <1>6. OneEngine'
    BY <1>1, <1>4 DEF IInv, OneEngine, process
  <1>7. Queues'
    BY <1>0, <1>1, <1>4 DEF IInv, TypeOK, Queues, process
  <1>8. Requests'
    BY <1>0, <1>1, <1>3, <1>4 DEF IInv, TypeOK, Requests, Waiting, InHand, process
  <1>9. Answers'
    <2>1. \A d \in Reported : d \in Clients /\ Known(d)
      BY DEF Reported, IInv, Requests
    <2>2. \A q \in queries : \A d \in before'[q] : d \in Clients /\ Known(d)
      BY <1>0, <1>1, <2>1 DEF IInv, TypeOK, Answers
    <2> QED BY <1>0, <1>1, <1>3, <1>4, <2>2 DEF IInv, TypeOK, Answers, process
  <1> QED BY <1>5, <1>6, <1>7, <1>8, <1>9 DEF IInv

LEMMA SendStep ==
  ASSUME IInv, NEW c \in Clients, Send(c)
  PROVE  IInv'
  <1>0. TypeOK
    BY DEF IInv
  <1>1. /\ pc[c] = "probed" /\ conn[c] = "none" /\ Fresh(c)
        /\ UNCHANGED <<process, disk, reply, history>>
    BY <1>0 DEF Send, IInv, TypeOK, Requests, InHand, Links
  <1>2. \/ /\ pc' = [pc EXCEPT ![c] = "waiting"]
           /\ socket \in Managers /\ mgr[socket] \in Listens
           /\ at' = [at EXCEPT ![c] = socket]
           /\ conn' = [conn EXCEPT ![c] = IF mgr[socket] = "ending" THEN "gone" ELSE "backlog"]
           /\ probe' = [probe EXCEPT ![c] = IF at[c] = socket THEN probe[c] ELSE "none"]
        \/ pc' = [pc EXCEPT ![c] = "unsent"] /\ UNCHANGED <<at, conn, probe>>
    BY <1>0 DEF Send, Became, Listening, Listens, TypeOK
  <1>3. /\ \A d \in Clients \ {c} : conn'[d] = conn[d] /\ pc'[d] = pc[d] /\ at'[d] = at[d]
        /\ \/ pc'[c] = "unsent" /\ conn'[c] = "none"
           \/ pc'[c] = "waiting" /\ conn'[c] = "gone"
           \/ /\ pc'[c] = "waiting" /\ conn'[c] = "backlog" /\ at'[c] = socket
              /\ socket \in Managers /\ mgr[socket] \in Listens
    BY <1>0, <1>1, <1>2 DEF TypeOK
  <1>4. \A d \in Clients : (Known(d) => Known(d)') /\ (Fresh(d) => Fresh(d)')
    BY <1>1 DEF Known, Fresh, process
  <1>5. TypeOK'
    <2>1. pc' \in [Clients -> Steps] /\ at' \in [Clients -> Managers \cup {Nobody}]
      <3>1. pc \in [Clients -> Steps] /\ at \in [Clients -> Managers \cup {Nobody}]
        BY <1>0 DEF TypeOK
      <3> QED BY <1>2, <3>1 DEF Steps
    <2>2. conn' \in [Clients -> Links] /\ probe' \in [Clients -> {"none", "backlog", "open"}]
      <3>1. conn \in [Clients -> Links] /\ probe \in [Clients -> {"none", "backlog", "open"}]
        BY <1>0 DEF TypeOK
      <3> QED BY <1>2, <3>1 DEF Links
    <2> QED BY <1>0, <1>1, <2>1, <2>2 DEF TypeOK, process, history
  <1>6. OneEngine'
    BY <1>1, <1>3 DEF IInv, OneEngine, process
  <1>7. Queues'
    BY <1>0, <1>1, <1>3 DEF IInv, TypeOK, Queues, process, history
  <1>8. Requests'
    BY <1>1, <1>3, <1>4 DEF IInv, Requests, Waiting, InHand, process, history
  <1>9. Answers'
    <2>1. socket \in Managers /\ mgr[socket] \in Listens /\ c \in queries =>
            before[c] \subseteq snapshot[socket]
      BY DEF Known, Held, Listens, Loops, IInv, Answers
    <2>2. \A q \in queries : q \in Clients /\ \A d \in before[q] : d \in Clients
      BY <1>0 DEF TypeOK
    <2> QED BY <1>1, <1>3, <1>4, <2>1, <2>2 DEF IInv, Answers, process, history
  <1> QED BY <1>5, <1>6, <1>7, <1>8, <1>9 DEF IInv

LEMMA ReceiveStep ==
  ASSUME IInv, NEW c \in Clients, Receive(c)
  PROVE  IInv'
  <1>0. TypeOK
    BY DEF IInv
  <1>1. /\ conn[c] = "answered" /\ reply[c] \in {"ok", "error", "refused"}
        /\ pc' = [pc EXCEPT ![c] = reply[c]] /\ conn' = [conn EXCEPT ![c] = "none"]
        /\ reply' = [reply EXCEPT ![c] = "none"]
        /\ UNCHANGED <<process, disk, probe, at, history>>
    BY DEF IInv, Requests, Receive, Became
  <1>2. /\ pc'[c] = reply[c] /\ conn'[c] = "none"
        /\ \A d \in Clients \ {c} : pc'[d] = pc[d] /\ conn'[d] = conn[d] /\ reply'[d] = reply[d]
    BY <1>0, <1>1 DEF TypeOK
  <1>3. TypeOK'
    BY <1>0, <1>1 DEF TypeOK, Steps, Links, Replies, process, history
  <1>4. OneEngine'
    BY <1>1, <1>2 DEF IInv, OneEngine, process
  <1>5. Queues'
    BY <1>0, <1>1, <1>2 DEF IInv, TypeOK, Queues, process, history
  <1>6. Requests'
    BY <1>1, <1>2 DEF IInv, Requests, Fresh, Known, Waiting, InHand, process, history
  <1>7. Answers'
    BY <1>0, <1>1, <1>2 DEF IInv, TypeOK, Answers, Known, process, history
  <1> QED BY <1>3, <1>4, <1>5, <1>6, <1>7 DEF IInv

LEMMA LoseStep ==
  ASSUME IInv, NEW c \in Clients, Lose(c)
  PROVE  IInv'
  <1>0. TypeOK
    BY DEF IInv
  <1>1. TypeOK'
    BY <1>0 DEF TypeOK, Lose, Became, GivesUp, Stages, Steps, Engines, process, channel, history
  <1>2. OneEngine'
    BY <1>0, NobodyAssumption, ProcessesAssumption
       DEF IInv, TypeOK, OneEngine, Lose, Became, GivesUp, Held, Loops, Listens, Engines, process, channel, history
  <1>3. Queues'
    BY <1>0 DEF IInv, TypeOK, Queues, Lose, Became, GivesUp, Loops, process, channel, history
  <1>4. Requests'
    BY <1>0 DEF IInv, TypeOK, OneEngine, Requests, Fresh, Known, Lose, Became, GivesUp, Held, Waiting, InHand, process, channel, history
  <1>5. Answers'
    BY <1>0 DEF IInv, TypeOK, OneEngine, Answers, Known, Lose, Became, GivesUp, Held, process, channel, history
  <1> QED BY <1>1, <1>2, <1>3, <1>4, <1>5 DEF IInv

LEMMA BeEngineStep ==
  ASSUME IInv, NEW c \in Clients, BeEngine(c)
  PROVE  IInv'
  <1>0. TypeOK
    BY DEF IInv
  <1>1. /\ pc[c] = "offline" /\ conn[c] = "none" /\ Fresh(c)
        /\ UNCHANGED <<mgr, socket, deaf, snapshot, queue, hand, outcome, disk, channel, history>>
    BY <1>0 DEF BeEngine, IInv, TypeOK, Requests, InHand, Links
  <1>2. \/ /\ lock = Nobody /\ lock' = c /\ pc' = [pc EXCEPT ![c] = "engine"]
           /\ mem' = [mem EXCEPT ![c] = disk]
        \/ pc' = [pc EXCEPT ![c] = "unsent"] /\ UNCHANGED <<lock, mem>>
    BY DEF BeEngine, TryLock, Became
  <1>3. \A d \in Clients : (Known(d) => Known(d)') /\ (Fresh(d) => Fresh(d)')
    BY <1>1 DEF Known, Fresh
  <1>4. /\ pc'[c] \in {"engine", "unsent"} /\ \A d \in Clients \ {c} : pc'[d] = pc[d]
        /\ pc'[c] = "engine" => lock = Nobody /\ lock' = c
        /\ pc'[c] = "unsent" => UNCHANGED <<lock, mem>>
    BY <1>0, <1>2 DEF TypeOK
  <1>5. /\ mem \in [Engines -> SUBSET Clients] /\ disk \in SUBSET Clients
        /\ c \in Engines /\ Managers \subseteq Engines
    BY <1>0 DEF TypeOK, Engines
  <1>6. TypeOK'
    <2>1. mem' \in [Engines -> SUBSET Clients] /\ lock' \in Engines \cup {Nobody}
      BY <1>0, <1>2, <1>5 DEF TypeOK
    <2>2. pc' \in [Clients -> Steps]
      BY <1>0, <1>2 DEF TypeOK, Steps
    <2> QED BY <1>0, <1>1, <2>1, <2>2 DEF TypeOK, channel, history
  <1>7. OneEngine'
    <2>1. /\ \A h \in Engines \ {c} : mem'[h] = mem[h]
          /\ pc'[c] = "engine" => mem'[c] = disk
      <3>1. pc \in [Clients -> Steps]
        BY <1>0 DEF TypeOK
      <3> QED BY <1>2, <1>5, <3>1
    <2>2. \A m \in Managers : mgr'[m] \in Held => lock' = m /\ mem'[m] = disk'
      BY <1>1, <1>4, <1>5, <2>1, NobodyAssumption, ProcessesAssumption DEF IInv, OneEngine
    <2>3. \A d \in Clients : pc'[d] = "engine" => lock' = d /\ mem'[d] = disk'
      BY <1>1, <1>4, <1>5, <2>1, NobodyAssumption DEF IInv, OneEngine, Engines
    <2> QED BY <1>1, <2>2, <2>3 DEF IInv, OneEngine
  <1>8. Queues'
    BY <1>1 DEF IInv, Queues, channel, history
  <1>9. Requests'
    BY <1>1, <1>3, <1>4 DEF IInv, Requests, Waiting, InHand, channel, history
  <1>10. Answers'
    <2>1. \A q \in queries : q \in Clients /\ \A d \in before[q] : d \in Clients
      BY <1>0 DEF TypeOK
    <2> QED BY <1>1, <1>3, <1>4, <2>1 DEF IInv, Answers, channel, history
  <1> QED BY <1>6, <1>7, <1>8, <1>9, <1>10 DEF IInv

LEMMA FinishStep ==
  ASSUME IInv, NEW c \in Clients, Finish(c)
  PROVE  IInv'
  <1>0. TypeOK
    BY DEF IInv
  <1>1. /\ pc[c] = "engine" /\ conn[c] = "none" /\ Fresh(c) /\ mem[c] = disk /\ lock = c
        /\ \A m \in Managers : mgr[m] \notin Held
        /\ UNCHANGED <<mgr, socket, deaf, snapshot, queue, hand, outcome, channel, queries, before>>
    <2>1. pc[c] = "engine" /\ lock = c /\ mem[c] = disk
      BY DEF Finish, IInv, OneEngine
    <2>2. \A m \in Managers : mgr[m] \notin Held
      BY <2>1, ProcessesAssumption DEF IInv, OneEngine
    <2>3. conn[c] = "none" /\ Fresh(c)
      BY <2>1 DEF IInv, Requests, InHand
    <2> QED BY <2>1, <2>2, <2>3 DEF Finish
  <1>2. /\ lock' = Nobody
        /\ \E result \in {"ok", "error"} :
             /\ pc' = [pc EXCEPT ![c] = result]
             /\ \/ /\ c \in queries /\ view' = [view EXCEPT ![c] = disk]
                   /\ UNCHANGED <<disk, mem, times>>
                \/ /\ c \notin queries /\ UNCHANGED view
                   /\ mem' = [mem EXCEPT ![c] = disk \cup {c}] /\ disk' = disk \cup {c}
                   /\ times' = [times EXCEPT ![c] = times[c] + 1]
                \/ /\ c \notin queries /\ result = "error"
                   /\ UNCHANGED <<disk, mem, times, view>>
    BY <1>1 DEF Finish, Unlock, Became, Handled, TakesIn
  <1>3. TypeOK'
    <2>1. /\ mem \in [Engines -> SUBSET Clients] /\ disk \in SUBSET Clients /\ c \in Engines
          /\ times \in [Clients -> Nat] /\ view \in [Clients -> SUBSET Clients]
          /\ pc \in [Clients -> Steps]
      BY <1>0 DEF TypeOK, Engines
    <2>2. mem' \in [Engines -> SUBSET Clients] /\ disk' \in SUBSET Clients
      <3>1. disk \cup {c} \in SUBSET Clients
        BY <2>1
      <3> QED BY <1>2, <2>1, <3>1
    <2>3. times' \in [Clients -> Nat]
      BY <1>2, <2>1
    <2>4. view' \in [Clients -> SUBSET Clients] /\ pc' \in [Clients -> Steps]
      BY <1>2, <2>1 DEF Steps
    <2> QED BY <1>0, <1>1, <1>2, <2>2, <2>3, <2>4 DEF TypeOK, channel
  <1>4. /\ disk \subseteq disk' /\ disk' \subseteq disk \cup {c}
        /\ \A d \in Clients \ {c} : pc'[d] = pc[d] /\ times'[d] = times[d] /\ view'[d] = view[d]
    BY <1>0, <1>2 DEF TypeOK
  <1>5. OneEngine'
    BY <1>0, <1>1, <1>2, <1>4 DEF IInv, TypeOK, OneEngine, Engines, Listens, Loops, Held
  <1>6. Queues'
    BY <1>0, <1>1, <1>4 DEF IInv, TypeOK, Queues, Fresh, channel
  <1>7. Requests'
    <2>1. \A d \in Clients : (Known(d) => Known(d)') /\ (Fresh(d) /\ d # c => Fresh(d)')
      BY <1>1, <1>4 DEF Known, Fresh
    <2>2. times'[c] = (IF c \in disk' THEN 1 ELSE 0) /\ (c \in queries => Fresh(c)')
      <3>1. times[c] = 0 /\ times \in [Clients -> Nat] /\ c \notin disk
        BY <1>0, <1>1 DEF IInv, TypeOK, Requests, Fresh
      <3> QED BY <1>1, <1>2, <3>1 DEF Fresh
    <2>3. pc'[c] \in {"ok", "error"} /\ (c \notin queries /\ pc'[c] = "ok" => Known(c)')
      BY <1>0, <1>1, <1>2 DEF TypeOK, Known
    <2> QED BY <1>1, <1>4, <2>1, <2>2, <2>3 DEF IInv, Requests, Waiting, InHand, channel
  <1>8. Answers'
    <2>1. \A q \in queries : q \in Clients /\ \A d \in before[q] : d \in Clients
      BY <1>0 DEF TypeOK
    <2>2. c \in queries => view'[c] = disk /\ disk' = disk
      BY <1>0, <1>2 DEF TypeOK
    <2> QED BY <1>1, <1>4, <2>1, <2>2 DEF IInv, Answers, Known, channel
  <1> QED BY <1>3, <1>5, <1>6, <1>7, <1>8 DEF IInv

LEMMA AbandonStep ==
  ASSUME IInv, NEW c \in Clients, Abandon(c)
  PROVE  IInv'
  <1>0. TypeOK
    BY DEF IInv
  <1>1. TypeOK'
    BY <1>0 DEF TypeOK, Abandon, Became, Unlock, Stages, Steps, Engines, process, channel, history
  <1>2. OneEngine'
    BY <1>0, NobodyAssumption, ProcessesAssumption
       DEF IInv, TypeOK, OneEngine, Abandon, Became, Unlock, Held, Loops, Listens, Engines, process, channel, history
  <1>3. Queues'
    BY <1>0 DEF IInv, TypeOK, Queues, Abandon, Became, Unlock, Loops, process, channel, history
  <1>4. Requests'
    BY <1>0 DEF IInv, TypeOK, OneEngine, Requests, Fresh, Known, Abandon, Became, Unlock, Held, Waiting, InHand, process, channel, history
  <1>5. Answers'
    BY <1>0 DEF IInv, TypeOK, OneEngine, Answers, Known, Abandon, Became, Unlock, Held, process, channel, history
  <1> QED BY <1>1, <1>2, <1>3, <1>4, <1>5 DEF IInv

-----------------------------------------------------------------------------
LEMMA InitHolds == Init => IInv
  <1> SUFFICES ASSUME Init PROVE IInv
    OBVIOUS
  <1>1. TypeOK
    <2>1. <<>> \in Seq(Clients) /\ Len(<<>>) = 0 /\ QueueSize \in Nat /\ 0 <= QueueSize
      BY LimitsAssumption
    <2> QED BY <2>1 DEF Init, TypeOK, Engines, Stages, Steps, Links, Replies
  <1>2. OneEngine
    BY DEF Init, OneEngine, Held, Listens, Loops
  <1>3. Queues
    BY DEF Init, Queues
  <1>4. Requests
    BY NobodyAssumption DEF Init, Requests, Fresh, Waiting
  <1>5. Answers
    BY DEF Init, Answers
  <1> QED BY <1>1, <1>2, <1>3, <1>4, <1>5 DEF IInv

LEMMA StutterHolds == IInv /\ UNCHANGED vars => IInv'
  BY DEF IInv, TypeOK, OneEngine, Queues, Requests, Answers, Fresh, Known,
         vars, process, channel, history

LEMMA NextHolds == IInv /\ [Next]_vars => IInv'
  <1> SUFFICES ASSUME IInv, Next PROVE IInv'
    BY StutterHolds
  <1>1. ASSUME NEW m \in Managers, Start(m) \/ Bind(m) \/ Unbind(m) \/ Release(m)
        PROVE  IInv'
    BY <1>1, StartStep, BindStep, UnbindStep, ReleaseStep
  <1>2. ASSUME NEW m \in Managers, Loop(m) PROVE IInv'
    BY <1>2, HandleStep, AnswerStep DEF Loop
  <1>3. ASSUME NEW m \in Managers, Shutdown(m) \/ Exit(m) PROVE IInv'
    BY <1>3, AcceptFailsStep, EndsStep, GoneStep DEF Shutdown, Crash, Exit
  <1>4. ASSUME NEW c \in Clients, Connection(c) PROVE IInv'
    BY <1>4, AcceptStep, CloseProbeStep, ServeStep, EnqueueStep DEF Connection
  <1>5. ASSUME NEW c \in Clients, Try(c) \/ Send(c) \/ Receive(c) \/ Lose(c)
        PROVE  IInv'
    BY <1>5, TryStep, SendStep, ReceiveStep, LoseStep
  <1>6. ASSUME NEW c \in Clients, BeEngine(c) \/ Finish(c) \/ Abandon(c) PROVE IInv'
    BY <1>6, BeEngineStep, FinishStep, AbandonStep
  <1> QED BY <1>1, <1>2, <1>3, <1>4, <1>5, <1>6 DEF Next

LEMMA Invariance == Spec => []IInv
  BY InitHolds, NextHolds, PTL DEF Spec

-----------------------------------------------------------------------------
\* The types, and the channel to the engine never holds more than its size
\* (serve, manager.rs:984).
THEOREM TypeCorrect == Spec => []TypeOK
  <1>1. IInv => TypeOK
    BY DEF IInv
  <1> QED BY Invariance, <1>1, PTL

\* An invocation's request is taken in at most once, however many managers
\* come and go meanwhile (dispatch, main.rs:216).
THEOREM TakenInOnce == Spec => []AtMostOnce
  <1>1. IInv => AtMostOnce
    BY DEF IInv, Requests, AtMostOnce
  <1> QED BY Invariance, <1>1, PTL

\* What a command reports about its request is so (serve_connection,
\* manager.rs:1074; dispatch, main.rs:216).
THEOREM TruthfulReports == Spec => []ReportsAreTrue
  <1>1. IInv => ReportsAreTrue
    BY DEF IInv, Requests, ReportsAreTrue, Known, Fresh, InHand
  <1> QED BY Invariance, <1>1, PTL

\* A query sees what was reported done before it was asked (Engine::save,
\* manager.rs:92).
THEOREM QueriesAreCurrent == Spec => []QueriesSeeReports
  <1>1. IInv => QueriesSeeReports
    BY DEF IInv, Answers, QueriesSeeReports
  <1> QED BY Invariance, <1>1, PTL

\* The socket of a manager that serves leads to it (Listener::bind, ipc.rs:22;
\* serve, manager.rs:1025).
THEOREM ServingIsReachable == Spec => []Reachable
  <1>1. IInv => Reachable
    BY DEF IInv, OneEngine, Reachable, Listens
  <1> QED BY Invariance, <1>1, PTL

-----------------------------------------------------------------------------
(* The refinement: a step of the system is one of module Authority.         *)

\* What an invocation that is under way may still report.
Under(c) == pc[c] \in {"probed", "waiting", "offline", "engine"}

Same ==
  /\ UNCHANGED <<queries, disk, before>>
  /\ \A c \in Clients : /\ Told(c)' = Told(c)
                        /\ c \in queries /\ pc'[c] = "ok" => pc[c] = "ok" /\ view'[c] = view[c]
                        /\ pc'[c] = "ok" <=> pc[c] = "ok"

LEMMA SameIsStutter == Same => UNCHANGED Promise!vars
  BY DEF Same, Promise!vars

\* A request is taken in for an invocation that waits, or has given up.
LEMMA HandleRefines ==
  ASSUME IInv, IInv', NEW m \in Managers, Handle(m)
  PROVE  Promise!Next \/ UNCHANGED Promise!vars
  <1> DEFINE c == Head(queue[m])
  <1>0. TypeOK
    BY DEF IInv
  <1>1. c \in Clients /\ 1 \in DOMAIN queue[m] /\ c = queue[m][1]
    <2>1. queue[m] \in Seq(Clients) /\ queue[m] # <<>>
      BY <1>0 DEF TypeOK, Handle
    <2> QED BY <2>1
  <1>2. c \notin queries \cup disk /\ pc[c] \in {"waiting", "unknown"}
    BY <1>1 DEF IInv, Queues, Requests
  <1>3. mem[m] = disk
    BY DEF IInv, OneEngine, Handle, Held
  <1>4. UNCHANGED <<queries, before, pc, view>>
    BY DEF Handle
  <1>5. CASE UNCHANGED disk
    BY <1>4, <1>5, SameIsStutter DEF Same, Told
  <1>6. CASE disk' = disk \cup {c}
    <2>1. Promise!TakeIn(c)
      BY <1>1, <1>2, <1>4, <1>6 DEF Promise!TakeIn, Promise!Takes, Told
    <2> QED BY <1>1, <2>1 DEF Promise!Next
  <1> QED BY <1>3, <1>5, <1>6 DEF Handle, Handled, TakesIn

LEMMA AskRefines ==
  ASSUME IInv, NEW c \in Clients, Try(c)
  PROVE  Promise!Ask(c)
  <1>0. TypeOK
    BY DEF IInv
  <1>1. /\ pc[c] = "start" /\ UNCHANGED <<queries, disk, view>>
        /\ before' = [before EXCEPT ![c] = IF c \in queries THEN Reported ELSE {}]
    BY DEF Try
  <1>2. pc'[c] \in {"probed", "offline"} /\ \A d \in Clients \ {c} : pc'[d] = pc[d]
    BY <1>0 DEF Try, Became, TypeOK
  <1>3. Told(c) = "nothing" /\ Told(c)' = "asked" /\ \A d \in Clients \ {c} : Told(d)' = Told(d)
    BY <1>1, <1>2 DEF Told
  <1>4. Reported = {d \in Clients \ queries : [e \in Clients |-> Told(e)][d] = "ok"}
    BY DEF Reported, Told
  <1>5. [d \in Clients |-> Told(d)'] = [[d \in Clients |-> Told(d)] EXCEPT ![c] = "asked"]
    BY <1>3
  <1>6. [d \in Clients |-> IF d \in queries' /\ pc'[d] = "ok" THEN view'[d] ELSE {}]
          = [d \in Clients |-> IF d \in queries /\ pc[d] = "ok" THEN view[d] ELSE {}]
    BY <1>1, <1>2
  <1> QED BY <1>1, <1>3, <1>4, <1>5, <1>6 DEF Promise!Ask, Promise!Done

\* An invocation that is under way reports a result that is so.
LEMMA ReportRefines ==
  ASSUME TypeOK, NEW c \in Clients, Under(c), NEW r \in Promise!Results,
         pc' = [pc EXCEPT ![c] = r], UNCHANGED <<queries, before>>,
         \/ disk' = disk
         \/ disk' = disk \cup {c} /\ c \notin queries \cup disk,
         \A d \in Clients \ {c} : view'[d] = view[d],
         c \in queries /\ r = "ok" => before[c] \subseteq view'[c] /\ view'[c] \subseteq disk,
         c \notin queries /\ r = "ok" => c \in disk',
         r \in Promise!Denials => c \notin disk'
  PROVE  Promise!Report(c, r)
  <1>1. Told(c) = "asked" /\ Told(c)' = r /\ \A d \in Clients \ {c} : Told(d)' = Told(d)
    <2>1. pc'[c] = r /\ \A d \in Clients \ {c} : pc'[d] = pc[d]
      BY DEF TypeOK
    <2> QED BY <2>1 DEF Told, Under, Promise!Results
  <1>2. [d \in Clients |-> Told(d)'] = [[d \in Clients |-> Told(d)] EXCEPT ![c] = r]
    BY <1>1
  <1>3. Promise!Takes(c) \/ UNCHANGED disk
    BY <1>1 DEF Promise!Takes
  <1>4. pc'[c] = r /\ pc[c] # "ok" /\ \A d \in Clients \ {c} : pc'[d] = pc[d]
    BY DEF TypeOK, Under
  <1> DEFINE seen == [d \in Clients |-> IF d \in queries /\ pc[d] = "ok" THEN view[d] ELSE {}]
  <1>5. IF c \in queries /\ r = "ok"
        THEN \E v \in SUBSET disk : Promise!Sees(c, v) /\ seen' = [seen EXCEPT ![c] = v]
        ELSE seen' = seen
    <2>1. CASE c \in queries /\ r = "ok"
      <3>1. view'[c] \in SUBSET disk /\ Promise!Sees(c, view'[c])
        BY <2>1 DEF Promise!Sees
      <3>2. seen' = [seen EXCEPT ![c] = view'[c]]
        BY <1>4, <2>1
      <3> QED BY <2>1, <3>1, <3>2
    <2>2. CASE ~(c \in queries /\ r = "ok")
      <3>1. seen' = seen
        BY <1>4, <2>2
      <3> QED BY <2>2, <3>1
    <2> QED BY <2>1, <2>2
  <1> QED BY <1>1, <1>2, <1>3, <1>5 DEF Promise!Report

LEMMA ClientRefines ==
  ASSUME IInv, NEW c \in Clients, Send(c) \/ Receive(c) \/ Lose(c) \/ BeEngine(c) \/ Abandon(c)
  PROVE  Promise!Next \/ UNCHANGED Promise!vars
  <1>0. TypeOK /\ UNCHANGED <<queries, before, view, disk>>
    BY DEF IInv, Send, Receive, Lose, BeEngine, Abandon, history
  <1>1. Under(c)
    <2>1. conn[c] # "none" => pc[c] \in {"waiting", "unknown"}
      BY DEF IInv, Requests
    <2> QED BY DEF Under, Send, Receive, Lose, BeEngine, Abandon
  <1>2. \A r \in {"ok", "error", "refused", "unsent", "unknown"} :
          /\ pc' = [pc EXCEPT ![c] = r]
          /\ c \in queries /\ r = "ok" => before[c] \subseteq view[c] /\ view[c] \subseteq disk
          /\ c \notin queries /\ r = "ok" => c \in disk
          /\ r \in {"refused", "unsent"} => c \notin disk
          => Promise!Next
    <2> SUFFICES ASSUME NEW r \in {"ok", "error", "refused", "unsent", "unknown"},
                        pc' = [pc EXCEPT ![c] = r],
                        c \in queries /\ r = "ok" =>
                          before[c] \subseteq view[c] /\ view[c] \subseteq disk,
                        c \notin queries /\ r = "ok" => c \in disk,
                        r \in {"refused", "unsent"} => c \notin disk
                 PROVE  Promise!Next
      OBVIOUS
    <2>1. r \in Promise!Results /\ (r \in Promise!Denials => c \notin disk')
      BY <1>0 DEF Promise!Results, Promise!Denials
    <2>2. /\ UNCHANGED <<queries, before>> /\ disk' = disk
          /\ \A d \in Clients \ {c} : view'[d] = view[d]
      BY <1>0
    <2>3. /\ c \in queries /\ r = "ok" => before[c] \subseteq view'[c] /\ view'[c] \subseteq disk
          /\ c \notin queries /\ r = "ok" => c \in disk'
      BY <1>0
    <2>4. Promise!Report(c, r)
      BY <1>0, <1>1, <2>1, <2>2, <2>3, ReportRefines
    <2> QED BY <2>1, <2>4 DEF Promise!Next
  <1>3. \A s \in {"waiting", "engine"} :
          pc' = [pc EXCEPT ![c] = s] => UNCHANGED Promise!vars
    <2> SUFFICES ASSUME NEW s \in {"waiting", "engine"}, pc' = [pc EXCEPT ![c] = s]
                 PROVE  Same
      BY SameIsStutter
    <2>1. pc'[c] = s /\ \A d \in Clients \ {c} : pc'[d] = pc[d]
      BY <1>0 DEF TypeOK
    <2> QED BY <1>0, <1>1, <2>1 DEF Same, Told, Under
  <1>4. pc[c] \in {"probed", "offline"} => c \notin disk
    BY DEF IInv, Requests, InHand, Fresh
  <1>5. CASE Send(c)
    BY <1>2, <1>3, <1>4, <1>5 DEF Send, Became
  <1>6. CASE Receive(c)
    <2>1. /\ reply[c] \in {"ok", "error", "refused"} /\ conn[c] = "answered"
          /\ reply[c] = "refused" => c \notin disk
          /\ c \notin queries /\ reply[c] = "ok" => c \in disk
      BY <1>6 DEF Receive, IInv, Requests, Fresh, Known
    <2>2. c \in queries /\ reply[c] = "ok" => before[c] \subseteq view[c] /\ view[c] \subseteq disk
      BY <2>1 DEF IInv, Answers
    <2> QED BY <1>2, <1>6, <2>1, <2>2 DEF Receive, Became
  <1>7. CASE Lose(c) \/ Abandon(c)
    BY <1>2, <1>7 DEF Lose, Abandon, Became, GivesUp
  <1>8. CASE BeEngine(c)
    BY <1>2, <1>3, <1>4, <1>8 DEF BeEngine, Became
  <1> QED BY <1>5, <1>6, <1>7, <1>8

LEMMA FinishRefines ==
  ASSUME IInv, NEW c \in Clients, Finish(c)
  PROVE  Promise!Next
  <1>0. TypeOK
    BY DEF IInv
  <1>1. Under(c) /\ c \notin disk /\ mem[c] = disk /\ UNCHANGED <<queries, before>>
    BY DEF Finish, IInv, OneEngine, Requests, InHand, Fresh, Under
  <1>2. PICK r \in {"ok", "error"} :
          /\ pc' = [pc EXCEPT ![c] = r]
          /\ \/ c \in queries /\ view' = [view EXCEPT ![c] = disk] /\ UNCHANGED disk
             \/ c \notin queries /\ disk' = disk \cup {c} /\ UNCHANGED view
             \/ c \notin queries /\ r = "error" /\ UNCHANGED <<disk, view>>
    BY <1>1 DEF Finish, Became, Handled, TakesIn
  <1>3. c \in queries => before[c] \subseteq disk
    BY <1>0 DEF IInv, TypeOK, Answers, Known
  <1>4. /\ \A d \in Clients \ {c} : view'[d] = view[d]
        /\ c \in queries => view'[c] = disk
    BY <1>0, <1>2 DEF TypeOK
  <1>5. Promise!Report(c, r)
    <2>1. r \in Promise!Results /\ (r \in Promise!Denials => c \notin disk')
      BY DEF Promise!Results, Promise!Denials
    <2>2. disk' = disk \/ (disk' = disk \cup {c} /\ c \notin queries \cup disk)
      BY <1>1, <1>2
    <2>3. /\ c \in queries /\ r = "ok" => before[c] \subseteq view'[c] /\ view'[c] \subseteq disk
          /\ c \notin queries /\ r = "ok" => c \in disk'
      BY <1>2, <1>3, <1>4
    <2> QED BY <1>0, <1>1, <1>2, <1>4, <2>1, <2>2, <2>3, ReportRefines
  <1> QED BY <1>5 DEF Promise!Next, Promise!Results

LEMMA SilentRefines ==
  ASSUME IInv,
         \/ \E m \in Managers : \/ Start(m) \/ Bind(m) \/ Answer(m) \/ AcceptFails(m) \/ Ends(m)
                                \/ Unbind(m) \/ Release(m) \/ Gone(m)
         \/ \E c \in Clients : Connection(c)
  PROVE  UNCHANGED Promise!vars
  <1>1. UNCHANGED <<queries, disk, before, pc>>
    BY DEF Start, Bind, Answer, AcceptFails, Ends, Unbind, Release, Gone, Connection, Accept,
           CloseProbe, Serve, Enqueue, process, channel, history
  <1>2. \A d \in Clients : pc[d] = "ok" => view'[d] = view[d]
    <2>1. CASE UNCHANGED view
      BY <2>1
    <2>2. ASSUME NEW c \in Clients, Serve(c)
          PROVE  \A d \in Clients : pc[d] = "ok" => view'[d] = view[d]
      <3>1. pc[c] # "ok"
        BY <2>2 DEF Serve, IInv, Requests
      <3>2. view \in [Clients -> SUBSET Clients]
        BY DEF IInv, TypeOK
      <3> QED BY <2>2, <3>1, <3>2 DEF Serve
    <2> QED BY <2>1, <2>2 DEF Start, Bind, Answer, AcceptFails, Ends, Unbind, Release, Gone,
                              Connection, Accept, CloseProbe, Enqueue, history
  <1>3. Same
    BY <1>1, <1>2 DEF Same, Told
  <1> QED BY <1>3, SameIsStutter

LEMMA StepRefines == IInv /\ IInv' /\ [Next]_vars => [Promise!Next]_(Promise!vars)
  <1> SUFFICES ASSUME IInv, IInv', [Next]_vars
               PROVE  Promise!Next \/ UNCHANGED Promise!vars
    OBVIOUS
  <1>1. CASE UNCHANGED vars
    <2>1. Same
      BY <1>1 DEF vars, history, Same, Told
    <2> QED BY <2>1, SameIsStutter
  <1>2. ASSUME NEW m \in Managers, \/ Start(m) \/ Bind(m) \/ Loop(m) \/ Shutdown(m)
                                   \/ Unbind(m) \/ Release(m) \/ Exit(m)
        PROVE  Promise!Next \/ UNCHANGED Promise!vars
    BY <1>2, HandleRefines, SilentRefines DEF Loop, Shutdown, Crash, Exit
  <1>3. ASSUME NEW c \in Clients, \/ Connection(c) \/ Try(c) \/ Send(c) \/ Receive(c) \/ Lose(c)
                                  \/ BeEngine(c) \/ Finish(c) \/ Abandon(c)
        PROVE  Promise!Next \/ UNCHANGED Promise!vars
    <2>1. CASE Connection(c)
      BY <2>1, SilentRefines
    <2>2. CASE Try(c)
      BY <2>2, AskRefines DEF Promise!Next
    <2>3. CASE Send(c) \/ Receive(c) \/ Lose(c) \/ BeEngine(c) \/ Abandon(c)
      BY <2>3, ClientRefines
    <2>4. CASE Finish(c)
      BY <2>4, FinishRefines
    <2> QED BY <1>3, <2>1, <2>2, <2>3, <2>4
  <1> QED BY <1>1, <1>2, <1>3 DEF Next

\* The managers, the lock, the socket and the connections implement the one
\* store of module Authority (dispatch, main.rs:216; Engine::external,
\* manager.rs:158).
THEOREM ChannelRefinesAuthority == Spec => KeepsThePromise
  <1>1. Init => Promise!Init
    BY DEF Init, Promise!Init, Told
  <1>2. [][Next]_vars /\ []IInv => [][Promise!Next]_(Promise!vars)
    BY StepRefines, PTL
  <1> QED BY <1>1, <1>2, Invariance, PTL DEF Spec, KeepsThePromise, Promise!Spec

\* No engine saves a state that lacks what another one has saved
\* (Engine::external, manager.rs:158).
THEOREM SingleWriter == Spec => NothingOverwritten
  <1>1. IInv /\ [Next]_vars => [disk \subseteq disk']_vars
    <2> SUFFICES ASSUME IInv, [Next]_vars PROVE disk \subseteq disk' \/ UNCHANGED vars
      OBVIOUS
    <2>1. Promise!Next \/ UNCHANGED Promise!vars
      BY NextHolds, StepRefines
    <2>2. CASE Promise!Next
      BY <2>2 DEF Promise!Next, Promise!Ask, Promise!TakeIn, Promise!Takes, Promise!Report
    <2>3. CASE UNCHANGED Promise!vars
      BY <2>3 DEF Promise!vars
    <2> QED BY <2>1, <2>2, <2>3
  <1> QED BY <1>1, Invariance, PTL DEF Spec, NothingOverwritten

-----------------------------------------------------------------------------
(* Nobody is forgotten, and nobody is overtaken in the queue.              *)

\* A connection that waits is one of a manager that serves it and accepts it,
\* and what is queued is in the queue of that manager or in its hand.
Attended ==
  \A c \in Clients :
    /\ conn[c] \in {"backlog", "queued"} \/ probe[c] = "backlog" =>
         at[c] \in Managers /\ mgr[at[c]] \in Loops
    /\ conn[c] = "backlog" \/ probe[c] = "backlog" => at[c] \notin deaf
    /\ conn[c] \in {"open", "sending"} => at[c] \in Managers /\ Alive(at[c])
    /\ conn[c] = "queued" =>
         hand[at[c]] = c \/ \E k \in DOMAIN queue[at[c]] : queue[at[c]][k] = c

\* A step of one manager on the stages leaves those of the others alone.
LEMMA AttendedManager ==
  ASSUME TypeOK, Attended, NEW m \in Managers, NEW stage, mgr' = [mgr EXCEPT ![m] = stage],
         mgr[m] \in Loops => stage \in Loops,
         Alive(m) => stage \in Loops \cup {"ending", "unbound"},
         deaf' \subseteq deaf, UNCHANGED <<conn, probe, at, queue, hand>>
  PROVE  Attended'
<1>1. \A n \in Managers : mgr'[n] = IF n = m THEN stage ELSE mgr[n]
  BY DEF TypeOK
<1> QED BY <1>1 DEF Attended, Alive

LEMMA AttendedHandle ==
  ASSUME IInv, Attended, NEW m \in Managers, Handle(m)
  PROVE  Attended'
<1> DEFINE d == Head(queue[m])
           rest == Tail(queue[m])
<1>0. TypeOK
  BY DEF IInv
<1>1. queue[m] \in Seq(Clients) /\ queue[m] # <<>>
  BY <1>0 DEF TypeOK, Handle
<1>2. /\ \A k \in DOMAIN queue[m] : queue[m][k] = d \/ \E l \in DOMAIN rest : rest[l] = queue[m][k]
      /\ rest \in Seq(Clients)
  <2>1. ASSUME NEW k \in DOMAIN queue[m], k # 1 PROVE k - 1 \in DOMAIN rest /\ rest[k - 1] = queue[m][k]
    BY <1>1, <2>1
  <2>2. queue[m][1] = d /\ rest \in Seq(Clients)
    BY <1>1
  <2> QED BY <2>1, <2>2
<1> HIDE DEF d, rest
<1>3. /\ hand' = [hand EXCEPT ![m] = d] /\ queue' = [queue EXCEPT ![m] = rest]
      /\ mgr' = [mgr EXCEPT ![m] = "saved"] /\ UNCHANGED <<deaf, conn, probe, at>>
      /\ mgr[m] = "serving" /\ hand[m] = Nobody
  BY DEF Handle, channel, d, rest, IInv, Queues
<1>4. \A n \in Managers : /\ mgr'[n] = IF n = m THEN "saved" ELSE mgr[n]
                          /\ hand'[n] = IF n = m THEN d ELSE hand[n]
                          /\ queue'[n] = IF n = m THEN rest ELSE queue[n]
  BY <1>0, <1>3 DEF TypeOK
<1>5. ASSUME NEW c \in Clients, conn[c] = "queued"
      PROVE  hand'[at[c]] = c \/ \E k \in DOMAIN queue'[at[c]] : queue'[at[c]][k] = c
  <2>1. at[c] \in Managers /\ c # Nobody
    BY <1>5, NobodyAssumption DEF Attended
  <2>2. CASE at[c] = m
    BY <1>2, <1>3, <1>4, <1>5, <2>1, <2>2 DEF Attended
  <2>3. CASE at[c] # m
    BY <1>4, <1>5, <2>1, <2>3 DEF Attended
  <2> QED BY <2>2, <2>3
<1>6. \A n \in Managers : mgr'[n] = mgr[n] \/ (mgr[n] \in Loops /\ mgr'[n] \in Loops)
  BY <1>3, <1>4 DEF Loops
<1> QED BY <1>3, <1>5, <1>6 DEF Attended, Alive

LEMMA AttendedAnswer ==
  ASSUME IInv, Attended, NEW m \in Managers, Answer(m)
  PROVE  Attended'
<1>0. TypeOK /\ mgr[m] = "saved"
  BY DEF IInv, Answer
<1>1. /\ mgr' = [mgr EXCEPT ![m] = "serving"] /\ hand' = [hand EXCEPT ![m] = Nobody]
      /\ UNCHANGED <<deaf, queue, probe, at>>
  BY DEF Answer
<1>2. hand[m] \in Clients /\ conn[hand[m]] = "queued" /\ at[hand[m]] = m
  BY <1>0 DEF IInv, Queues
<1>3. conn' = [conn EXCEPT ![hand[m]] = "answered"]
  BY <1>2 DEF Answer
<1>4. \A n \in Managers : /\ mgr'[n] = IF n = m THEN "serving" ELSE mgr[n]
                          /\ hand'[n] = IF n = m THEN Nobody ELSE hand[n]
  BY <1>0, <1>1 DEF TypeOK
<1>5. \A c \in Clients : conn'[c] = IF c = hand[m] THEN "answered" ELSE conn[c]
  BY <1>0, <1>3 DEF TypeOK
<1> QED BY <1>0, <1>1, <1>4, <1>5 DEF Attended, Alive, Loops

LEMMA AttendedAcceptFails ==
  ASSUME IInv, Attended, NEW m \in Managers, AcceptFails(m)
  PROVE  Attended'
<1>0. TypeOK
  BY DEF IInv
<1>1. UNCHANGED <<mgr, at, queue, hand>> /\ deaf' = deaf \cup {m}
  BY DEF AcceptFails
<1>2. \A c \in Clients :
        /\ conn'[c] = conn[c] \/ conn'[c] = "gone"
        /\ probe'[c] = probe[c] \/ probe'[c] = "none"
        /\ at[c] = m => conn'[c] # "backlog" /\ probe'[c] # "backlog"
  BY <1>0 DEF TypeOK, AcceptFails
<1> QED BY <1>1, <1>2 DEF Attended, Alive

LEMMA AttendedEnds ==
  ASSUME IInv, Attended, NEW m \in Managers, Ends(m)
  PROVE  Attended'
<1>0. TypeOK /\ UNCHANGED deaf
  BY DEF IInv, Ends
<1>1. \A n \in Managers : /\ mgr'[n] = IF n = m THEN "ending" ELSE mgr[n]
                          /\ hand'[n] = hand[n]
                          /\ n # m => queue'[n] = queue[n]
  BY <1>0 DEF TypeOK, Ends
<1>2. \A c \in Clients :
        /\ at'[c] = at[c]
        /\ at[c] # m => conn'[c] = conn[c] /\ probe'[c] = probe[c]
        /\ at[c] = m => /\ conn'[c] \notin {"backlog", "queued"} /\ probe'[c] # "backlog"
                        /\ conn'[c] \in {"open", "sending"} => conn[c] = conn'[c]
  BY <1>0 DEF TypeOK, Ends, Queued
<1> QED BY <1>0, <1>1, <1>2 DEF Attended, Alive, Loops

LEMMA AttendedGone ==
  ASSUME IInv, Attended, NEW m \in Managers, Gone(m)
  PROVE  Attended'
<1>0. TypeOK /\ deaf' \subseteq deaf
  BY DEF IInv, Gone
<1>1. \A n \in Managers \ {m} : mgr'[n] = mgr[n] /\ hand'[n] = hand[n] /\ queue'[n] = queue[n]
  BY <1>0 DEF TypeOK, Gone
<1>2. \A c \in Clients :
        /\ at[c] # m => conn'[c] = conn[c] /\ probe'[c] = probe[c] /\ at'[c] = at[c]
        /\ at[c] = m => conn'[c] \in {"gone", "none"} /\ probe'[c] = "none"
  BY <1>0 DEF TypeOK, Gone, Broken
<1> QED BY <1>0, <1>1, <1>2 DEF Attended, Alive

LEMMA AttendedConnection ==
  ASSUME IInv, Attended, NEW c \in Clients, Connection(c)
  PROVE  Attended'
<1>0. TypeOK
  BY DEF IInv
<1>1. CASE Accept(c)
  <2>1. \A d \in Clients : /\ conn'[d] = conn[d] \/ (conn[d] = "backlog" /\ conn'[d] = "open")
                           /\ probe'[d] = "backlog" => probe[d] = "backlog"
    BY <1>0, <1>1 DEF TypeOK, Accept
  <2>2. UNCHANGED <<mgr, deaf, queue, hand, at>>
    BY <1>1 DEF Accept, process
  <2> QED BY <2>1, <2>2 DEF Attended, Alive
<1>2. CASE CloseProbe(c)
  <2>1. \A d \in Clients : probe'[d] = "backlog" => probe[d] = "backlog"
    BY <1>0, <1>2 DEF TypeOK, CloseProbe
  <2>2. UNCHANGED <<mgr, deaf, queue, hand, at, conn>>
    BY <1>2 DEF CloseProbe, process
  <2> QED BY <2>1, <2>2 DEF Attended, Alive
<1>3. CASE Serve(c)
  <2>1. \A d \in Clients : conn'[d] = conn[d] \/ (conn[d] = "open" /\ conn'[d] \in {"answered", "sending"})
    BY <1>0, <1>3 DEF TypeOK, Serve, Respond
  <2>2. UNCHANGED <<mgr, deaf, queue, hand, at, probe>>
    BY <1>3 DEF Serve, process
  <2> QED BY <2>1, <2>2 DEF Attended, Alive
<1>4. CASE Enqueue(c)
  <2>0. at[c] \in Managers /\ UNCHANGED <<mgr, deaf, hand, at, probe>>
    BY <1>0, <1>4 DEF Enqueue, TypeOK
  <2>1. CASE mgr[at[c]] \in Loops /\ queue' = [queue EXCEPT ![at[c]] = Append(@, c)]
             /\ conn' = [conn EXCEPT ![c] = "queued"]
    <3> DEFINE m == at[c]
    <3>1. queue[m] \in Seq(Clients)
      BY <1>0, <2>0 DEF TypeOK
    <3>2. queue'[m] = Append(queue[m], c) /\ \A n \in Managers \ {m} : queue'[n] = queue[n]
      BY <1>0, <2>0, <2>1 DEF TypeOK
    <3>3. /\ \A k \in DOMAIN queue[m] : k \in DOMAIN queue'[m] /\ queue'[m][k] = queue[m][k]
          /\ \E k \in DOMAIN queue'[m] : queue'[m][k] = c
      <4>1. Len(queue[m]) + 1 \in DOMAIN queue'[m] /\ queue'[m][Len(queue[m]) + 1] = c
        BY <3>1, <3>2
      <4>2. ASSUME NEW k \in DOMAIN queue[m]
            PROVE  k \in DOMAIN queue'[m] /\ queue'[m][k] = queue[m][k]
        BY <3>1, <3>2
      <4> QED BY <4>1, <4>2
    <3>4. \A d \in Clients : conn'[d] = IF d = c THEN "queued" ELSE conn[d]
      BY <1>0, <2>1 DEF TypeOK
    <3>5. ASSUME NEW d \in Clients, conn'[d] = "queued"
          PROVE  hand'[at'[d]] = d \/ \E k \in DOMAIN queue'[at'[d]] : queue'[at'[d]][k] = d
      <4>1. CASE d = c
        BY <2>0, <3>3, <4>1
      <4>2. CASE d # c
        <5>1. /\ conn[d] = "queued" /\ at[d] \in Managers
              /\ hand[at[d]] = d \/ \E k \in DOMAIN queue[at[d]] : queue[at[d]][k] = d
          BY <3>4, <3>5, <4>2 DEF Attended
        <5>2. CASE at[d] = m
          BY <2>0, <3>3, <5>1, <5>2
        <5>3. CASE at[d] # m
          BY <2>0, <3>2, <5>1, <5>3
        <5> QED BY <5>2, <5>3
      <4> QED BY <4>1, <4>2
    <3> QED BY <2>0, <2>1, <3>4, <3>5 DEF Attended, Alive
  <2>2. CASE Respond(c, "refused") /\ UNCHANGED queue
    <3>1. \A d \in Clients : conn'[d] = conn[d] \/ conn'[d] = "answered"
      BY <1>0, <2>2 DEF TypeOK, Respond
    <3> QED BY <2>0, <2>2, <3>1 DEF Attended, Alive
  <2> QED BY <1>4, <2>1, <2>2 DEF Enqueue
<1> QED BY <1>1, <1>2, <1>3, <1>4 DEF Connection

LEMMA AttendedClient ==
  ASSUME IInv, Attended, NEW c \in Clients,
         Try(c) \/ Send(c) \/ Receive(c) \/ Lose(c) \/ BeEngine(c) \/ Finish(c) \/ Abandon(c)
  PROVE  Attended'
<1>0. TypeOK
  BY DEF IInv
<1>1. UNCHANGED <<mgr, deaf, queue, hand>>
  BY DEF Try, Send, Receive, Lose, BeEngine, Finish, Abandon, process
<1>2. CASE Lose(c) \/ BeEngine(c) \/ Finish(c) \/ Abandon(c)
  <2>1. UNCHANGED <<conn, probe, at>>
    BY <1>2 DEF Lose, BeEngine, Finish, Abandon, channel
  <2> QED BY <1>1, <2>1 DEF Attended, Alive
<1>3. CASE Receive(c)
  <2>1. UNCHANGED <<probe, at>> /\ \A d \in Clients : conn'[d] = conn[d] \/ conn'[d] = "none"
    BY <1>0, <1>3 DEF TypeOK, Receive
  <2> QED BY <1>1, <2>1 DEF Attended, Alive
<1>4. CASE Try(c)
  <2>1. conn[c] = "none" /\ UNCHANGED conn
    BY <1>0, <1>4 DEF Try, IInv, Requests, TypeOK
  <2>2. /\ \A d \in Clients \ {c} : at'[d] = at[d] /\ probe'[d] = probe[d]
        /\ probe'[c] = "backlog" => \/ at'[c] = at[c] /\ probe[c] = "backlog"
                                    \/ at'[c] \in Managers \ deaf /\ mgr[at'[c]] \in Loops
    BY <1>0, <1>4, NobodyAssumption DEF Try, TypeOK, Listening
  <2> QED BY <1>1, <2>1, <2>2 DEF Attended, Alive
<1>5. CASE Send(c)
  <2>1. conn[c] = "none"
    BY <1>0, <1>5 DEF Send, IInv, Requests, TypeOK
  <2>2. /\ \A d \in Clients \ {c} : at'[d] = at[d] /\ probe'[d] = probe[d] /\ conn'[d] = conn[d]
        /\ conn'[c] \in {"none", "gone", "backlog"}
        /\ conn'[c] = "backlog" => at'[c] \in Managers \ deaf /\ mgr[at'[c]] \in Loops
        /\ probe'[c] = "backlog" => at'[c] = at[c] /\ probe[c] = "backlog"
    BY <1>0, <1>5, <2>1, NobodyAssumption DEF Send, TypeOK, Listening
  <2> QED BY <1>1, <2>1, <2>2 DEF Attended, Alive
<1> QED BY <1>2, <1>3, <1>4, <1>5

LEMMA AttendedStep ==
  ASSUME IInv, Attended, [Next]_vars
  PROVE  Attended'
<1>0. TypeOK
  BY DEF IInv
<1>1. ASSUME NEW m \in Managers,
             Start(m) \/ Bind(m) \/ Loop(m) \/ Shutdown(m) \/ Unbind(m) \/ Release(m) \/ Exit(m)
      PROVE  Attended'
  <2>1. CASE Start(m)
    BY <1>0, <2>1, AttendedManager DEF Start, Loops, Alive, channel
  <2>2. CASE Bind(m)
    BY <1>0, <2>2, AttendedManager DEF Bind, Loops, Alive, channel
  <2>3. CASE Unbind(m)
    BY <1>0, <2>3, AttendedManager DEF Unbind, Loops, Alive, channel
  <2>4. CASE Release(m)
    BY <2>4 DEF Release, channel, Attended, Alive
  <2>5. CASE Loop(m)
    BY <2>5, AttendedHandle, AttendedAnswer DEF Loop
  <2>6. CASE Shutdown(m) \/ Exit(m)
    BY <2>6, AttendedAcceptFails, AttendedEnds, AttendedGone DEF Shutdown, Crash, Exit
  <2> QED BY <1>1, <2>1, <2>2, <2>3, <2>4, <2>5, <2>6
<1>2. CASE UNCHANGED vars
  BY <1>2 DEF vars, process, channel, Attended, Alive
<1> QED BY <1>1, <1>2, AttendedConnection, AttendedClient DEF Next

LEMMA AttendedInit == Init => Attended
BY NobodyAssumption DEF Init, Attended
-----------------------------------------------------------------------------
\* The engine of manager m has something to do.
Busy(m) == mgr[m] = "saved" \/ (mgr[m] = "serving" /\ queue[m] # <<>>)

\* A connection that holds a request need not wait for the engine.
CanSend(c) == conn[c] = "sending" /\ (HasRoom(at[c]) \/ mgr[at[c]] \notin Loops)

\* What a connection waits for is there already, or is in the way of a step
\* that some task of the same manager can take.
NobodyWaitsInVain ==
  \A c \in Clients :
    /\ conn[c] = "queued" => Busy(at[c])
    /\ conn[c] = "sending" => CanSend(c) \/ Busy(at[c])
    /\ conn[c] = "open" => Alive(at[c])
    /\ conn[c] = "backlog" \/ probe[c] = "backlog" => at[c] \notin deaf
    /\ conn[c] = "backlog" \/ probe[c] = "backlog" =>
         \/ HasPermit(at[c]) \/ Busy(at[c])
         \/ \E d \in Clients : at[d] = at[c] /\ (probe[d] = "open" \/ conn[d] = "open" \/ CanSend(d))

LEMMA FullQueueIsServed ==
  ASSUME TypeOK, NEW m \in Managers, mgr[m] \in Loops, ~ HasRoom(m)
  PROVE  Busy(m)
<1>1. Len(queue[m]) \in Nat /\ ~ (Len(queue[m]) < QueueSize) /\ QueueSize \in Nat \ {0}
  BY LimitsAssumption DEF TypeOK, HasRoom
<1>2. queue[m] # <<>>
  <2>1. CASE queue[m] = <<>>
    BY <1>1, <2>1
  <2> QED BY <2>1
<1> QED BY <1>2 DEF Busy, Loops

LEMMA QueuedIsServed ==
  ASSUME IInv, Attended, NEW c \in Clients, conn[c] = "queued"
  PROVE  Busy(at[c])
<1>1. at[c] \in Managers /\ mgr[at[c]] \in Loops
  BY DEF Attended
<1>2. CASE hand[at[c]] = c
  BY <1>1, <1>2, NobodyAssumption DEF IInv, Queues, Busy
<1>3. CASE \E k \in DOMAIN queue[at[c]] : queue[at[c]][k] = c
  <2>1. queue[at[c]] # <<>>
    BY <1>3
  <2> QED BY <1>1, <2>1 DEF Busy, Loops
<1> QED BY <1>2, <1>3 DEF Attended

LEMMA PermitsAreHeld ==
  ASSUME NEW m \in Managers, ~ HasPermit(m)
  PROVE  \E d \in Clients :
           at[d] = m /\ (probe[d] = "open" \/ conn[d] \in {"open", "sending", "queued"})
<1> SUFFICES ASSUME Open(m) = {}, Probing(m) = {}
             PROVE  FALSE
  BY DEF Open, Probing
<1>1. Cardinality(Open(m)) = 0 /\ Cardinality(Probing(m)) = 0
  BY FS_EmptySet
<1>2. Permits \in Nat \ {0}
  BY LimitsAssumption
<1> QED BY <1>1, <1>2 DEF HasPermit

LEMMA AttendedIsServed ==
  ASSUME IInv, Attended
  PROVE  NobodyWaitsInVain
<1>0. TypeOK
  BY DEF IInv
<1>1. ASSUME NEW c \in Clients, conn[c] = "sending"
      PROVE  CanSend(c) \/ Busy(at[c])
  BY <1>0, <1>1, FullQueueIsServed DEF Attended, CanSend
<1>2. ASSUME NEW c \in Clients, conn[c] = "backlog" \/ probe[c] = "backlog"
      PROVE  \/ HasPermit(at[c]) \/ Busy(at[c])
             \/ \E d \in Clients : at[d] = at[c] /\ (probe[d] = "open" \/ conn[d] = "open" \/ CanSend(d))
  <2>1. at[c] \in Managers
    BY <1>2 DEF Attended
  <2>2. SUFFICES ASSUME ~ HasPermit(at[c])
                 PROVE  \/ Busy(at[c])
                        \/ \E d \in Clients : at[d] = at[c] /\ (probe[d] = "open" \/ conn[d] = "open" \/ CanSend(d))
    OBVIOUS
  <2>3. PICK d \in Clients :
          at[d] = at[c] /\ (probe[d] = "open" \/ conn[d] \in {"open", "sending", "queued"})
    BY <2>1, <2>2, PermitsAreHeld
  <2>4. conn[d] = "sending" => CanSend(d) \/ Busy(at[d])
    BY <1>1
  <2>5. conn[d] = "queued" => Busy(at[d])
    BY QueuedIsServed
  <2> QED BY <2>3, <2>4, <2>5
<1> QED BY <1>1, <1>2, QueuedIsServed DEF NobodyWaitsInVain, Attended

\* manager.rs:984, 993: whatever a connection waits for, a permit, room in the
\* queue or its turn with the engine, there is a task of its manager that can
\* take a step: connections, permits and the queue never wait on each other
\* in a circle, for every number of permits and every size of the queue.
THEOREM WaitersCanBeServed == Spec => []NobodyWaitsInVain
<1>1. Spec => []IInv
  BY Invariance
<1>2. IInv /\ Attended /\ [Next]_vars => Attended'
  BY AttendedStep
<1>3. IInv /\ Attended => NobodyWaitsInVain
  BY AttendedIsServed
<1> QED BY <1>1, <1>2, <1>3, AttendedInit, PTL DEF Spec
-----------------------------------------------------------------------------
\* Those whose requests manager m handles before that of c, which it has too.
InFront(c) ==
  {d \in Clients \ {c} :
     /\ hand[at[c]] # c
     /\ \/ hand[at[c]] = d
        \/ \E k, l \in DOMAIN queue[at[c]] :
             k < l /\ queue[at[c]][k] = d /\ queue[at[c]][l] = c}

\* manager.rs:171, 1015: requests are handled in the order they were queued. Nobody
\* gets in front of a request that waits, and every answer to another one brings
\* it nearer to its turn.
NobodyIsOvertaken ==
  [][\A c \in Clients :
       conn[c] = "queued" /\ conn'[c] = "queued" =>
         /\ InFront(c)' \subseteq InFront(c)
         /\ Answer(at[c]) => hand[at[c]] \in InFront(c) \ InFront(c)']_vars

LEMMA SameFront ==
  ASSUME NEW c \in Clients, at'[c] = at[c],
         hand'[at[c]] = hand[at[c]], queue'[at[c]] = queue[at[c]]
  PROVE  InFront(c)' \subseteq InFront(c)
BY DEF InFront

LEMMA HandleFront ==
  ASSUME IInv, Attended, NEW c \in Clients, conn[c] = "queued",
         NEW m \in Managers, Handle(m)
  PROVE  InFront(c)' \subseteq InFront(c)
<1> DEFINE d == Head(queue[m])
           rest == Tail(queue[m])
<1>0. TypeOK
  BY DEF IInv
<1>1. queue[m] \in Seq(Clients) /\ queue[m] # <<>>
  BY <1>0 DEF TypeOK, Handle
<1>2. /\ 1 \in DOMAIN queue[m] /\ queue[m][1] = d
      /\ \A k \in DOMAIN rest : k \in Nat /\ k + 1 \in DOMAIN queue[m] /\ rest[k] = queue[m][k + 1]
      /\ \A k \in DOMAIN queue[m] : k \in Nat /\ (k # 1 => 1 < k)
  BY <1>1
<1> HIDE DEF d, rest
<1>3. /\ hand' = [hand EXCEPT ![m] = d] /\ queue' = [queue EXCEPT ![m] = rest] /\ UNCHANGED at
      /\ hand[m] = Nobody
  BY DEF Handle, channel, d, rest, IInv, Queues
<1>4. \A n \in Managers : /\ hand'[n] = IF n = m THEN d ELSE hand[n]
                          /\ queue'[n] = IF n = m THEN rest ELSE queue[n]
  BY <1>0, <1>3 DEF TypeOK
<1>5. at[c] \in Managers /\ c # Nobody
  BY NobodyAssumption DEF Attended
<1>6. CASE at[c] # m
  BY <1>3, <1>4, <1>5, <1>6, SameFront
<1>7. CASE at[c] = m /\ c # d
  <2>1. PICK l \in DOMAIN queue[m] : queue[m][l] = c
    BY <1>3, <1>5, <1>7 DEF Attended
  <2>2. d \in Clients => d \in InFront(c)
    <3>1. 1 < l
      BY <1>2, <1>7, <2>1
    <3> QED BY <1>2, <1>3, <1>5, <1>7, <2>1, <3>1 DEF InFront
  <2>3. ASSUME NEW e \in Clients \ {c}, NEW k \in DOMAIN rest, NEW i \in DOMAIN rest,
               k < i, rest[k] = e, rest[i] = c
        PROVE  e \in InFront(c)
    <3>1. k + 1 < i + 1 /\ queue[m][k + 1] = e /\ queue[m][i + 1] = c
          /\ k + 1 \in DOMAIN queue[m] /\ i + 1 \in DOMAIN queue[m]
      BY <1>2, <2>3
    <3> QED BY <1>3, <1>5, <1>7, <3>1 DEF InFront
  <2>4. hand'[at'[c]] = d /\ queue'[at'[c]] = rest
    BY <1>3, <1>4, <1>7
  <2>5. ASSUME NEW e \in InFront(c)'
        PROVE  e \in InFront(c)
    <3>1. /\ e \in Clients \ {c}
          /\ \/ d = e
             \/ \E k, i \in DOMAIN rest : k < i /\ rest[k] = e /\ rest[i] = c
      BY <2>4 DEF InFront
    <3> QED BY <2>2, <2>3, <3>1
  <2> QED BY <2>5
<1>8. CASE at[c] = m /\ c = d
  BY <1>3, <1>4, <1>8 DEF InFront
<1> QED BY <1>6, <1>7, <1>8

LEMMA AnswerFront ==
  ASSUME IInv, Attended, NEW c \in Clients, conn[c] = "queued", conn'[c] = "queued",
         NEW m \in Managers, Answer(m)
  PROVE  /\ InFront(c)' \subseteq InFront(c)
         /\ m = at[c] => hand[m] \in InFront(c) \ InFront(c)'
<1>0. TypeOK /\ mgr[m] = "saved"
  BY DEF IInv, Answer
<1>1. hand' = [hand EXCEPT ![m] = Nobody] /\ UNCHANGED <<queue, at>>
  BY DEF Answer
<1>2. /\ hand[m] \in Clients /\ conn[hand[m]] = "queued" /\ at[hand[m]] = m
      /\ \A k \in DOMAIN queue[m] : queue[m][k] # hand[m]
  BY <1>0 DEF IInv, Queues
<1>3. conn' = [conn EXCEPT ![hand[m]] = "answered"]
  BY <1>2 DEF Answer
<1>4. c # hand[m]
  BY <1>0, <1>2, <1>3 DEF TypeOK
<1>5. \A n \in Managers : hand'[n] = IF n = m THEN Nobody ELSE hand[n]
  BY <1>0, <1>1 DEF TypeOK
<1>6. at[c] \in Managers
  BY DEF Attended
<1>7. CASE at[c] # m
  BY <1>1, <1>5, <1>6, <1>7, SameFront
<1>8. CASE at[c] = m
  <2>1. hand[m] \in InFront(c)
    BY <1>2, <1>4, <1>8 DEF InFront
  <2>2. hand'[at'[c]] = Nobody /\ queue'[at'[c]] = queue[m]
    BY <1>1, <1>5, <1>8
  <2>3. hand[m] \notin InFront(c)'
    BY <1>2, <2>2, NobodyAssumption DEF InFront
  <2>4. InFront(c)' \subseteq InFront(c)
    BY <1>4, <1>8, <2>2, NobodyAssumption DEF InFront
  <2> QED BY <2>1, <2>3, <2>4
<1> QED BY <1>7, <1>8

LEMMA EnqueueFront ==
  ASSUME IInv, Attended, NEW c \in Clients, conn[c] = "queued",
         NEW d \in Clients, Enqueue(d)
  PROVE  InFront(c)' \subseteq InFront(c)
<1>0. TypeOK /\ UNCHANGED <<hand, at>> /\ c # d
  BY DEF IInv, Enqueue
<1>1. at[c] \in Managers
  BY DEF Attended
<1>2. CASE queue'[at[c]] = queue[at[c]]
  BY <1>0, <1>2, SameFront
<1>3. CASE queue'[at[c]] = Append(queue[at[c]], d)
  <2> DEFINE q == queue[at[c]]
             r == queue'[at[c]]
  <2>1. q \in Seq(Clients)
    BY <1>0, <1>1 DEF TypeOK
  <2>2. ASSUME NEW k \in DOMAIN r, NEW l \in DOMAIN r, k < l, r[l] = c
        PROVE  k \in DOMAIN q /\ l \in DOMAIN q /\ q[k] = r[k] /\ q[l] = c
    <3>1. l # Len(q) + 1
      BY <1>0, <1>3, <2>1, <2>2
    <3> QED BY <1>3, <2>1, <2>2, <3>1
  <2> HIDE DEF q, r
  <2>3. q = queue[at[c]] /\ r = queue'[at'[c]] /\ hand'[at'[c]] = hand[at[c]]
    BY <1>0 DEF q, r
  <2> QED BY <2>2, <2>3 DEF InFront
<1>4. queue' = queue \/ queue' = [queue EXCEPT ![at[d]] = Append(queue[at[d]], d)]
  BY <1>0 DEF Enqueue
<1>5. queue'[at[c]] = queue[at[c]] \/ queue'[at[c]] = Append(queue[at[c]], d)
  BY <1>0, <1>1, <1>4 DEF TypeOK
<1> QED BY <1>2, <1>3, <1>5

LEMMA FrontStep ==
  ASSUME IInv, Attended, [Next]_vars, NEW c \in Clients, conn[c] = "queued", conn'[c] = "queued"
  PROVE  InFront(c)' \subseteq InFront(c)
<1>0. TypeOK /\ at[c] \in Managers /\ pc[c] \in {"waiting", "unknown"}
  BY DEF IInv, Attended, Requests
<1>1. CASE UNCHANGED <<hand, queue, at>>
  BY <1>1, SameFront
<1>2. ASSUME NEW m \in Managers,
             Start(m) \/ Bind(m) \/ Loop(m) \/ Shutdown(m) \/ Unbind(m) \/ Release(m) \/ Exit(m)
      PROVE  InFront(c)' \subseteq InFront(c)
  <2>1. CASE Start(m) \/ Bind(m) \/ Unbind(m) \/ Release(m)
    BY <1>1, <2>1 DEF Start, Bind, Unbind, Release, channel
  <2>2. CASE Loop(m)
    BY <2>2, HandleFront, AnswerFront DEF Loop
  <2>3. CASE AcceptFails(m)
    BY <1>1, <2>3 DEF AcceptFails
  <2>4. CASE Ends(m)
    <3>1. at[c] # m
      BY <1>0, <2>4 DEF Ends, Queued
    <3>2. hand'[at[c]] = hand[at[c]] /\ queue'[at[c]] = queue[at[c]] /\ at'[c] = at[c]
      BY <1>0, <2>4, <3>1 DEF Ends, TypeOK
    <3> QED BY <3>2, SameFront
  <2>5. CASE Gone(m)
    <3>1. at[c] # m
      BY <1>0, <2>5 DEF Gone, Broken
    <3>2. hand'[at[c]] = hand[at[c]] /\ queue'[at[c]] = queue[at[c]] /\ at'[c] = at[c]
      BY <1>0, <2>5, <3>1 DEF Gone, Broken, TypeOK
    <3> QED BY <3>2, SameFront
  <2> QED BY <1>2, <2>1, <2>2, <2>3, <2>4, <2>5 DEF Shutdown, Crash, Exit
<1>3. ASSUME NEW d \in Clients, Connection(d)
      PROVE  InFront(c)' \subseteq InFront(c)
  <2>1. CASE Enqueue(d)
    BY <2>1, EnqueueFront
  <2>2. CASE Accept(d) \/ CloseProbe(d) \/ Serve(d)
    BY <1>1, <2>2 DEF Accept, CloseProbe, Serve, process
  <2> QED BY <1>3, <2>1, <2>2 DEF Connection
<1>4. ASSUME NEW d \in Clients,
             Try(d) \/ Send(d) \/ Receive(d) \/ Lose(d) \/ BeEngine(d) \/ Finish(d) \/ Abandon(d)
      PROVE  InFront(c)' \subseteq InFront(c)
  <2>1. UNCHANGED <<hand, queue>>
    BY <1>4 DEF Try, Send, Receive, Lose, BeEngine, Finish, Abandon, process
  <2>2. CASE Try(d) \/ Send(d)
    <3>1. c # d
      BY <1>0, <2>2 DEF Try, Send
    <3>2. at'[c] = at[c]
      BY <1>0, <2>2, <3>1 DEF Try, Send, TypeOK
    <3> QED BY <2>1, <3>2, SameFront
  <2>3. CASE UNCHANGED at
    BY <1>1, <2>1, <2>3
  <2> QED BY <1>4, <2>2, <2>3 DEF Receive, Lose, BeEngine, Finish, Abandon, channel
<1>5. CASE UNCHANGED vars
  BY <1>1, <1>5 DEF vars, process, channel
<1> QED BY <1>2, <1>3, <1>4, <1>5 DEF Next

\* manager.rs:171, 1015: the order of the queue is kept, and an answer shortens the
\* wait of everybody who is behind it, for every size of the queue.
THEOREM QueueIsInOrder == Spec => NobodyIsOvertaken
<1>1. Spec => []IInv
  BY Invariance
<1>2. IInv /\ Attended /\ [Next]_vars => Attended'
  BY AttendedStep
<1>3. ASSUME IInv, Attended, [Next]_vars
      PROVE  [\A c \in Clients :
                conn[c] = "queued" /\ conn'[c] = "queued" =>
                  /\ InFront(c)' \subseteq InFront(c)
                  /\ Answer(at[c]) => hand[at[c]] \in InFront(c) \ InFront(c)']_vars
  <2>1. ASSUME NEW c \in Clients, conn[c] = "queued", conn'[c] = "queued", Answer(at[c])
        PROVE  hand[at[c]] \in InFront(c) \ InFront(c)'
    <3>1. at[c] \in Managers
      BY <1>3, <2>1 DEF Attended
    <3> QED BY <1>3, <2>1, <3>1, AnswerFront
  <2> QED BY <1>3, <2>1, FrontStep
<1> QED BY <1>1, <1>2, <1>3, AttendedInit, PTL DEF Spec, NobodyIsOvertaken
=============================================================================
