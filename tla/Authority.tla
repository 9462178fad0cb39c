----------------------------- MODULE Authority -----------------------------
(***************************************************************************)
(* What the command line promises about its invocations, whoever carries   *)
(* them out: there is one store; a request enters it at most once and      *)
(* nothing leaves it; what an invocation is told is true, and stays true;  *)
(* and a query sees every request reported done before it was asked.       *)
(*                                                                         *)
(* Module ControlChannel implements this with manager processes, a lock    *)
(* file, a socket and two connections per invocation.                      *)
(***************************************************************************)
CONSTANT Clients   \* invocations of the command line, with one request each

VARIABLES
  queries,   \* the invocations that only ask
  store,     \* the requests that were taken in
  told,      \* what an invocation reported
  since,     \* the requests that were reported done when a query was asked
  seen       \* the state that a query was told

vars == <<queries, store, told, since, seen>>

Results == {"ok", "error", "refused", "unsent", "unknown"}

\* The reports after which the request is known never to be taken in.
Denials == {"refused", "unsent"}

Done == {c \in Clients \ queries : told[c] = "ok"}

Init ==
  /\ queries \in SUBSET Clients
  /\ store = {}
  /\ told = [c \in Clients |-> "nothing"]
  /\ since = [c \in Clients |-> {}] /\ seen = [c \in Clients |-> {}]

Ask(c) ==
  /\ told[c] = "nothing" /\ told' = [told EXCEPT ![c] = "asked"]
  /\ since' = [since EXCEPT ![c] = IF c \in queries THEN Done ELSE {}]
  /\ UNCHANGED <<queries, store, seen>>

Takes(c) ==
  /\ c \notin queries \cup store /\ told[c] \in {"asked", "unknown"}
  /\ store' = store \cup {c}

\* Also for an invocation that has given up waiting.
TakeIn(c) == Takes(c) /\ UNCHANGED <<queries, told, since, seen>>

Sees(c, view) == since[c] \subseteq view /\ view \subseteq store

Report(c, result) ==
  /\ told[c] = "asked" /\ told' = [told EXCEPT ![c] = result]
  /\ Takes(c) \/ UNCHANGED store
  /\ IF c \in queries /\ result = "ok"
     THEN \E view \in SUBSET store : Sees(c, view) /\ seen' = [seen EXCEPT ![c] = view]
     ELSE UNCHANGED seen
  /\ c \notin queries /\ result = "ok" => c \in store'
  /\ result \in Denials => c \notin store'
  /\ UNCHANGED <<queries, since>>

Next == \E c \in Clients : Ask(c) \/ TakeIn(c) \/ \E result \in Results : Report(c, result)

Spec == Init /\ [][Next]_vars
=============================================================================
