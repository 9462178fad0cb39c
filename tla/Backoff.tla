------------------------------ MODULE Backoff ------------------------------
(* The backoff of one pool with its durations (src/manager.rs): tick,      *)
(* record_failure, retry_delay and the requests that reset it.  Engine has *)
(* only its kind, BackoffExpires stands there for the passing of time.     *)
(* What memory and the SQLite row hold of it is the same at every await.   *)
EXTENDS Integers

CONSTANT MaxFailures  \* the largest failures, of a u32

VARIABLES
  now,          \* seconds; a clock that is never set back
  retry_at,     \* fields of PoolState
  retry_scope,
  failures,
  pass          \* where tick is with this pool; see Passes

vars == <<now, retry_at, retry_scope, failures, pass>>

MaxRetrySeconds == 600
Scopes == {"observation", "provisioning"}

\* A pass is "free" if no backoff was in force when it began, "held" if one
\* for provisioning was; a request makes its result void.
Passes == {"none", "free", "held", "void"}
Reporting == pass \in {"free", "held"}

-----------------------------------------------------------------------------
Least(a, b) == IF a <= b THEN a ELSE b

\* 5 * 2^f seconds, up to 2^7, but at most MaxRetrySeconds.
Base(f) ==
  CASE f = 0 -> 5   [] f = 1 -> 10 [] f = 2 -> 20  [] f = 3 -> 40
    [] f = 4 -> 80  [] f = 5 -> 160 [] f = 6 -> 320 [] OTHER -> MaxRetrySeconds

Jitters == 0 .. 6

RetryDelay(f, jitter) == Least(Base(f) + jitter, MaxRetrySeconds)

InForce == retry_at > now

\* What the backoff is to Engine.
Kind == IF InForce THEN retry_scope ELSE "none"

-----------------------------------------------------------------------------
\* While a backoff of the same scope is in force the failure is not counted.
RecordFailure(scope) ==
  IF InForce /\ retry_scope = scope
  THEN UNCHANGED <<retry_at, retry_scope, failures>>
  ELSE /\ failures' = Least(failures + 1, MaxFailures)
       /\ \E jitter \in Jitters : retry_at' = now + RetryDelay(failures', jitter)
       /\ retry_scope' = scope

Tick ==
  /\ pass = "none" /\ Kind # "observation"
  /\ pass' = IF InForce THEN "held" ELSE "free"
  /\ UNCHANGED <<now, retry_at, retry_scope, failures>>

\* The pass forgets a run that completed a job.
RunCompleted ==
  /\ Reporting /\ failures' = 0
  /\ UNCHANGED <<now, retry_at, retry_scope, pass>>

UnexpectedExit ==
  /\ Reporting /\ pass' = "none"
  /\ RecordFailure("provisioning") /\ UNCHANGED now

PassFails ==
  /\ Reporting /\ pass' = "none"
  /\ RecordFailure("observation") /\ UNCHANGED now

PassSucceeds ==
  /\ Reporting /\ pass' = "none"
  /\ retry_at' = IF pass = "free" THEN 0 ELSE retry_at
  /\ UNCHANGED <<now, retry_scope, failures>>

\* An interrupted pass reports nothing, nor does one that a crash cuts short.
PassIsVoid ==
  /\ pass # "none" /\ pass' = "none"
  /\ UNCHANGED <<now, retry_at, retry_scope, failures>>

Interrupt == pass' = IF pass = "none" THEN "none" ELSE "void"

\* Start and Auth, and Stop and Remove with force, which keeps the count.
Reset ==
  /\ retry_at' = 0 /\ failures' \in {0, failures}
  /\ Interrupt /\ UNCHANGED <<now, retry_scope>>

\* Any other mutating request.
OtherRequest == Interrupt /\ UNCHANGED <<now, retry_at, retry_scope, failures>>

TimePasses ==
  /\ now' = now + 1
  /\ UNCHANGED <<retry_at, retry_scope, failures, pass>>

Init ==
  /\ now \in Nat /\ retry_at = 0 /\ retry_scope = "observation"
  /\ failures = 0 /\ pass = "none"

Next ==
  \/ Tick \/ RunCompleted \/ UnexpectedExit \/ PassFails \/ PassSucceeds \/ PassIsVoid
  \/ Reset \/ OtherRequest \/ TimePasses

Spec == Init /\ [][Next]_vars

-----------------------------------------------------------------------------
\* The types of the state; failures keeps to its width.
TypeOK ==
  /\ now \in Nat /\ retry_at \in Nat /\ retry_scope \in Scopes
  /\ failures \in 0 .. MaxFailures /\ pass \in Passes

\* What a u32 is here: counting on changes nothing once the delay is full.
WideEnough == MaxFailures \in Nat /\ MaxFailures >= 7

\* docs/operations.md 41: backoffs are bounded.  However failures, requests
\* and restarts fall together, none is ever more than 600 seconds away, so
\* that time alone ends it.
Bounded == retry_at <= now + MaxRetrySeconds

\* A failure while a backoff is in force may change what it suspends, but
\* never brings its end forward: only a reset does, or a job completed since.
NeverShortened == [][InForce /\ failures # 0 /\ retry_at' # 0 => retry_at' >= retry_at]_vars

\* record_failure replaces a backoff of the other scope (line 487).  That
\* never turns one that suspends observation into one that only suspends
\* provisioning, although a pass takes its decision long before it reports.
\* With it, Kind changes as Engine says: a report arms it, time or a reset
\* ends it.
KindAsInEngine ==
  [][Kind' # Kind => \/ Kind' = "none"
                     \/ Kind # "observation" /\ Reporting /\ pass' = "none"]_vars
=============================================================================
