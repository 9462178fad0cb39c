--------------------------- MODULE BackoffProofs ---------------------------
(* A backoff is bounded and never shortened by another failure, for every  *)
(* length of time and number of failures; Engine's timer is what is left   *)
(* of it when the durations are taken away.                                *)
EXTENDS Backoff, TLAPS

\* What a backoff in force says of the failures counted so far.  A run that
\* completed sets failures to 0 and leaves retry_at (line 709).
Counted == InForce /\ failures # 0 => retry_at <= now + RetryDelay(failures, 6)

\* What a pass knows of the backoff as long as no request came in.
PassTells ==
  /\ Reporting => Kind # "observation"
  /\ pass = "free" => ~InForce

Inv == TypeOK /\ Bounded /\ Counted /\ PassTells

-----------------------------------------------------------------------------
\* The jitter never outweighs one more failure, and neither exceeds the cap.
LEMMA Delays ==
  ASSUME WideEnough, NEW f \in 0 .. MaxFailures, NEW j \in Jitters
  PROVE  /\ RetryDelay(f, j) \in 5 .. MaxRetrySeconds
         /\ RetryDelay(f, j) <= RetryDelay(f, 6)
         /\ f # 0 => RetryDelay(f, 6) <= RetryDelay(Least(f + 1, MaxFailures), j)
<1>0. f \in Nat /\ j \in 0 .. 6 /\ MaxFailures \in Nat /\ MaxFailures >= 7
  BY DEF WideEnough, Jitters
<1>1. CASE f < 7
  <2>1. f \in {0, 1, 2, 3, 4, 5, 6}
    BY <1>0, <1>1
  <2> QED
    BY <1>0, <2>1 DEF RetryDelay, Base, Least, MaxRetrySeconds
<1>2. CASE f >= 7
  <2>1. Base(f) = 600
    BY <1>0, <1>2 DEF Base, MaxRetrySeconds
  <2>2. Least(f + 1, MaxFailures) \in Nat /\ Least(f + 1, MaxFailures) >= 7
    BY <1>0, <1>2 DEF Least
  <2>3. Base(Least(f + 1, MaxFailures)) = 600
    BY <2>2 DEF Base, MaxRetrySeconds
  <2> QED
    BY <1>0, <2>1, <2>3 DEF RetryDelay, Least, MaxRetrySeconds
<1> QED
  BY <1>0, <1>1, <1>2

LEMMA Longest ==
  ASSUME WideEnough, NEW f \in 0 .. MaxFailures
  PROVE  RetryDelay(f, 6) \in 5 .. 600
<1>1. 6 \in Jitters
  BY DEF Jitters
<1> QED
  BY <1>1, Delays DEF MaxRetrySeconds

\* A recorded failure either changes nothing or arms a backoff for at least
\* five and at most 600 seconds, which is not over before the last one was.
LEMMA Records ==
  ASSUME WideEnough, Inv, NEW scope \in Scopes, RecordFailure(scope), now' = now
  PROVE  /\ retry_at' \in Nat /\ retry_scope' \in Scopes /\ failures' \in 0 .. MaxFailures
         /\ Bounded' /\ Counted'
         /\ failures # 0 => retry_at' >= retry_at \/ ~InForce
         /\ Kind' # Kind => ~(InForce /\ retry_scope = scope)
<1>0. /\ now \in Nat /\ retry_at \in Nat /\ retry_scope \in Scopes /\ failures \in 0 .. MaxFailures
      /\ failures \in Nat /\ MaxFailures \in Nat /\ MaxFailures >= 7
  BY DEF Inv, TypeOK, WideEnough
<1>1. CASE InForce /\ retry_scope = scope
  <2>1. UNCHANGED <<retry_at, retry_scope, failures>>
    BY <1>1 DEF RecordFailure
  <2> QED
    BY <1>0, <2>1 DEF Inv, TypeOK, Bounded, Counted, InForce, Kind
<1>2. CASE ~(InForce /\ retry_scope = scope)
  <2>1. failures' = Least(failures + 1, MaxFailures) /\ retry_scope' = scope
    BY <1>2 DEF RecordFailure
  <2>2. PICK j \in Jitters : retry_at' = now + RetryDelay(failures', j)
    BY <1>2 DEF RecordFailure
  <2>3. failures' \in 0 .. MaxFailures /\ failures' # 0
    BY <1>0, <2>1 DEF Least
  <2>4. /\ RetryDelay(failures', j) \in 5 .. 600
        /\ RetryDelay(failures', j) <= RetryDelay(failures', 6)
    BY <2>3, Delays DEF MaxRetrySeconds
  <2>5. RetryDelay(failures', 6) \in 5 .. 600
    BY <2>3, Longest
  <2>6. failures # 0 => RetryDelay(failures, 6) <= RetryDelay(failures', j)
    BY <1>0, <2>1, Delays
  <2>7. RetryDelay(failures, 6) \in 5 .. 600
    BY <1>0, Longest
  <2>8. retry_at' \in Nat /\ Bounded'
    BY <1>0, <2>2, <2>4 DEF Bounded, MaxRetrySeconds
  <2>9. Counted'
    <3>1. \A d, e \in 5 .. 600 : retry_at' = now + d /\ d <= e => retry_at' <= now + e
      BY <1>0
    <3>2. retry_at' <= now + RetryDelay(failures', 6)
      BY <2>2, <2>4, <2>5, <3>1, Zenon
    <3> QED
      BY <3>2 DEF Counted
  <2>10. failures # 0 => retry_at' >= retry_at \/ ~InForce
    <3>1. failures # 0 /\ InForce => retry_at <= now + RetryDelay(failures, 6)
      BY DEF Inv, Counted, InForce
    <3>2. \A d, e \in 5 .. 600 :
            retry_at <= now + d /\ d <= e /\ retry_at' = now + e => retry_at' >= retry_at
      BY <1>0
    <3> QED
      BY <2>2, <2>4, <2>6, <2>7, <3>1, <3>2, Zenon
  <2> QED
    BY <1>2, <2>1, <2>3, <2>8, <2>9, <2>10
<1> QED
  BY <1>1, <1>2

\* The invariant and the two action properties, step by step.
Steady ==
  /\ InForce /\ failures # 0 /\ retry_at' # 0 => retry_at' >= retry_at
  /\ Kind' # Kind => Kind' = "none" \/ (Kind # "observation" /\ Reporting /\ pass' = "none")

\* A report, of either kind.
LEMMA ReportStep ==
  ASSUME WideEnough, Inv, NEW scope \in Scopes, Reporting, pass' = "none",
         RecordFailure(scope), now' = now
  PROVE  Inv' /\ Steady
<1>1. TypeOK'
  BY Records DEF Inv, TypeOK, Passes
<1>2. Bounded' /\ Counted'
  BY Records
<1>3. PassTells'
  BY DEF PassTells, Reporting
<1>4. Steady
  <2>1. Kind # "observation"
    BY DEF Inv, PassTells
  <2> QED
    BY <2>1, Records DEF Steady
<1> QED
  BY <1>1, <1>2, <1>3, <1>4 DEF Inv

LEMMA Step ==
  ASSUME WideEnough, Inv, [Next]_vars
  PROVE  Inv' /\ Steady
<1>0. /\ now \in Nat /\ retry_at \in Nat /\ retry_scope \in Scopes /\ failures \in 0 .. MaxFailures
      /\ pass \in Passes /\ MaxFailures \in Nat
      /\ failures \in Nat /\ RetryDelay(failures, 6) \in 5 .. 600
  BY Longest DEF Inv, TypeOK, WideEnough
<1>1. CASE Tick
  BY <1>0, <1>1 DEF Tick, Inv, TypeOK, Bounded, Counted, PassTells, Steady, InForce, Kind,
     Reporting, Passes
<1>2. CASE RunCompleted
  BY <1>0, <1>2 DEF RunCompleted, Inv, TypeOK, Bounded, Counted, PassTells, Steady, InForce,
     Kind, Reporting
<1>3. CASE UnexpectedExit
  BY <1>3, ReportStep DEF UnexpectedExit, Scopes
<1>4. CASE PassFails
  BY <1>4, ReportStep DEF PassFails, Scopes
<1>5. CASE PassSucceeds
  <2>1. pass = "free" => ~InForce
    BY DEF Inv, PassTells
  <2>2. PassTells' /\ pass' \in Passes
    BY <1>5 DEF PassSucceeds, PassTells, Reporting, Passes
  <2>3. CASE pass = "free"
    BY <1>0, <1>5, <2>1, <2>2, <2>3 DEF PassSucceeds, Inv, TypeOK, Bounded, Counted, Steady,
       InForce, Kind, MaxRetrySeconds
  <2>4. CASE pass # "free"
    BY <1>0, <1>5, <2>2, <2>4 DEF PassSucceeds, Inv, TypeOK, Bounded, Counted, Steady, InForce,
       Kind
  <2> QED
    BY <2>3, <2>4
<1>6. CASE PassIsVoid
  BY <1>0, <1>6 DEF PassIsVoid, Inv, TypeOK, Bounded, Counted, PassTells, Steady, InForce, Kind,
     Reporting, Passes
<1>7. CASE Reset
  <2>1. ~InForce' /\ retry_at' = 0
    BY <1>0, <1>7 DEF Reset, InForce
  <2>2. Kind' = "none"
    BY <2>1 DEF Kind
  <2>3. TypeOK'
    BY <1>0, <1>7 DEF Reset, Interrupt, TypeOK, Passes
  <2>4. Bounded'
    BY <1>0, <1>7 DEF Reset, Bounded, MaxRetrySeconds
  <2> QED
    BY <2>1, <2>2, <2>3, <2>4 DEF Inv, Counted, PassTells, Steady
<1>8. CASE OtherRequest
  BY <1>0, <1>8 DEF OtherRequest, Interrupt, Inv, TypeOK, Bounded, Counted, PassTells, Steady,
     InForce, Kind, Reporting, Passes
<1>9. CASE TimePasses
  BY <1>0, <1>9 DEF TimePasses, Inv, TypeOK, Bounded, Counted, PassTells, Steady, InForce, Kind,
     Reporting, MaxRetrySeconds
<1>10. CASE UNCHANGED vars
  BY <1>0, <1>10 DEF vars, Inv, TypeOK, Bounded, Counted, PassTells, Steady, InForce, Kind,
     Reporting
<1> QED
  BY <1>1, <1>2, <1>3, <1>4, <1>5, <1>6, <1>7, <1>8, <1>9, <1>10 DEF Next

LEMMA Start ==
  ASSUME WideEnough, Init
  PROVE  Inv
BY DEF WideEnough, Init, Inv, TypeOK, Bounded, Counted, PassTells, InForce, Kind, Reporting,
   Passes, Scopes, MaxRetrySeconds

-----------------------------------------------------------------------------
\* docs/operations.md 41: whatever sequence of failures, requests, crashes and
\* completed jobs came before, a backoff is over within 600 seconds.
THEOREM BackoffsAreBounded ==
  ASSUME WideEnough
  PROVE  Spec => [](TypeOK /\ Bounded)
<1>1. Init => Inv
  BY Start
<1>2. Inv /\ [Next]_vars => Inv'
  BY Step
<1>3. Inv => TypeOK /\ Bounded
  BY DEF Inv
<1> QED
  BY <1>1, <1>2, <1>3, PTL DEF Spec

\* A second failure, also one of the other kind (line 487) and with the least
\* jitter, does not bring provisioning back earlier than the first allowed,
\* unless a job was completed in between.
THEOREM BackoffsAreNotShortened ==
  ASSUME WideEnough
  PROVE  Spec => NeverShortened
<1>1. Init => Inv
  BY Start
<1>2. Inv /\ [Next]_vars => Inv'
  BY Step
<1>3. Inv /\ [Next]_vars => [InForce /\ failures # 0 /\ retry_at' # 0 => retry_at' >= retry_at]_vars
  BY Step DEF Steady
<1> QED
  BY <1>1, <1>2, <1>3, PTL DEF Spec, NeverShortened

\* Engine's abstraction of the backoff is sound: without its durations it is
\* a timer that a report arms, unless it suspends the pass, and that time or
\* a request ends.
THEOREM TimerIsSound ==
  ASSUME WideEnough
  PROVE  Spec => KindAsInEngine
<1>1. Init => Inv
  BY Start
<1>2. Inv /\ [Next]_vars => Inv'
  BY Step
<1>3. Inv /\ [Next]_vars =>
        [Kind' # Kind => \/ Kind' = "none"
                         \/ Kind # "observation" /\ Reporting /\ pass' = "none"]_vars
  BY Step DEF Steady
<1> QED
  BY <1>1, <1>2, <1>3, PTL DEF Spec, KindAsInEngine
=============================================================================
