---------------------------- MODULE GithubProofs ----------------------------
(***************************************************************************)
(* Theorems about the GitHub client: its type invariant, and that nothing  *)
(* learnt with the credentials of before a clear survives it.              *)
(***************************************************************************)
EXTENDS GithubClient, FiniteSetTheorems, WellFoundedInduction, TLAPS

\* A new call starts from the idle record, which is a call record.
LEMMA IdleIsCall == Idle \in CallRec
  <1>1. (CHOOSE k \in Keys : TRUE) \in Keys
    BY KeysAssumption
  <1>2. (CHOOSE s \in Scopes : TRUE) \in Scopes
    BY KeysAssumption
  <1>. QED
    BY <1>1, <1>2 DEF Idle, CallRec, Steps, Ops

\* A step of a call changes the record of that call and no other.
LEMMA ContinueType ==
  ASSUME call \in [Callers -> CallRec], NEW c \in Callers, NEW next \in CallRec,
         Continue(c, next)
  PROVE  call' \in [Callers -> CallRec]
  BY DEF Continue

\* A call whose list is complete is a call record, with its history kept.
LEMMA AnswerIsCall ==
  ASSUME NEW me \in CallRec, NEW found \in SUBSET Runners
  PROVE  Answer(me, found) \in CallRec
  BY IdleIsCall DEF Answer, CallRec, Steps

\* A step of GitHub changes nothing of a call but its history.
HistoryOnly(old, new) ==
  old = new \/ \E m, b : new = [old EXCEPT !.must = m, !.shifted = b]

\* A runner that leaves is such a step.
LEMMA LosingIsCall ==
  ASSUME NEW me \in CallRec, NEW s, NEW r
  PROVE  /\ Losing(me, s, r) \in CallRec
         /\ HistoryOnly(me, Losing(me, s, r))
  BY DEF Losing, CallRec, HistoryOnly

\* The entries of what the client remembers are records of their kinds.
LEMMA EntryTypes == NoList \in ListRec /\ NoBlock \in BlockRec /\ NoToken \in TokenRec
  BY DEF NoList, NoBlock, NoToken, ListRec, BlockRec, TokenRec

\* Every step of a call preserves the types (github.rs:131-371).
LEMMA StepTypes ==
  ASSUME TypeOK, NEW c \in Callers, Step(c)
  PROVE  TypeOK'
  <1>. DEFINE me == call[c]
  <1>m. me \in CallRec
    BY DEF TypeOK
  <1>1. ASSUME NEW k \in Keys, NEW s \in Scopes, NEW ttl \in {0, PollInterval},
               BeginList(c, k, s, ttl)
        PROVE  TypeOK'
    <2>0. ttl \in Nat
      BY TimesAssumption
    <2>1. [Idle EXCEPT !.pc = "lookup", !.key = k, !.scope = s, !.ttl = ttl,
                       !.listGen = generation, !.must = registered[s]] \in CallRec
      BY <2>0, IdleIsCall DEF TypeOK, CallRec, Steps
    <2>. QED
      BY <1>1, <2>1, ContinueType DEF BeginList, TypeOK, memory, outside
  <1>2. ASSUME NEW op \in {"token", "remove"}, NEW k \in Keys, NEW s \in Scopes,
               NEW r \in Runners \cup {NoRunner}, BeginRequest(c, op, k, s, r)
        PROVE  TypeOK'
    <2>1. [Idle EXCEPT !.pc = "check", !.op = op, !.key = k, !.scope = s,
                       !.runner = r, !.gen = generation] \in CallRec
      BY IdleIsCall DEF TypeOK, CallRec, Steps, Ops
    <2>. QED
      BY <1>2, <2>1, ContinueType DEF BeginRequest, TypeOK, memory, outside
  <1>3. CASE Lookup(c)
    <2>0. <<me.key, me.scope>> \in Keys \X Scopes
      BY <1>m DEF CallRec
    <2>1. cache[<<me.key, me.scope>>].seen \subseteq Runners
      <3>1. cache[<<me.key, me.scope>>] \in ListRec
        BY <2>0 DEF TypeOK
      <3>. QED
        BY <3>1 DEF ListRec
    <2>2. Answer(me, cache[<<me.key, me.scope>>].seen) \in CallRec
      BY <1>m, <2>1, AnswerIsCall
    <2>3. [me EXCEPT !.pc = "check", !.gen = generation] \in CallRec
      BY <1>m DEF TypeOK, CallRec, Steps
    <2>4. PICK next \in CallRec : Continue(c, next)
      BY <1>3, <2>2, <2>3 DEF Lookup
    <2>. QED
      BY <1>3, <2>4, ContinueType DEF Lookup, TypeOK, memory, outside
  <1>4. CASE Check(c)
    <2>1. [me EXCEPT !.pc = "tokens", !.tokenGen = generation] \in CallRec
      BY <1>m DEF TypeOK, CallRec, Steps
    <2>2. [me EXCEPT !.pc = "send", !.by = secret[me.key]] \in CallRec
      BY <1>m DEF TypeOK, CallRec, Steps
    <2>3. PICK next \in CallRec : Continue(c, next)
      BY <1>4, <2>1, <2>2, IdleIsCall DEF Check
    <2>. QED
      BY <1>4, <2>3, ContinueType DEF Check, TypeOK, memory, outside
  <1>5. CASE AccessToken(c)
    <2>1. tokens[me.key].by \in Nat
      BY <1>m DEF TypeOK, CallRec, TokenRec
    <2>2. [me EXCEPT !.pc = "send", !.by = tokens[me.key].by] \in CallRec
      BY <1>m, <2>1 DEF CallRec, Steps
    <2>3. [me EXCEPT !.pc = "mint", !.by = secret[me.key]] \in CallRec
      BY <1>m DEF TypeOK, CallRec, Steps
    <2>4. PICK next \in CallRec : Continue(c, next)
      BY <1>5, <2>2, <2>3 DEF AccessToken
    <2>. QED
      BY <1>5, <2>4, ContinueType DEF AccessToken, TypeOK, memory, outside
  <1>6. CASE TokenArrives(c)
    <2>1. [me EXCEPT !.pc = "send"] \in CallRec
      BY <1>m DEF CallRec, Steps
    <2>2. [expiry |-> now + TokenLife, by |-> me.by] \in TokenRec
      BY <1>m, TimesAssumption DEF TypeOK, CallRec, TokenRec
    <2>3. tokens' \in [Keys -> TokenRec]
      BY <1>6, <2>2, <1>m DEF TokenArrives, TypeOK
    <2>. QED
      BY <1>6, <2>1, <2>3, ContinueType DEF TokenArrives, TypeOK, outside
  <1>7. ASSUME NEW r \in Refusals, Refused(c, r)
        PROVE  TypeOK'
    <2>1. r.wait \in Nat
      <3>1. CASE r \in [wait : {0}, drop : {FALSE}]
        BY <3>1
      <3>2. CASE r \in [wait : {PermissionWait} \cup RateWaits, drop : BOOLEAN]
        BY <3>2, TimesAssumption
      <3>. QED
        BY <3>1, <3>2 DEF Refusals
    <2>2. [until |-> now + r.wait, by |-> me.by] \in BlockRec
      BY <1>m, <2>1 DEF TypeOK, CallRec, BlockRec
    <2>3. blocked' \in [Keys -> BlockRec]
      BY <1>7, <2>2 DEF Refused, TypeOK
    <2>4. tokens' \in [Keys -> TokenRec]
      BY <1>7, EntryTypes DEF Refused, TypeOK
    <2>5. me.key \in Keys
      BY <1>m DEF CallRec
    <2>6. Later(told[me.key], now + r.wait) \in Nat
      BY <2>1, <2>5 DEF TypeOK, Later
    <2>7. told' \in [Keys -> Nat]
      BY <1>7, <2>5, <2>6 DEF Refused, TypeOK
    <2>. QED
      BY <1>7, <2>3, <2>4, <2>7, IdleIsCall, ContinueType DEF Refused, TypeOK, outside
  <1>8. CASE PageArrives(c)
    <2>. DEFINE batch == PageOf(me.scope, me.page)
                found == me.found \cup batch
                first == IF me.page = 1 THEN me.by ELSE me.first
    <2>0. me.found \subseteq Runners /\ me.scope \in Scopes
      BY <1>m DEF CallRec
    <2>1. found \subseteq Runners /\ first \in Nat /\ me.page + 1 \in Nat
      <3>1. batch \subseteq Runners
        BY <2>0 DEF TypeOK, PageOf
      <3>2. first \in Nat /\ me.page + 1 \in Nat
        BY <1>m DEF CallRec
      <3>. QED
        BY <2>0, <3>1, <3>2
    <2>2. [at |-> now, seen |-> found, by |-> first] \in ListRec
      BY <2>1 DEF TypeOK, ListRec
    <2>3. cache' \in [Keys \X Scopes -> ListRec]
      BY <1>8, <2>2 DEF PageArrives, TypeOK
    <2>4. Answer(me, found) \in CallRec
      BY <1>m, <2>1, AnswerIsCall
    <2>5. [me EXCEPT !.pc = "check", !.page = @ + 1, !.found = found,
                     !.first = first, !.gen = generation] \in CallRec
      BY <1>m, <2>1 DEF TypeOK, CallRec, Steps
    <2>6. PICK next \in CallRec : Continue(c, next)
      BY <1>8, <2>4, <2>5 DEF PageArrives
    <2>. QED
      BY <1>8, <2>3, <2>6, ContinueType DEF PageArrives, TypeOK, outside
  <1>9. CASE RegistrationToken(c)
    BY <1>9, IdleIsCall, ContinueType DEF RegistrationToken, TypeOK, memory, outside
  <1>10. CASE RunnerRemoved(c)
    <2>1. ASSUME NEW d \in Callers
          PROVE  Losing(call[d], me.scope, me.runner) \in CallRec
      BY LosingIsCall DEF TypeOK
    <2>2. call' \in [Callers -> CallRec]
      BY <1>10, <2>1, IdleIsCall DEF RunnerRemoved, TypeOK
    <2>3. cache' \in [Keys \X Scopes -> ListRec]
      BY <1>10, EntryTypes DEF RunnerRemoved, TypeOK
    <2>4. registered' \in [Scopes -> SUBSET Runners]
      BY <1>10 DEF RunnerRemoved, Leaves, TypeOK
    <2>. QED
      BY <1>10, <2>2, <2>3, <2>4 DEF RunnerRemoved, TypeOK
  <1>11. CASE Return(c)
    BY <1>11, IdleIsCall, ContinueType DEF Return, TypeOK, memory, outside
  <1>. QED
    BY <1>1, <1>2, <1>3, <1>4, <1>5, <1>6, <1>7, <1>8, <1>9, <1>10, <1>11 DEF Step

\* The types hold of the client and of what it sees, whatever its callers do.
THEOREM ClientTypes == Spec => []TypeOK
  <1>1. Init => TypeOK
    BY IdleIsCall, EntryTypes DEF Init, TypeOK
  <1>2. TypeOK /\ [Next]_vars => TypeOK'
    <2>. SUFFICES ASSUME TypeOK, [Next]_vars PROVE TypeOK'
      OBVIOUS
    <2>1. ASSUME NEW c \in Callers, Step(c) PROVE TypeOK'
      BY <2>1, StepTypes
    <2>2. CASE Clear
      BY <2>2, EntryTypes DEF Clear, TypeOK, outside
    <2>3. CASE Passes
      BY <2>3 DEF Passes, TypeOK, memory
    <2>4. ASSUME NEW k \in Keys, Rotates(k) PROVE TypeOK'
      BY <2>4 DEF Rotates, TypeOK, memory
    <2>5. ASSUME NEW s \in Scopes, NEW r \in Runners, Appears(s, r) PROVE TypeOK'
      BY <2>5 DEF Appears, TypeOK, memory
    <2>6. ASSUME NEW s \in Scopes, NEW r \in Runners, Disappears(s, r) PROVE TypeOK'
      <3>1. ASSUME NEW d \in Callers
            PROVE  Losing(call[d], s, r) \in CallRec
        BY LosingIsCall DEF TypeOK
      <3>2. call' \in [Callers -> CallRec]
        BY <2>6, <3>1 DEF Disappears, TypeOK
      <3>. QED
        BY <2>6, <3>2 DEF Disappears, Leaves, TypeOK, memory
    <2>7. CASE UNCHANGED vars
      BY <2>7 DEF vars, memory, outside, TypeOK
    <2>. QED
      BY <2>1, <2>2, <2>3, <2>4, <2>5, <2>6, <2>7 DEF Next
  <1>. QED
    BY <1>1, <1>2, PTL DEF Spec
-----------------------------------------------------------------------------
(* The generation fence.                                                   *)

\* What one call remembers, and what it goes on with, keeps the fence if the
\* clear, the secrets and the other calls are left alone.
LEMMA FenceStep ==
  ASSUME TypeOK, Fence, NEW c \in Callers, NEW next, Continue(c, next),
         UNCHANGED <<generation, baseline, secret>>,
         Fenced(next), \A k \in Keys : Known(k)'
  PROVE  Fence'
  <1>1. ASSUME NEW d \in Callers PROVE Fenced(call[d])'
    <2>1. call'[d] = call[d] \/ call'[d] = next
      BY DEF Continue, TypeOK
    <2>2. Fenced(call[d])
      BY DEF Fence
    <2>. QED
      BY <2>1, <2>2 DEF Fenced
  <1>. QED
    BY <1>1 DEF Fence

\* A new call holds no secret yet.
LEMMA IdleFenced == ASSUME TypeOK PROVE Fenced(Idle)
  BY DEF TypeOK, Fenced, Idle

\* Entries that no step touches stay known.
LEMMA KnownStays ==
  ASSUME Fence, UNCHANGED <<memory, baseline, secret>>
  PROVE  \A k \in Keys : Known(k)'
  BY DEF Fence, Known, memory

\* Every step of a call keeps the fence: an answer is remembered only under
\* the generation its call began with (github.rs:178, 291, 335).
LEMMA StepFence ==
  ASSUME TypeOK, Fence, NEW c \in Callers, Step(c)
  PROVE  Fence'
  <1>. DEFINE me == call[c]
  <1>m. me \in CallRec /\ Fenced(me)
    BY DEF TypeOK, Fence
  <1>t. /\ generation \in Nat /\ me.key \in Keys /\ me.scope \in Scopes
        /\ secret[me.key] \in Nat /\ baseline[me.key] \in Nat
    BY <1>m DEF TypeOK, CallRec
  <1>k. Known(me.key)
    BY <1>t DEF Fence
  <1>i. Fenced(Idle)
    BY IdleFenced
  <1>1. ASSUME NEW k \in Keys, NEW s \in Scopes, NEW ttl \in {0, PollInterval},
               BeginList(c, k, s, ttl)
        PROVE  Fence'
    <2>. DEFINE next == [Idle EXCEPT !.pc = "lookup", !.key = k, !.scope = s, !.ttl = ttl,
                                     !.listGen = generation, !.must = registered[s]]
    <2>1. Fenced(next)
      BY <1>t DEF Fenced, Idle
    <2>. QED
      BY <1>1, <2>1, FenceStep, KnownStays DEF BeginList, memory, outside
  <1>2. ASSUME NEW op \in {"token", "remove"}, NEW k \in Keys, NEW s \in Scopes,
               NEW r \in Runners \cup {NoRunner}, BeginRequest(c, op, k, s, r)
        PROVE  Fence'
    <2>. DEFINE next == [Idle EXCEPT !.pc = "check", !.op = op, !.key = k, !.scope = s,
                                     !.runner = r, !.gen = generation]
    <2>1. Fenced(next)
      BY <1>t DEF Fenced, Idle
    <2>. QED
      BY <1>2, <2>1, FenceStep, KnownStays DEF BeginRequest, memory, outside
  <1>3. CASE Lookup(c)
    <2>1. Fenced(Answer(me, cache[<<me.key, me.scope>>].seen))
      BY <1>t DEF Fenced, Answer, Idle
    <2>2. Fenced([me EXCEPT !.pc = "check", !.gen = generation])
      BY <1>m, <1>t, <1>3 DEF Fenced, CallRec, Lookup
    <2>3. PICK next : Continue(c, next) /\ Fenced(next)
      BY <1>3, <2>1, <2>2 DEF Lookup
    <2>. QED
      BY <1>3, <2>3, FenceStep, KnownStays DEF Lookup, memory, outside
  <1>4. CASE Check(c)
    <2>1. Fenced([me EXCEPT !.pc = "tokens", !.tokenGen = generation])
      BY <1>m, <1>t, <1>4 DEF Fenced, CallRec, Check
    <2>2. Fenced([me EXCEPT !.pc = "send", !.by = secret[me.key]])
      BY <1>m, <1>t, <1>k, <1>4 DEF Fenced, CallRec, Check, Known
    <2>3. PICK next : Continue(c, next) /\ Fenced(next)
      BY <1>4, <1>i, <2>1, <2>2 DEF Check
    <2>. QED
      BY <1>4, <2>3, FenceStep, KnownStays DEF Check, memory, outside
  <1>5. CASE AccessToken(c)
    <2>. DEFINE t == tokens[me.key]
    <2>1. ASSUME t.expiry > now + TokenMargin
          PROVE  Fenced([me EXCEPT !.pc = "send", !.by = t.by])
      <3>1. t # NoToken
        BY <2>1, TimesAssumption DEF NoToken, TypeOK
      <3>2. t.by >= baseline[me.key]
        BY <3>1, <1>k DEF Known
      <3>. QED
        BY <1>m, <1>t, <1>5, <3>2 DEF Fenced, CallRec, AccessToken
    <2>2. Fenced([me EXCEPT !.pc = "mint", !.by = secret[me.key]])
      BY <1>m, <1>t, <1>k, <1>5 DEF Fenced, CallRec, AccessToken, Known
    <2>3. PICK next : Continue(c, next) /\ Fenced(next)
      BY <1>5, <2>1, <2>2 DEF AccessToken
    <2>. QED
      BY <1>5, <2>3, FenceStep, KnownStays DEF AccessToken, memory, outside
  <1>6. CASE TokenArrives(c)
    <2>. DEFINE next == [me EXCEPT !.pc = "send"]
    <2>1. Fenced(next)
      BY <1>m, <1>6 DEF Fenced, CallRec, TokenArrives
    <2>2. ASSUME NEW k \in Keys PROVE Known(k)'
      <3>1. Known(k)
        BY DEF Fence
      <3>2. tokens'[k] = tokens[k]
            \/ (k = me.key /\ tokens'[k].by = me.by /\ me.tokenGen = generation)
        <4>1. \/ tokens' = tokens
              \/ /\ me.tokenGen = generation
                 /\ tokens' = [tokens EXCEPT ![me.key] = [expiry |-> now + TokenLife, by |-> me.by]]
          BY <1>6 DEF TokenArrives, CurrentGeneration
        <4>2. tokens \in [Keys -> TokenRec]
          BY DEF TypeOK
        <4>. QED
          BY <4>1, <4>2, <1>t
      <3>. QED
        BY <1>m, <1>6, <3>1, <3>2 DEF Fenced, Known, TokenArrives, outside
    <2>. QED
      BY <1>6, <2>1, <2>2, FenceStep DEF TokenArrives, outside
  <1>7. ASSUME NEW r \in Refusals, Refused(c, r)
        PROVE  Fence'
    <2>1. ASSUME NEW k \in Keys PROVE Known(k)'
      <3>1. Known(k)
        BY DEF Fence
      <3>2. tokens'[k] = tokens[k] \/ tokens'[k] = NoToken
        BY <1>7 DEF Refused, TypeOK
      <3>3. blocked'[k] = blocked[k]
            \/ /\ k = me.key /\ blocked'[k].by = me.by
               /\ me.gen = generation \/ (me.pc = "mint" /\ me.tokenGen = generation)
        <4>1. \/ blocked' = blocked
              \/ /\ me.gen = generation \/ (me.pc = "mint" /\ me.tokenGen = generation)
                 /\ blocked' = [blocked EXCEPT ![me.key] = [until |-> now + r.wait, by |-> me.by]]
          BY <1>7 DEF Refused, CurrentGeneration
        <4>. QED
          BY <4>1, <1>t DEF TypeOK
      <3>4. blocked'[k] = blocked[k] \/ blocked'[k].by >= baseline[k]
        BY <1>m, <1>7, <3>3 DEF Fenced, Refused
      <3>. QED
        BY <1>7, <3>1, <3>2, <3>4 DEF Known, Refused, outside
    <2>. QED
      BY <1>7, <1>i, <2>1, FenceStep DEF Refused, outside
  <1>8. CASE PageArrives(c)
    <2>. DEFINE found == me.found \cup PageOf(me.scope, me.page)
                first == IF me.page = 1 THEN me.by ELSE me.first
    <2>1. me.listGen = generation => me.gen = generation /\ first >= baseline[me.key]
      BY <1>m, <1>t, <1>8 DEF PageArrives, Fenced, CallRec
    <2>2. Fenced(Answer(me, found))
      BY <1>t DEF Fenced, Answer, Idle
    <2>3. Fenced([me EXCEPT !.pc = "check", !.page = @ + 1, !.found = found,
                            !.first = first, !.gen = generation])
      BY <1>m, <1>t, <2>1 DEF Fenced, CallRec
    <2>4. PICK next : Continue(c, next) /\ Fenced(next)
      BY <1>8, <2>2, <2>3 DEF PageArrives
    <2>5. ASSUME NEW k \in Keys PROVE Known(k)'
      <3>1. Known(k)
        BY DEF Fence
      <3>2. ASSUME NEW s \in Scopes
            PROVE  cache'[<<k, s>>] = cache[<<k, s>>]
                   \/ /\ k = me.key /\ me.listGen = generation
                      /\ cache'[<<k, s>>].by = first
        BY <1>8 DEF PageArrives, TypeOK, CurrentGeneration
      <3>. QED
        BY <1>8, <2>1, <3>1, <3>2 DEF Known, PageArrives, outside
    <2>. QED
      BY <1>8, <2>4, <2>5, FenceStep DEF PageArrives, outside
  <1>9. CASE RegistrationToken(c)
    BY <1>9, <1>i, FenceStep, KnownStays DEF RegistrationToken, memory, outside
  <1>10. CASE RunnerRemoved(c)
    <2>1. ASSUME NEW d \in Callers PROVE Fenced(call[d])'
      <3>1. Fenced(call[d]) /\ call[d] \in CallRec
        BY DEF Fence, TypeOK
      <3>2. call'[d] = Idle \/ call'[d] = Losing(call[d], me.scope, me.runner)
        BY <1>10 DEF RunnerRemoved
      <3>3. call'[d] = Idle \/ HistoryOnly(call[d], call'[d])
        BY <3>1, <3>2, LosingIsCall
      <3>. QED
        BY <1>10, <1>i, <3>1, <3>3 DEF Fenced, CallRec, RunnerRemoved, HistoryOnly
    <2>2. ASSUME NEW k \in Keys PROVE Known(k)'
      <3>1. Known(k)
        BY DEF Fence
      <3>2. ASSUME NEW s \in Scopes
            PROVE  cache'[<<k, s>>] = cache[<<k, s>>] \/ cache'[<<k, s>>] = NoList
        BY <1>10 DEF RunnerRemoved, TypeOK
      <3>. QED
        BY <1>10, <3>1, <3>2 DEF Known, RunnerRemoved
    <2>. QED
      BY <2>1, <2>2 DEF Fence
  <1>11. CASE Return(c)
    BY <1>11, <1>i, FenceStep, KnownStays DEF Return, memory, outside
  <1>. QED
    BY <1>1, <1>2, <1>3, <1>4, <1>5, <1>6, <1>7, <1>8, <1>9, <1>10, <1>11 DEF Step

\* A step that leaves the generation, the memory and the calls' secrets alone.
LEMMA FenceStays ==
  ASSUME TypeOK, Fence, UNCHANGED <<generation, memory, baseline>>,
         \A k \in Keys : secret'[k] \in Nat /\ secret'[k] >= secret[k],
         \A c \in Callers : HistoryOnly(call[c], call'[c])
  PROVE  Fence'
  <1>1. ASSUME NEW k \in Keys PROVE Known(k)'
    <2>1. Known(k)
      BY DEF Fence
    <2>2. baseline[k] \in Nat /\ secret[k] \in Nat
      BY DEF TypeOK
    <2>. QED
      BY <2>1, <2>2 DEF Known, memory
  <1>2. ASSUME NEW c \in Callers PROVE Fenced(call[c])'
    <2>1. Fenced(call[c]) /\ call[c] \in CallRec
      BY DEF Fence, TypeOK
    <2>2. HistoryOnly(call[c], call'[c])
      OBVIOUS
    <2>. QED
      BY <2>1, <2>2 DEF Fenced, CallRec, HistoryOnly
  <1>. QED
    BY <1>1, <1>2 DEF Fence

\* docs/authentication.md:47, github.rs:123: once the cache is cleared, no
\* block, token or list of runners learnt with an older secret is used again,
\* for any number of calls in flight across the clear.
THEOREM ClearIsFinal == Spec => []ClearForgets
  <1>1. Init => Fence
    <2>. SUFFICES ASSUME Init PROVE Fence
      OBVIOUS
    <2>1. \A k \in Keys : Known(k)
      BY DEF Init, Known
    <2>2. ASSUME NEW c \in Callers PROVE Fenced(call[c])
      BY DEF Init, Fenced, Idle
    <2>. QED
      BY <2>1, <2>2 DEF Fence
  <1>2. TypeOK /\ Fence /\ [Next]_vars => Fence'
    <2>. SUFFICES ASSUME TypeOK, Fence, [Next]_vars PROVE Fence'
      OBVIOUS
    <2>0. \A k \in Keys : secret[k] \in Nat
      BY DEF TypeOK
    <2>1. ASSUME NEW c \in Callers, Step(c) PROVE Fence'
      BY <2>1, StepFence
    <2>2. CASE Clear
      <3>1. ASSUME NEW k \in Keys PROVE Known(k)'
        BY <2>0, <2>2 DEF Clear, Known, outside
      <3>2. ASSUME NEW c \in Callers PROVE Fenced(call[c])'
        <4>1. Fenced(call[c]) /\ call[c] \in CallRec /\ generation \in Nat
          BY DEF Fence, TypeOK
        <4>. QED
          BY <2>2, <4>1 DEF Clear, Fenced, CallRec
      <3>. QED
        BY <3>1, <3>2 DEF Fence
    <2>3. CASE Passes
      BY <2>0, <2>3, FenceStays DEF Passes, memory, HistoryOnly
    <2>4. ASSUME NEW k \in Keys, Rotates(k) PROVE Fence'
      <3>1. \A l \in Keys : secret'[l] \in Nat /\ secret'[l] >= secret[l]
        BY <2>0, <2>4 DEF Rotates, TypeOK
      <3>. QED
        BY <2>4, <3>1, FenceStays DEF Rotates, memory, HistoryOnly
    <2>5. ASSUME NEW s \in Scopes, NEW r \in Runners, Appears(s, r) PROVE Fence'
      BY <2>0, <2>5, FenceStays DEF Appears, memory, HistoryOnly
    <2>6. ASSUME NEW s \in Scopes, NEW r \in Runners, Disappears(s, r) PROVE Fence'
      <3>1. ASSUME NEW c \in Callers
            PROVE  HistoryOnly(call[c], call'[c])
        <4>1. call[c] \in CallRec
          BY DEF TypeOK
        <4>2. call'[c] = Losing(call[c], s, r)
          BY <2>6 DEF Disappears
        <4>. QED
          BY <4>1, <4>2, LosingIsCall
      <3>2. secret' = secret /\ UNCHANGED <<generation, memory, baseline>>
        BY <2>6 DEF Disappears
      <3>3. \A k \in Keys : secret'[k] \in Nat /\ secret'[k] >= secret[k]
        BY <2>0, <3>2
      <3>. QED
        BY <3>1, <3>2, <3>3, FenceStays, Zenon
    <2>7. CASE UNCHANGED vars
      BY <2>0, <2>7, FenceStays DEF vars, memory, outside, HistoryOnly
    <2>. QED
      BY <2>1, <2>2, <2>3, <2>4, <2>5, <2>6, <2>7 DEF Next
  <1>3. TypeOK /\ Fence => ClearForgets
    BY DEF TypeOK, Fence, Known, ClearForgets, Outlives, NoBlock, NoToken, NoList
  <1>. QED
    BY <1>1, <1>2, <1>3, ClientTypes, PTL DEF Spec
-----------------------------------------------------------------------------
(* Pages.  Numbers have no gaps, so that a page which is not full is the   *)
(* last one; a registration moves the others towards the end of the list.  *)

\* A set of numbers has a least element: initial segments are well-founded.
LEMMA LeastNatural ==
  ASSUME NEW T \in SUBSET Nat, T # {}
  PROVE  \E m \in T : \A n \in T : m <= n
  <1>. DEFINE R == StrictSubsetOrdering(Nat)
              I == {0 .. n : n \in T}
  <1>1. I \subseteq FiniteSubsetsOf(Nat) /\ I # {}
    <2>1. ASSUME NEW n \in T PROVE IsFiniteSet(0 .. n) /\ 0 .. n \subseteq Nat
      BY FS_Interval
    <2>. QED
      BY <2>1 DEF FiniteSubsetsOf
  <1>2. \E i \in I : \A j \in I : <<j, i>> \notin R
    <2>1. IsWellFoundedOn(R, FiniteSubsetsOf(Nat))
      BY FS_StrictSubsetOrderingWellFounded
    <2>. HIDE DEF R, I
    <2>. QED
      BY <1>1, <2>1, WFMin
  <1>3. PICK m \in T : \A n \in T : <<0 .. n, 0 .. m>> \notin R
    BY <1>2
  <1>4. ASSUME NEW n \in T, n < m PROVE FALSE
    <2>1. 0 .. n \subseteq 0 .. m /\ m \in 0 .. m /\ m \notin 0 .. n
      BY <1>4
    <2>2. 0 .. n \in SUBSET Nat /\ 0 .. m \in SUBSET Nat
      OBVIOUS
    <2>3. <<0 .. n, 0 .. m>> \in R
      BY <2>1, <2>2 DEF StrictSubsetOrdering
    <2>. QED
      BY <2>3, <1>3
  <1>5. ASSUME NEW n \in T PROVE m <= n
    BY <1>4
  <1>. QED
    BY <1>5

\* The first k members of a list.
Low(S, k) == {q \in S : Rank(S, q) <= k}

\* The members of a list are numbered from one.
LEMMA RankBounds ==
  ASSUME NEW S \in SUBSET Nat, IsFiniteSet(S), NEW r \in S
  PROVE  Rank(S, r) \in 1 .. Cardinality(S)
  <1>. DEFINE B == {q \in S : q <= r}
  <1>1. IsFiniteSet(B) /\ Cardinality(B) <= Cardinality(S)
    BY FS_Subset
  <1>2. Cardinality(B) # 0
    <2>1. r \in B
      OBVIOUS
    <2>. QED
      BY <1>1, <2>1, FS_EmptySet
  <1>3. Cardinality(B) \in Nat /\ Cardinality(S) \in Nat
    BY <1>1, FS_CardinalityType
  <1>. QED
    BY <1>1, <1>2, <1>3 DEF Rank

\* A later member has a greater number.
LEMMA RankGrows ==
  ASSUME NEW S \in SUBSET Nat, IsFiniteSet(S), NEW q \in S, NEW r \in S, q < r
  PROVE  Rank(S, q) < Rank(S, r)
  <1>. DEFINE A == {x \in S : x <= q}
              B == {x \in S : x <= r}
  <1>1. A \subseteq B /\ r \in B /\ r \notin A
    <2>1. S \subseteq Nat
      OBVIOUS
    <2>2. ASSUME NEW x \in S, x <= q PROVE x <= r
      BY <2>1, <2>2
    <2>3. r <= r /\ ~(r <= q)
      BY <2>1
    <2>. QED
      BY <2>2, <2>3
  <1>2. IsFiniteSet(B)
    BY FS_Subset
  <1>3. IsFiniteSet(A) /\ Cardinality(A) <= Cardinality(B) /\ Cardinality(A) # Cardinality(B)
    BY <1>1, <1>2, FS_Subset
  <1>4. Cardinality(A) \in Nat /\ Cardinality(B) \in Nat
    BY <1>2, <1>3, FS_CardinalityType
  <1>. QED
    BY <1>3, <1>4 DEF Rank

\* The first k members are k of them, if the list has as many: the least k for
\* which they are not would have a predecessor, and the next member has number k.
LEMMA LowCount ==
  ASSUME NEW S \in SUBSET Nat, IsFiniteSet(S)
  PROVE  \A k \in 0 .. Cardinality(S) : Cardinality(Low(S, k)) = k
  <1>. DEFINE Bad == {k \in 0 .. Cardinality(S) : Cardinality(Low(S, k)) # k}
  <1>0. Cardinality(S) \in Nat
    BY FS_CardinalityType
  <1>. SUFFICES ASSUME Bad # {} PROVE FALSE
    OBVIOUS
  <1>1. PICK k \in Bad : \A n \in Bad : k <= n
    <2>1. Bad \in SUBSET Nat
      BY <1>0
    <2>. HIDE DEF Bad
    <2>. QED
      BY <2>1, LeastNatural
  <1>2. k \in Nat /\ k <= Cardinality(S) /\ Cardinality(Low(S, k)) # k
    BY <1>0, <1>1
  <1>3. k # 0
    <2>1. ASSUME NEW q \in S PROVE ~(Rank(S, q) <= 0)
      <3>1. Rank(S, q) \in 1 .. Cardinality(S)
        BY RankBounds
      <3>. QED
        BY <3>1, <1>0
    <2>2. Low(S, 0) = {}
      BY <2>1 DEF Low
    <2>. QED
      BY <2>2, <1>2, FS_EmptySet
  <1>. DEFINE L == Low(S, k - 1)
              Rest == S \ L
  <1>4. Cardinality(L) = k - 1
    <2>1. k - 1 \in 0 .. Cardinality(S) /\ k - 1 \notin Bad
      BY <1>0, <1>1, <1>2, <1>3
    <2>. QED
      BY <2>1
  <1>5. Rest # {}
    <2>1. L # S
      BY <1>0, <1>2, <1>4
    <2>2. L \subseteq S
      BY DEF Low
    <2>. QED
      BY <2>1, <2>2
  <1>6. PICK m \in Rest : \A n \in Rest : m <= n
    <2>1. Rest \in SUBSET Nat
      OBVIOUS
    <2>. HIDE DEF Rest
    <2>. QED
      BY <1>5, <2>1, LeastNatural
  <1>7. ASSUME NEW q \in S PROVE q \in L <=> q < m
    <2>1. Rank(S, q) \in Nat /\ Rank(S, m) \in Nat
      BY RankBounds, <1>0
    <2>2. ~(Rank(S, m) <= k - 1)
      BY DEF Low
    <2>3. CASE q < m
      BY <1>6, <2>3
    <2>4. CASE q = m
      BY <2>4
    <2>5. CASE m < q
      <3>1. Rank(S, m) < Rank(S, q)
        BY <2>5, RankGrows
      <3>. QED
        BY <1>2, <2>1, <2>2, <2>5, <3>1 DEF Low
    <2>. QED
      BY <2>3, <2>4, <2>5
  <1>8. IsFiniteSet(L)
    BY FS_Subset DEF Low
  <1>11. Cardinality(L \cup {m}) = k
    <2>1. m \notin L
      OBVIOUS
    <2>2. Cardinality(L \cup {m}) = Cardinality(L) + 1
      <3>. HIDE DEF L
      <3>. QED
        BY <1>8, <2>1, FS_AddElement
    <2>. QED
      BY <1>2, <1>4, <2>2
  <1>9. Rank(S, m) = k
    <2>1. {q \in S : q <= m} = L \cup {m} /\ m \notin L
      <3>1. ASSUME NEW q \in S PROVE q <= m <=> q \in L \/ q = m
        BY <1>7
      <3>. QED
        BY <3>1 DEF Low
    <2>. QED
      BY <1>11, <2>1 DEF Rank
  <1>10. Low(S, k) = L \cup {m}
    <2>1. ASSUME NEW q \in S PROVE Rank(S, q) <= k <=> q \in L \/ q = m
      <3>1. Rank(S, q) \in Nat
        BY RankBounds, <1>0
      <3>2. CASE q < m
        BY <1>2, <1>7, <3>1, <3>2 DEF Low
      <3>3. CASE q = m
        BY <1>2, <1>9, <3>3
      <3>4. CASE m < q
        <4>1. k < Rank(S, q)
          BY <1>9, <3>4, RankGrows
        <4>. QED
          BY <1>2, <1>7, <3>1, <3>4, <4>1
      <3>. QED
        BY <3>2, <3>3, <3>4
    <2>. QED
      BY <2>1 DEF Low
  <1>. QED
    BY <1>2, <1>10, <1>11
\* A page that is followed by a runner is full (github.rs:313).
LEMMA PageBeforeIsFull ==
  ASSUME NEW S \in SUBSET Nat, IsFiniteSet(S), NEW lo \in Nat, NEW hi \in Nat, lo <= hi,
         NEW r \in S, Rank(S, r) > hi
  PROVE  Cardinality({q \in S : Rank(S, q) \in lo + 1 .. hi}) = hi - lo
  <1>0. Cardinality(S) \in Nat /\ hi <= Cardinality(S)
    BY RankBounds, FS_CardinalityType
  <1>1. Cardinality(Low(S, lo)) = lo /\ Cardinality(Low(S, hi)) = hi
    BY <1>0, LowCount
  <1>2. Low(S, hi) \cap Low(S, lo) = Low(S, lo)
        /\ {q \in S : Rank(S, q) \in lo + 1 .. hi} = Low(S, hi) \ Low(S, lo)
    <2>1. \A q \in S : Rank(S, q) \in Nat
      BY <1>0, RankBounds
    <2>2. \A q \in S : /\ Rank(S, q) <= lo => Rank(S, q) <= hi
                       /\ Rank(S, q) \in lo + 1 .. hi <=> Rank(S, q) <= hi /\ ~(Rank(S, q) <= lo)
      <3>. HIDE DEF Rank
      <3>. QED
        BY <2>1
    <2>. QED
      BY <2>2, Zenon DEF Low
  <1>3. IsFiniteSet(Low(S, hi))
    <2>1. Low(S, hi) \in SUBSET S
      BY DEF Low
    <2>. QED
      BY <2>1, FS_Subset
  <1>4. Cardinality(Low(S, hi) \ Low(S, lo))
        = Cardinality(Low(S, hi)) - Cardinality(Low(S, hi) \cap Low(S, lo))
    BY <1>3, FS_Difference
  <1>. QED
    BY <1>1, <1>2, <1>4

\* A registration moves no runner towards the start of the list.
LEMMA RankAfterArrival ==
  ASSUME NEW T \in SUBSET Nat, IsFiniteSet(T), NEW S \in SUBSET T, NEW r \in S
  PROVE  Rank(S, r) <= Rank(T, r)
  <1>. DEFINE A == {q \in S : q <= r}
              B == {q \in T : q <= r}
  <1>1. A \in SUBSET B
    OBVIOUS
  <1>2. IsFiniteSet(B)
    BY FS_Subset
  <1>. QED
    BY <1>1, <1>2, FS_Subset DEF Rank

\* A runner that leaves a page yet to be read moves no runner off those pages.
LEMMA RankAfterLoss ==
  ASSUME NEW S \in SUBSET Nat, IsFiniteSet(S), NEW k \in Nat,
         NEW q \in S, Rank(S, q) > k, NEW r \in S \ {q}, Rank(S, r) > k
  PROVE  Rank(S \ {q}, r) > k
  <1>. DEFINE B == {x \in S : x <= r}
              C == {x \in S \ {q} : x <= r}
  <1>0. q \in Nat /\ r \in Nat /\ S \subseteq Nat
    OBVIOUS
  <1>1. CASE r < q
    <2>1. C = B
      BY <1>0, <1>1
    <2>. QED
      BY <2>1 DEF Rank
  <1>2. CASE q < r
    <2>1. C = B \ {q} /\ q \in B
      BY <1>0, <1>2
    <2>2. IsFiniteSet(B)
      BY FS_Subset
    <2>3. Cardinality(C) = Cardinality(B) - 1
      <3>. HIDE DEF B, C
      <3>. QED
        BY <2>1, <2>2, FS_RemoveElement
    <2>4. Rank(S, q) < Rank(S, r)
      BY <1>2, RankGrows
    <2>5. Rank(S, q) \in Nat /\ Rank(S, r) \in Nat
      BY RankBounds, FS_CardinalityType
    <2>. QED
      BY <2>3, <2>4, <2>5 DEF Rank
  <1>. QED
    BY <1>0, <1>1, <1>2

-----------------------------------------------------------------------------
(* What a fresh list must show.                                            *)

\* The places before a page, and those after it.
LEMMA PageBounds ==
  ASSUME NEW n \in Nat \ {0}
  PROVE  /\ Before(n) \in Nat /\ Before(n + 1) = Before(n) + PageSize
         /\ Before(n + 1) \in Nat /\ Before(n) <= Before(n + 1)
  <1>1. PageSize \in Nat
    BY TimesAssumption
  <1>2. (n - 1) * PageSize \in Nat /\ n * PageSize = (n - 1) * PageSize + PageSize
    BY <1>1
  <1>3. Before(n + 1) = n * PageSize
    BY DEF Before
  <1>. QED
    BY <1>1, <1>2, <1>3 DEF Before

\* What GitHub lists is a finite set of numbers.
LEMMA ListsAreFinite ==
  ASSUME TypeOK, NEW s \in Scopes
  PROVE  registered[s] \in SUBSET Nat /\ IsFiniteSet(registered[s])
  <1>1. registered[s] \in SUBSET Runners
    BY DEF TypeOK
  <1>. QED
    BY <1>1, RunnersAssumption, FS_Subset

\* A new call owes nothing.
LEMMA IdleAccounted == Accounted(Idle, registered)
  BY DEF Accounted, Idle

\* A step of one call that leaves GitHub's lists and the cache alone.
LEMMA AccountsStep ==
  ASSUME TypeOK, Accounts, NEW c \in Callers, NEW next, Continue(c, next),
         Accounted(next, registered), registered' = registered, now' = now,
         \A ks \in Keys \X Scopes : cache'[ks] = cache[ks] \/ cache'[ks].at <= now
  PROVE  Accounts'
  <1>1. ASSUME NEW d \in Callers PROVE Accounted(call'[d], registered')
    <2>1. call'[d] = call[d] \/ call'[d] = next
      BY DEF Continue, TypeOK
    <2>2. Accounted(call[d], registered)
      BY DEF Accounts
    <2>. QED
      BY <2>1, <2>2
  <1>2. ASSUME NEW ks \in Keys \X Scopes PROVE cache'[ks].at <= now'
    BY DEF Accounts
  <1>. QED
    BY <1>1, <1>2 DEF Accounts

\* The runner of a call that goes on to another page, or answers.
LEMMA PageAccounts ==
  ASSUME TypeOK, NEW me \in CallRec, Accounted(me, registered), me.pc = "send"
  PROVE  LET batch == PageOf(me.scope, me.page)
             found == me.found \cup batch
         IN  ~me.shifted =>
               IF Cardinality(batch) < PageSize
               THEN me.must \subseteq found
               ELSE \A r \in me.must :
                      r \in found \/ Rank(registered[me.scope], r) > Before(me.page + 1)
  <1>. DEFINE S == registered[me.scope]
              batch == PageOf(me.scope, me.page)
              found == me.found \cup batch
              lo == Before(me.page)
              hi == Before(me.page + 1)
  <1>. SUFFICES ASSUME ~me.shifted
                PROVE  IF Cardinality(batch) < PageSize
                       THEN me.must \subseteq found
                       ELSE \A r \in me.must : r \in found \/ Rank(S, r) > hi
    OBVIOUS
  <1>1. me.scope \in Scopes /\ me.page \in Nat \ {0} /\ me.must \subseteq S
    BY DEF CallRec, Accounted
  <1>2. S \in SUBSET Nat /\ IsFiniteSet(S)
    BY <1>1, ListsAreFinite
  <1>3. lo \in Nat /\ hi \in Nat /\ lo <= hi /\ hi - lo = PageSize
    <2>1. PageSize \in Nat
      BY TimesAssumption
    <2>2. lo \in Nat /\ hi \in Nat /\ lo <= hi /\ hi = lo + PageSize
      BY <1>1, PageBounds
    <2>. HIDE DEF lo, hi
    <2>. QED
      BY <2>1, <2>2
  <1>4. batch = {q \in S : Rank(S, q) \in lo + 1 .. hi}
    BY DEF PageOf
  <1>5. ASSUME NEW r \in me.must PROVE r \in found \/ Rank(S, r) > hi
    <2>1. r \in me.found \/ Rank(S, r) > lo
      BY DEF Accounted
    <2>2. r \in S /\ Rank(S, r) \in Nat
      BY <1>1, <1>2, RankBounds, FS_CardinalityType
    <2>3. ASSUME Rank(S, r) > lo, ~(Rank(S, r) > hi) PROVE r \in batch
      <3>1. Rank(S, r) \in lo + 1 .. hi
        BY <1>3, <2>2, <2>3
      <3>. QED
        BY <1>4, <2>2, <3>1
    <2>. QED
      BY <2>1, <2>3
  <1>6. ASSUME Cardinality(batch) < PageSize, NEW r \in me.must PROVE r \in found
    <2>1. CASE Rank(S, r) > hi
      <3>1. Cardinality(batch) = hi - lo
        BY <1>1, <1>2, <1>3, <1>4, <2>1, PageBeforeIsFull
      <3>2. PageSize \in Nat
        BY TimesAssumption
      <3>. QED
        BY <1>3, <1>6, <3>1, <3>2
    <2>. QED
      BY <1>5, <2>1
  <1>. QED
    BY <1>5, <1>6

\* GitHub loses a runner: a call that has read a page past it is off the hook,
\* for the others the list only got shorter behind them.
LEMMA LosingAccounts ==
  ASSUME TypeOK, NEW me \in CallRec, Accounted(me, registered), NEW s \in Scopes, NEW q, Leaves(s, q)
  PROVE  Accounted(Losing(me, s, q), registered')
  <1>. DEFINE S == registered[me.scope]
              new == Losing(me, s, q)
  <1>0. me.scope \in Scopes /\ me.page \in Nat \ {0} /\ me.must \subseteq S
    BY DEF CallRec, Accounted
  <1>1. CASE me.scope # s
    <2>1. new = me /\ registered'[me.scope] = S
      BY <1>0, <1>1 DEF Losing, Leaves, TypeOK
    <2>. QED
      BY <2>1 DEF Accounted
  <1>2. CASE me.scope = s
    <2>1. registered'[s] = S \ {q}
      BY <1>0, <1>2 DEF Leaves, TypeOK
    <2>. DEFINE late == me.pc # "done" /\ q \in S /\ Rank(S, q) <= Before(me.page)
    <2>2. new = [me EXCEPT !.must = @ \ {q}, !.shifted = @ \/ late]
      BY <1>2 DEF Losing
    <2>3. /\ new.must = me.must \ {q} /\ new.shifted = (me.shifted \/ late)
          /\ new.pc = me.pc /\ new.page = me.page /\ new.found = me.found
          /\ new.ttl = me.ttl /\ new.scope = me.scope
      <3>. HIDE DEF late, new
      <3>. QED
        BY <2>2 DEF CallRec
    <2>4. ASSUME me.pc \notin {"idle", "done"}, ~new.shifted, NEW r \in new.must
          PROVE  r \in me.found \/ Rank(registered'[s], r) > Before(me.page)
      <3>1. r \in me.must /\ r # q /\ r \in S /\ ~me.shifted /\ ~late
        BY <1>0, <2>3, <2>4
      <3>2. r \in me.found \/ Rank(S, r) > Before(me.page)
        BY <2>4, <3>1 DEF Accounted
      <3>3. S \in SUBSET Nat /\ IsFiniteSet(S) /\ Before(me.page) \in Nat
        BY <1>0, ListsAreFinite, PageBounds
      <3>4. CASE q \notin S
        <4>1. S \ {q} = S
          BY <3>4
        <4>. QED
          BY <2>1, <3>2, <4>1
      <3>5. CASE q \in S /\ Rank(S, r) > Before(me.page)
        <4>1. Rank(S, q) \in Nat
          BY <3>3, <3>5, RankBounds, FS_CardinalityType
        <4>2. Rank(S, q) > Before(me.page)
          BY <2>4, <3>1, <3>3, <3>5, <4>1
        <4>3. Rank(S \ {q}, r) > Before(me.page)
          BY <3>1, <3>3, <3>5, <4>2, RankAfterLoss
        <4>. QED
          BY <2>1, <4>3
      <3>. QED
        BY <3>2, <3>4, <3>5
    <2>6. new.must \subseteq registered'[s]
      BY <1>0, <2>1, <2>3
    <2>7. me.pc = "done" /\ me.ttl = 0 /\ ~new.shifted => new.must \subseteq new.found
      BY <2>3 DEF Accounted
    <2>8. ASSUME new.pc \notin {"idle", "done"}, ~new.shifted, NEW r \in new.must
          PROVE  r \in new.found \/ Rank(registered'[new.scope], r) > Before(new.page)
      <3>. HIDE DEF new
      <3>. QED
        BY <1>2, <2>3, <2>4, <2>8
    <2>9. new.page # 0 /\ new.must \subseteq registered'[new.scope]
      <3>. HIDE DEF new
      <3>. QED
        BY <1>0, <1>2, <2>3, <2>6
    <2>10. new.pc = "done" /\ new.ttl = 0 /\ ~new.shifted => new.must \subseteq new.found
      <3>. HIDE DEF new
      <3>. QED
        BY <2>3, <2>7
    <2>11. Accounted(new, registered')
      <3>. HIDE DEF new
      <3>. QED
        BY <2>8, <2>9, <2>10 DEF Accounted
    <2>. QED
      BY <2>11
  <1>. QED
    BY <1>1, <1>2

\* Every step of a call keeps the account of what is still to be shown.
LEMMA StepAccounts ==
  ASSUME TypeOK, Accounts, NEW c \in Callers, Step(c)
  PROVE  Accounts'
  <1>. DEFINE me == call[c]
  <1>m. me \in CallRec /\ Accounted(me, registered)
    BY DEF TypeOK, Accounts
  <1>t. now \in Nat /\ me.key \in Keys /\ me.scope \in Scopes
    BY <1>m DEF TypeOK, CallRec
  <1>c. \A ks \in Keys \X Scopes : cache[ks].at <= now
    BY DEF Accounts
  <1>1. ASSUME NEW k \in Keys, NEW s \in Scopes, NEW ttl \in {0, PollInterval},
               BeginList(c, k, s, ttl)
        PROVE  Accounts'
    <2>. DEFINE next == [Idle EXCEPT !.pc = "lookup", !.key = k, !.scope = s, !.ttl = ttl,
                                     !.listGen = generation, !.must = registered[s]]
    <2>1. registered[s] \in SUBSET Nat /\ IsFiniteSet(registered[s])
      BY ListsAreFinite
    <2>2. ASSUME NEW r \in registered[s] PROVE Rank(registered[s], r) > 0
      <3>1. Rank(registered[s], r) \in 1 .. Cardinality(registered[s])
        BY <2>1, RankBounds
      <3>2. Cardinality(registered[s]) \in Nat
        BY <2>1, FS_CardinalityType
      <3>. QED
        BY <3>1, <3>2
    <2>3. Before(1) = 0
      BY TimesAssumption DEF Before
    <2>4. Accounted(next, registered)
      BY <2>2, <2>3 DEF Accounted, Idle
    <2>. QED
      BY <1>1, <1>c, <2>4, AccountsStep DEF BeginList, memory, outside
  <1>2. ASSUME NEW op \in {"token", "remove"}, NEW k \in Keys, NEW s \in Scopes,
               NEW r \in Runners \cup {NoRunner}, BeginRequest(c, op, k, s, r)
        PROVE  Accounts'
    <2>. DEFINE next == [Idle EXCEPT !.pc = "check", !.op = op, !.key = k, !.scope = s,
                                     !.runner = r, !.gen = generation]
    <2>1. Accounted(next, registered)
      BY DEF Accounted, Idle
    <2>. QED
      BY <1>2, <1>c, <2>1, AccountsStep DEF BeginRequest, memory, outside
  <1>3. CASE Lookup(c)
    <2>. DEFINE l == cache[<<me.key, me.scope>>]
    <2>1. l \in ListRec /\ l.at <= now
      BY <1>t, <1>c DEF TypeOK
    <2>2. me.ttl = 0 => ~Recent(l, me.ttl)
      BY <1>t, <2>1 DEF Recent, ListRec
    <2>3. me.ttl # 0 => Accounted(Answer(me, l.seen), registered)
      BY <1>m DEF Accounted, Answer, Idle
    <2>4. Accounted([me EXCEPT !.pc = "check", !.gen = generation], registered)
      BY <1>m, <1>3 DEF Accounted, CallRec, Lookup
    <2>5. PICK next : Continue(c, next) /\ Accounted(next, registered)
      BY <1>3, <2>2, <2>3, <2>4 DEF Lookup
    <2>. QED
      BY <1>3, <1>c, <2>5, AccountsStep DEF Lookup, memory, outside
  <1>4. CASE Check(c)
    <2>1. Accounted([me EXCEPT !.pc = "tokens", !.tokenGen = generation], registered)
      BY <1>m, <1>4 DEF Accounted, CallRec, Check
    <2>2. Accounted([me EXCEPT !.pc = "send", !.by = secret[me.key]], registered)
      BY <1>m, <1>4 DEF Accounted, CallRec, Check
    <2>3. PICK next : Continue(c, next) /\ Accounted(next, registered)
      BY <1>4, <2>1, <2>2, IdleAccounted DEF Check
    <2>. QED
      BY <1>4, <1>c, <2>3, AccountsStep DEF Check, memory, outside
  <1>5. CASE AccessToken(c)
    <2>1. Accounted([me EXCEPT !.pc = "send", !.by = tokens[me.key].by], registered)
      BY <1>m, <1>5 DEF Accounted, CallRec, AccessToken
    <2>2. Accounted([me EXCEPT !.pc = "mint", !.by = secret[me.key]], registered)
      BY <1>m, <1>5 DEF Accounted, CallRec, AccessToken
    <2>3. PICK next : Continue(c, next) /\ Accounted(next, registered)
      BY <1>5, <2>1, <2>2 DEF AccessToken
    <2>. QED
      BY <1>5, <1>c, <2>3, AccountsStep DEF AccessToken, memory, outside
  <1>6. CASE TokenArrives(c)
    <2>1. Accounted([me EXCEPT !.pc = "send"], registered)
      BY <1>m, <1>6 DEF Accounted, CallRec, TokenArrives
    <2>. QED
      BY <1>6, <1>c, <2>1, AccountsStep DEF TokenArrives, outside
  <1>7. ASSUME NEW r \in Refusals, Refused(c, r)
        PROVE  Accounts'
    BY <1>7, <1>c, IdleAccounted, AccountsStep DEF Refused, outside
  <1>8. CASE PageArrives(c)
    <2>. DEFINE batch == PageOf(me.scope, me.page)
                found == me.found \cup batch
                first == IF me.page = 1 THEN me.by ELSE me.first
                more == [me EXCEPT !.pc = "check", !.page = @ + 1, !.found = found,
                                   !.first = first, !.gen = generation]
    <2>0. me.pc = "send" /\ me.page \in Nat \ {0} /\ me.must \subseteq registered[me.scope]
      BY <1>m, <1>8 DEF PageArrives, Accounted, CallRec
    <2>1. ~me.shifted =>
            IF Cardinality(batch) < PageSize
            THEN me.must \subseteq found
            ELSE \A r \in me.must :
                   r \in found \/ Rank(registered[me.scope], r) > Before(me.page + 1)
      BY <1>m, <2>0, PageAccounts
    <2>. HIDE DEF batch, found, first
    <2>2. Cardinality(batch) < PageSize => Accounted(Answer(me, found), registered)
      BY <2>0, <2>1 DEF Accounted, Answer, Idle
    <2>3. /\ more.pc = "check" /\ more.page = me.page + 1 /\ more.found = found
          /\ more.must = me.must /\ more.shifted = me.shifted /\ more.scope = me.scope
      BY <1>m DEF CallRec
    <2>4. ~(Cardinality(batch) < PageSize) => Accounted(more, registered)
      <3>1. me.page + 1 # 0
        BY <2>0
      <3>. HIDE DEF more
      <3>. QED
        BY <2>0, <2>1, <2>3, <3>1 DEF Accounted
    <2>5. PICK next : Continue(c, next) /\ Accounted(next, registered)
      BY <1>8, <2>2, <2>4 DEF PageArrives, batch, found, first
    <2>6. ASSUME NEW ks \in Keys \X Scopes
          PROVE  cache'[ks] = cache[ks] \/ cache'[ks].at <= now
      <3>1. \/ cache' = cache
            \/ cache' = [cache EXCEPT ![<<me.key, me.scope>>] =
                            [at |-> now, seen |-> found, by |-> first]]
        BY <1>8 DEF PageArrives, found, first, batch
      <3>2. cache \in [Keys \X Scopes -> ListRec]
        BY DEF TypeOK
      <3>. QED
        BY <1>t, <3>1, <3>2
    <2>7. registered' = registered /\ now' = now
      BY <1>8 DEF PageArrives, outside
    <2>. QED
      BY <2>5, <2>6, <2>7, AccountsStep
  <1>9. CASE RegistrationToken(c)
    BY <1>9, <1>c, IdleAccounted, AccountsStep DEF RegistrationToken, memory, outside
  <1>10. CASE RunnerRemoved(c)
    <2>0. Leaves(me.scope, me.runner) /\ now' = now
      BY <1>10 DEF RunnerRemoved
    <2>1. ASSUME NEW d \in Callers PROVE Accounted(call'[d], registered')
      <3>1. call[d] \in CallRec /\ Accounted(call[d], registered)
        BY DEF TypeOK, Accounts
      <3>2. Accounted(Losing(call[d], me.scope, me.runner), registered')
        BY <1>t, <2>0, <3>1, LosingAccounts
      <3>3. Accounted(Idle, registered')
        BY DEF Accounted, Idle
      <3>4. call'[d] = Idle \/ call'[d] = Losing(call[d], me.scope, me.runner)
        BY <1>10 DEF RunnerRemoved
      <3>. QED
        BY <3>2, <3>3, <3>4
    <2>2. ASSUME NEW ks \in Keys \X Scopes PROVE cache'[ks].at <= now'
      <3>1. cache'[ks] = cache[ks] \/ cache'[ks] = NoList
        BY <1>10 DEF RunnerRemoved, TypeOK
      <3>. QED
        BY <1>t, <1>c, <2>0, <3>1 DEF NoList
    <2>. QED
      BY <2>1, <2>2 DEF Accounts
  <1>11. CASE Return(c)
    BY <1>11, <1>c, IdleAccounted, AccountsStep DEF Return, memory, outside
  <1>. QED
    BY <1>1, <1>2, <1>3, <1>4, <1>5, <1>6, <1>7, <1>8, <1>9, <1>10, <1>11 DEF Step

\* The account is kept by everything else that happens (github.rs:123, 313).
LEMMA NextAccounts == TypeOK /\ Accounts /\ [Next]_vars => Accounts'
  <1>. SUFFICES ASSUME TypeOK, Accounts, [Next]_vars PROVE Accounts'
    OBVIOUS
  <1>t. now \in Nat
    BY DEF TypeOK
  <1>a. /\ \A ks \in Keys \X Scopes : cache[ks].at <= now /\ cache[ks].at \in Nat
        /\ \A c \in Callers : call[c] \in CallRec /\ Accounted(call[c], registered)
    BY DEF TypeOK, Accounts, ListRec
  <1>1. ASSUME NEW c \in Callers, Step(c) PROVE Accounts'
    BY <1>1, StepAccounts
  <1>2. CASE Clear
    BY <1>t, <1>a, <1>2 DEF Clear, outside, NoList, Accounts
  <1>3. CASE Passes
    BY <1>t, <1>a, <1>3 DEF Passes, memory, Accounts
  <1>4. ASSUME NEW k \in Keys, Rotates(k) PROVE Accounts'
    BY <1>a, <1>4 DEF Rotates, memory, Accounts
  <1>5. ASSUME NEW s \in Scopes, NEW r \in Runners, Appears(s, r) PROVE Accounts'
    <2>1. ASSUME NEW c \in Callers PROVE Accounted(call[c], registered')
      <3>. DEFINE me == call[c]
                  S == registered[me.scope]
                  T == registered'[me.scope]
      <3>1. me.scope \in Scopes /\ me.page \in Nat \ {0} /\ me.must \subseteq S
        BY <1>a DEF CallRec, Accounted
      <3>2. T \in SUBSET Nat /\ IsFiniteSet(T) /\ S \subseteq T /\ S \in SUBSET Nat /\ IsFiniteSet(S)
        <4>1. S \in SUBSET Nat /\ IsFiniteSet(S)
          BY <3>1, ListsAreFinite
        <4>2. T = S \/ T = S \cup {r}
          BY <1>5, <3>1 DEF Appears, TypeOK
        <4>3. r \in Nat
          BY RunnersAssumption
        <4>. QED
          BY <4>1, <4>2, <4>3, FS_AddElement
      <3>3. ASSUME NEW q \in S, Rank(S, q) > Before(me.page) PROVE Rank(T, q) > Before(me.page)
        <4>1. Rank(S, q) <= Rank(T, q)
          BY <3>2, RankAfterArrival
        <4>2. Rank(S, q) \in Nat /\ Rank(T, q) \in Nat /\ Before(me.page) \in Nat
          <5>1. q \in T
            BY <3>2
          <5>2. /\ Rank(S, q) \in 1 .. Cardinality(S) /\ Cardinality(S) \in Nat
                /\ Rank(T, q) \in 1 .. Cardinality(T) /\ Cardinality(T) \in Nat
            BY <3>2, <5>1, RankBounds, FS_CardinalityType
          <5>3. Before(me.page) \in Nat
            BY <3>1, PageBounds
          <5>. QED
            BY <5>2, <5>3
        <4>. QED
          BY <3>3, <4>1, <4>2
      <3>4. Accounted(me, registered)
        BY <1>a
      <3>5. Accounted(me, registered')
        <4>. HIDE DEF me
        <4>. QED
          BY <3>1, <3>2, <3>3, <3>4 DEF Accounted
      <3>. QED
        BY <3>5
    <2>. QED
      BY <1>a, <1>5, <2>1 DEF Appears, memory, Accounts
  <1>6. ASSUME NEW s \in Scopes, NEW r \in Runners, Disappears(s, r) PROVE Accounts'
    <2>1. ASSUME NEW c \in Callers PROVE Accounted(call'[c], registered')
      <3>1. Accounted(Losing(call[c], s, r), registered')
        BY <1>a, <1>6, LosingAccounts DEF Disappears
      <3>2. call'[c] = Losing(call[c], s, r)
        BY <1>6 DEF Disappears
      <3>. QED
        BY <3>1, <3>2
    <2>. QED
      BY <1>a, <1>6, <2>1 DEF Disappears, memory, Accounts
  <1>7. CASE UNCHANGED vars
    BY <1>a, <1>7 DEF vars, memory, outside, Accounts
  <1>. QED
    BY <1>1, <1>2, <1>3, <1>4, <1>5, <1>6, <1>7 DEF Next

\* The account is kept in every behaviour of the client.
LEMMA AccountsHold == Spec => []Accounts
  <1>1. Init => Accounts
    <2>. SUFFICES ASSUME Init PROVE Accounts
      OBVIOUS
    <2>1. \A c \in Callers : Accounted(call[c], registered)
      BY DEF Init, Accounted, Idle
    <2>2. \A ks \in Keys \X Scopes : cache[ks].at <= now
      BY DEF Init, NoList
    <2>. QED
      BY <2>1, <2>2 DEF Accounts
  <1>. QED
    BY <1>1, NextAccounts, ClientTypes, PTL DEF Spec

\* github.rs:309-343, manager.rs:665: for any number of callers, pages and
\* runners, and whatever is cached meanwhile, a fresh list shows every runner
\* that was registered all the while, unless one left a page already read.
THEOREM FreshListsAreComplete == Spec => []MissesOnlyShifted
  <1>1. Accounts => MissesOnlyShifted
    BY DEF Accounts, Accounted, MissesOnlyShifted
  <1>. QED
    BY <1>1, AccountsHold, PTL

-----------------------------------------------------------------------------
(* What the two properties that the code breaks depend on.                 *)

\* GitHub lists no scope on more than one page.
OnePage == \A s \in Scopes : Cardinality(registered[s]) < PageSize

\* Every call is at its first page, and no list moved under it.
FirstPages == \A c \in Callers : call[c].page = 1 /\ ~call[c].shifted

\* A step cannot leave the first page while the lists are short.
LEMMA FirstPagesStay == TypeOK /\ FirstPages /\ OnePage /\ [Next]_vars => FirstPages'
  <1>. SUFFICES ASSUME TypeOK, FirstPages, OnePage, [Next]_vars PROVE FirstPages'
    OBVIOUS
  <1>a. \A c \in Callers : call[c] \in CallRec /\ call[c].page = 1 /\ ~call[c].shifted
    BY DEF TypeOK, FirstPages
  <1>1. ASSUME NEW me \in CallRec, me.page = 1, ~me.shifted, NEW s \in Scopes, NEW r
        PROVE  Losing(me, s, r).page = 1 /\ ~Losing(me, s, r).shifted
    <2>1. ASSUME r \in registered[s] PROVE ~(Rank(registered[s], r) <= Before(1))
      <3>1. registered[s] \in SUBSET Nat /\ IsFiniteSet(registered[s])
        BY ListsAreFinite
      <3>2. /\ Rank(registered[s], r) \in 1 .. Cardinality(registered[s])
            /\ Cardinality(registered[s]) \in Nat
        BY <2>1, <3>1, RankBounds, FS_CardinalityType
      <3>3. Before(1) = 0
        BY TimesAssumption DEF Before
      <3>. QED
        BY <3>2, <3>3
    <2>. QED
      BY <1>1, <2>1 DEF Losing, CallRec
  <1>2. ASSUME NEW c \in Callers, NEW next, Continue(c, next), next.page = 1, ~next.shifted
        PROVE  FirstPages'
    BY <1>a, <1>2 DEF Continue, TypeOK, FirstPages
  <1>3. Idle.page = 1 /\ ~Idle.shifted
    BY DEF Idle
  <1>4. ASSUME NEW c \in Callers, Step(c) PROVE FirstPages'
    <2>. DEFINE me == call[c]
    <2>m. me \in CallRec /\ me.page = 1 /\ ~me.shifted
      BY <1>a
    <2>1. ASSUME NEW k \in Keys, NEW s \in Scopes, NEW ttl \in {0, PollInterval},
                 BeginList(c, k, s, ttl)
          PROVE  FirstPages'
      <3>. DEFINE next == [Idle EXCEPT !.pc = "lookup", !.key = k, !.scope = s, !.ttl = ttl,
                                       !.listGen = generation, !.must = registered[s]]
      <3>1. Continue(c, next) /\ next.page = 1 /\ ~next.shifted
        BY <2>1 DEF BeginList, Idle
      <3>. QED
        BY <3>1, <1>2
    <2>2. ASSUME NEW op \in {"token", "remove"}, NEW k \in Keys, NEW s \in Scopes,
                 NEW r \in Runners \cup {NoRunner}, BeginRequest(c, op, k, s, r)
          PROVE  FirstPages'
      <3>. DEFINE next == [Idle EXCEPT !.pc = "check", !.op = op, !.key = k, !.scope = s,
                                       !.runner = r, !.gen = generation]
      <3>1. Continue(c, next) /\ next.page = 1 /\ ~next.shifted
        BY <2>2 DEF BeginRequest, Idle
      <3>. QED
        BY <3>1, <1>2
    <2>g. /\ [me EXCEPT !.pc = "tokens", !.tokenGen = generation].page = 1
          /\ ~[me EXCEPT !.pc = "tokens", !.tokenGen = generation].shifted
          /\ \A v : /\ [me EXCEPT !.pc = "send", !.by = v].page = 1
                    /\ ~[me EXCEPT !.pc = "send", !.by = v].shifted
                    /\ [me EXCEPT !.pc = "mint", !.by = v].page = 1
                    /\ ~[me EXCEPT !.pc = "mint", !.by = v].shifted
          /\ [me EXCEPT !.pc = "send"].page = 1 /\ ~[me EXCEPT !.pc = "send"].shifted
      BY <2>m DEF CallRec
    <2>3. ASSUME NEW found PROVE Answer(me, found).page = 1 /\ ~Answer(me, found).shifted
      BY <2>m DEF Answer, Idle
    <2>4. CASE Lookup(c)
      <3>1. /\ [me EXCEPT !.pc = "check", !.gen = generation].page = 1
            /\ ~[me EXCEPT !.pc = "check", !.gen = generation].shifted
        BY <2>m DEF CallRec
      <3>2. PICK next : Continue(c, next) /\ next.page = 1 /\ ~next.shifted
        BY <2>3, <2>4, <3>1 DEF Lookup
      <3>. QED
        BY <3>2, <1>2
    <2>5. CASE Check(c)
      <3>1. PICK next : Continue(c, next) /\ next.page = 1 /\ ~next.shifted
        BY <2>g, <1>3, <2>5 DEF Check
      <3>. QED
        BY <3>1, <1>2
    <2>6. CASE AccessToken(c)
      <3>1. PICK next : Continue(c, next) /\ next.page = 1 /\ ~next.shifted
        BY <2>g, <2>6 DEF AccessToken
      <3>. QED
        BY <3>1, <1>2
    <2>7. CASE TokenArrives(c)
      <3>1. PICK next : Continue(c, next) /\ next.page = 1 /\ ~next.shifted
        BY <2>g, <2>7 DEF TokenArrives
      <3>. QED
        BY <3>1, <1>2
    <2>8. ASSUME NEW r \in Refusals, Refused(c, r) PROVE FirstPages'
      BY <2>8, <1>2, <1>3 DEF Refused
    <2>9. CASE PageArrives(c)
      <3>. DEFINE batch == PageOf(me.scope, me.page)
      <3>1. Cardinality(batch) < PageSize
        <4>1. me.scope \in Scopes
          BY <2>m DEF CallRec
        <4>2. IsFiniteSet(registered[me.scope]) /\ batch \in SUBSET registered[me.scope]
          BY <4>1, ListsAreFinite DEF PageOf
        <4>3. /\ Cardinality(batch) <= Cardinality(registered[me.scope])
              /\ Cardinality(batch) \in Nat /\ Cardinality(registered[me.scope]) \in Nat
          <5>. HIDE DEF batch
          <5>. QED
            BY <4>2, FS_Subset, FS_CardinalityType
        <4>4. Cardinality(registered[me.scope]) < PageSize /\ PageSize \in Nat
          BY <4>1, TimesAssumption DEF OnePage
        <4>. HIDE DEF batch
        <4>. QED
          BY <4>3, <4>4
      <3>2. Continue(c, Answer(me, me.found \cup batch))
        BY <2>9, <3>1 DEF PageArrives
      <3>. QED
        BY <2>3, <3>2, <1>2
    <2>10. CASE RegistrationToken(c)
      BY <2>10, <1>2, <1>3 DEF RegistrationToken
    <2>11. CASE RunnerRemoved(c)
      <3>1. me.scope \in Scopes
        BY <2>m DEF CallRec
      <3>2. ASSUME NEW d \in Callers PROVE call'[d].page = 1 /\ ~call'[d].shifted
        <4>1. call'[d] = Idle \/ call'[d] = Losing(call[d], me.scope, me.runner)
          BY <2>11 DEF RunnerRemoved
        <4>. QED
          BY <1>a, <1>1, <1>3, <3>1, <4>1
      <3>. QED
        BY <3>2 DEF FirstPages
    <2>12. CASE Return(c)
      BY <2>12, <1>2, <1>3 DEF Return
    <2>. QED
      BY <1>4, <2>1, <2>2, <2>4, <2>5, <2>6, <2>7, <2>8, <2>9, <2>10, <2>11, <2>12 DEF Step
  <1>5. ASSUME NEW s \in Scopes, NEW r \in Runners, Disappears(s, r) PROVE FirstPages'
    <2>1. ASSUME NEW d \in Callers PROVE call'[d].page = 1 /\ ~call'[d].shifted
      <3>1. call'[d] = Losing(call[d], s, r)
        BY <1>5 DEF Disappears
      <3>. QED
        BY <1>a, <1>1, <3>1
    <2>. QED
      BY <2>1 DEF FirstPages
  <1>6. CASE UNCHANGED call
    BY <1>6 DEF FirstPages
  <1>7. UNCHANGED vars => UNCHANGED call
    BY DEF vars
  <1>8. /\ Clear => UNCHANGED call
        /\ Passes => UNCHANGED call
        /\ \A k \in Keys : Rotates(k) => UNCHANGED call
        /\ \A s \in Scopes, r \in Runners : Appears(s, r) => UNCHANGED call
    BY DEF Clear, Passes, Rotates, Appears
  <1>. QED
    BY <1>4, <1>5, <1>6, <1>7, <1>8 DEF Next

\* manager.rs:665: as long as no scope fills a page of a list, a fresh lookup
\* shows every runner that was registered all the while, for any number of
\* callers; run `pages' shows what a second page changes.
THEOREM ShortListsAreComplete == Spec /\ []OnePage => []FreshSees
  <1>1. Init => FirstPages
    BY DEF Init, FirstPages, Idle
  <1>2. FirstPages /\ MissesOnlyShifted => FreshSees
    BY DEF FirstPages, MissesOnlyShifted, FreshSees
  <1>. QED
    BY <1>1, <1>2, FirstPagesStay, ClientTypes, FreshListsAreComplete, PTL DEF Spec

\* No two calls use a credential at the same time.
Using(c) == call[c].pc \in {"tokens", "mint", "send"}
Alone == \A c, d \in Callers : Using(c) /\ Using(d) /\ call[c].key = call[d].key => c = d

\* The client waits for as long as it was told to, and a call that got past the
\* check found the wait over.
Heeded ==
  /\ \A k \in Keys : told[k] = blocked[k].until
  /\ \A c \in Callers : Using(c) => blocked[call[c].key].until <= now

\* A step of a call that leaves the waits alone and goes no further than the check.
LEMMA HeededStep ==
  ASSUME TypeOK, Heeded, NEW c \in Callers, NEW next \in CallRec, Continue(c, next),
         UNCHANGED <<blocked, told, now>>,
         next.pc \in {"tokens", "mint", "send"} => blocked[next.key].until <= now
  PROVE  Heeded'
  <1>1. ASSUME NEW d \in Callers, Using(d)' PROVE blocked'[call'[d].key].until <= now'
    <2>1. call'[d] = call[d] \/ call'[d] = next
      BY DEF Continue, TypeOK
    <2>. QED
      BY <1>1, <2>1 DEF Heeded, Using
  <1>. QED
    BY <1>1 DEF Heeded, Using

\* Every step of a call keeps to the waits, if no other call uses its credential
\* (github.rs:166-200, 291).
LEMMA StepHeeds ==
  ASSUME TypeOK, TypeOK', Heeded, Alone, NEW c \in Callers, Step(c)
  PROVE  Heeded'
  <1>. DEFINE me == call[c]
              unblocked == blocked[me.key].until <= now
  <1>m. me \in CallRec /\ me.key \in Keys /\ call' \in [Callers -> CallRec]
    BY DEF TypeOK, CallRec
  <1>u. Using(c) => unblocked
    BY DEF Heeded
  <1>b. blocked \in [Keys -> BlockRec] /\ told \in [Keys -> Nat] /\ now \in Nat
    BY DEF TypeOK
  <1>s. ASSUME UNCHANGED <<blocked, told, now>>,
               NEW next, Continue(c, next),
               next.pc \in {"tokens", "mint", "send"} => blocked[next.key].until <= now
        PROVE  Heeded'
    <2>1. next \in CallRec
      BY <1>m, <1>s DEF Continue, TypeOK
    <2>. QED
      BY <1>s, <2>1, HeededStep
  <1>1. ASSUME NEW k \in Keys, NEW s \in Scopes, NEW ttl \in {0, PollInterval},
               BeginList(c, k, s, ttl)
        PROVE  Heeded'
    <2>. DEFINE next == [Idle EXCEPT !.pc = "lookup", !.key = k, !.scope = s, !.ttl = ttl,
                                     !.listGen = generation, !.must = registered[s]]
    <2>1. next.pc = "lookup"
      BY DEF Idle
    <2>. QED
      BY <1>1, <2>1, <1>s DEF BeginList, memory, outside
  <1>2. ASSUME NEW op \in {"token", "remove"}, NEW k \in Keys, NEW s \in Scopes,
               NEW r \in Runners \cup {NoRunner}, BeginRequest(c, op, k, s, r)
        PROVE  Heeded'
    <2>. DEFINE next == [Idle EXCEPT !.pc = "check", !.op = op, !.key = k, !.scope = s,
                                     !.runner = r, !.gen = generation]
    <2>1. next.pc = "check"
      BY DEF Idle
    <2>. QED
      BY <1>2, <2>1, <1>s DEF BeginRequest, memory, outside
  <1>3. CASE Lookup(c)
    <2>1. PICK next : Continue(c, next) /\ next.pc \in {"done", "check"}
      <3>1. \A found : Answer(me, found).pc = "done"
        BY DEF Answer, Idle
      <3>2. [me EXCEPT !.pc = "check", !.gen = generation].pc = "check"
        BY <1>m DEF CallRec
      <3>. QED
        BY <1>3, <3>1, <3>2 DEF Lookup
    <2>. QED
      BY <1>3, <2>1, <1>s DEF Lookup, memory, outside
  <1>i. Idle.pc = "idle"
    BY DEF Idle
  <1>g. /\ [me EXCEPT !.pc = "tokens", !.tokenGen = generation].key = me.key
        /\ \A v : /\ [me EXCEPT !.pc = "send", !.by = v].key = me.key
                  /\ [me EXCEPT !.pc = "mint", !.by = v].key = me.key
    BY <1>m DEF CallRec
  <1>4. CASE Check(c)
    <2>1. PICK next : /\ Continue(c, next)
                      /\ next.pc = "idle" \/ (unblocked /\ next.key = me.key)
      <3>1. blocked[me.key].until > now \/ unblocked
        BY <1>m, <1>b DEF BlockRec
      <3>. QED
        BY <1>g, <1>i, <1>4, <3>1 DEF Check
    <2>. QED
      BY <1>4, <2>1, <1>s DEF Check, memory, outside
  <1>5. CASE AccessToken(c)
    <2>1. PICK next : Continue(c, next) /\ next.key = me.key
      BY <1>g, <1>5 DEF AccessToken
    <2>2. unblocked
      BY <1>5, <1>u DEF AccessToken, Using
    <2>. QED
      BY <1>5, <2>1, <2>2, <1>s DEF AccessToken, memory, outside
  <1>6. CASE TokenArrives(c)
    <2>1. PICK next : Continue(c, next) /\ next.key = me.key
      BY <1>m, <1>6 DEF TokenArrives, CallRec
    <2>2. unblocked
      BY <1>6, <1>u DEF TokenArrives, Using
    <2>. QED
      BY <1>6, <2>1, <2>2, <1>s DEF TokenArrives, outside
  <1>7. ASSUME NEW r \in Refusals, Refused(c, r)
        PROVE  Heeded'
    <2>1. Using(c) /\ unblocked /\ told[me.key] = blocked[me.key].until
      BY <1>7, <1>u, <1>m DEF Refused, Using, Heeded
    <2>2. r.wait \in Nat
      <3>1. CASE r \in [wait : {0}, drop : {FALSE}]
        BY <3>1
      <3>2. CASE r \in [wait : {PermissionWait} \cup RateWaits, drop : BOOLEAN]
        BY <3>2, TimesAssumption
      <3>. QED
        BY <3>1, <3>2 DEF Refusals
    <2>3. Later(told[me.key], now + r.wait) = now + r.wait
      BY <1>b, <1>m, <2>1, <2>2 DEF Later
    <2>4. \/ blocked' = blocked /\ told' = told
          \/ /\ blocked' = [blocked EXCEPT ![me.key] = [until |-> now + r.wait, by |-> me.by]]
             /\ told' = [told EXCEPT ![me.key] = now + r.wait]
      BY <1>7, <1>m, <1>b, <2>3 DEF Refused
    <2>5. ASSUME NEW k \in Keys PROVE told'[k] = blocked'[k].until
      BY <1>b, <2>4 DEF Heeded
    <2>6. ASSUME NEW d \in Callers, call'[d].pc \in {"tokens", "mint", "send"}
          PROVE  blocked'[call'[d].key].until <= now'
      <3>1. d # c /\ call'[d] = call[d]
        BY <1>7, <1>i, <2>6 DEF Refused, Continue, TypeOK
      <3>2. call[d].key # me.key
        BY <2>1, <2>6, <3>1 DEF Alone, Using
      <3>3. call[d].key \in Keys
        BY DEF TypeOK, CallRec
      <3>4. blocked'[call[d].key] = blocked[call[d].key]
        BY <1>b, <2>4, <3>2, <3>3
      <3>5. now' = now
        BY <1>7 DEF Refused, outside
      <3>. QED
        BY <2>6, <3>1, <3>4, <3>5 DEF Heeded, Using
    <2>. QED
      BY <2>5, <2>6 DEF Heeded, Using
  <1>8. CASE PageArrives(c)
    <2>. DEFINE found == me.found \cup PageOf(me.scope, me.page)
                first == IF me.page = 1 THEN me.by ELSE me.first
                more == [me EXCEPT !.pc = "check", !.page = @ + 1, !.found = found,
                                   !.first = first, !.gen = generation]
    <2>1. PICK next : Continue(c, next) /\ next.pc \in {"done", "check"}
      <3>1. Answer(me, found).pc = "done"
        BY DEF Answer, Idle
      <3>2. more.pc = "check"
        BY <1>m DEF CallRec
      <3>3. Continue(c, Answer(me, found)) \/ Continue(c, more)
        BY <1>8 DEF PageArrives
      <3>. HIDE DEF more, found
      <3>. QED
        BY <3>1, <3>2, <3>3
    <2>. QED
      BY <1>8, <2>1, <1>s DEF PageArrives, outside
  <1>9. CASE RegistrationToken(c)
    BY <1>9, <1>i, <1>s DEF RegistrationToken, memory, outside
  <1>10. CASE RunnerRemoved(c)
    <2>1. ASSUME NEW d \in Callers, call'[d].pc \in {"tokens", "mint", "send"}
          PROVE  Using(d) /\ call'[d].key = call[d].key
      <3>1. call[d] \in CallRec
        BY DEF TypeOK
      <3>2. call'[d] = Losing(call[d], me.scope, me.runner)
        BY <1>10, <1>i, <2>1 DEF RunnerRemoved
      <3>3. HistoryOnly(call[d], call'[d])
        BY <3>1, <3>2, LosingIsCall
      <3>. QED
        BY <2>1, <3>1, <3>3 DEF HistoryOnly, CallRec, Using
    <2>. QED
      BY <1>10, <2>1 DEF RunnerRemoved, Heeded, Using
  <1>11. CASE Return(c)
    BY <1>11, <1>i, <1>s DEF Return, memory, outside
  <1>. QED
    BY <1>1, <1>2, <1>3, <1>4, <1>5, <1>6, <1>7, <1>8, <1>9, <1>10, <1>11 DEF Step

\* docs/operations.md:43: as long as no two calls use a credential at a time, a
\* wait that GitHub asked for is never cut short; run `block' shows how the
\* later of two refusals does so.
THEOREM WaitsHoldWhenAlone == Spec /\ []Alone => []BlockHolds
  <1>1. Init => Heeded
    BY DEF Init, Heeded, Using, Idle, NoBlock
  <1>2. TypeOK /\ TypeOK' /\ Heeded /\ Alone /\ [Next]_vars => Heeded'
    <2>. SUFFICES ASSUME TypeOK, TypeOK', Heeded, Alone, [Next]_vars PROVE Heeded'
      OBVIOUS
    <2>0. now \in Nat /\ \A c \in Callers : call[c] \in CallRec /\ call[c].key \in Keys
      BY DEF TypeOK, CallRec
    <2>b. blocked \in [Keys -> BlockRec]
      BY DEF TypeOK
    <2>1. ASSUME NEW c \in Callers, Step(c) PROVE Heeded'
      BY <2>1, StepHeeds
    <2>2. CASE Clear
      BY <2>0, <2>2 DEF Clear, outside, Heeded, Using, NoBlock
    <2>3. CASE Passes
      <3>1. \A c \in Callers : blocked[call[c].key].until \in Nat
        BY <2>0, <2>b DEF BlockRec
      <3>. QED
        BY <2>0, <2>3, <3>1 DEF Passes, memory, Heeded, Using
    <2>4. ASSUME NEW k \in Keys, Rotates(k) PROVE Heeded'
      BY <2>4 DEF Rotates, memory, Heeded, Using
    <2>5. ASSUME NEW s \in Scopes, NEW r \in Runners, Appears(s, r) PROVE Heeded'
      BY <2>5 DEF Appears, memory, Heeded, Using
    <2>6. ASSUME NEW s \in Scopes, NEW r \in Runners, Disappears(s, r) PROVE Heeded'
      <3>1. ASSUME NEW d \in Callers PROVE call'[d].pc = call[d].pc /\ call'[d].key = call[d].key
        <4>1. call'[d] = Losing(call[d], s, r)
          BY <2>6 DEF Disappears
        <4>2. HistoryOnly(call[d], call'[d])
          BY <2>0, <4>1, LosingIsCall
        <4>. QED
          BY <2>0, <4>2 DEF HistoryOnly, CallRec
      <3>. QED
        BY <2>6, <3>1 DEF Disappears, memory, Heeded, Using
    <2>7. CASE UNCHANGED vars
      BY <2>7 DEF vars, memory, outside, Heeded, Using
    <2>. QED
      BY <2>1, <2>2, <2>3, <2>4, <2>5, <2>6, <2>7 DEF Next
  <1>3. TypeOK /\ Heeded => BlockHolds
    <2>. SUFFICES ASSUME TypeOK, Heeded, NEW k \in Keys PROVE blocked[k].until >= told[k]
      BY DEF BlockHolds
    <2>1. told[k] \in Nat /\ told[k] = blocked[k].until
      BY DEF TypeOK, Heeded
    <2>. QED
      BY <2>1
  <1>. QED
    BY <1>1, <1>2, <1>3, ClientTypes, PTL DEF Spec
=============================================================================
