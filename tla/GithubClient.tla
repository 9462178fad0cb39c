---------------------------- MODULE GithubClient ----------------------------
(***************************************************************************)
(* The GitHub client of src/src/github.rs: one Cache behind a mutex,       *)
(* shared by the reconciliation pass and by the connections that answer    *)
(* Doctor.  A call is a sequence of HTTP requests; every other call, and   *)
(* Github::clear, may run while one of them is in flight.  A step is what  *)
(* a call does between two of them.                                        *)
(***************************************************************************)
EXTENDS Integers, FiniteSets

CONSTANTS
  Doctors,         \* connections that answer Doctor
  PassCaller,      \* the task of the reconciliation pass, which also clears
  Keys,            \* credentials, as auth_key names them
  AppKeys,         \* those of GitHub Apps, used through installation tokens
  Scopes,          \* organisations and repositories
  Runners,         \* ids of registrations at GitHub
  NoRunner,        \* "no registration"
  PageSize,        \* runners on a full page (100)
  PollInterval,    \* [manager] poll_interval_seconds
  PermissionWait,  \* how long a 401 or 403 blocks a credential (300)
  RateWaits,       \* how long a rate limit may block one
  TokenLife,       \* life of an installation token
  TokenMargin,     \* a token this close to its expiry is not used (60)
  MaxTime,         \* bound on the clock
  MaxClears,       \* bound on the number of clears
  MaxSecrets       \* bound on the versions of a credential's secret

ASSUME PassAssumption == PassCaller \notin Doctors
ASSUME KeysAssumption == Keys # {} /\ Scopes # {}
ASSUME RunnersAssumption ==
  Runners \subseteq Nat /\ IsFiniteSet(Runners) /\ NoRunner \in Nat \ Runners
ASSUME TimesAssumption ==
  /\ {PollInterval, TokenLife, TokenMargin, MaxTime, MaxClears} \subseteq Nat
  /\ PermissionWait \in Nat \ {0} /\ RateWaits \subseteq Nat \ {0}
  /\ PageSize \in Nat \ {0} /\ MaxSecrets \in Nat \ {0}

VARIABLES
  generation,  \* Cache.generation
  cache,       \* Cache.cache: the list of runners of a key and scope
  blocked,     \* Cache.blocked: until when a key is not used
  tokens,      \* Cache.installation_tokens
  call,        \* the call each task has under way
  now,         \* the clock
  secret,      \* version of the secret a key refers to (0: none yet)
  registered,  \* the runners GitHub lists for a scope
  baseline,    \* history: the secrets at the last clear
  told         \* history: until when GitHub refused a key, since the last clear

memory == <<cache, blocked, tokens>>
outside == <<now, secret, registered>>
vars == <<generation, cache, blocked, tokens, call, now, secret, registered,
          baseline, told>>

Callers == Doctors \cup {PassCaller}

-----------------------------------------------------------------------------
(* What the client remembers.  `by' is history: the version of the secret  *)
(* an entry was learnt with, 0 if there is no entry.                       *)

ListRec == [at : Nat, seen : SUBSET Runners, by : Nat]
BlockRec == [until : Nat, by : Nat]
TokenRec == [expiry : Nat, by : Nat]

\* Mutant: a credential that is not blocked, as a time before the epoch.
NeverBlocked == [until |-> 0 - 1, by |-> 0]

NoList == [at |-> 0, seen |-> {}, by |-> 0]
NoBlock == [until |-> 0, by |-> 0]
NoToken == [expiry |-> 0, by |-> 0]

-----------------------------------------------------------------------------
(* Calls.  `gen', `listGen' and `tokenGen' are the generations read by     *)
(* request, list and access_token; `by' is the secret in use, `first' the  *)
(* one of the first page; `must' the runners registered ever since, and    *)
(* `shifted': a runner left the pages already read (both history).         *)

Ops == {"list", "token", "remove"}
Steps == {"idle", "lookup", "check", "tokens", "mint", "send", "done"}

CallRec == [pc : Steps, op : Ops, key : Keys, scope : Scopes, ttl : Nat,
            runner : Runners \cup {NoRunner}, gen : Nat, listGen : Nat, tokenGen : Nat,
            by : Nat, first : Nat, page : Nat, found : SUBSET Runners, must : SUBSET Runners,
            shifted : BOOLEAN]

Idle == [pc |-> "idle", op |-> "list", key |-> CHOOSE k \in Keys : TRUE,
         scope |-> CHOOSE s \in Scopes : TRUE, ttl |-> 0, runner |-> NoRunner,
         gen |-> 0, listGen |-> 0, tokenGen |-> 0, by |-> 0, first |-> 0, page |-> 1,
         found |-> {}, must |-> {}, shifted |-> FALSE]

Continue(c, next) == call' = [call EXCEPT ![c] = next]

\* What is left of a call once its list is complete.
Answer(me, found) ==
  [Idle EXCEPT !.pc = "done", !.key = me.key, !.scope = me.scope, !.ttl = me.ttl,
               !.found = found, !.must = me.must, !.shifted = me.shifted]

\* list, token, remove: Doctor lists anew, the pass also from the cache.
BeginList(c, k, s, ttl) ==
  /\ call[c].pc = "idle" /\ ttl # 0 => c = PassCaller
  /\ Continue(c, [Idle EXCEPT !.pc = "lookup", !.key = k, !.scope = s, !.ttl = ttl,
                              !.listGen = generation, !.must = registered[s]])
  /\ UNCHANGED <<generation, memory, outside, baseline, told>>

BeginRequest(c, op, k, s, r) ==
  /\ call[c].pc = "idle" /\ c = PassCaller
  /\ Continue(c, [Idle EXCEPT !.pc = "check", !.op = op, !.key = k, !.scope = s,
                              !.runner = r, !.gen = generation])
  /\ UNCHANGED <<generation, memory, outside, baseline, told>>

\* Mutant: a list is served in the second its ttl ends, also with ttl 0.
WithinTtl(l, ttl) == l.by # 0 /\ now - l.at <= ttl

Recent(l, ttl) == l.by # 0 /\ now - l.at < ttl

Lookup(c) ==
  LET me == call[c]
      l == cache[<<me.key, me.scope>>]
  IN  /\ me.pc = "lookup"
      /\ Continue(c, IF Recent(l, me.ttl)
                     THEN Answer(me, l.seen)
                     ELSE [me EXCEPT !.pc = "check", !.gen = generation])
      /\ UNCHANGED <<generation, memory, outside, baseline, told>>

\* request: a blocked credential is not used.
Check(c) ==
  LET me == call[c]
  IN  /\ me.pc = "check"
      /\ Continue(c, IF blocked[me.key].until > now THEN Idle
                     ELSE IF me.key \in AppKeys
                     THEN [me EXCEPT !.pc = "tokens", !.tokenGen = generation]
                     ELSE [me EXCEPT !.pc = "send", !.by = secret[me.key]])
      /\ UNCHANGED <<generation, memory, outside, baseline, told>>

\* access_token: the installation token kept, or a new one signed for.
AccessToken(c) ==
  LET me == call[c]
      t == tokens[me.key]
  IN  /\ me.pc = "tokens"
      /\ Continue(c, IF t.expiry > now + TokenMargin
                     THEN [me EXCEPT !.pc = "send", !.by = t.by]
                     ELSE [me EXCEPT !.pc = "mint", !.by = secret[me.key]])
      /\ UNCHANGED <<generation, memory, outside, baseline, told>>

\* Mutant: an answer is remembered whatever was cleared meanwhile.
AnyGeneration(gen) == TRUE

CurrentGeneration(gen) == gen = generation

TokenArrives(c) ==
  LET me == call[c]
  IN  /\ me.pc = "mint"
      /\ tokens' = IF CurrentGeneration(me.tokenGen)
                   THEN [tokens EXCEPT ![me.key] = [expiry |-> now + TokenLife, by |-> me.by]]
                   ELSE tokens
      /\ Continue(c, [me EXCEPT !.pc = "send"])
      /\ UNCHANGED <<generation, cache, blocked, outside, baseline, told>>

\* What response_error reads in a refusal: how long to leave the credential
\* alone (0: the error is of one scope), and whether it was a 401.
Refusals == [wait : {0}, drop : {FALSE}] \cup [wait : {PermissionWait} \cup RateWaits, drop : BOOLEAN]

Later(a, b) == IF a > b THEN a ELSE b

\* response_error, for the token of an App or for the request itself.
Refused(c, r) ==
  LET me == call[c]
      k == me.key
      current == CurrentGeneration(IF me.pc = "mint" THEN me.tokenGen ELSE me.gen)
  IN  /\ me.pc \in {"mint", "send"}
      /\ tokens' = IF current /\ r.drop THEN [tokens EXCEPT ![k] = NoToken] ELSE tokens
      /\ blocked' = IF current /\ r.wait > 0
                    THEN [blocked EXCEPT ![k] = [until |-> now + r.wait, by |-> me.by]]
                    ELSE blocked
      /\ told' = IF current /\ r.wait > 0
                 THEN [told EXCEPT ![k] = Later(@, now + r.wait)] ELSE told
      /\ Continue(c, Idle)
      /\ UNCHANGED <<generation, cache, outside, baseline>>

\* The place of runner r in a list S, which is in the order of the ids.
Rank(S, r) == Cardinality({q \in S : q <= r})

\* The runners before page n, and those on it.
Before(n) == (n - 1) * PageSize
PageOf(s, n) ==
  {r \in registered[s] : Rank(registered[s], r) \in Before(n) + 1 .. Before(n + 1)}

\* A page of the list: the last one is remembered with the ones before it.
PageArrives(c) ==
  LET me == call[c]
      batch == PageOf(me.scope, me.page)
      found == me.found \cup batch
      first == IF me.page = 1 THEN me.by ELSE me.first
  IN  /\ me.pc = "send" /\ me.op = "list"
      /\ IF Cardinality(batch) < PageSize
         THEN /\ cache' = IF CurrentGeneration(me.listGen)
                          THEN [cache EXCEPT ![<<me.key, me.scope>>] =
                                  [at |-> now, seen |-> found, by |-> first]]
                          ELSE cache
              /\ Continue(c, Answer(me, found))
         ELSE /\ Continue(c, [me EXCEPT !.pc = "check", !.page = @ + 1, !.found = found,
                                        !.first = first, !.gen = generation])
              /\ UNCHANGED cache
      /\ UNCHANGED <<generation, blocked, tokens, outside, baseline, told>>

RegistrationToken(c) ==
  /\ call[c].pc = "send" /\ call[c].op = "token"
  /\ Continue(c, Idle)
  /\ UNCHANGED <<generation, memory, outside, baseline, told>>

Leaves(s, r) == registered' = [registered EXCEPT ![s] = @ \ {r}]

\* What that means for a call: every later runner moves up by one.
Losing(me, s, r) ==
  IF me.scope # s THEN me
  ELSE [me EXCEPT !.must = @ \ {r},
                  !.shifted = @ \/ /\ me.pc # "done" /\ r \in registered[s]
                                   /\ Rank(registered[s], r) <= Before(me.page)]

\* The answer of the DELETE arrives, also a 404, or it is lost.
RunnerRemoved(c) ==
  LET me == call[c]
  IN  /\ me.pc = "send" /\ me.op = "remove"
      /\ Leaves(me.scope, me.runner)
      /\ \/ cache' = [cache EXCEPT ![<<me.key, me.scope>>] = NoList]
         \/ UNCHANGED cache
      /\ call' = [d \in Callers |->
                    IF d = c THEN Idle ELSE Losing(call[d], me.scope, me.runner)]
      /\ UNCHANGED <<generation, blocked, tokens, now, secret, baseline, told>>

Return(c) ==
  /\ call[c].pc = "done" /\ Continue(c, Idle)
  /\ UNCHANGED <<generation, memory, outside, baseline, told>>

\* Github::clear, by a request that the pass accepts at one of its commands.
Clear ==
  /\ call[PassCaller].pc \in {"idle", "mint", "send", "done"}
  /\ generation < MaxClears /\ generation' = generation + 1
  /\ cache' = [ks \in Keys \X Scopes |-> NoList]
  /\ blocked' = [k \in Keys |-> NoBlock]
  /\ tokens' = [k \in Keys |-> NoToken]
  /\ baseline' = secret /\ told' = [k \in Keys |-> 0]
  /\ UNCHANGED <<call, outside>>

-----------------------------------------------------------------------------
(* The clock, the operator's credential files, and GitHub.                 *)

Passes ==
  /\ now < MaxTime /\ now' = now + 1
  /\ UNCHANGED <<generation, memory, call, secret, registered, baseline, told>>

Rotates(k) ==
  /\ secret[k] < MaxSecrets /\ secret' = [secret EXCEPT ![k] = @ + 1]
  /\ UNCHANGED <<generation, memory, call, now, registered, baseline, told>>

Appears(s, r) ==
  /\ r \notin registered[s] /\ registered' = [registered EXCEPT ![s] = @ \cup {r}]
  /\ UNCHANGED <<generation, memory, call, now, secret, baseline, told>>

Disappears(s, r) ==
  /\ r \in registered[s] /\ Leaves(s, r)
  /\ call' = [c \in Callers |-> Losing(call[c], s, r)]
  /\ UNCHANGED <<generation, memory, now, secret, baseline, told>>

-----------------------------------------------------------------------------
Init ==
  /\ generation = 0 /\ now = 0
  /\ cache = [ks \in Keys \X Scopes |-> NoList]
  /\ blocked = [k \in Keys |-> NoBlock]
  /\ tokens = [k \in Keys |-> NoToken]
  /\ call = [c \in Callers |-> Idle]
  /\ secret = [k \in Keys |-> 1] /\ baseline = secret
  /\ registered \in [Scopes -> SUBSET Runners]
  /\ told = [k \in Keys |-> 0]

Step(c) ==
  \/ \E k \in Keys, s \in Scopes :
       \/ \E ttl \in {0, PollInterval} : BeginList(c, k, s, ttl)
       \/ BeginRequest(c, "token", k, s, NoRunner)
       \/ \E r \in Runners : BeginRequest(c, "remove", k, s, r)
  \/ Lookup(c) \/ Check(c) \/ AccessToken(c) \/ TokenArrives(c)
  \/ \E r \in Refusals : Refused(c, r)
  \/ PageArrives(c) \/ RegistrationToken(c) \/ RunnerRemoved(c) \/ Return(c)

Next ==
  \/ \E c \in Callers : Step(c)
  \/ Clear \/ Passes
  \/ \E k \in Keys : Rotates(k)
  \/ \E s \in Scopes, r \in Runners : Appears(s, r) \/ Disappears(s, r)

Spec == Init /\ [][Next]_vars

-----------------------------------------------------------------------------
(* The inductive invariant behind ClearForgets: a call that still holds    *)
(* the current generation holds a secret no older than the last clear.     *)

Known(k) ==
  /\ baseline[k] <= secret[k]
  /\ blocked[k] = NoBlock \/ blocked[k].by >= baseline[k]
  /\ tokens[k] = NoToken \/ tokens[k].by >= baseline[k]
  /\ \A s \in Scopes : cache[<<k, s>>] = NoList \/ cache[<<k, s>>].by >= baseline[k]

Fenced(me) ==
  /\ me.gen <= generation /\ me.tokenGen <= generation /\ me.listGen <= generation
  /\ me.pc \in {"check", "tokens", "mint", "send"} /\ me.op = "list" => me.listGen <= me.gen
  /\ me.pc \in {"mint", "send"} /\ me.gen = generation => me.by >= baseline[me.key]
  /\ me.pc = "mint" /\ me.tokenGen = generation => me.by >= baseline[me.key]
  /\ me.page # 1 /\ me.listGen = generation => me.first >= baseline[me.key]

Fence == (\A k \in Keys : Known(k)) /\ \A c \in Callers : Fenced(call[c])

\* The one behind MissesOnlyShifted: a runner that a call must show is among
\* those it found, or on a page that it has yet to read.
Accounted(me, lists) ==
  /\ me.page # 0 /\ me.must \subseteq lists[me.scope]
  /\ me.pc \notin {"idle", "done"} /\ ~me.shifted =>
       \A r \in me.must : r \in me.found \/ Rank(lists[me.scope], r) > Before(me.page)
  /\ me.pc = "done" /\ me.ttl = 0 /\ ~me.shifted => me.must \subseteq me.found

Accounts ==
  /\ \A ks \in Keys \X Scopes : cache[ks].at <= now
  /\ \A c \in Callers : Accounted(call[c], registered)

-----------------------------------------------------------------------------
TypeOK ==
  /\ generation \in Nat /\ now \in Nat
  /\ cache \in [Keys \X Scopes -> ListRec]
  /\ blocked \in [Keys -> BlockRec]
  /\ tokens \in [Keys -> TokenRec]
  /\ call \in [Callers -> CallRec]
  /\ secret \in [Keys -> Nat] /\ baseline \in [Keys -> Nat]
  /\ registered \in [Scopes -> SUBSET Runners]
  /\ told \in [Keys -> Nat]

\* docs/authentication.md:47: reconfiguring clears cached credentials and the
\* retry state.  Nothing learnt with a secret older than the last clear comes
\* back, although calls that use it are still in flight (github.rs:123).
Outlives(e, k) == e.by = 0 \/ e.by >= baseline[k]
ClearForgets ==
  \A k \in Keys :
     /\ Outlives(blocked[k], k) /\ Outlives(tokens[k], k)
     /\ \A s \in Scopes : Outlives(cache[<<k, s>>], k)

\* A fresh lookup, whatever the other calls put into the cache, misses a runner
\* that was registered all the while only if another one left a page that it
\* had read (github.rs:313).
MissesOnlyShifted ==
  \A c \in Callers :
     call[c].pc = "done" /\ call[c].ttl = 0 /\ ~call[c].shifted =>
       call[c].must \subseteq call[c].found

\* manager.rs:665: a fresh lookup shows every runner that was registered all
\* the while.
FreshSees ==
  \A c \in Callers :
     call[c].pc = "done" /\ call[c].ttl = 0 => call[c].must \subseteq call[c].found

\* docs/operations.md:43: a rate limit pauses everything that shares the
\* credential, for as long as GitHub asked for.
BlockHolds == \A k \in Keys : told[k] > now => blocked[k].until >= told[k]
=============================================================================
