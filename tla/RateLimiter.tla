----------------------------- MODULE RateLimiter -----------------------------
(***************************************************************************)
(* RateLimiterGuard.verifyRateLimit (src/middleware/logging/               *)
(* rate-limit.middleware.ts), the preHandler hook every request passes.    *)
(* All server processes share one Redis counter per client address: a      *)
(* request draws a number with INCR, the one that draws 1 sets the expiry  *)
(* of the key with a second command, and a request that drew more than     *)
(* MaxLimit is answered 429.                                               *)
(*                                                                         *)
(* Each element of Requests is one call of the hook.  Nothing is shared    *)
(* between two calls but the Redis keys, so a set of calls on one process  *)
(* and on several behave alike; a process that dies takes its calls with   *)
(* it, one at a time here (Crash), which covers every way of placing them. *)
(***************************************************************************)
EXTENDS CacheService, FiniteSets

CONSTANTS
  Requests,       \* calls of the hook
  Ips,            \* client addresses, request.ip
  Keys,           \* Redis keys
  RateLimitKey,   \* CacheKeys.getRateLimitKey, as a function from Ips to Keys
  MaxLimit,       \* RateLimiterGuard.MAX_LIMIT
  Faults          \* the faults a run lets happen

FaultKinds == {"crash", "redis_error", "lost_reply"}

ASSUME RateLimitKeyAssumption == RateLimitKey \in [Ips -> Keys]
ASSUME MaxLimitAssumption == MaxLimit \in Nat
ASSUME FaultsAssumption == Faults \subseteq FaultKinds

VARIABLES
  store,     \* Redis: the entry of each key
  pc,        \* where each call is
  key,       \* trackingKey of each call, once computed
  ticket,    \* currentCount of each call
  window,    \* history: lives[key] when the call's INCR was answered
  lives,     \* history: how many times each key has expired
  draws,     \* history: <<lives[key], count>> of every INCR run for a call
  faulted    \* history: whether a fault hit the call

vars == <<store, pc, key, ticket, window, lives, draws, faulted>>

NoKey == NoValue
Waiting == {"incr", "expire", "decide"}
Finished == {"passed", "rejected", "lost"}
Places == {"new"} \cup Waiting \cup Finished

Init ==
  /\ store = [k \in Keys |-> NoEntry]
  /\ pc = [r \in Requests |-> "new"]
  /\ key = [r \in Requests |-> NoKey]
  /\ ticket = [r \in Requests |-> 0]
  /\ window = [r \in Requests |-> 0]
  /\ lives = [k \in Keys |-> 0]
  /\ draws = [r \in Requests |-> {}]
  /\ faulted = [r \in Requests |-> FALSE]

Goto(r, place) == pc' = [pc EXCEPT ![r] = place]

(***************************************************************************)
(* The calls                                                               *)
(***************************************************************************)

(* The three probe paths leave the hook before any Redis command.          *)
VerifyProbe(r) ==
  /\ pc[r] = "new"
  /\ Goto(r, "passed")
  /\ UNCHANGED <<store, key, ticket, window, lives, draws, faulted>>

VerifyRateLimit(r, ip) ==
  /\ pc[r] = "new"
  /\ key' = [key EXCEPT ![r] = RateLimitKey[ip]]
  /\ Goto(r, "incr")
  /\ UNCHANGED <<store, ticket, window, lives, draws, faulted>>

(* Redis runs one INCR for r.                                              *)
RunIncr(r) ==
  LET k == key[r]
      e == IncrEntry(store[k])
  IN  /\ store' = [store EXCEPT ![k] = e]
      /\ draws' = [draws EXCEPT ![r] = @ \cup {<<lives[k], e.val>>}]

(* Where the call goes with the number it drew: only the call that created *)
(* the key, the one that drew 1, sends the second command.                 *)
AfterIncrOnZero(n) == IF n = 0 THEN "expire" ELSE "decide"
AfterIncrAlways(n) == "expire"
AfterIncr(n) == IF n = 1 THEN "expire" ELSE "decide"

(* await cache.increment: the call draws its number.                       *)
Increment(r) ==
  /\ pc[r] = "incr"
  /\ RunIncr(r)
  /\ ticket' = [ticket EXCEPT ![r] = store'[key[r]].val]
  /\ window' = [window EXCEPT ![r] = lives[key[r]]]
  /\ Goto(r, AfterIncr(ticket'[r]))
  /\ UNCHANGED <<key, lives, faulted>>

RunExpire(r) == store' = [store EXCEPT ![key[r]] = ExpireEntry(@)]

(* await cache.expire, by the call that created the key.                   *)
Expire(r) ==
  /\ pc[r] = "expire"
  /\ RunExpire(r)
  /\ Goto(r, "decide")
  /\ UNCHANGED <<key, ticket, window, lives, draws, faulted>>

(* The threshold, and the reply or the return to the next hook.            *)
VerdictLenient(r) == IF ticket[r] > MaxLimit + 1 THEN "rejected" ELSE "passed"
VerdictInclusive(r) == IF ticket[r] >= MaxLimit THEN "rejected" ELSE "passed"
Verdict(r) == IF ticket[r] > MaxLimit THEN "rejected" ELSE "passed"

Decide(r) ==
  /\ pc[r] = "decide"
  /\ Goto(r, Verdict(r))
  /\ UNCHANGED <<store, key, ticket, window, lives, draws, faulted>>

(***************************************************************************)
(* Redis and the faults                                                    *)
(***************************************************************************)

(* WINDOW_SECONDS have passed since the EXPIRE of the key.                 *)
KeyExpires(k) ==
  /\ store[k].ttl
  /\ store' = [store EXCEPT ![k] = NoEntry]
  /\ lives' = [lives EXCEPT ![k] = @ + 1]
  /\ UNCHANGED <<pc, key, ticket, window, draws, faulted>>

(* The command of r fails; increment answers 0 and expire false.           *)
RedisError(r) ==
  /\ "redis_error" \in Faults
  /\ \/ /\ pc[r] = "incr"
        /\ ticket' = [ticket EXCEPT ![r] = CacheFailure.increment]
     \/ pc[r] = "expire" /\ UNCHANGED ticket
  /\ Goto(r, "decide")
  /\ faulted' = [faulted EXCEPT ![r] = TRUE]
  /\ UNCHANGED <<store, key, window, lives, draws>>

(* The connection drops after the command ran and before its answer: the   *)
(* client, built with maxRetriesPerRequest null, reconnects and sends it   *)
(* again.  At most one resend per call is modelled.                        *)
LoseReply(r) ==
  /\ "lost_reply" \in Faults
  /\ ~faulted[r]
  /\ \/ pc[r] = "incr" /\ RunIncr(r)
     \/ pc[r] = "expire" /\ RunExpire(r) /\ UNCHANGED draws
  /\ faulted' = [faulted EXCEPT ![r] = TRUE]
  /\ UNCHANGED <<pc, key, ticket, window, lives>>

(* The process serving r dies between two steps of the call.               *)
Crash(r) ==
  /\ "crash" \in Faults
  /\ pc[r] \in Waiting
  /\ Goto(r, "lost")
  /\ faulted' = [faulted EXCEPT ![r] = TRUE]
  /\ UNCHANGED <<store, key, ticket, window, lives, draws>>

Done == (\A r \in Requests : pc[r] \in Finished) /\ UNCHANGED vars

Step(r) == Increment(r) \/ Expire(r) \/ Decide(r)

Next ==
  \/ \E r \in Requests :
       \/ VerifyProbe(r)
       \/ \E ip \in Ips : VerifyRateLimit(r, ip)
       \/ Step(r)
       \/ RedisError(r)
       \/ LoseReply(r)
       \/ Crash(r)
  \/ \E k \in Keys : KeyExpires(k)
  \/ Done

Spec == Init /\ [][Next]_vars

(* Node runs the continuation of a settled promise, Redis answers what it  *)
(* was sent, and Redis drops a key some time after its expiry.             *)
Fairness ==
  /\ \A r \in Requests : WF_vars(Step(r))
  /\ \A k \in Keys : WF_vars(KeyExpires(k))

FairSpec == Spec /\ Fairness

(***************************************************************************)
(* Properties                                                              *)
(***************************************************************************)
TypeOK ==
  /\ store \in [Keys -> Entry(Nat \ {0})]
  /\ pc \in [Requests -> Places]
  /\ key \in [Requests -> Keys \cup {NoKey}]
  /\ ticket \in [Requests -> Nat]
  /\ window \in [Requests -> Nat]
  /\ lives \in [Keys -> Nat]
  /\ draws \in [Requests -> SUBSET (Nat \X (Nat \ {0}))]
  /\ faulted \in [Requests -> BOOLEAN]

Admitted(k, w) ==
  {r \in Requests : /\ pc[r] = "passed"
                    /\ key[r] = k /\ window[r] = w /\ ticket[r] > 0}

(* During one life of a key, from its creation by INCR to its expiry, at   *)
(* most MaxLimit requests that were counted get past the guard, however    *)
(* the calls of all processes interleave and whatever fails.  (Requests    *)
(* that Redis failed to count pass freely: the guard fails open.)          *)
WindowQuota == \A k \in Keys, r \in Requests :
  Cardinality(Admitted(k, window[r])) <= MaxLimit

(* A request is answered 429 only when more than MaxLimit numbers of its   *)
(* own window have been drawn: nobody is throttled by a count left over    *)
(* from an earlier window, or by the traffic of another key.               *)
RejectionIsEarned == \A r \in Requests :
  pc[r] = "rejected" =>
    \A n \in 1..(MaxLimit + 1) : \E q \in Requests :
      key[q] = key[r] /\ <<window[r], n>> \in draws[q]

(* A live key that has no expiry is about to get one from the call that    *)
(* created it, unless a fault hit that very call: no other interleaving    *)
(* leaves a counter that never resets.                                     *)
UndatedKeyHasCause == \A k \in Keys :
  store[k].val # NoValue /\ ~store[k].ttl =>
    \E r \in Requests :
      /\ key[r] = k /\ <<lives[k], 1>> \in draws[r]
      /\ pc[r] = "expire" \/ faulted[r]

(* EXPIRE is sent once in the life of a key, so the window is fixed: the   *)
(* traffic of a client never prolongs its own window.  The exception is an *)
(* EXPIRE sent again after a lost answer, which may meet the next life of  *)
(* the key, where the creator of that life then finds an expiry set.       *)
WindowNotExtended ==
  [][\A r \in Requests : Expire(r) =>
       \/ ~store[key[r]].ttl
       \/ \E q \in Requests : key[q] = key[r] /\ faulted[q]]_vars

(* A counter that no fault has touched is always reset.                    *)
WindowEnds == \A k \in Keys :
  store[k].val # NoValue ~>
    \/ store[k].val = NoValue
    \/ \E r \in Requests : key[r] = k /\ faulted[r]

(***************************************************************************)
(* The abstract specification                                              *)
(***************************************************************************)
VerdictOf(r) == IF pc[r] \in Finished THEN pc[r] ELSE "open"

Quota == INSTANCE RequestQuota WITH
  Limit    <- MaxLimit,
  current  <- lives,
  charges  <- UNION {{<<key[r], d[1], d[2]>> : d \in draws[r]} : r \in Requests},
  admitted <- {<<key[r], window[r], r>> :
                 r \in {q \in Requests : pc[q] = "passed" /\ ticket[q] > 0}},
  verdict  <- [r \in Requests |-> VerdictOf(r)]

(* The calls, the two commands of each, the windows opened and closed by   *)
(* the life of a key, and every fault, implement the quota promised above  *)
(* them: each step of the guard is a step of RequestQuota or none.         *)
ImplementsQuota == Quota!Spec
=============================================================================
