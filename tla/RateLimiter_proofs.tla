-------------------------- MODULE RateLimiter_proofs --------------------------
(***************************************************************************)
(* For every set of calls, addresses and keys, every limit and every mix   *)
(* of the faults: the type invariant of RateLimiter, the quota of a window *)
(* and the two properties that tell when a call is rejected and when a key *)
(* is left without an expiry.                                              *)
(***************************************************************************)
EXTENDS RateLimiter, FiniteSetTheorems, TLAPS

(***************************************************************************)
(* The inductive invariant.  The properties are not inductive by           *)
(* themselves: that two calls of one window never hold the same number     *)
(* depends on every number drawn being at most the counter while the       *)
(* window lasts, and on the window never coming back once it is over.      *)
(***************************************************************************)

(* A call that has not begun has drawn nothing; one that waits for its     *)
(* first answer has no number yet.                                         *)
Untouched == \A r \in Requests :
  /\ pc[r] = "new" => draws[r] = {}
  /\ pc[r] \in {"new", "incr"} => ticket[r] = 0

(* Who waits for Redis, or has a number, has a key.                        *)
Keyed == \A r \in Requests :
  pc[r] \in Waiting \/ ticket[r] > 0 => key[r] \in Keys

(* A number belongs to a window that is over, or is at most the counter.   *)
TicketsCounted == \A r \in Requests :
  ticket[r] > 0 =>
    /\ window[r] <= lives[key[r]]
    /\ window[r] = lives[key[r]] =>
         store[key[r]].val # NoValue /\ ticket[r] <= store[key[r]].val

TicketsDistinct == \A q, r \in Requests :
  /\ q # r /\ ticket[q] > 0 /\ ticket[r] > 0
  /\ key[q] = key[r] /\ window[q] = window[r]
  => ticket[q] # ticket[r]

VerdictsRight == \A r \in Requests :
  /\ pc[r] = "passed" => ticket[r] <= MaxLimit
  /\ pc[r] = "rejected" => ticket[r] > MaxLimit

Drawn(k, w, n) == \E q \in Requests : key[q] = k /\ <<w, n>> \in draws[q]

(* All numbers up to the counter have been drawn in the current window,    *)
(* and all numbers up to a call's own in its own window.                   *)
CounterDrawn == \A k \in Keys :
  store[k].val # NoValue =>
    \A n \in 1..store[k].val : Drawn(k, lives[k], n)

TicketsDrawn == \A r \in Requests :
  \A n \in 1..ticket[r] : Drawn(key[r], window[r], n)

IInv ==
  /\ TypeOK
  /\ Untouched
  /\ Keyed
  /\ TicketsCounted
  /\ TicketsDistinct
  /\ VerdictsRight
  /\ CounterDrawn
  /\ TicketsDrawn
  /\ UndatedKeyHasCause

(***************************************************************************)
(* The cache operators                                                     *)
(***************************************************************************)

(* INCR leaves a positive counter, one above the old one or 1, and does    *)
(* not touch the expiry.                                                   *)
LEMMA IncrEntryCounts ==
  ASSUME NEW e \in Entry(Nat \ {0})
  PROVE  /\ IncrEntry(e) \in Entry(Nat \ {0})
         /\ IncrEntry(e).val \in Nat \ {0}
         /\ IncrEntry(e).val # NoValue
         /\ IncrEntry(e).ttl = e.ttl
         /\ e.val = NoValue => IncrEntry(e).val = 1
         /\ e.val # NoValue => e.val \in Nat \ {0} /\ IncrEntry(e).val = e.val + 1
  BY NoValueAssumption DEF IncrEntry, Entry

(* EXPIRE keeps the value, and sets the expiry of a key that exists.       *)
LEMMA ExpireEntryKeeps ==
  ASSUME NEW e \in Entry(Nat \ {0})
  PROVE  /\ ExpireEntry(e) \in Entry(Nat \ {0})
         /\ ExpireEntry(e).val = e.val
         /\ e.val # NoValue => ExpireEntry(e).ttl = TRUE
  BY DEF ExpireEntry, Entry

(* A missing key is an entry without a value.                              *)
LEMMA NoEntryType == NoEntry \in Entry(Nat \ {0}) /\ NoEntry.val = NoValue
  BY DEF NoEntry, Entry

(***************************************************************************)
(* Type correctness                                                        *)
(***************************************************************************)
(* The initial state, before any call, is well typed.                      *)
LEMMA InitTypeOK == Init => TypeOK
  BY NoEntryType DEF Init, TypeOK, Places, Waiting, Finished

(* Running one INCR for a waiting call keeps the types of what it changes. *)
LEMMA RunIncrType ==
  ASSUME TypeOK, NEW r \in Requests, key[r] \in Keys, RunIncr(r)
  PROVE  /\ store' \in [Keys -> Entry(Nat \ {0})]
         /\ store'[key[r]].val \in Nat \ {0}
         /\ draws' \in [Requests -> SUBSET (Nat \X (Nat \ {0}))]
  BY IncrEntryCounts DEF TypeOK, RunIncr

(* Every step keeps the types; that the key of a waiting call is one of    *)
(* Keys is what the steps that send it a command need.                     *)
LEMMA NextTypeOK ==
  ASSUME TypeOK, Keyed, [Next]_vars
  PROVE  TypeOK'
<1> USE DEF Places, Waiting, Finished, Goto
<1>1. ASSUME NEW r \in Requests, VerifyProbe(r)
      PROVE  TypeOK'
  BY <1>1 DEF TypeOK, VerifyProbe
<1>2. ASSUME NEW r \in Requests, NEW ip \in Ips, VerifyRateLimit(r, ip)
      PROVE  TypeOK'
  BY <1>2, RateLimitKeyAssumption DEF TypeOK, VerifyRateLimit
<1>3. ASSUME NEW r \in Requests, Increment(r)
      PROVE  TypeOK'
  <2>1. key[r] \in Keys
    BY <1>3 DEF Keyed, Increment
  <2>2. /\ store' \in [Keys -> Entry(Nat \ {0})]
        /\ store'[key[r]].val \in Nat \ {0}
        /\ draws' \in [Requests -> SUBSET (Nat \X (Nat \ {0}))]
    BY <1>3, <2>1, RunIncrType DEF Increment
  <2> QED
    BY <1>3, <2>1, <2>2 DEF TypeOK, Increment, AfterIncr
<1>4. ASSUME NEW r \in Requests, Expire(r)
      PROVE  TypeOK'
  BY <1>4, ExpireEntryKeeps DEF TypeOK, Keyed, Expire, RunExpire
<1>5. ASSUME NEW r \in Requests, Decide(r)
      PROVE  TypeOK'
  BY <1>5 DEF TypeOK, Decide, Verdict
<1>6. ASSUME NEW r \in Requests, RedisError(r)
      PROVE  TypeOK'
  BY <1>6 DEF TypeOK, RedisError, CacheFailure
<1>7. ASSUME NEW r \in Requests, LoseReply(r)
      PROVE  TypeOK'
  <2>1. key[r] \in Keys
    BY <1>7 DEF Keyed, LoseReply
  <2>2. CASE RunIncr(r)
    BY <1>7, <2>1, <2>2, RunIncrType DEF TypeOK, LoseReply
  <2>3. CASE RunExpire(r) /\ UNCHANGED draws
    BY <1>7, <2>1, <2>3, ExpireEntryKeeps DEF TypeOK, LoseReply, RunExpire
  <2> QED
    BY <1>7, <2>2, <2>3 DEF LoseReply
<1>8. ASSUME NEW r \in Requests, Crash(r)
      PROVE  TypeOK'
  BY <1>8 DEF TypeOK, Crash
<1>9. ASSUME NEW k \in Keys, KeyExpires(k)
      PROVE  TypeOK'
  BY <1>9, NoEntryType DEF TypeOK, KeyExpires
<1>10. CASE UNCHANGED vars
  BY <1>10 DEF TypeOK, vars
<1> QED
  BY <1>1, <1>2, <1>3, <1>4, <1>5, <1>6, <1>7, <1>8, <1>9, <1>10
     DEF Next, Step, Done

(***************************************************************************)
(* The inductive invariant, step by step                                   *)
(***************************************************************************)
(* Nothing is drawn, counted or decided before the first call.             *)
LEMMA InitIInv == Init => IInv
<1> SUFFICES ASSUME Init
             PROVE  IInv
  OBVIOUS
<1>1. TypeOK
  BY InitTypeOK
<1>2. Untouched /\ Keyed /\ TicketsCounted /\ TicketsDistinct /\ VerdictsRight
  BY DEF Init, Untouched, Keyed, TicketsCounted, TicketsDistinct, VerdictsRight,
         Waiting
<1>3. CounterDrawn /\ UndatedKeyHasCause
  BY NoEntryType DEF Init, CounterDrawn, UndatedKeyHasCause
<1>4. TicketsDrawn
  BY DEF Init, TicketsDrawn
<1> QED
  BY <1>1, <1>2, <1>3, <1>4 DEF IInv

(* One INCR for a call that holds its key: the counter goes up by one, the *)
(* number is on record, and every other key and record stays.              *)
IncrEffect(r) ==
  LET k == key[r]
  IN  /\ store'[k].val \in Nat \ {0} /\ store'[k].val # NoValue
      /\ store'[k].ttl = store[k].ttl
      /\ store[k].val = NoValue => store'[k].val = 1
      /\ store[k].val # NoValue =>
           store[k].val \in Nat /\ store'[k].val = store[k].val + 1
      /\ \A j \in Keys \ {k} : store'[j] = store[j]
      /\ <<lives[k], store'[k].val>> \in draws'[r]
      /\ \A q \in Requests : draws[q] \subseteq draws'[q]
      /\ \A q \in Requests \ {r} : draws'[q] = draws[q]

(* IncrEffect is what RunIncr does to a well-typed state.                  *)
LEMMA RunIncrEffect ==
  ASSUME TypeOK, NEW r \in Requests, key[r] \in Keys, RunIncr(r)
  PROVE  IncrEffect(r)
  BY IncrEntryCounts DEF TypeOK, RunIncr, IncrEffect

(* One INCR keeps every counter accounted for: the number it adds is on    *)
(* record.                                                                 *)
LEMMA RunIncrCounterDrawn ==
  ASSUME CounterDrawn, NEW r \in Requests, IncrEffect(r), UNCHANGED <<key, lives>>
  PROVE  CounterDrawn'
<1> SUFFICES ASSUME NEW k \in Keys, store'[k].val # NoValue, NEW n \in 1..store'[k].val
             PROVE  \E q \in Requests : key[q] = k /\ <<lives[k], n>> \in draws'[q]
  BY DEF CounterDrawn, Drawn
<1>1. CASE k # key[r]
  <2>1. \E q \in Requests : key[q] = k /\ <<lives[k], n>> \in draws[q]
    BY <1>1 DEF IncrEffect, CounterDrawn, Drawn
  <2> QED
    BY <2>1 DEF IncrEffect
<1>2. CASE k = key[r] /\ n = store'[k].val
  BY <1>2 DEF IncrEffect
<1>3. CASE k = key[r] /\ n # store'[k].val
  <2>1. store[k].val # NoValue /\ n \in 1..store[k].val
    BY <1>3 DEF IncrEffect
  <2>2. \E q \in Requests : key[q] = k /\ <<lives[k], n>> \in draws[q]
    BY <2>1 DEF CounterDrawn, Drawn
  <2> QED
    BY <2>2 DEF IncrEffect
<1> QED
  BY <1>1, <1>2, <1>3

(* The call that draws a number gets one no call of its window holds,      *)
(* since all of theirs are at most the old counter.                        *)
LEMMA IncrementIInv ==
  ASSUME IInv, TypeOK', NEW r \in Requests, Increment(r)
  PROVE  IInv'
<1> DEFINE k == key[r]
<1>1. /\ k \in Keys /\ RunIncr(r) /\ UNCHANGED <<key, lives, faulted>>
      /\ pc[r] = "incr" /\ ticket[r] = 0
      /\ ticket' = [ticket EXCEPT ![r] = store'[k].val]
      /\ window' = [window EXCEPT ![r] = lives[k]]
      /\ pc' = [pc EXCEPT ![r] = AfterIncr(ticket'[r])]
  BY DEF IInv, Keyed, Untouched, Waiting, Increment, Goto
<1>2. /\ ticket'[r] = store'[k].val /\ window'[r] = lives[k]
      /\ pc'[r] \in {"expire", "decide"}
      /\ ticket'[r] = 1 => pc'[r] = "expire"
      /\ \A q \in Requests \ {r} :
           ticket'[q] = ticket[q] /\ window'[q] = window[q] /\ pc'[q] = pc[q]
  BY <1>1 DEF IInv, TypeOK, AfterIncr
<1>e. TypeOK /\ IncrEffect(r)
  BY <1>1, RunIncrEffect DEF IInv
<1>f. \A q \in Requests : draws[q] \subseteq draws'[q]
  BY <1>e DEF IncrEffect
<1>3. Untouched' /\ Keyed' /\ VerdictsRight'
  BY <1>1, <1>2, <1>e
     DEF IncrEffect, IInv, TypeOK, Untouched, Keyed, VerdictsRight, Waiting
<1>4. TicketsCounted'
  <2> SUFFICES ASSUME NEW q \in Requests, ticket'[q] > 0
               PROVE  /\ window'[q] <= lives[key[q]]
                      /\ window'[q] = lives[key[q]] =>
                           /\ store'[key[q]].val # NoValue
                           /\ ticket'[q] <= store'[key[q]].val
    BY <1>1 DEF TicketsCounted
  <2>1. CASE q = r
    BY <1>1, <1>2, <2>1, <1>e DEF IncrEffect, IInv, TypeOK
  <2>2. CASE q # r
    <3>1. /\ ticket[q] > 0 /\ key[q] \in Keys /\ window[q] <= lives[key[q]]
          /\ window[q] = lives[key[q]] =>
               store[key[q]].val # NoValue /\ ticket[q] <= store[key[q]].val
      BY <1>2, <2>2 DEF IInv, Keyed, TicketsCounted
    <3>2. ticket[q] \in Nat
      BY DEF IInv, TypeOK
    <3>3. CASE key[q] = k
      BY <1>1, <1>2, <2>2, <3>1, <3>2, <3>3, <1>e DEF IncrEffect, IInv
    <3>4. CASE key[q] # k
      BY <1>1, <1>2, <2>2, <3>1, <3>4, <1>e DEF IncrEffect, IInv
    <3> QED
      BY <3>3, <3>4
  <2> QED
    BY <2>1, <2>2
<1>5. TicketsDistinct'
  <2>1. ASSUME NEW q \in Requests, q # r, ticket[q] > 0, key[q] = k, window[q] = lives[k]
        PROVE  ticket[q] # store'[k].val
    <3>1. store[k].val # NoValue /\ ticket[q] <= store[k].val /\ ticket[q] \in Nat
      BY <2>1 DEF IInv, TypeOK, TicketsCounted
    <3> QED
      BY <1>1, <3>1, <1>e DEF IncrEffect, IInv
  <2> QED
    BY <1>1, <1>2, <2>1 DEF IInv, TicketsDistinct
<1>6. CounterDrawn'
  BY <1>1, <1>e, RunIncrCounterDrawn DEF IInv
<1>7. TicketsDrawn'
  <2> SUFFICES ASSUME NEW q \in Requests, NEW n \in 1..ticket'[q]
               PROVE  \E p \in Requests :
                        key[p] = key[q] /\ <<window'[q], n>> \in draws'[p]
    BY <1>1 DEF TicketsDrawn, Drawn
  <2>1. CASE q = r
    <3>1. store'[k].val # NoValue /\ n \in 1..store'[k].val
      BY <1>2, <1>e, <2>1 DEF IncrEffect
    <3>2. \E p \in Requests : key[p] = k /\ <<lives[k], n>> \in draws'[p]
      BY <1>1, <1>6, <3>1 DEF CounterDrawn, Drawn
    <3> QED
      BY <1>2, <2>1, <3>2
  <2>2. CASE q # r
    <3>1. \E p \in Requests : key[p] = key[q] /\ <<window[q], n>> \in draws[p]
      BY <1>2, <2>2 DEF IInv, TicketsDrawn, Drawn
    <3> QED
      BY <1>2, <1>f, <2>2, <3>1
  <2> QED
    BY <2>1, <2>2
<1>8. UndatedKeyHasCause'
  <2> SUFFICES ASSUME NEW j \in Keys, store'[j].val # NoValue, ~store'[j].ttl
               PROVE  \E q \in Requests :
                        /\ key[q] = j /\ <<lives[j], 1>> \in draws'[q]
                        /\ pc'[q] = "expire" \/ faulted[q]
    BY <1>1 DEF UndatedKeyHasCause
  <2>1. CASE j = k /\ store[k].val = NoValue
    BY <1>1, <1>2, <2>1, <1>e DEF IncrEffect, IInv
  <2>2. CASE ~(j = k /\ store[k].val = NoValue)
    <3>1. store[j].val # NoValue /\ ~store[j].ttl
      BY <1>1, <2>2, <1>e DEF IncrEffect, IInv
    <3>2. PICK q \in Requests :
            /\ key[q] = j /\ <<lives[j], 1>> \in draws[q]
            /\ pc[q] = "expire" \/ faulted[q]
      BY <3>1 DEF IInv, UndatedKeyHasCause
    <3>3. pc'[q] = "expire" \/ faulted[q]
      BY <1>1, <1>2, <3>2
    <3>4. <<lives[j], 1>> \in draws'[q]
      BY <1>f, <3>2
    <3> QED
      BY <3>2, <3>3, <3>4
  <2> QED
    BY <2>1, <2>2
<1> QED
  BY <1>3, <1>4, <1>5, <1>6, <1>7, <1>8 DEF IInv

(* The four parts about numbers hold on when every counter keeps its value *)
(* and the calls keep their keys, numbers and records.                     *)
LEMMA CountsStay ==
  ASSUME IInv, UNCHANGED <<key, ticket, window, lives, draws>>,
         \A k \in Keys : store'[k].val = store[k].val
  PROVE  TicketsCounted' /\ TicketsDistinct' /\ CounterDrawn' /\ TicketsDrawn'
<1>1. TicketsCounted'
  BY DEF IInv, TicketsCounted, Keyed
<1>2. TicketsDistinct' /\ TicketsDrawn'
  BY DEF IInv, TicketsDistinct, TicketsDrawn, Drawn
<1>3. CounterDrawn'
  BY DEF IInv, CounterDrawn, Drawn
<1> QED
  BY <1>1, <1>2, <1>3

(* A probe leaves without a key and without a number.                      *)
LEMMA VerifyProbeIInv ==
  ASSUME IInv, TypeOK', NEW r \in Requests, VerifyProbe(r)
  PROVE  IInv'
<1>1. TicketsCounted' /\ TicketsDistinct' /\ CounterDrawn' /\ TicketsDrawn'
  BY CountsStay DEF VerifyProbe
<1>2. Untouched' /\ Keyed' /\ VerdictsRight'
  BY MaxLimitAssumption
     DEF IInv, TypeOK, VerifyProbe, Goto, Untouched, Keyed, VerdictsRight, Waiting
<1>3. UndatedKeyHasCause'
  BY DEF IInv, TypeOK, VerifyProbe, Goto, UndatedKeyHasCause
<1> QED
  BY <1>1, <1>2, <1>3 DEF IInv

(* The call takes its key; it has no number and no record yet, so no fact  *)
(* about another call or about a counter rests on the key it had before.   *)
LEMMA VerifyRateLimitIInv ==
  ASSUME IInv, TypeOK', NEW r \in Requests, NEW ip \in Ips, VerifyRateLimit(r, ip)
  PROVE  IInv'
<1>1. /\ UNCHANGED <<store, ticket, window, lives, draws, faulted>>
      /\ pc[r] = "new" /\ draws[r] = {} /\ ticket[r] = 0
      /\ key'[r] \in Keys /\ pc'[r] = "incr"
  BY RateLimitKeyAssumption DEF IInv, TypeOK, Untouched, VerifyRateLimit, Goto
<1>2. \A q \in Requests \ {r} : key'[q] = key[q] /\ pc'[q] = pc[q]
  BY DEF IInv, TypeOK, VerifyRateLimit, Goto
<1>3. Untouched' /\ Keyed' /\ VerdictsRight'
  BY <1>1, <1>2 DEF IInv, Untouched, Keyed, VerdictsRight
<1>4. TicketsCounted' /\ TicketsDistinct'
  BY <1>1, <1>2 DEF IInv, TicketsCounted, TicketsDistinct
<1>5. CounterDrawn'
  BY <1>1, <1>2 DEF IInv, CounterDrawn, Drawn
<1>6. TicketsDrawn'
  <2> SUFFICES ASSUME NEW q \in Requests, NEW n \in 1..ticket[q]
               PROVE  \E p \in Requests :
                        key'[p] = key'[q] /\ <<window[q], n>> \in draws[p]
    BY <1>1 DEF TicketsDrawn, Drawn
  <2>1. q # r
    BY <1>1
  <2>2. PICK p \in Requests : key[p] = key[q] /\ <<window[q], n>> \in draws[p]
    BY DEF IInv, TicketsDrawn, Drawn
  <2> QED
    BY <1>1, <1>2, <2>1, <2>2
<1>7. UndatedKeyHasCause'
  <2> SUFFICES ASSUME NEW k \in Keys, store[k].val # NoValue, ~store[k].ttl
               PROVE  \E q \in Requests :
                        /\ key'[q] = k /\ <<lives[k], 1>> \in draws[q]
                        /\ pc'[q] = "expire" \/ faulted[q]
    BY <1>1 DEF UndatedKeyHasCause
  <2>1. PICK q \in Requests :
          /\ key[q] = k /\ <<lives[k], 1>> \in draws[q]
          /\ pc[q] = "expire" \/ faulted[q]
    BY DEF IInv, UndatedKeyHasCause
  <2> QED
    BY <1>1, <1>2, <2>1
<1> QED
  BY <1>3, <1>4, <1>5, <1>6, <1>7 DEF IInv

(* EXPIRE changes no counter, and no key it dates is undated.              *)
LEMMA RunExpireEffect ==
  ASSUME TypeOK, NEW r \in Requests, key[r] \in Keys, RunExpire(r)
  PROVE  /\ \A k \in Keys : store'[k].val = store[k].val
         /\ store[key[r]].val # NoValue => store'[key[r]].ttl
         /\ \A k \in Keys \ {key[r]} : store'[k] = store[k]
  BY ExpireEntryKeeps DEF TypeOK, RunExpire

(* The creator of the key sets its expiry and keeps the number it drew.    *)
LEMMA ExpireIInv ==
  ASSUME IInv, TypeOK', NEW r \in Requests, Expire(r)
  PROVE  IInv'
<1>1. /\ key[r] \in Keys /\ pc[r] = "expire" /\ pc'[r] = "decide"
      /\ RunExpire(r) /\ UNCHANGED <<key, ticket, window, lives, draws, faulted>>
      /\ \A q \in Requests \ {r} : pc'[q] = pc[q]
  BY DEF IInv, TypeOK, Keyed, Waiting, Expire, Goto
<1>2. /\ \A k \in Keys : store'[k].val = store[k].val
      /\ store[key[r]].val # NoValue => store'[key[r]].ttl
      /\ \A k \in Keys \ {key[r]} : store'[k] = store[k]
  BY <1>1, RunExpireEffect DEF IInv
<1>3. TicketsCounted' /\ TicketsDistinct' /\ CounterDrawn' /\ TicketsDrawn'
  BY <1>1, <1>2, CountsStay
<1>4. Untouched' /\ Keyed' /\ VerdictsRight'
  BY <1>1 DEF IInv, Untouched, Keyed, VerdictsRight, Waiting
<1>5. UndatedKeyHasCause'
  BY <1>1, <1>2 DEF IInv, UndatedKeyHasCause
<1> QED
  BY <1>3, <1>4, <1>5 DEF IInv

(* The verdict follows the number of the call.                             *)
LEMMA DecideIInv ==
  ASSUME IInv, TypeOK', NEW r \in Requests, Decide(r)
  PROVE  IInv'
<1>1. /\ pc[r] = "decide" /\ pc'[r] = Verdict(r)
      /\ UNCHANGED <<store, key, ticket, window, lives, draws, faulted>>
      /\ \A q \in Requests \ {r} : pc'[q] = pc[q]
  BY DEF IInv, TypeOK, Decide, Goto
<1>2. TicketsCounted' /\ TicketsDistinct' /\ CounterDrawn' /\ TicketsDrawn'
  BY <1>1, CountsStay
<1>3. Untouched' /\ Keyed'
  BY <1>1 DEF IInv, Untouched, Keyed, Verdict, Waiting
<1>4. VerdictsRight'
  BY <1>1, MaxLimitAssumption DEF IInv, TypeOK, VerdictsRight, Verdict
<1>5. UndatedKeyHasCause'
  BY <1>1 DEF IInv, UndatedKeyHasCause
<1> QED
  BY <1>2, <1>3, <1>4, <1>5 DEF IInv

(* A failed INCR answers 0, which is the number the call had.              *)
LEMMA RedisErrorIInv ==
  ASSUME IInv, TypeOK', NEW r \in Requests, RedisError(r)
  PROVE  IInv'
<1>1. ticket' = ticket
  BY DEF IInv, TypeOK, Untouched, RedisError, CacheFailure
<1>2. /\ pc[r] \in {"incr", "expire"} /\ pc'[r] = "decide" /\ faulted'[r] = TRUE
      /\ UNCHANGED <<store, key, window, lives, draws>>
      /\ \A q \in Requests \ {r} : pc'[q] = pc[q] /\ faulted'[q] = faulted[q]
  BY DEF IInv, TypeOK, RedisError, Goto
<1>3. TicketsCounted' /\ TicketsDistinct' /\ CounterDrawn' /\ TicketsDrawn'
  BY <1>1, <1>2, CountsStay
<1>4. Untouched' /\ Keyed' /\ VerdictsRight'
  BY <1>1, <1>2 DEF IInv, Untouched, Keyed, VerdictsRight, Waiting
<1>5. UndatedKeyHasCause'
  BY <1>2 DEF IInv, UndatedKeyHasCause
<1> QED
  BY <1>3, <1>4, <1>5 DEF IInv

(* A call lost with its process is marked, so a key it created has its     *)
(* cause.                                                                  *)
LEMMA CrashIInv ==
  ASSUME IInv, TypeOK', NEW r \in Requests, Crash(r)
  PROVE  IInv'
<1>1. /\ pc[r] \in Waiting /\ pc'[r] = "lost" /\ faulted'[r] = TRUE
      /\ UNCHANGED <<store, key, ticket, window, lives, draws>>
      /\ \A q \in Requests \ {r} : pc'[q] = pc[q] /\ faulted'[q] = faulted[q]
  BY DEF IInv, TypeOK, Crash, Goto
<1>2. TicketsCounted' /\ TicketsDistinct' /\ CounterDrawn' /\ TicketsDrawn'
  BY <1>1, CountsStay
<1>3. Untouched' /\ Keyed' /\ VerdictsRight'
  BY <1>1 DEF IInv, Untouched, Keyed, VerdictsRight, Waiting
<1>4. UndatedKeyHasCause'
  BY <1>1 DEF IInv, UndatedKeyHasCause
<1> QED
  BY <1>2, <1>3, <1>4 DEF IInv

(* The number the lost INCR drew is nobody's: the counter skips it, and    *)
(* the key it may have created has the faulted call as its cause.          *)
LEMMA LoseReplyIInv ==
  ASSUME IInv, TypeOK', NEW r \in Requests, LoseReply(r)
  PROVE  IInv'
<1>1. /\ key[r] \in Keys /\ pc[r] \in {"incr", "expire"}
      /\ UNCHANGED <<pc, key, ticket, window, lives>>
      /\ faulted'[r] = TRUE
      /\ \A q \in Requests : faulted[q] => faulted'[q]
  BY DEF IInv, TypeOK, Keyed, Waiting, LoseReply
<1>2. CASE RunExpire(r) /\ UNCHANGED draws
  <2>1. /\ \A k \in Keys : store'[k].val = store[k].val
        /\ store[key[r]].val # NoValue => store'[key[r]].ttl
        /\ \A k \in Keys \ {key[r]} : store'[k] = store[k]
    BY <1>1, <1>2, RunExpireEffect DEF IInv
  <2>2. TicketsCounted' /\ TicketsDistinct' /\ CounterDrawn' /\ TicketsDrawn'
    BY <1>1, <1>2, <2>1, CountsStay
  <2>3. Untouched' /\ Keyed' /\ VerdictsRight'
    BY <1>1, <1>2 DEF IInv, Untouched, Keyed, VerdictsRight
  <2>4. UndatedKeyHasCause'
    <3> SUFFICES ASSUME NEW k \in Keys, store'[k].val # NoValue, ~store'[k].ttl
                 PROVE  \E q \in Requests :
                          /\ key[q] = k /\ <<lives[k], 1>> \in draws[q]
                          /\ pc[q] = "expire" \/ faulted'[q]
      BY <1>1, <1>2 DEF UndatedKeyHasCause
    <3>1. store[k].val # NoValue /\ ~store[k].ttl
      BY <1>1, <2>1
    <3> QED
      BY <1>1, <3>1 DEF IInv, UndatedKeyHasCause
  <2> QED
    BY <2>2, <2>3, <2>4 DEF IInv
<1>3. CASE RunIncr(r)
  <2>1. TypeOK /\ IncrEffect(r)
    BY <1>1, <1>3, RunIncrEffect DEF IInv
  <2>2. \A q \in Requests : draws[q] \subseteq draws'[q]
    BY <2>1 DEF IncrEffect
  <2>3. Untouched' /\ Keyed' /\ VerdictsRight'
    BY <1>1, <2>1 DEF IncrEffect, IInv, Untouched, Keyed, VerdictsRight
  <2>4. TicketsDistinct' /\ TicketsDrawn'
    BY <1>1, <2>2 DEF IInv, TicketsDistinct, TicketsDrawn, Drawn
  <2>5. CounterDrawn'
    BY <1>1, <2>1, RunIncrCounterDrawn DEF IInv
  <2>6. TicketsCounted'
    <3> SUFFICES ASSUME NEW q \in Requests, ticket[q] > 0
                 PROVE  /\ window[q] <= lives[key[q]]
                        /\ window[q] = lives[key[q]] =>
                             /\ store'[key[q]].val # NoValue
                             /\ ticket[q] <= store'[key[q]].val
      BY <1>1 DEF TicketsCounted
    <3>1. /\ key[q] \in Keys /\ window[q] <= lives[key[q]] /\ ticket[q] \in Nat
          /\ window[q] = lives[key[q]] =>
               store[key[q]].val # NoValue /\ ticket[q] <= store[key[q]].val
      BY DEF IInv, TypeOK, Keyed, TicketsCounted
    <3> QED
      BY <2>1, <3>1 DEF IncrEffect
  <2>7. UndatedKeyHasCause'
    <3> SUFFICES ASSUME NEW k \in Keys, store'[k].val # NoValue, ~store'[k].ttl
                 PROVE  \E q \in Requests :
                          /\ key[q] = k /\ <<lives[k], 1>> \in draws'[q]
                          /\ pc[q] = "expire" \/ faulted'[q]
      BY <1>1 DEF UndatedKeyHasCause
    <3>1. CASE k = key[r] /\ store[k].val = NoValue
      BY <1>1, <2>1, <3>1 DEF IncrEffect
    <3>2. CASE ~(k = key[r] /\ store[k].val = NoValue)
      <4>1. store[k].val # NoValue /\ ~store[k].ttl
        BY <2>1, <3>2 DEF IncrEffect
      <4>2. PICK q \in Requests :
              /\ key[q] = k /\ <<lives[k], 1>> \in draws[q]
              /\ pc[q] = "expire" \/ faulted[q]
        BY <4>1 DEF IInv, UndatedKeyHasCause
      <4> QED
        BY <1>1, <2>2, <4>2
    <3> QED
      BY <3>1, <3>2
  <2> QED
    BY <2>3, <2>4, <2>5, <2>6, <2>7 DEF IInv
<1> QED
  BY <1>2, <1>3 DEF LoseReply

(* The window of k is over: its counter is gone, and the life it counts    *)
(* from now on is above every window a call has been given.                *)
LEMMA KeyExpiresIInv ==
  ASSUME IInv, TypeOK', NEW k \in Keys, KeyExpires(k)
  PROVE  IInv'
<1>1. /\ UNCHANGED <<pc, key, ticket, window, draws, faulted>>
      /\ store'[k].val = NoValue /\ lives'[k] = lives[k] + 1
      /\ \A j \in Keys \ {k} : store'[j] = store[j] /\ lives'[j] = lives[j]
  BY NoEntryType DEF IInv, TypeOK, KeyExpires
<1>2. Untouched' /\ Keyed' /\ VerdictsRight' /\ TicketsDistinct' /\ TicketsDrawn'
  BY <1>1 DEF IInv, Untouched, Keyed, VerdictsRight, TicketsDistinct, TicketsDrawn,
              Drawn
<1>3. TicketsCounted'
  <2> SUFFICES ASSUME NEW q \in Requests, ticket[q] > 0
               PROVE  /\ window[q] <= lives'[key[q]]
                      /\ window[q] = lives'[key[q]] =>
                           /\ store'[key[q]].val # NoValue
                           /\ ticket[q] <= store'[key[q]].val
    BY <1>1 DEF TicketsCounted
  <2>1. /\ key[q] \in Keys /\ window[q] <= lives[key[q]]
        /\ window[q] \in Nat /\ lives[key[q]] \in Nat
        /\ window[q] = lives[key[q]] =>
             store[key[q]].val # NoValue /\ ticket[q] <= store[key[q]].val
    BY DEF IInv, TypeOK, Keyed, TicketsCounted
  <2> QED
    BY <1>1, <2>1
<1>4. CounterDrawn' /\ UndatedKeyHasCause'
  BY <1>1 DEF IInv, CounterDrawn, Drawn, UndatedKeyHasCause
<1> QED
  BY <1>2, <1>3, <1>4 DEF IInv

(* Every step of the guard, of Redis and of the faults keeps the inductive *)
(* invariant.                                                              *)
LEMMA NextIInv == IInv /\ [Next]_vars => IInv'
<1> SUFFICES ASSUME IInv, [Next]_vars
             PROVE  IInv'
  OBVIOUS
<1>1. TypeOK'
  BY NextTypeOK DEF IInv
<1>2. CASE UNCHANGED vars
  <2>1. TicketsCounted' /\ TicketsDistinct' /\ CounterDrawn' /\ TicketsDrawn'
    BY <1>2, CountsStay DEF vars
  <2>2. Untouched' /\ Keyed' /\ VerdictsRight' /\ UndatedKeyHasCause'
    BY <1>2 DEF vars, IInv, Untouched, Keyed, VerdictsRight, UndatedKeyHasCause
  <2> QED
    BY <1>1, <2>1, <2>2 DEF IInv
<1>3. CASE Next
  BY <1>1, <1>2, <1>3, VerifyProbeIInv, VerifyRateLimitIInv, IncrementIInv, ExpireIInv,
     DecideIInv, RedisErrorIInv, LoseReplyIInv, CrashIInv, KeyExpiresIInv
     DEF Next, Step, Done
<1> QED
  BY <1>2, <1>3

(***************************************************************************)
(* What the inductive invariant says of the properties                     *)
(***************************************************************************)

(* Calls admitted in one window hold distinct numbers, all from 1 to       *)
(* MaxLimit: that is an injection, so there are at most MaxLimit of them.  *)
LEMMA IInvQuota == IInv => WindowQuota
<1> SUFFICES ASSUME IInv, NEW k \in Keys, NEW r \in Requests
             PROVE  Cardinality(Admitted(k, window[r])) <= MaxLimit
  BY DEF WindowQuota
<1> DEFINE A == Admitted(k, window[r])
           number == [q \in A |-> ticket[q]]
<1>1. \A q \in A : ticket[q] \in 1..MaxLimit
  BY MaxLimitAssumption DEF Admitted, IInv, TypeOK, VerdictsRight
<1>2. \A p, q \in A : ticket[p] = ticket[q] => p = q
  BY DEF Admitted, IInv, TicketsDistinct
<1>3. number \in Injection(A, 1..MaxLimit)
  <2>1. number \in [A -> 1..MaxLimit]
    BY <1>1
  <2>2. IsInjective(number)
    BY <1>2 DEF IsInjective
  <2> QED
    BY <2>1, <2>2 DEF Injection
<1>4. IsFiniteSet(1..MaxLimit) /\ Cardinality(1..MaxLimit) = MaxLimit
  BY MaxLimitAssumption, FS_Interval
<1> HIDE DEF A, number
<1>5. Cardinality(A) <= MaxLimit
  BY <1>3, <1>4, FS_Injection
<1> QED
  BY <1>5 DEF A

(* A rejected call holds a number above MaxLimit, and all numbers up to it *)
(* are on record.                                                          *)
LEMMA IInvRejection == IInv => RejectionIsEarned
<1> SUFFICES ASSUME IInv, NEW r \in Requests, pc[r] = "rejected",
                    NEW n \in 1..(MaxLimit + 1)
             PROVE  \E q \in Requests : key[q] = key[r] /\ <<window[r], n>> \in draws[q]
  BY DEF RejectionIsEarned
<1>1. n \in 1..ticket[r]
  BY MaxLimitAssumption DEF IInv, TypeOK, VerdictsRight
<1> QED
  BY <1>1 DEF IInv, TicketsDrawn, Drawn

(***************************************************************************)
(* The theorems                                                            *)
(***************************************************************************)
(* The inductive invariant of verifyRateLimit holds in every reachable     *)
(* state.                                                                  *)
THEOREM Invariance == Spec => []IInv
  BY InitIInv, NextIInv, PTL DEF Spec

(* The state of the guard and of its counters stays well typed: counters   *)
(* are positive while their key exists, and a call has a number in Nat.    *)
THEOREM TypeCorrect == Spec => []TypeOK
<1>1. IInv => TypeOK
  BY DEF IInv
<1> QED
  BY Invariance, <1>1, PTL

(* verifyRateLimit lets at most MAX_LIMIT counted requests of a client     *)
(* through in one window, for any number of requests, clients, servers and *)
(* faults.                                                                 *)
THEOREM QuotaHolds == Spec => []WindowQuota
  BY Invariance, IInvQuota, PTL

(* verifyRateLimit answers 429 only to a request in whose window more than *)
(* MAX_LIMIT numbers of its key have been drawn.                           *)
THEOREM RejectionsAreEarned == Spec => []RejectionIsEarned
  BY Invariance, IInvRejection, PTL

(* A counter that would never be reset has one cause only: the call that   *)
(* created it was hit by a fault before its EXPIRE ran.                    *)
THEOREM UndatedKeysHaveCause == Spec => []UndatedKeyHasCause
<1>1. IInv => UndatedKeyHasCause
  BY DEF IInv
<1> QED
  BY Invariance, <1>1, PTL

(***************************************************************************)
(* The window is fixed                                                     *)
(***************************************************************************)
(* Only a key that exists has an expiry, a fault never hits a call before  *)
(* it begins, and a call about to send EXPIRE drew the 1 of the open,      *)
(* undated window of its key, unless a fault has hit a call of that key.   *)
DatedExists == \A k \in Keys : store[k].ttl => store[k].val # NoValue

FaultsInCalls == \A r \in Requests : faulted[r] => pc[r] # "new"

FaultyKey(r) == \E q \in Requests : key[q] = key[r] /\ faulted[q]

CreatorExpires == \A r \in Requests :
  pc[r] = "expire" =>
    \/ /\ ticket[r] = 1 /\ window[r] = lives[key[r]]
       /\ ~store[key[r]].ttl
    \/ FaultyKey(r)

WInv == IInv /\ DatedExists /\ FaultsInCalls /\ CreatorExpires

(* No key exists and no call has begun.                                    *)
LEMMA InitWInv == Init => WInv
  BY InitIInv, NoEntryType
     DEF Init, WInv, DatedExists, FaultsInCalls, CreatorExpires, NoEntry

(* Every step keeps the two simple facts.                                  *)
LEMMA NextDated ==
  ASSUME WInv, [Next]_vars
  PROVE  DatedExists' /\ FaultsInCalls'
<1> USE DEF Goto
<1>1. ASSUME NEW r \in Requests, key[r] \in Keys, RunIncr(r)
      PROVE  DatedExists'
  BY <1>1, RunIncrEffect DEF WInv, IInv, IncrEffect, DatedExists
<1>2. ASSUME NEW r \in Requests, key[r] \in Keys, RunExpire(r)
      PROVE  DatedExists'
  BY <1>2 DEF WInv, IInv, TypeOK, RunExpire, ExpireEntry, DatedExists
<1>3. ASSUME NEW k \in Keys, KeyExpires(k)
      PROVE  DatedExists'
  BY <1>3, NoEntryType DEF WInv, IInv, TypeOK, KeyExpires, NoEntry, DatedExists
<1>4. ASSUME UNCHANGED store
      PROVE  DatedExists'
  BY <1>4 DEF WInv, DatedExists
<1>5. DatedExists'
  BY <1>1, <1>2, <1>3, <1>4
     DEF WInv, IInv, Keyed, Waiting, Next, Step, Done, vars, VerifyProbe,
         VerifyRateLimit, Increment, Expire, Decide, RedisError, LoseReply, Crash
<1>6. FaultsInCalls'
  BY DEF WInv, IInv, TypeOK, FaultsInCalls, Next, Step, Done, vars, VerifyProbe,
         VerifyRateLimit, Increment, AfterIncr, Expire, Decide, Verdict, RedisError,
         LoseReply, Crash, KeyExpires, Waiting
<1> QED
  BY <1>5, <1>6

(* INCR answers 1 only when it creates the key, and then without expiry;   *)
(* two calls of one window cannot both hold the 1, so no other call's      *)
(* EXPIRE dates the key while its creator is about to.                     *)
LEMMA NextCreator ==
  ASSUME WInv, [Next]_vars
  PROVE  CreatorExpires'
<1> SUFFICES ASSUME NEW q \in Requests, pc'[q] = "expire",
                    ~\E p \in Requests : key'[p] = key'[q] /\ faulted'[p]
             PROVE  /\ ticket'[q] = 1 /\ window'[q] = lives'[key'[q]]
                    /\ ~store'[key'[q]].ttl
  BY DEF CreatorExpires, FaultyKey
<1> USE DEF Goto
<1>1. ASSUME NEW r \in Requests, Increment(r)
      PROVE  /\ ticket'[q] = 1 /\ window'[q] = lives'[key'[q]]
             /\ ~store'[key'[q]].ttl
  <2>1. key[r] \in Keys /\ IncrEffect(r) /\ UNCHANGED <<key, lives, faulted>>
    BY <1>1, RunIncrEffect DEF Increment, WInv, IInv, Keyed, Waiting
  <2>2. CASE q = r
    <3>1. ticket'[r] = store'[key[r]].val /\ window'[r] = lives[key[r]]
      BY <1>1 DEF Increment, WInv, IInv, TypeOK
    <3>2. ticket'[r] = 1
      BY <1>1, <2>2 DEF Increment, AfterIncr, WInv, IInv, TypeOK
    <3>3. store[key[r]].val = NoValue
      BY <2>1, <3>1, <3>2 DEF IncrEffect, WInv, IInv, CounterDrawn, TypeOK, Entry
    <3>4. ~store[key[r]].ttl
      BY <2>1, <3>3 DEF WInv, DatedExists
    <3> QED
      BY <2>1, <2>2, <3>1, <3>2, <3>4 DEF IncrEffect
  <2>3. CASE q # r
    <3>1. pc[q] = "expire" /\ ticket'[q] = ticket[q] /\ window'[q] = window[q]
      BY <1>1, <2>3 DEF Increment, WInv, IInv, TypeOK
    <3>2. ticket[q] = 1 /\ window[q] = lives[key[q]] /\ ~store[key[q]].ttl
      BY <2>1, <3>1 DEF WInv, CreatorExpires, FaultyKey
    <3>3. key[q] \in Keys
      BY <3>1 DEF WInv, IInv, Keyed, Waiting
    <3> QED
      BY <2>1, <3>1, <3>2, <3>3 DEF IncrEffect
  <2> QED
    BY <2>2, <2>3
<1>2. ASSUME NEW r \in Requests, Expire(r)
      PROVE  /\ ticket'[q] = 1 /\ window'[q] = lives'[key'[q]]
             /\ ~store'[key'[q]].ttl
  <2>1. /\ pc[r] = "expire" /\ key[r] \in Keys /\ RunExpire(r)
        /\ UNCHANGED <<key, ticket, window, lives, faulted>>
        /\ q # r /\ pc[q] = "expire"
    BY <1>2 DEF Expire, WInv, IInv, TypeOK, Keyed, Waiting
  <2>2. ticket[q] = 1 /\ window[q] = lives[key[q]] /\ ~store[key[q]].ttl
    BY <2>1 DEF WInv, CreatorExpires, FaultyKey
  <2>3. key[q] # key[r]
    <3> SUFFICES ASSUME key[q] = key[r]
                 PROVE  FALSE
      OBVIOUS
    <3>1. ticket[r] = 1 /\ window[r] = lives[key[r]]
      BY <2>1 DEF WInv, CreatorExpires, FaultyKey
    <3> QED
      BY <2>1, <2>2, <3>1 DEF WInv, IInv, TicketsDistinct
  <2>4. store'[key[q]] = store[key[q]]
    BY <2>1, <2>3, RunExpireEffect DEF WInv, IInv, Keyed, Waiting
  <2> QED
    BY <2>1, <2>2, <2>4
<1>3. ASSUME NEW r \in Requests, LoseReply(r)
      PROVE  /\ ticket'[q] = 1 /\ window'[q] = lives'[key'[q]]
             /\ ~store'[key'[q]].ttl
  <2>1. /\ UNCHANGED <<pc, key, ticket, window, lives>>
        /\ faulted'[r] /\ \A p \in Requests : faulted[p] => faulted'[p]
        /\ key[r] \in Keys /\ pc[q] = "expire"
    BY <1>3 DEF LoseReply, WInv, IInv, TypeOK, Keyed, Waiting
  <2>2. key[q] # key[r] /\ ~FaultyKey(q)
    BY <2>1 DEF FaultyKey
  <2>3. ticket[q] = 1 /\ window[q] = lives[key[q]] /\ ~store[key[q]].ttl
    BY <2>1, <2>2 DEF WInv, CreatorExpires
  <2>4. key[q] \in Keys
    BY <2>1 DEF WInv, IInv, Keyed, Waiting
  <2>5. store'[key[q]] = store[key[q]]
    BY <1>3, <2>1, <2>2, <2>4, RunExpireEffect, RunIncrEffect
       DEF LoseReply, WInv, IInv, IncrEffect
  <2> QED
    BY <2>1, <2>3, <2>5
<1>4. ASSUME NEW k \in Keys, KeyExpires(k)
      PROVE  /\ ticket'[q] = 1 /\ window'[q] = lives'[key'[q]]
             /\ ~store'[key'[q]].ttl
  <2>1. /\ UNCHANGED <<pc, key, ticket, window, faulted>> /\ store[k].ttl
        /\ \A j \in Keys \ {k} : store'[j] = store[j] /\ lives'[j] = lives[j]
    BY <1>4 DEF KeyExpires, WInv, IInv, TypeOK
  <2>2. ticket[q] = 1 /\ window[q] = lives[key[q]] /\ ~store[key[q]].ttl
    BY <2>1 DEF WInv, CreatorExpires, FaultyKey
  <2>3. key[q] \in Keys
    BY <2>1 DEF WInv, IInv, Keyed, Waiting
  <2> QED
    BY <2>1, <2>2, <2>3
<1>5. ASSUME UNCHANGED <<store, ticket, window, lives>>, pc[q] = "expire",
             key'[q] = key[q], \A p \in Requests : faulted[p] => faulted'[p] /\ key'[p] = key[p]
      PROVE  /\ ticket'[q] = 1 /\ window'[q] = lives'[key'[q]]
             /\ ~store'[key'[q]].ttl
  BY <1>5 DEF WInv, CreatorExpires, FaultyKey
<1>6. ASSUME NEW r \in Requests,
             \/ VerifyProbe(r) \/ (\E ip \in Ips : VerifyRateLimit(r, ip))
             \/ Decide(r) \/ RedisError(r) \/ Crash(r)
      PROVE  /\ ticket'[q] = 1 /\ window'[q] = lives'[key'[q]]
             /\ ~store'[key'[q]].ttl
  <2>1. pc[q] = "expire" /\ q # r /\ key'[q] = key[q]
    BY <1>6 DEF VerifyProbe, VerifyRateLimit, Decide, Verdict, RedisError, Crash,
                WInv, IInv, TypeOK
  <2>2. \A p \in Requests : faulted[p] => faulted'[p] /\ key'[p] = key[p]
    BY <1>6 DEF VerifyProbe, VerifyRateLimit, Decide, RedisError, Crash,
                WInv, IInv, TypeOK, FaultsInCalls
  <2>3. UNCHANGED <<store, window, lives>> /\ ticket' = ticket
    BY <1>6 DEF VerifyProbe, VerifyRateLimit, Decide, RedisError, CacheFailure, Crash,
                WInv, IInv, TypeOK, Untouched
  <2> QED
    BY <1>5, <2>1, <2>2, <2>3
<1>7. CASE UNCHANGED vars
  BY <1>5, <1>7 DEF vars
<1> QED
  BY <1>1, <1>2, <1>3, <1>4, <1>6, <1>7 DEF Next, Step, Done

(* EXPIRE meets an undated key, or one that a fault has touched.           *)
LEMMA ExpireMeetsUndated ==
  ASSUME WInv, NEW r \in Requests, Expire(r)
  PROVE  \/ ~store[key[r]].ttl
         \/ \E q \in Requests : key[q] = key[r] /\ faulted[q]
  BY DEF WInv, CreatorExpires, FaultyKey, Expire

(* The window is fixed: whatever the traffic of a client, only a command   *)
(* sent again after a lost answer ever prolongs the life of its counter.   *)
THEOREM WindowsNotExtended == Spec => WindowNotExtended
<1>1. WInv /\ [Next]_vars => WInv'
  BY NextIInv, NextDated, NextCreator DEF WInv
<1>2. WInv /\ [Next]_vars =>
        [\A r \in Requests : Expire(r) =>
           \/ ~store[key[r]].ttl
           \/ \E q \in Requests : key[q] = key[r] /\ faulted[q]]_vars
  BY ExpireMeetsUndated
<1> QED
  BY InitWInv, <1>1, <1>2, PTL DEF Spec, WindowNotExtended
=============================================================================
