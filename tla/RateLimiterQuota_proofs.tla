----------------------- MODULE RateLimiterQuota_proofs -----------------------
(***************************************************************************)
(* RateLimiter implements RequestQuota, for every set of calls, addresses  *)
(* and keys, every limit and every mix of the faults.  Each step of a call *)
(* or of Redis is shown to be a step of the quota or a stutter; what the   *)
(* quota guards with cardinalities of its charges and admissions is        *)
(* counted here from the numbers the calls drew.                           *)
(***************************************************************************)
EXTENDS RateLimiter_proofs

(* The abstract state, by the names RequestQuota gives it.                 *)
Charges == UNION {{<<key[r], d[1], d[2]>> : d \in draws[r]} : r \in Requests}
AdmittedCalls ==
  {<<key[r], window[r], r>> : r \in {q \in Requests : pc[q] = "passed" /\ ticket[q] > 0}}
Verdicts == [r \in Requests |-> VerdictOf(r)]

(* Nothing is drawn in a window to come, and nothing in the open one above *)
(* its counter.                                                            *)
DrawsCounted == \A q \in Requests : \A w, n \in Nat :
  <<w, n>> \in draws[q] =>
    /\ key[q] \in Keys
    /\ w <= lives[key[q]]
    /\ w = lives[key[q]] => store[key[q]].val # NoValue /\ n <= store[key[q]].val

(* The numbers drawn in one window are bounded, so they are finitely many  *)
(* although the calls need not be.                                         *)
WindowsBounded == \A k \in Keys, w \in Nat : \E m \in Nat :
  \A q \in Requests, n \in Nat :
    key[q] = k /\ <<w, n>> \in draws[q] => n <= m

QInv == IInv /\ DrawsCounted /\ WindowsBounded

(***************************************************************************)
(* The strengthened invariant                                              *)
(***************************************************************************)
(* No number is drawn before the first call.                               *)
LEMMA InitQInv == Init => QInv
<1> SUFFICES ASSUME Init
             PROVE  QInv
  OBVIOUS
<1>1. \A q \in Requests : draws[q] = {}
  BY DEF Init
<1>2. DrawsCounted
  BY <1>1 DEF DrawsCounted
<1>3. WindowsBounded
  <2>1. 0 \in Nat
    OBVIOUS
  <2> QED
    BY <1>1, <2>1 DEF WindowsBounded
<1> QED
  BY InitIInv, <1>2, <1>3 DEF QInv

(* The records, and the two facts about them, stay when no INCR runs and   *)
(* no counter changes; a call that has drawn nothing may take a key.       *)
LEMMA RecordsStay ==
  ASSUME QInv, UNCHANGED <<lives, draws>>,
         \A q \in Requests : draws[q] # {} => key'[q] = key[q],
         \A k \in Keys : store'[k].val = store[k].val
  PROVE  DrawsCounted' /\ WindowsBounded'
<1>1. \A q \in Requests : \A w, n \in Nat : <<w, n>> \in draws[q] => key'[q] = key[q]
  OBVIOUS
<1>2. DrawsCounted'
  BY <1>1 DEF QInv, DrawsCounted
<1>3. WindowsBounded'
  <2> SUFFICES ASSUME NEW k \in Keys, NEW w \in Nat
               PROVE  \E m \in Nat : \A q \in Requests, n \in Nat :
                        key'[q] = k /\ <<w, n>> \in draws[q] => n <= m
    BY DEF WindowsBounded
  <2>1. PICK m \in Nat : \A q \in Requests, n \in Nat :
          key[q] = k /\ <<w, n>> \in draws[q] => n <= m
    BY DEF QInv, WindowsBounded
  <2> QED
    BY <1>1, <2>1
<1> QED
  BY <1>2, <1>3

(* What one INCR adds to the records of its own call: the new value of the *)
(* counter, in the open window.                                            *)
LEMMA RunIncrDraws ==
  ASSUME TypeOK, NEW r \in Requests, key[r] \in Keys, RunIncr(r)
  PROVE  draws'[r] = draws[r] \cup {<<lives[key[r]], store'[key[r]].val>>}
  BY DEF TypeOK, RunIncr

(* One INCR keeps both facts: its number is the counter itself.            *)
LEMMA RunIncrRecords ==
  ASSUME QInv, NEW r \in Requests, key[r] \in Keys, RunIncr(r), UNCHANGED <<key, lives>>
  PROVE  DrawsCounted' /\ WindowsBounded'
<1> DEFINE k == key[r]
           v == store'[k].val
<1>1. TypeOK /\ IncrEffect(r)
  BY RunIncrEffect DEF QInv, IInv
<1>2. /\ draws'[r] = draws[r] \cup {<<lives[k], v>>}
      /\ \A q \in Requests \ {r} : draws'[q] = draws[q]
  BY <1>1, RunIncrDraws DEF IncrEffect
<1>3. /\ v \in Nat /\ v # NoValue /\ lives[k] \in Nat /\ k \in Keys
      /\ store[k].val # NoValue => store[k].val \in Nat /\ v = store[k].val + 1
      /\ \A j \in Keys \ {k} : store'[j] = store[j]
  BY <1>1 DEF IncrEffect, TypeOK
<1> HIDE DEF k, v
<1>4. DrawsCounted'
  <2> SUFFICES ASSUME NEW q \in Requests, NEW w \in Nat, NEW n \in Nat,
                      <<w, n>> \in draws'[q]
               PROVE  /\ key[q] \in Keys
                      /\ w <= lives[key[q]]
                      /\ w = lives[key[q]] =>
                           store'[key[q]].val # NoValue /\ n <= store'[key[q]].val
    BY DEF DrawsCounted
  <2>1. CASE <<w, n>> \in draws[q]
    <3>1. /\ key[q] \in Keys /\ w <= lives[key[q]]
          /\ w = lives[key[q]] =>
               store[key[q]].val # NoValue /\ n <= store[key[q]].val
      BY <2>1 DEF QInv, DrawsCounted
    <3>2. CASE key[q] = k
      BY <1>3, <3>1, <3>2 DEF v
    <3>3. CASE key[q] # k
      BY <1>3, <3>1, <3>3
    <3> QED
      BY <3>2, <3>3
  <2>2. CASE q = r /\ w = lives[k] /\ n = v
    BY <1>3, <2>2 DEF k, v
  <2> QED
    BY <1>2, <2>1, <2>2
<1>5. WindowsBounded'
  <2> SUFFICES ASSUME NEW j \in Keys, NEW w \in Nat
               PROVE  \E m \in Nat : \A q \in Requests, n \in Nat :
                        key[q] = j /\ <<w, n>> \in draws'[q] => n <= m
    BY DEF WindowsBounded
  <2>1. PICK m \in Nat : \A q \in Requests, n \in Nat :
          key[q] = j /\ <<w, n>> \in draws[q] => n <= m
    BY DEF QInv, WindowsBounded
  <2>2. \A q \in Requests, n \in Nat :
          key[q] = j /\ <<w, n>> \in draws'[q] => n <= m + v
    <3> SUFFICES ASSUME NEW q \in Requests, NEW n \in Nat,
                        key[q] = j, <<w, n>> \in draws'[q]
                 PROVE  n <= m + v
      OBVIOUS
    <3>1. <<w, n>> \in draws[q] \/ n = v
      BY <1>2
    <3>2. CASE <<w, n>> \in draws[q]
      <4>1. n <= m
        BY <2>1, <3>2
      <4> QED
        BY <1>3, <4>1
    <3> QED
      BY <1>3, <3>1, <3>2
  <2>3. m + v \in Nat
    BY <1>3
  <2> QED
    BY <2>2, <2>3
<1> QED
  BY <1>4, <1>5

(* Every step keeps the strengthened invariant.                            *)
LEMMA NextQInv == QInv /\ [Next]_vars => QInv'
<1> SUFFICES ASSUME QInv, [Next]_vars
             PROVE  DrawsCounted' /\ WindowsBounded'
  BY NextIInv DEF QInv
<1> USE DEF Goto
<1>1. ASSUME NEW r \in Requests, VerifyProbe(r)
      PROVE  DrawsCounted' /\ WindowsBounded'
  BY <1>1, RecordsStay DEF VerifyProbe
<1>2. ASSUME NEW r \in Requests, NEW ip \in Ips, VerifyRateLimit(r, ip)
      PROVE  DrawsCounted' /\ WindowsBounded'
  <2>1. \A q \in Requests : draws[q] # {} => key'[q] = key[q]
    BY <1>2 DEF QInv, IInv, TypeOK, Untouched, VerifyRateLimit
  <2> QED
    BY <1>2, <2>1, RecordsStay DEF VerifyRateLimit
<1>3. ASSUME NEW r \in Requests, Increment(r)
      PROVE  DrawsCounted' /\ WindowsBounded'
  BY <1>3, RunIncrRecords DEF QInv, IInv, Keyed, Waiting, Increment
<1>4. ASSUME NEW r \in Requests, key[r] \in Keys, RunExpire(r),
             UNCHANGED <<key, lives, draws>>
      PROVE  DrawsCounted' /\ WindowsBounded'
  <2>1. \A k \in Keys : store'[k].val = store[k].val
    BY <1>4, RunExpireEffect DEF QInv, IInv
  <2> QED
    BY <1>4, <2>1, RecordsStay
<1>5. ASSUME NEW r \in Requests, Expire(r)
      PROVE  DrawsCounted' /\ WindowsBounded'
  BY <1>4, <1>5 DEF QInv, IInv, Keyed, Waiting, Expire
<1>6. ASSUME NEW r \in Requests, Decide(r)
      PROVE  DrawsCounted' /\ WindowsBounded'
  BY <1>6, RecordsStay DEF Decide
<1>7. ASSUME NEW r \in Requests, RedisError(r)
      PROVE  DrawsCounted' /\ WindowsBounded'
  BY <1>7, RecordsStay DEF RedisError
<1>8. ASSUME NEW r \in Requests, LoseReply(r)
      PROVE  DrawsCounted' /\ WindowsBounded'
  <2>1. key[r] \in Keys /\ UNCHANGED <<key, lives>>
    BY <1>8 DEF QInv, IInv, Keyed, Waiting, LoseReply
  <2> QED
    BY <1>4, <1>8, <2>1, RunIncrRecords DEF LoseReply
<1>9. ASSUME NEW r \in Requests, Crash(r)
      PROVE  DrawsCounted' /\ WindowsBounded'
  BY <1>9, RecordsStay DEF Crash
<1>10. ASSUME NEW k \in Keys, KeyExpires(k)
       PROVE  DrawsCounted' /\ WindowsBounded'
  <2>1. /\ UNCHANGED <<key, draws>>
        /\ lives'[k] = lives[k] + 1 /\ lives[k] \in Nat
        /\ \A j \in Keys \ {k} : store'[j] = store[j] /\ lives'[j] = lives[j]
    BY <1>10 DEF QInv, IInv, TypeOK, KeyExpires
  <2>2. DrawsCounted'
    <3> SUFFICES ASSUME NEW q \in Requests, NEW w \in Nat, NEW n \in Nat,
                        <<w, n>> \in draws[q]
                 PROVE  /\ key[q] \in Keys
                        /\ w <= lives'[key[q]]
                        /\ w = lives'[key[q]] =>
                             store'[key[q]].val # NoValue /\ n <= store'[key[q]].val
      BY <2>1 DEF DrawsCounted
    <3>1. /\ key[q] \in Keys /\ w <= lives[key[q]]
          /\ w = lives[key[q]] =>
               store[key[q]].val # NoValue /\ n <= store[key[q]].val
      BY DEF QInv, DrawsCounted
    <3> QED
      BY <2>1, <3>1
  <2>3. WindowsBounded'
    BY <2>1 DEF QInv, WindowsBounded
  <2> QED
    BY <2>2, <2>3
<1>11. CASE UNCHANGED vars
  BY <1>11, RecordsStay DEF vars
<1> QED
  BY <1>1, <1>2, <1>3, <1>5, <1>6, <1>7, <1>8, <1>9, <1>10, <1>11
     DEF Next, Step, Done

(* The strengthened invariant holds in every reachable state.              *)
LEMMA StrongInvariance == Spec => []QInv
  BY InitQInv, NextQInv, PTL DEF Spec

(***************************************************************************)
(* Counting charges and admissions                                         *)
(***************************************************************************)
(* A charge is a number on the record of a call.                           *)
LEMMA ChargesAreDraws ==
  ASSUME TypeOK
  PROVE  /\ \A k, w, n : <<k, w, n>> \in Charges <=> Drawn(k, w, n)
         /\ \A c \in Charges : /\ c = <<c[1], c[2], c[3]>>
                               /\ c[2] \in Nat /\ c[3] \in Nat \ {0}
<1>1. \A q \in Requests : \A d \in draws[q] :
        d = <<d[1], d[2]>> /\ d[1] \in Nat /\ d[2] \in Nat \ {0}
  BY DEF TypeOK
<1>2. ASSUME NEW k, NEW w, NEW n
      PROVE  <<k, w, n>> \in Charges <=> Drawn(k, w, n)
  <2>1. <<k, w, n>> \in Charges <=>
          \E q \in Requests : \E d \in draws[q] : <<k, w, n>> = <<key[q], d[1], d[2]>>
    BY DEF Charges
  <2>2. ASSUME NEW q \in Requests, <<w, n>> \in draws[q]
        PROVE  \E d \in draws[q] : d[1] = w /\ d[2] = n
    <3> DEFINE d == <<w, n>>
    <3>1. d \in draws[q] /\ d[1] = w /\ d[2] = n
      BY <2>2
    <3> QED
      BY <3>1
  <2> QED
    BY <1>1, <2>1, <2>2 DEF Drawn
<1>3. ASSUME NEW c \in Charges
      PROVE  c = <<c[1], c[2], c[3]>> /\ c[2] \in Nat /\ c[3] \in Nat \ {0}
  <2>1. PICK q \in Requests : \E d \in draws[q] : c = <<key[q], d[1], d[2]>>
    BY DEF Charges
  <2> QED
    BY <1>1, <2>1
<1> QED
  BY <1>2, <1>3

(* The charges numbered 1 to m of window w of k.                           *)
FirstCharges(k, w, m) == {<<k, w, n>> : n \in 1..m}

(* There are m of them.                                                    *)
LEMMA FirstChargesCount ==
  ASSUME NEW k, NEW w, NEW m \in Nat
  PROVE  /\ IsFiniteSet(FirstCharges(k, w, m))
         /\ Cardinality(FirstCharges(k, w, m)) = m
<1> DEFINE S == FirstCharges(k, w, m)
           f == [n \in 1..m |-> <<k, w, n>>]
<1>1. f \in Bijection(1..m, S)
  <2>1. f \in Injection(1..m, S)
    BY DEF FirstCharges, Injection, IsInjective
  <2>2. f \in Surjection(1..m, S)
    BY DEF FirstCharges, Surjection
  <2> QED
    BY <2>1, <2>2 DEF Bijection
<1>2. ExistsBijection(1..m, S)
  BY <1>1 DEF ExistsBijection
<1>3. IsFiniteSet(1..m) /\ Cardinality(1..m) = m
  BY FS_Interval
<1> QED
  BY <1>2, <1>3, FS_Bijection

(* A window has made finitely many charges.                                *)
LEMMA ChargesFinite ==
  ASSUME QInv, NEW k \in Keys, NEW w \in Nat
  PROVE  IsFiniteSet({c \in Charges : c[1] = k /\ c[2] = w})
<1> DEFINE C == {c \in Charges : c[1] = k /\ c[2] = w}
<1>1. PICK m \in Nat : \A q \in Requests, n \in Nat :
        key[q] = k /\ <<w, n>> \in draws[q] => n <= m
  BY DEF QInv, WindowsBounded
<1> DEFINE S == FirstCharges(k, w, m)
<1>2. ASSUME NEW c \in C
      PROVE  c \in S
  <2>1. c = <<k, w, c[3]>> /\ c[3] \in Nat \ {0} /\ c \in Charges
    BY ChargesAreDraws DEF QInv, IInv
  <2>2. Drawn(k, w, c[3])
    BY <2>1, ChargesAreDraws DEF QInv, IInv
  <2>3. c[3] <= m
    BY <1>1, <2>1, <2>2 DEF Drawn
  <2> QED
    BY <2>1, <2>3 DEF FirstCharges
<1>3. IsFiniteSet(S)
  BY FirstChargesCount
<1> HIDE DEF S, C
<1>4. IsFiniteSet(C)
  BY <1>2, <1>3, FS_Subset
<1> QED
  BY <1>4 DEF C

(* The open window has charged as many as its counter says, and the next   *)
(* INCR answers one more.                                                  *)
LEMMA OpenWindowCount ==
  ASSUME QInv, NEW r \in Requests, key[r] \in Keys, RunIncr(r)
  PROVE  store'[key[r]].val =
           Cardinality({c \in Charges : c[1] = key[r] /\ c[2] = lives[key[r]]}) + 1
<1> DEFINE k == key[r]
           w == lives[k]
           m == IF store[k].val = NoValue THEN 0 ELSE store[k].val
           C == {c \in Charges : c[1] = k /\ c[2] = w}
           S == FirstCharges(k, w, m)
<1>1. TypeOK /\ IncrEffect(r)
  BY RunIncrEffect DEF QInv, IInv
<1>2. m \in Nat /\ store'[k].val = m + 1 /\ w \in Nat
  BY <1>1 DEF IncrEffect, TypeOK
<1>3. \A n \in Nat : Drawn(k, w, n) => n <= m
  BY <1>2 DEF QInv, DrawsCounted, Drawn
<1>4. \A n \in 1..m : Drawn(k, w, n)
  BY DEF QInv, IInv, CounterDrawn
<1> HIDE DEF m, w, k
<1>5. ASSUME NEW c \in C
      PROVE  c \in S
  <2>1. c = <<k, w, c[3]>> /\ c[3] \in Nat \ {0} /\ c \in Charges
    BY <1>1, ChargesAreDraws
  <2>2. c[3] <= m
    BY <1>1, <1>3, <2>1, ChargesAreDraws
  <2> QED
    BY <1>2, <2>1, <2>2 DEF FirstCharges
<1>6. ASSUME NEW n \in 1..m
      PROVE  <<k, w, n>> \in C
  BY <1>1, <1>4, ChargesAreDraws
<1>7. C = S
  BY <1>5, <1>6 DEF FirstCharges
<1>8. Cardinality(S) = m
  BY <1>2, FirstChargesCount
<1> QED
  BY <1>2, <1>7, <1>8 DEF k, w

(* A call holding a number was charged by its window with every number up  *)
(* to its own.                                                             *)
LEMMA TicketCharged ==
  ASSUME QInv, NEW r \in Requests, ticket[r] > 0
  PROVE  /\ key[r] \in Keys /\ window[r] \in 0..lives[key[r]]
         /\ \A n \in 1..ticket[r] : <<key[r], window[r], n>> \in Charges
<1>1. key[r] \in Keys /\ window[r] <= lives[key[r]] /\ window[r] \in Nat
      /\ lives[key[r]] \in Nat
  BY DEF QInv, IInv, TypeOK, Keyed, TicketsCounted
<1>2. \A n \in 1..ticket[r] : Drawn(key[r], window[r], n)
  BY DEF QInv, IInv, TicketsDrawn
<1> QED
  BY <1>1, <1>2, ChargesAreDraws DEF QInv, IInv

(* A number above the limit: more than MaxLimit charges.                   *)
LEMMA RejectedAreEarned ==
  ASSUME QInv, NEW r \in Requests, ticket[r] > MaxLimit
  PROVE  Cardinality({c \in Charges : c[1] = key[r] /\ c[2] = window[r]}) > MaxLimit
<1> DEFINE k == key[r]
           w == window[r]
           t == ticket[r]
           C == {c \in Charges : c[1] = k /\ c[2] = w}
           S == FirstCharges(k, w, t)
<1>1. t \in Nat /\ t > 0 /\ k \in Keys /\ w \in Nat /\ MaxLimit \in Nat
  BY TicketCharged, MaxLimitAssumption DEF QInv, IInv, TypeOK
<1>2. S \subseteq C
  BY <1>1, TicketCharged DEF FirstCharges
<1>3. IsFiniteSet(C)
  BY <1>1, ChargesFinite
<1>4. Cardinality(S) = t
  BY <1>1, FirstChargesCount
<1>5. Cardinality(C) \in Nat
  BY <1>3, FS_CardinalityType
<1> HIDE DEF S, C
<1>6. Cardinality(S) <= Cardinality(C)
  BY <1>2, <1>3, FS_Subset
<1> QED
  BY <1>1, <1>4, <1>5, <1>6 DEF C, t

(* A call with the number it holds fits the limit with the calls admitted  *)
(* in its window so far, and its window has charged all of them.           *)
LEMMA RoomForOneMore ==
  ASSUME QInv, NEW r \in Requests, pc[r] # "passed",
         ticket[r] > 0, ticket[r] <= MaxLimit
  PROVE  LET k == key[r]
             w == window[r]
             B == {a \in AdmittedCalls : a[1] = k /\ a[2] = w}
             C == {c \in Charges : c[1] = k /\ c[2] = w}
         IN  Cardinality(B) < MaxLimit /\ Cardinality(B) < Cardinality(C)
<1> DEFINE k == key[r]
           w == window[r]
           B == {a \in AdmittedCalls : a[1] = k /\ a[2] = w}
           C == {c \in Charges : c[1] = k /\ c[2] = w}
           A == Admitted(k, w)
           A1 == A \cup {r}
           number == [q \in A1 |-> ticket[q]]
           charge == [q \in A1 |-> <<k, w, ticket[q]>>]
           call == [q \in A |-> <<k, w, q>>]
<1>1. /\ k \in Keys /\ w \in Nat
      /\ \A q \in A1 : /\ q \in Requests /\ key[q] = k /\ window[q] = w
                       /\ ticket[q] > 0 /\ ticket[q] \in Nat /\ ticket[q] <= MaxLimit
  BY TicketCharged DEF Admitted, QInv, IInv, TypeOK, VerdictsRight
<1>2. \A p, q \in A1 : ticket[p] = ticket[q] => p = q
  BY <1>1 DEF QInv, IInv, TicketsDistinct
<1>3. r \notin A
  BY DEF Admitted
<1>4. IsFiniteSet(A1) /\ Cardinality(A1) <= MaxLimit
  <2>1. number \in Injection(A1, 1..MaxLimit)
    <3>1. number \in [A1 -> 1..MaxLimit]
      BY <1>1, MaxLimitAssumption
    <3> QED
      BY <1>2, <3>1 DEF Injection, IsInjective
  <2>2. IsFiniteSet(1..MaxLimit) /\ Cardinality(1..MaxLimit) = MaxLimit
    BY MaxLimitAssumption, FS_Interval
  <2> HIDE DEF number, A1
  <2> QED
    BY <2>1, <2>2, FS_Injection
<1>5. IsFiniteSet(C) /\ Cardinality(A1) <= Cardinality(C)
  <2>1. \A q \in A1 : <<k, w, ticket[q]>> \in C
    BY <1>1, TicketCharged
  <2>2. charge \in Injection(A1, C)
    <3>1. charge \in [A1 -> C]
      BY <2>1
    <3>2. \A p, q \in A1 : charge[p] = charge[q] => p = q
      BY <1>2
    <3> QED
      BY <3>1, <3>2 DEF Injection, IsInjective
  <2>3. IsFiniteSet(C)
    BY <1>1, ChargesFinite
  <2> HIDE DEF charge, A1, C
  <2> QED
    BY <2>2, <2>3, FS_Injection
<1>6. IsFiniteSet(A)
  BY <1>4, FS_Subset
<1>7. Cardinality(A1) = Cardinality(A) + 1
  <2> HIDE DEF A
  <2> QED
    BY <1>3, <1>6, FS_AddElement
<1>8. Cardinality(B) = Cardinality(A)
  <2>1. \A q \in A : <<k, w, q>> \in B
    BY <1>1 DEF Admitted, AdmittedCalls
  <2>2. \A b \in B : \E q \in A : b = <<k, w, q>>
    BY DEF Admitted, AdmittedCalls
  <2>3. call \in Bijection(A, B)
    <3> HIDE DEF A, B
    <3>1. call \in [A -> B]
      BY <2>1
    <3>2. call \in Injection(A, B)
      BY <3>1 DEF Injection, IsInjective
    <3>3. call \in Surjection(A, B)
      BY <2>2, <3>1 DEF Surjection
    <3> QED
      BY <3>2, <3>3 DEF Bijection
  <2>4. ExistsBijection(A, B)
    BY <2>3 DEF ExistsBijection
  <2> HIDE DEF A, B
  <2> QED
    BY <1>6, <2>4, FS_Bijection
<1>9. Cardinality(A) \in Nat /\ Cardinality(C) \in Nat
  BY <1>5, <1>6, FS_CardinalityType
<1> QED
  BY <1>4, <1>5, <1>7, <1>8, <1>9, MaxLimitAssumption

(***************************************************************************)
(* The refinement                                                          *)
(***************************************************************************)
(* A step that changes neither the records nor who was told what is none   *)
(* of the quota's.                                                         *)
LEMMA Stutters ==
  ASSUME UNCHANGED lives, Charges' = Charges, AdmittedCalls' = AdmittedCalls,
         Verdicts' = Verdicts
  PROVE  UNCHANGED Quota!quotaVars
  BY DEF Quota!quotaVars, Charges, AdmittedCalls, Verdicts

(* The charges change only with the keys and the records.                  *)
LEMMA ChargesStay ==
  ASSUME UNCHANGED draws, \A q \in Requests : draws[q] # {} => key'[q] = key[q]
  PROVE  Charges' = Charges
<1>1. \A q \in Requests : \A d \in draws[q] : key'[q] = key[q]
  OBVIOUS
<1>2. ASSUME NEW c PROVE c \in Charges' <=> c \in Charges
  <2>1. c \in Charges' <=>
          \E q \in Requests : \E d \in draws'[q] : c = <<key'[q], d[1], d[2]>>
    BY DEF Charges
  <2>2. c \in Charges <=>
          \E q \in Requests : \E d \in draws[q] : c = <<key[q], d[1], d[2]>>
    BY DEF Charges
  <2> QED
    BY <1>1, <2>1, <2>2
<1> QED
  BY <1>2

(* One INCR adds one charge, of its key's open window and with the value   *)
(* it leaves.                                                              *)
LEMMA IncrCharges ==
  ASSUME QInv, NEW r \in Requests, key[r] \in Keys, RunIncr(r), UNCHANGED <<key, lives>>
  PROVE  Charges' = Charges \cup {<<key[r], lives[key[r]], store'[key[r]].val>>}
<1> DEFINE new == <<lives[key[r]], store'[key[r]].val>>
<1>1. /\ draws'[r] = draws[r] \cup {new}
      /\ \A q \in Requests \ {r} : draws'[q] = draws[q]
  BY RunIncrDraws, RunIncrEffect DEF QInv, IInv, IncrEffect
<1>2. new[1] = lives[key[r]] /\ new[2] = store'[key[r]].val
  OBVIOUS
<1> HIDE DEF new
<1>3. ASSUME NEW c
      PROVE  c \in Charges' <=> c \in Charges \/ c = <<key[r], new[1], new[2]>>
  <2>1. c \in Charges' <=>
          \E q \in Requests : \E d \in draws'[q] : c = <<key[q], d[1], d[2]>>
    BY DEF Charges
  <2>2. c \in Charges <=>
          \E q \in Requests : \E d \in draws[q] : c = <<key[q], d[1], d[2]>>
    BY DEF Charges
  <2> QED
    BY <1>1, <2>1, <2>2
<1> QED
  BY <1>2, <1>3

(* The admissions change only with the calls that passed with a number.    *)
LEMMA AdmittedStay ==
  ASSUME \A q \in Requests :
           /\ (pc[q] = "passed" /\ ticket[q] > 0) <=> (pc'[q] = "passed" /\ ticket'[q] > 0)
           /\ pc[q] = "passed" /\ ticket[q] > 0 =>
                key'[q] = key[q] /\ window'[q] = window[q]
  PROVE  AdmittedCalls' = AdmittedCalls
  BY DEF AdmittedCalls

(* A call that goes on waiting has no verdict, before and after.           *)
LEMMA VerdictsStay ==
  ASSUME \A q \in Requests :
           pc'[q] = pc[q] \/ (pc[q] \notin Finished /\ pc'[q] \notin Finished)
  PROVE  Verdicts' = Verdicts
<1>1. \A q \in Requests : VerdictOf(q)' = VerdictOf(q)
  BY DEF VerdictOf
<1> QED
  BY <1>1 DEF Verdicts

(* The verdict of r is told once, and only that one changes.               *)
LEMMA VerdictTold ==
  ASSUME TypeOK, NEW r \in Requests, pc[r] \notin Finished, NEW what \in Finished,
         pc' = [pc EXCEPT ![r] = what]
  PROVE  Verdicts[r] = "open" /\ Verdicts' = [Verdicts EXCEPT ![r] = what]
<1>1. pc'[r] = what /\ \A q \in Requests \ {r} : pc'[q] = pc[q]
  BY DEF TypeOK
<1>2. VerdictOf(r) = "open" /\ VerdictOf(r)' = what
  BY <1>1 DEF VerdictOf
<1>3. \A q \in Requests \ {r} : VerdictOf(q)' = VerdictOf(q)
  BY <1>1 DEF VerdictOf
<1> QED
  BY <1>2, <1>3 DEF Verdicts

(* The quota counts with the same operator.                                *)
LEMMA SameCardinality == \A S : Quota!Cardinality(S) = Cardinality(S)
  BY DEF Quota!Cardinality, Cardinality

(* Running INCR for a call is a charge of the open window of its key.      *)
LEMMA IncrCharge ==
  ASSUME QInv, NEW r \in Requests, NEW k \in Keys, key[r] = k, RunIncr(r),
         UNCHANGED <<key, lives>>, AdmittedCalls' = AdmittedCalls, Verdicts' = Verdicts
  PROVE  Quota!Charge(k)
<1> DEFINE C == {c \in Charges : c[1] = k /\ c[2] = lives[k]}
<1>1. store'[k].val = Cardinality(C) + 1
  BY OpenWindowCount
<1>2. Charges' = Charges \cup {<<k, lives[k], store'[k].val>>}
  BY IncrCharges
<1>3. Quota!ChargesOf(k, lives[k]) = C
  BY DEF Quota!ChargesOf, Charges
<1> HIDE DEF C
<1>4. Charges' = Charges \cup
        {<<k, lives[k], Quota!Cardinality(Quota!ChargesOf(k, lives[k])) + 1>>}
  BY <1>1, <1>2, <1>3, SameCardinality
<1> QED
  BY <1>4 DEF Quota!Charge, Charges, AdmittedCalls, Verdicts

(* await cache.increment: the call is charged.                             *)
LEMMA IncrementCharges ==
  ASSUME QInv, NEW r \in Requests, Increment(r)
  PROVE  \E k \in Keys : Quota!Charge(k)
<1>1. /\ key[r] \in Keys /\ RunIncr(r) /\ UNCHANGED <<key, lives>>
      /\ pc[r] = "incr" /\ pc' = [pc EXCEPT ![r] = AfterIncr(ticket'[r])]
      /\ ticket' = [ticket EXCEPT ![r] = store'[key[r]].val]
      /\ window' = [window EXCEPT ![r] = lives[key[r]]]
  BY DEF QInv, IInv, Keyed, Waiting, Increment, Goto
<1>2. /\ pc'[r] \in {"expire", "decide"}
      /\ \A q \in Requests \ {r} :
           pc'[q] = pc[q] /\ ticket'[q] = ticket[q] /\ window'[q] = window[q]
  BY <1>1 DEF QInv, IInv, TypeOK, AfterIncr
<1>3. AdmittedCalls' = AdmittedCalls
  BY <1>1, <1>2, AdmittedStay
<1>4. Verdicts' = Verdicts
  BY <1>1, <1>2, VerdictsStay DEF Finished
<1>5. PICK k \in Keys : key[r] = k
  BY <1>1
<1> QED
  BY <1>1, <1>3, <1>4, <1>5, IncrCharge

(* A call with a number within the limit is one more its window may admit. *)
LEMMA AdmitsOne ==
  ASSUME QInv, NEW r \in Requests, pc[r] # "passed", ticket[r] > 0, ticket[r] <= MaxLimit,
         NEW k \in Keys, NEW w \in 0..lives[k], key[r] = k, window[r] = w,
         UNCHANGED lives, Charges' = Charges,
         AdmittedCalls' = AdmittedCalls \cup {<<k, w, r>>},
         Verdicts[r] = "open", Verdicts' = [Verdicts EXCEPT ![r] = "passed"]
  PROVE  Quota!Admit(r, k, w)
<1> DEFINE B == {a \in AdmittedCalls : a[1] = k /\ a[2] = w}
           C == {c \in Charges : c[1] = k /\ c[2] = w}
<1>1. Cardinality(B) < MaxLimit /\ Cardinality(B) < Cardinality(C)
  BY RoomForOneMore
<1>2. Quota!AdmittedBy(k, w) = B
  BY DEF Quota!AdmittedBy, AdmittedCalls
<1>3. Quota!ChargesOf(k, w) = C
  BY DEF Quota!ChargesOf, Charges
<1>4. Quota!Tell(r, "passed")
  BY DEF Quota!Tell, Verdicts
<1> HIDE DEF B, C
<1>5. /\ Quota!Cardinality(Quota!AdmittedBy(k, w)) < MaxLimit
      /\ Quota!Cardinality(Quota!AdmittedBy(k, w)) < Quota!Cardinality(Quota!ChargesOf(k, w))
  BY <1>1, <1>2, <1>3, SameCardinality
<1> QED
  BY <1>4, <1>5 DEF Quota!Admit, Charges, AdmittedCalls

(* A call with a number above the limit is one its window may reject.      *)
LEMMA RejectsOne ==
  ASSUME QInv, NEW r \in Requests, ticket[r] > MaxLimit,
         NEW k \in Keys, NEW w \in 0..lives[k], key[r] = k, window[r] = w,
         UNCHANGED lives, Charges' = Charges, AdmittedCalls' = AdmittedCalls,
         Verdicts[r] = "open", Verdicts' = [Verdicts EXCEPT ![r] = "rejected"]
  PROVE  Quota!Reject(r, k, w)
<1> DEFINE C == {c \in Charges : c[1] = k /\ c[2] = w}
<1>1. Cardinality(C) > MaxLimit
  BY RejectedAreEarned
<1>2. Quota!ChargesOf(k, w) = C
  BY DEF Quota!ChargesOf, Charges
<1>3. Quota!Tell(r, "rejected")
  BY DEF Quota!Tell, Verdicts
<1> HIDE DEF C
<1>4. Quota!Cardinality(Quota!ChargesOf(k, w)) > MaxLimit
  BY <1>1, <1>2, SameCardinality
<1> QED
  BY <1>3, <1>4 DEF Quota!Reject, Charges, AdmittedCalls

(* The verdict of a call without a number is a pass nobody counted; that   *)
(* of a call with one is an admission or a rejection by its window.        *)
LEMMA DecideTells ==
  ASSUME QInv, NEW r \in Requests, Decide(r)
  PROVE  Quota!Next
<1>1. /\ pc[r] = "decide" /\ pc' = [pc EXCEPT ![r] = Verdict(r)]
      /\ UNCHANGED <<store, key, ticket, window, lives, draws>>
  BY DEF Decide, Goto
<1>2. /\ pc'[r] = Verdict(r) /\ ticket[r] \in Nat /\ MaxLimit \in Nat
      /\ \A q \in Requests \ {r} : pc'[q] = pc[q]
  BY <1>1, MaxLimitAssumption DEF QInv, IInv, TypeOK
<1>3. Charges' = Charges
  BY <1>1, ChargesStay
<1>4. /\ Verdicts[r] = "open"
      /\ Verdicts' = [Verdicts EXCEPT ![r] = Verdict(r)]
  BY <1>1, VerdictTold DEF QInv, IInv, Verdict, Finished
<1>5. CASE ticket[r] = 0
  <2>1. Verdict(r) = "passed"
    BY <1>2, <1>5 DEF Verdict
  <2>2. AdmittedCalls' = AdmittedCalls
    BY <1>1, <1>2, <1>5, AdmittedStay
  <2>3. Quota!LetPass(r)
    BY <1>1, <1>3, <1>4, <2>1, <2>2
       DEF Quota!LetPass, Quota!Tell, Charges, AdmittedCalls, Verdicts
  <2> QED
    BY <2>3 DEF Quota!Next
<1>6. CASE ticket[r] > 0
  <2>1. PICK k \in Keys : key[r] = k
    BY <1>6, TicketCharged
  <2>w. PICK w \in 0..lives[k] : window[r] = w
    BY <1>6, <2>1, TicketCharged
  <2>2. CASE ticket[r] > MaxLimit
    <3>1. Verdict(r) = "rejected"
      BY <2>2 DEF Verdict
    <3>2. AdmittedCalls' = AdmittedCalls
      BY <1>1, <1>2, <3>1, AdmittedStay
    <3>3. Quota!Reject(r, k, w)
      BY <1>1, <1>3, <1>4, <2>1, <2>w, <2>2, <3>1, <3>2, RejectsOne
    <3> QED
      BY <2>1, <3>3 DEF Quota!Next
  <2>3. CASE ticket[r] <= MaxLimit
    <3>1. Verdict(r) = "passed"
      BY <1>2, <2>3 DEF Verdict
    <3>2. AdmittedCalls' = AdmittedCalls \cup {<<k, w, r>>}
      <4>1. ASSUME NEW a
            PROVE  a \in AdmittedCalls' <=> a \in AdmittedCalls \/ a = <<k, w, r>>
        BY <1>1, <1>2, <1>6, <2>1, <2>w, <3>1 DEF AdmittedCalls
      <4> QED
        BY <4>1
    <3>3. Quota!Admit(r, k, w)
      BY <1>1, <1>3, <1>4, <1>6, <2>1, <2>w, <2>3, <3>1, <3>2, AdmitsOne
    <3> QED
      BY <2>1, <3>3 DEF Quota!Next
  <2> QED
    BY <1>2, <2>2, <2>3
<1> QED
  BY <1>2, <1>5, <1>6

(* Before the first call nothing is charged, admitted or told.             *)
LEMMA InitRefines == Init => Quota!Init
<1> SUFFICES ASSUME Init
             PROVE  Quota!Init
  OBVIOUS
<1>1. /\ lives = [k \in Keys |-> 0]
      /\ \A r \in Requests : pc[r] = "new" /\ draws[r] = {}
  BY DEF Init
<1>2. Charges = {} /\ AdmittedCalls = {}
  BY <1>1 DEF Charges, AdmittedCalls
<1>3. \A r \in Requests : VerdictOf(r) = "open"
  BY <1>1 DEF VerdictOf, Finished
<1> QED
  BY <1>1, <1>2, <1>3 DEF Quota!Init, Charges, AdmittedCalls

(* A step in which no call gets a verdict and no INCR runs is none of the  *)
(* quota's.                                                                *)
LEMMA QuietStep ==
  ASSUME QInv, UNCHANGED <<lives, window, draws>>,
         \A q \in Requests :
           /\ draws[q] # {} \/ ticket[q] > 0 => key'[q] = key[q]
           /\ pc'[q] = pc[q] \/ (pc[q] \notin Finished /\ pc'[q] \notin Finished)
           /\ pc[q] = "passed" => ticket'[q] = ticket[q]
  PROVE  UNCHANGED Quota!quotaVars
<1>1. Charges' = Charges
  BY ChargesStay
<1>2. AdmittedCalls' = AdmittedCalls
  BY AdmittedStay DEF Finished
<1>3. Verdicts' = Verdicts
  BY VerdictsStay
<1> QED
  BY <1>1, <1>2, <1>3, Stutters

(* Every step of the calls, of Redis and of the faults is a step of the    *)
(* quota or none.                                                          *)
LEMMA NextRefines == QInv /\ [Next]_vars => [Quota!Next]_(Quota!quotaVars)
<1> SUFFICES ASSUME QInv, [Next]_vars
             PROVE  Quota!Next \/ UNCHANGED Quota!quotaVars
  OBVIOUS
<1> USE DEF Goto
<1>1. ASSUME NEW r \in Requests, VerifyProbe(r)
      PROVE  Quota!Next
  <2>1. Charges' = Charges
    BY <1>1, ChargesStay DEF VerifyProbe
  <2>2. ticket[r] = 0 /\ pc[r] = "new"
    BY <1>1 DEF VerifyProbe, QInv, IInv, Untouched
  <2>3. \A q \in Requests \ {r} : pc'[q] = pc[q]
    BY <1>1 DEF VerifyProbe, QInv, IInv, TypeOK
  <2>4. AdmittedCalls' = AdmittedCalls
    BY <1>1, <2>2, <2>3, AdmittedStay DEF VerifyProbe
  <2>5. Verdicts[r] = "open" /\ Verdicts' = [Verdicts EXCEPT ![r] = "passed"]
    BY <1>1, VerdictTold DEF VerifyProbe, QInv, IInv, Finished
  <2>6. Quota!LetPass(r)
    BY <1>1, <2>1, <2>4, <2>5
       DEF VerifyProbe, Quota!LetPass, Quota!Tell, Charges, AdmittedCalls, Verdicts
  <2> QED
    BY <2>6 DEF Quota!Next
<1>2. ASSUME NEW r \in Requests, NEW ip \in Ips, VerifyRateLimit(r, ip)
      PROVE  UNCHANGED Quota!quotaVars
  <2>1. draws[r] = {} /\ ticket[r] = 0 /\ pc[r] = "new" /\ pc'[r] = "incr"
    BY <1>2 DEF VerifyRateLimit, QInv, IInv, TypeOK, Untouched
  <2>2. \A q \in Requests \ {r} : pc'[q] = pc[q] /\ key'[q] = key[q]
    BY <1>2 DEF VerifyRateLimit, QInv, IInv, TypeOK
  <2> QED
    BY <1>2, <2>1, <2>2, QuietStep DEF VerifyRateLimit, Finished
<1>3. ASSUME NEW r \in Requests, Increment(r)
      PROVE  Quota!Next
  BY <1>3, IncrementCharges DEF Quota!Next
<1>4. ASSUME NEW r \in Requests, Expire(r)
      PROVE  UNCHANGED Quota!quotaVars
  <2>1. \A q \in Requests : pc'[q] = pc[q] \/ (pc[q] = "expire" /\ pc'[q] = "decide")
    BY <1>4 DEF Expire, QInv, IInv, TypeOK
  <2> QED
    BY <1>4, <2>1, QuietStep DEF Expire, Finished
<1>5. ASSUME NEW r \in Requests, Decide(r)
      PROVE  Quota!Next
  BY <1>5, DecideTells
<1>6. ASSUME NEW r \in Requests, RedisError(r)
      PROVE  UNCHANGED Quota!quotaVars
  <2>1. /\ pc[r] \in {"incr", "expire"} /\ pc'[r] = "decide"
        /\ \A q \in Requests \ {r} : pc'[q] = pc[q] /\ ticket'[q] = ticket[q]
    BY <1>6 DEF RedisError, QInv, IInv, TypeOK
  <2> QED
    BY <1>6, <2>1, QuietStep DEF RedisError, Finished
<1>7. ASSUME NEW r \in Requests, LoseReply(r)
      PROVE  Quota!Next \/ UNCHANGED Quota!quotaVars
  <2>1. key[r] \in Keys /\ UNCHANGED <<pc, key, ticket, window, lives>>
    BY <1>7 DEF LoseReply, QInv, IInv, Keyed, Waiting
  <2>2. CASE UNCHANGED draws
    BY <2>1, <2>2, QuietStep
  <2>3. CASE RunIncr(r)
    <3>1. AdmittedCalls' = AdmittedCalls /\ Verdicts' = Verdicts
      BY <2>1, AdmittedStay, VerdictsStay
    <3>2. PICK k \in Keys : key[r] = k
      BY <2>1
    <3>3. Quota!Charge(k)
      BY <2>1, <2>3, <3>1, <3>2, IncrCharge
    <3> QED
      BY <3>3 DEF Quota!Next
  <2> QED
    BY <1>7, <2>2, <2>3 DEF LoseReply
<1>8. ASSUME NEW r \in Requests, Crash(r)
      PROVE  Quota!Next
  <2>1. Charges' = Charges
    BY <1>8, ChargesStay DEF Crash
  <2>2. /\ pc[r] \in Waiting /\ pc'[r] = "lost"
        /\ \A q \in Requests \ {r} : pc'[q] = pc[q]
    BY <1>8 DEF Crash, QInv, IInv, TypeOK
  <2>3. AdmittedCalls' = AdmittedCalls
    BY <1>8, <2>2, AdmittedStay DEF Crash, Waiting
  <2>4. Verdicts[r] = "open" /\ Verdicts' = [Verdicts EXCEPT ![r] = "lost"]
    BY <1>8, VerdictTold DEF Crash, QInv, IInv, Waiting, Finished
  <2>5. Quota!Lose(r)
    BY <1>8, <2>1, <2>3, <2>4
       DEF Crash, Quota!Lose, Quota!Tell, Charges, AdmittedCalls, Verdicts
  <2> QED
    BY <2>5 DEF Quota!Next
<1>9. ASSUME NEW k \in Keys, KeyExpires(k)
      PROVE  Quota!Next
  <2>1. Charges' = Charges
    BY <1>9, ChargesStay DEF KeyExpires
  <2>2. AdmittedCalls' = AdmittedCalls /\ Verdicts' = Verdicts
    BY <1>9, AdmittedStay, VerdictsStay DEF KeyExpires
  <2>3. Quota!Reset(k)
    BY <1>9, <2>1, <2>2
       DEF KeyExpires, Quota!Reset, Charges, AdmittedCalls, Verdicts
  <2> QED
    BY <2>3 DEF Quota!Next
<1>10. CASE UNCHANGED vars
  BY <1>10, QuietStep DEF vars
<1> QED
  BY <1>1, <1>2, <1>3, <1>4, <1>5, <1>6, <1>7, <1>8, <1>9, <1>10
     DEF Next, Step, Done

(* The two commands of verifyRateLimit, with everything that may happen    *)
(* between and instead of them, give the quota RequestQuota promises: the  *)
(* guard implements it for any number of requests, keys and faults.        *)
THEOREM QuotaImplemented == Spec => ImplementsQuota
  BY StrongInvariance, InitRefines, NextRefines, PTL
     DEF Spec, ImplementsQuota, Quota!Spec
=============================================================================
