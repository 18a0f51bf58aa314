----------------------------- MODULE RequestQuota -----------------------------
(***************************************************************************)
(* What the rate limiter promises, without Redis, its commands and the     *)
(* order in which they come: each client key has consecutive windows, a    *)
(* window charges the requests that are counted in it and admits at most   *)
(* Limit of them, nobody is rejected by a window that charged Limit times  *)
(* or less, and a verdict is never taken back.  RateLimiter implements it. *)
(***************************************************************************)
EXTENDS Naturals, FiniteSets

CONSTANTS Requests, Keys, Limit

VARIABLES
  current,    \* the number of the open window of each key
  charges,    \* <<k, w, n>>: window w of k made its nth charge
  admitted,   \* <<k, w, r>>: r was admitted as one of those charged by w
  verdict     \* what each request was told

quotaVars == <<current, charges, admitted, verdict>>

Init ==
  /\ current = [k \in Keys |-> 0]
  /\ charges = {}
  /\ admitted = {}
  /\ verdict = [r \in Requests |-> "open"]

ChargesOf(k, w) == {c \in charges : c[1] = k /\ c[2] = w}
AdmittedBy(k, w) == {a \in admitted : a[1] = k /\ a[2] = w}

Tell(r, what) ==
  /\ verdict[r] = "open"
  /\ verdict' = [verdict EXCEPT ![r] = what]

(* A request, whichever, is counted in the open window of k.               *)
Charge(k) ==
  /\ charges' = charges \cup
       {<<k, current[k], Cardinality(ChargesOf(k, current[k])) + 1>>}
  /\ UNCHANGED <<current, admitted, verdict>>

Admit(r, k, w) ==
  /\ Cardinality(AdmittedBy(k, w)) < Limit
  /\ Cardinality(AdmittedBy(k, w)) < Cardinality(ChargesOf(k, w))
  /\ admitted' = admitted \cup {<<k, w, r>>}
  /\ Tell(r, "passed")
  /\ UNCHANGED <<current, charges>>

Reject(r, k, w) ==
  /\ Cardinality(ChargesOf(k, w)) > Limit
  /\ Tell(r, "rejected")
  /\ UNCHANGED <<current, charges, admitted>>

(* A request that is not counted at all gets past.                         *)
LetPass(r) == Tell(r, "passed") /\ UNCHANGED <<current, charges, admitted>>

Lose(r) == Tell(r, "lost") /\ UNCHANGED <<current, charges, admitted>>

(* The open window of k is over, and the next one starts from nothing.     *)
Reset(k) ==
  /\ current' = [current EXCEPT ![k] = @ + 1]
  /\ UNCHANGED <<charges, admitted, verdict>>

Next ==
  \/ \E k \in Keys : Charge(k) \/ Reset(k)
  \/ \E r \in Requests :
       \/ \E k \in Keys : \E w \in 0..current[k] : Admit(r, k, w) \/ Reject(r, k, w)
       \/ LetPass(r)
       \/ Lose(r)

Spec == Init /\ [][Next]_quotaVars
=============================================================================
