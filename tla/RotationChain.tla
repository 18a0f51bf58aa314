----------------------------- MODULE RotationChain -----------------------------
(***************************************************************************)
(* What the rotation of refresh tokens promises, without requests, rows    *)
(* and awaits.  A session begins with one token.  Each further token       *)
(* replaces one that was live when it was claimed and is spent by the time *)
(* its successor is issued, so a session has one live token at most, and   *)
(* one without a live token or a claim is over for good.  Only two claims  *)
(* of one token fork a session.  AuthFlows implements this.                *)
(***************************************************************************)
CONSTANT Tokens

VARIABLES
  session,  \* the session each token belongs to, named after its first one
  issued,   \* the tokens there have been
  live,     \* those that are not spent
  claims,   \* <<t, of>>: t may still be issued in the place of the token of
  forked    \* the sessions in which one token was claimed twice

chainVars == <<session, issued, live, claims, forked>>

Init ==
  /\ session = [t \in Tokens |-> t]
  /\ issued = {}
  /\ live = {}
  /\ claims = {}
  /\ forked = {}

Claimed(of) == \E c \in claims : c[2] = of

(* A token to be is put into a session.                                    *)
Join(t, s) ==
  /\ t \notin issued
  /\ \A c \in claims : c[1] # t
  /\ session' = [session EXCEPT ![t] = s]
  /\ UNCHANGED <<issued, live, claims, forked>>

(* The first token of a session.                                           *)
Open(t) ==
  /\ session[t] = t
  /\ \A other \in issued : session[other] # t
  /\ issued' = issued \cup {t}
  /\ live' = live \cup {t}
  /\ UNCHANGED <<session, claims, forked>>

Claim(t, of) ==
  /\ t \notin issued
  /\ of \in live /\ session[of] = session[t]
  /\ claims' = claims \cup {<<t, of>>}
  /\ forked' = IF Claimed(of) THEN forked \cup {session[t]} ELSE forked
  /\ UNCHANGED <<session, issued, live>>

Issue(t, of) ==
  /\ <<t, of>> \in claims /\ t \notin issued
  /\ of \notin live
  /\ session[t] \in forked \/ \A other \in live : session[other] # session[t]
  /\ issued' = issued \cup {t}
  /\ live' = live \cup {t}
  /\ claims' = claims \ {<<t, of>>}
  /\ UNCHANGED <<session, forked>>

(* A token is spent, a claim given up, or both at once.                    *)
End(spent, given) ==
  /\ live' = live \ spent
  /\ claims' = claims \ given
  /\ UNCHANGED <<session, issued, forked>>

Next ==
  \/ \E t, of \in Tokens :
       \/ Join(t, of)
       \/ Open(t)
       \/ Claim(t, of)
       \/ Issue(t, of)
       \/ \E spent \in SUBSET {of}, given \in SUBSET {<<t, of>>} : End(spent, given)

Spec == Init /\ [][Next]_chainVars
=============================================================================
