------------------------------ MODULE Sessions ------------------------------
(***************************************************************************)
(* DistributedSessionManager (src/cache/session.manager.ts): sessions kept *)
(* in Redis, one per e-mail, established, validated and revoked by calls   *)
(* of any server process.  Validation reads the session, compares the      *)
(* client's user agent, and then, in a second command, revokes the session *)
(* or slides its expiry.                                                   *)
(*                                                                         *)
(* Each element of Requests is one call.  A session is named after the     *)
(* call that established it.                                               *)
(***************************************************************************)
EXTENDS CacheService

CONSTANTS
  Requests,     \* calls of the session manager
  Calls,        \* the calls each request may be (see Call)
  Emails,
  Agents,       \* user agents
  Keys,         \* Redis keys
  SessionKey,   \* CacheKeys.getUserSessionKey, from Emails to Keys: spellings
                \* of one address share a key
  Faults        \* the faults a run lets happen

Call == [op : {"establish", "validate", "revoke"}, email : Emails, agent : Agents]

ASSUME SessionKeyAssumption == SessionKey \in [Emails -> Keys]
ASSUME SessionsAssumption == NoValue \notin Requests
ASSUME CallsAssumption == Calls \in [Requests -> SUBSET Call]
ASSUME FaultsAssumption == Faults \subseteq {"crash", "cache_error", "lost_reply"}

VARIABLES
  store,     \* Redis: the entry of each session key
  pc,        \* where each call is
  call,      \* what each call is
  session,   \* the session a validation has read
  answer,    \* what each call answered
  doomed,    \* history: sessions each call found it had to end
  ended,     \* history: sessions that have left the store
  faulted    \* history: calls a fault hit

vars == <<store, pc, call, session, answer, doomed, ended, faulted>>

Waiting == {"set", "get", "expire", "del"}
Places == {"new", "done", "lost"} \cup Waiting
Answers == Requests \cup {NoValue} \cup BOOLEAN

Init ==
  /\ store = [k \in Keys |-> NoEntry]
  /\ pc = [r \in Requests |-> "new"]
  /\ call \in {f \in [Requests -> UNION {Calls[r] : r \in Requests}] :
                 \A r \in Requests : f[r] \in Calls[r]}
  /\ session = [r \in Requests |-> NoValue]
  /\ answer = [r \in Requests |-> NoValue]
  /\ doomed = [r \in Requests |-> NoValue]
  /\ ended = {}
  /\ faulted = {}

KeyOf(r) == SessionKey[call[r].email]
Goto(r, place) == pc' = [pc EXCEPT ![r] = place] /\ UNCHANGED answer
Return(r, value) ==
  pc' = [pc EXCEPT ![r] = "done"] /\ answer' = [answer EXCEPT ![r] = value]

(* Redis replaces the entry of key k by e.                                 *)
Put(k, e) ==
  /\ store' = [store EXCEPT ![k] = e]
  /\ ended' = IF store[k].val \in {NoValue, e.val} THEN ended
              ELSE ended \cup {store[k].val}

(***************************************************************************)
(* The calls                                                               *)
(***************************************************************************)
FirstCommand == [establish |-> "set", validate |-> "get", revoke |-> "del"]

(* A call begins; a revocation is to end the session that is there now.    *)
Begin(r) ==
  /\ pc[r] = "new"
  /\ Goto(r, FirstCommand[call[r].op])
  /\ doomed' = IF call[r].op = "revoke"
               THEN [doomed EXCEPT ![r] = store[KeyOf(r)].val] ELSE doomed
  /\ UNCHANGED <<store, call, session, ended, faulted>>

(* establishSession: the mandatory expiry goes with the value.             *)
EstablishedForever(r) == [SetEx(r) EXCEPT !.ttl = FALSE]
EstablishedAsEmail(r) == SetEx(call[r].email)
Established(r) == SetEx(r)

Establish(r) ==
  /\ pc[r] = "set"
  /\ Put(KeyOf(r), Established(r))
  /\ Return(r, TRUE)
  /\ UNCHANGED <<call, session, doomed, faulted>>

(* validateSession: get, and the comparison of the footprint.              *)
FootprintIgnored(r, s) == TRUE
FootprintMatches(r, s) == call[s].agent = call[r].agent

AfterMismatchSlide == "expire"
AfterMismatch == "del"

Validate(r) ==
  LET s == store[KeyOf(r)].val
  IN  /\ pc[r] = "get"
      /\ session' = [session EXCEPT ![r] = s]
      /\ \/ s = NoValue /\ Return(r, NoValue) /\ UNCHANGED doomed
         \/ /\ s # NoValue /\ FootprintMatches(r, s)
            /\ Goto(r, "expire")
            /\ UNCHANGED doomed
         \/ /\ s # NoValue /\ ~FootprintMatches(r, s)
            /\ Goto(r, AfterMismatch)
            /\ doomed' = [doomed EXCEPT ![r] = s]
      /\ UNCHANGED <<store, call, ended, faulted>>

(* The sliding expiry, on whatever entry the key has by now.               *)
SlideByRewriting(r) == SetEx(session[r])
Slide(r) == ExpireEntry(store[KeyOf(r)])

Expire(r) ==
  /\ pc[r] = "expire"
  /\ Put(KeyOf(r), Slide(r))
  /\ Return(r, session[r])
  /\ UNCHANGED <<call, session, doomed, faulted>>

(* revokeSession, called for itself or by a validation.                    *)
Delete(r) ==
  /\ pc[r] = "del"
  /\ Put(KeyOf(r), Del(store[KeyOf(r)]))
  /\ Return(r, IF call[r].op = "revoke" THEN store[KeyOf(r)].val # NoValue
               ELSE NoValue)
  /\ UNCHANGED <<call, session, doomed, faulted>>

(***************************************************************************)
(* Redis and the faults                                                    *)
(***************************************************************************)

(* The seven days of a session are over.                                   *)
KeyExpires(k) ==
  /\ store[k].ttl
  /\ Put(k, NoEntry)
  /\ UNCHANGED <<pc, call, session, answer, doomed, faulted>>

(* A command fails and the call goes on with the answer of a failure.      *)
CacheError(r) ==
  /\ "cache_error" \in Faults
  /\ \/ pc[r] = "set" /\ Return(r, CacheFailure.set)
     \/ pc[r] = "get" /\ Return(r, CacheFailure.get)
     \/ pc[r] = "expire" /\ Return(r, session[r])
     \/ /\ pc[r] = "del"
        /\ Return(r, IF call[r].op = "revoke" THEN CacheFailure.delete ELSE NoValue)
  /\ faulted' = faulted \cup {r}
  /\ UNCHANGED <<store, call, session, doomed, ended>>

(* SET or DEL runs, its answer is lost, and the client will send it again. *)
LoseReply(r) ==
  /\ "lost_reply" \in Faults
  /\ r \notin faulted
  /\ \/ pc[r] = "set" /\ Put(KeyOf(r), Established(r))
     \/ pc[r] = "del" /\ Put(KeyOf(r), Del(store[KeyOf(r)]))
  /\ faulted' = faulted \cup {r}
  /\ UNCHANGED <<pc, call, session, answer, doomed>>

Crash(r) ==
  /\ "crash" \in Faults
  /\ pc[r] \in Waiting
  /\ Goto(r, "lost")
  /\ faulted' = faulted \cup {r}
  /\ UNCHANGED <<store, call, session, doomed, ended>>

Done == (\A r \in Requests : pc[r] \in {"done", "lost"}) /\ UNCHANGED vars

Next ==
  \/ \E r \in Requests :
       \/ Begin(r)
       \/ Establish(r)
       \/ Validate(r)
       \/ Expire(r)
       \/ Delete(r)
       \/ CacheError(r)
       \/ LoseReply(r)
       \/ Crash(r)
  \/ \E k \in Keys : KeyExpires(k)
  \/ Done

Spec == Init /\ [][Next]_vars

(***************************************************************************)
(* Properties                                                              *)
(***************************************************************************)
TypeOK ==
  /\ store \in [Keys -> Entry(Requests)]
  /\ pc \in [Requests -> Places]
  /\ call \in [Requests -> Call]
  /\ session \in [Requests -> Requests \cup {NoValue}]
  /\ answer \in [Requests -> Answers]
  /\ doomed \in [Requests -> Requests \cup {NoValue}]
  /\ ended \subseteq Requests
  /\ faulted \subseteq Requests

LiveSessions == {store[k].val : k \in Keys} \ {NoValue}

(* Every stored session has an expiry, through every mix of establishing,  *)
(* sliding and revoking: none outlives seven idle days.                    *)
SessionsExpire == \A k \in Keys : store[k].val # NoValue => store[k].ttl

(* A session that was revoked, replaced or expired never comes back, even  *)
(* when a validation that read it is still about to slide its expiry.      *)
(* Only an establishing command that is sent again brings one back.        *)
NoResurrection == \A s \in ended : s \in LiveSessions => s \in faulted

(* A call that set out to end a session has ended it for good once it      *)
(* returns: the session a revocation found, or the one whose footprint did *)
(* not match, is gone whatever other calls did in between, unless a fault  *)
(* hit the call or the one that established the session.                   *)
RevocationIsFinal == \A r \in Requests :
  pc[r] = "done" /\ doomed[r] # NoValue /\ r \notin faulted /\ doomed[r] \notin faulted
  => doomed[r] \notin LiveSessions

(* A validation answers only a session of its own key, established from    *)
(* the user agent that asks.                                               *)
AnswerMatchesFootprint == \A r \in Requests :
  call[r].op = "validate" /\ answer[r] \in Requests =>
    /\ call[answer[r]].agent = call[r].agent
    /\ KeyOf(answer[r]) = KeyOf(r)
=============================================================================
