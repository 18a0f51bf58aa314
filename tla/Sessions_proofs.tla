--------------------------- MODULE Sessions_proofs ---------------------------
(***************************************************************************)
(* For every set of calls, addresses, user agents and keys, and every mix  *)
(* of the faults: the type invariant of Sessions and its four safety       *)
(* properties.                                                             *)
(***************************************************************************)
EXTENDS Sessions, TLAPS

(***************************************************************************)
(* The inductive invariant                                                 *)
(***************************************************************************)

(* Each command is sent by the operation it belongs to, and a validation   *)
(* slides the expiry only for a session it has read.                       *)
CommandsOfCalls == \A r \in Requests :
  /\ pc[r] = "set" => call[r].op = "establish"
  /\ pc[r] = "get" => call[r].op = "validate"
  /\ pc[r] = "expire" => call[r].op = "validate" /\ session[r] # NoValue

(* A session is stored under its own key only.                             *)
StoredUnderOwnKey == \A k \in Keys :
  store[k].val # NoValue => KeyOf(store[k].val) = k

(* A call that has yet to establish its session is not in the store and    *)
(* has never left it, unless a lost answer has run its SET already.        *)
NotYetStored == \A s \in Requests :
  pc[s] \in {"new", "set"} /\ s \notin faulted =>
    s \notin ended /\ \A k \in Keys : store[k].val # s

(* A call that set out to end a session is about to delete its key, or has *)
(* ended it; the session was established before.                           *)
DoomedIsEnded == \A r \in Requests :
  doomed[r] # NoValue /\ r \notin faulted /\ doomed[r] \notin faulted =>
    /\ pc[doomed[r]] \notin {"new", "set"}
    /\ KeyOf(doomed[r]) = KeyOf(r)
    /\ \/ pc[r] = "del"
       \/ pc[r] = "done" /\ \A k \in Keys : store[k].val # doomed[r]

Matches(r, s) == call[s].agent = call[r].agent /\ KeyOf(s) = KeyOf(r)

(* The session of a validation that slides its expiry has its footprint.   *)
ReadMatches == \A r \in Requests : pc[r] = "expire" => Matches(r, session[r])

IInv ==
  /\ TypeOK
  /\ SessionsExpire
  /\ CommandsOfCalls
  /\ StoredUnderOwnKey
  /\ NotYetStored
  /\ DoomedIsEnded
  /\ ReadMatches
  /\ AnswerMatchesFootprint
  /\ NoResurrection

(* No session is stored and no call has begun.                             *)
LEMMA InitIInv == Init => IInv
<1> SUFFICES ASSUME Init
             PROVE  IInv
  OBVIOUS
<1>1. \A k \in Keys : store[k] = NoEntry /\ store[k].val = NoValue
  BY DEF Init, NoEntry
<1>2. call \in [Requests -> Call]
  BY CallsAssumption DEF Init
<1>3. TypeOK
  BY <1>1, <1>2 DEF Init, TypeOK, Places, Waiting, Answers, NoEntry, Entry
<1>4. SessionsExpire /\ CommandsOfCalls /\ StoredUnderOwnKey /\ NotYetStored
  BY <1>1, SessionsAssumption
     DEF Init, SessionsExpire, CommandsOfCalls, StoredUnderOwnKey, NotYetStored
<1>5. DoomedIsEnded /\ ReadMatches /\ AnswerMatchesFootprint /\ NoResurrection
  BY SessionsAssumption
     DEF Init, DoomedIsEnded, ReadMatches, AnswerMatchesFootprint, NoResurrection
<1> QED
  BY <1>3, <1>4, <1>5 DEF IInv

(***************************************************************************)
(* The store                                                               *)
(***************************************************************************)

(* What the invariant says of the store and of the sessions that have left *)
(* it.                                                                     *)
StoreInv ==
  /\ store \in [Keys -> Entry(Requests)]
  /\ ended \subseteq Requests
  /\ SessionsExpire
  /\ StoredUnderOwnKey
  /\ NoResurrection

(* Every entry but that of k stays; the session k held, if another takes   *)
(* its place, has ended and is stored nowhere.                             *)
LEMMA PutEffect ==
  ASSUME IInv, NEW k \in Keys, NEW e \in Entry(Requests), Put(k, e)
  PROVE  /\ store' \in [Keys -> Entry(Requests)]
         /\ store'[k] = e
         /\ \A j \in Keys \ {k} : store'[j] = store[j]
         /\ ended \subseteq ended' /\ ended' \subseteq Requests
         /\ \A s \in ended' \ ended : \A j \in Keys : store'[j].val # s
         /\ \A s \in ended' \ ended : \E j \in Keys : store[j].val = s
<1>1. /\ store' \in [Keys -> Entry(Requests)]
      /\ store'[k] = e
      /\ \A j \in Keys \ {k} : store'[j] = store[j]
  BY DEF Put, IInv, TypeOK
<1>2. store[k].val \in Requests \cup {NoValue}
  BY DEF IInv, TypeOK, Entry
<1>3. ended \subseteq ended' /\ ended' \subseteq Requests
  BY <1>2 DEF Put, IInv, TypeOK
<1>4. ASSUME NEW s \in ended' \ ended
      PROVE  s = store[k].val /\ s # e.val /\ s # NoValue
  BY <1>4 DEF Put
<1>5. ASSUME NEW s \in ended' \ ended, NEW j \in Keys
      PROVE  store'[j].val # s
  BY <1>1, <1>4, <1>5 DEF IInv, StoredUnderOwnKey
<1> QED
  BY <1>1, <1>3, <1>4, <1>5

(* A command that stores no session, or one that is new to the store and   *)
(* of that key, or the same one again, keeps what is said of the store.    *)
LEMMA PutStoreInv ==
  ASSUME IInv, NEW k \in Keys, NEW e \in Entry(Requests), Put(k, e), UNCHANGED call,
         faulted \subseteq faulted',
         e.val # NoValue =>
           /\ e.ttl /\ KeyOf(e.val) = k
           /\ e.val = store[k].val \/ e.val \notin ended \/ e.val \in faulted
  PROVE  StoreInv'
<1>1. /\ store' \in [Keys -> Entry(Requests)]
      /\ store'[k] = e
      /\ \A j \in Keys \ {k} : store'[j] = store[j]
      /\ ended \subseteq ended' /\ ended' \subseteq Requests
      /\ \A s \in ended' \ ended : \A j \in Keys : store'[j].val # s
  BY PutEffect
<1>2. SessionsExpire'
  BY <1>1 DEF IInv, SessionsExpire
<1>3. StoredUnderOwnKey'
  BY <1>1 DEF IInv, StoredUnderOwnKey, KeyOf
<1>4. NoResurrection'
  <2> SUFFICES ASSUME NEW s \in ended', NEW j \in Keys, store'[j].val = s
               PROVE  s \in faulted'
    BY DEF NoResurrection, LiveSessions
  <2>1. s \in ended
    BY <1>1
  <2>2. CASE j = k
    <3>1. e.val = s /\ s # NoValue
      BY <1>1, <2>1, <2>2, SessionsAssumption DEF IInv, TypeOK
    <3>2. store[k].val = s => s \in faulted
      BY <2>1, <3>1 DEF IInv, NoResurrection, LiveSessions
    <3> QED
      BY <2>1, <3>1, <3>2
  <2>3. CASE j # k
    <3>1. store[j].val = s /\ s # NoValue
      BY <1>1, <2>1, <2>3, SessionsAssumption DEF IInv, TypeOK
    <3> QED
      BY <2>1, <3>1 DEF IInv, NoResurrection, LiveSessions
  <2> QED
    BY <2>2, <2>3
<1> QED
  BY <1>1, <1>2, <1>3, <1>4 DEF StoreInv

(* A call that sends no SET or DEL leaves all that to be as it was.        *)
LEMMA SameStoreInv ==
  ASSUME IInv, UNCHANGED <<store, call, ended>>, faulted \subseteq faulted'
  PROVE  StoreInv'
  BY DEF IInv, TypeOK, StoreInv, SessionsExpire, StoredUnderOwnKey, KeyOf,
         NoResurrection, LiveSessions

(***************************************************************************)
(* The calls, step by step                                                 *)
(***************************************************************************)
CallsInv ==
  CommandsOfCalls /\ NotYetStored /\ DoomedIsEnded /\ ReadMatches /\ AnswerMatchesFootprint

(* The two halves, with the types of what the calls keep, are the whole.   *)
LEMMA Together ==
  ASSUME StoreInv', CallsInv', UNCHANGED call, IInv,
         pc' \in [Requests -> Places], session' \in [Requests -> Requests \cup {NoValue}],
         answer' \in [Requests -> Answers], doomed' \in [Requests -> Requests \cup {NoValue}],
         faulted' \subseteq Requests
  PROVE  IInv'
  BY DEF StoreInv, CallsInv, IInv, TypeOK

(* A call begins; the session a revocation is to end is an established     *)
(* one of its key.                                                         *)
LEMMA BeginIInv ==
  ASSUME IInv, NEW r \in Requests, Begin(r)
  PROVE  IInv'
<1>1. /\ pc[r] = "new" /\ pc'[r] \in {"set", "get", "del"}
      /\ call[r].op = "establish" <=> pc'[r] = "set"
      /\ call[r].op = "validate" <=> pc'[r] = "get"
      /\ call[r].op = "revoke" <=> pc'[r] = "del"
      /\ \A q \in Requests \ {r} : pc'[q] = pc[q]
      /\ UNCHANGED <<store, call, session, answer, ended, faulted>>
      /\ pc' \in [Requests -> Places]
  BY DEF Begin, Goto, FirstCommand, IInv, TypeOK, Call, Places, Waiting
<1>2. /\ doomed' \in [Requests -> Requests \cup {NoValue}]
      /\ \A q \in Requests \ {r} : doomed'[q] = doomed[q]
      /\ doomed'[r] = doomed[r] \/ (pc'[r] = "del" /\ doomed'[r] = store[KeyOf(r)].val)
  <2>1. KeyOf(r) \in Keys
    BY SessionKeyAssumption DEF KeyOf, IInv, TypeOK, Call
  <2>2. store[KeyOf(r)].val \in Requests \cup {NoValue}
    BY <2>1 DEF IInv, TypeOK, Entry
  <2> QED
    BY <1>1, <2>2 DEF Begin, IInv, TypeOK
<1>3. StoreInv'
  BY <1>1, SameStoreInv
<1>4. CommandsOfCalls' /\ ReadMatches' /\ AnswerMatchesFootprint'
  BY <1>1 DEF IInv, CommandsOfCalls, ReadMatches, Matches, AnswerMatchesFootprint, KeyOf
<1>5. NotYetStored'
  BY <1>1 DEF IInv, NotYetStored
<1>6. DoomedIsEnded'
  <2> SUFFICES ASSUME NEW q \in Requests, doomed'[q] # NoValue,
                      q \notin faulted, doomed'[q] \notin faulted
               PROVE  /\ pc'[doomed'[q]] \notin {"new", "set"}
                      /\ KeyOf(doomed'[q]) = KeyOf(q)
                      /\ \/ pc'[q] = "del"
                         \/ pc'[q] = "done" /\ \A k \in Keys : store[k].val # doomed'[q]
    BY <1>1 DEF DoomedIsEnded, KeyOf
  <2>1. KeyOf(r) \in Keys
    BY SessionKeyAssumption DEF KeyOf, IInv, TypeOK, Call
  <2>2. CASE doomed'[q] = doomed[q]
    BY <1>1, <2>2 DEF IInv, TypeOK, DoomedIsEnded
  <2>3. CASE q = r /\ pc'[r] = "del" /\ doomed'[r] = store[KeyOf(r)].val
    <3>1. /\ KeyOf(doomed'[r]) = KeyOf(r) /\ doomed'[r] \in Requests
          /\ pc[doomed'[r]] \notin {"new", "set"}
      BY <1>2, <2>1, <2>3 DEF IInv, StoredUnderOwnKey, NotYetStored
    <3> QED
      BY <1>1, <2>3, <3>1
  <2> QED
    BY <1>2, <2>2, <2>3
<1> QED
  BY <1>1, <1>2, <1>3, <1>4, <1>5, <1>6, Together DEF CallsInv, IInv, TypeOK

(* The store after a SET for r, with or without its answer: r has not been *)
(* there before, unless a lost answer put it there.                        *)
LEMMA EstablishStore ==
  ASSUME IInv, NEW r \in Requests, pc[r] = "set", Put(KeyOf(r), Established(r)),
         UNCHANGED call, faulted \subseteq faulted'
  PROVE  /\ StoreInv'
         /\ \A k \in Keys : store'[k].val = store[k].val \/ store'[k].val = r
         /\ \A s \in ended' : s \in ended \/ \E k \in Keys : store[k].val = s
<1>1. KeyOf(r) \in Keys
  BY SessionKeyAssumption DEF KeyOf, IInv, TypeOK, Call
<1>2. /\ Established(r) \in Entry(Requests)
      /\ Established(r).val = r /\ Established(r).ttl
  BY DEF Established, SetEx, Entry
<1>3. r \notin ended \/ r \in faulted
  BY DEF IInv, NotYetStored
<1>4. StoreInv'
  BY <1>1, <1>2, <1>3, PutStoreInv
<1> QED
  BY <1>1, <1>2, <1>4, PutEffect

(* The call establishes its session and answers true.                      *)
LEMMA EstablishIInv ==
  ASSUME IInv, NEW r \in Requests, Establish(r)
  PROVE  IInv'
<1>1. /\ pc[r] = "set" /\ pc'[r] = "done" /\ answer'[r] = TRUE
      /\ \A q \in Requests \ {r} : pc'[q] = pc[q] /\ answer'[q] = answer[q]
      /\ UNCHANGED <<call, session, doomed, faulted>>
      /\ pc' \in [Requests -> Places] /\ answer' \in [Requests -> Answers]
  BY DEF Establish, Return, IInv, TypeOK, Places, Answers
<1>2. /\ StoreInv'
      /\ \A k \in Keys : store'[k].val = store[k].val \/ store'[k].val = r
      /\ \A s \in ended' : s \in ended \/ \E k \in Keys : store[k].val = s
  BY <1>1, EstablishStore DEF Establish
<1>3. CommandsOfCalls' /\ ReadMatches'
  BY <1>1 DEF IInv, CommandsOfCalls, ReadMatches, Matches, KeyOf
<1>4. AnswerMatchesFootprint'
  BY <1>1 DEF IInv, AnswerMatchesFootprint, CommandsOfCalls, KeyOf
<1>5. NotYetStored'
  BY <1>1, <1>2 DEF IInv, NotYetStored
<1>6. DoomedIsEnded'
  BY <1>1, <1>2 DEF IInv, TypeOK, DoomedIsEnded, KeyOf
<1> QED
  BY <1>1, <1>2, <1>3, <1>4, <1>5, <1>6, Together DEF CallsInv, IInv, TypeOK

(* What a validation read is stored under its key, so it is established;   *)
(* it slides the session when the footprint matches and dooms it when not. *)
LEMMA ValidateIInv ==
  ASSUME IInv, NEW r \in Requests, Validate(r)
  PROVE  IInv'
<1> DEFINE s == store[KeyOf(r)].val
<1>1. KeyOf(r) \in Keys
  BY SessionKeyAssumption DEF KeyOf, IInv, TypeOK, Call
<1>2. s \in Requests \cup {NoValue}
  BY <1>1 DEF IInv, TypeOK, Entry
<1>3. s # NoValue => KeyOf(s) = KeyOf(r) /\ (s \notin faulted => pc[s] \notin {"new", "set"})
  BY <1>1, <1>2 DEF IInv, StoredUnderOwnKey, NotYetStored
<1>4. /\ pc[r] = "get" /\ call[r].op = "validate"
      /\ session' = [session EXCEPT ![r] = s]
      /\ UNCHANGED <<store, call, ended, faulted>>
      /\ \/ s = NoValue /\ Return(r, NoValue) /\ UNCHANGED doomed
         \/ s # NoValue /\ FootprintMatches(r, s) /\ Goto(r, "expire") /\ UNCHANGED doomed
         \/ s # NoValue /\ Goto(r, "del") /\ doomed' = [doomed EXCEPT ![r] = s]
  BY DEF Validate, AfterMismatch, IInv, CommandsOfCalls
<1> HIDE DEF s
<1>5. /\ \A q \in Requests \ {r} : /\ pc'[q] = pc[q] /\ answer'[q] = answer[q]
                                   /\ session'[q] = session[q] /\ doomed'[q] = doomed[q]
      /\ pc' \in [Requests -> Places] /\ answer' \in [Requests -> Answers]
      /\ session' \in [Requests -> Requests \cup {NoValue}]
      /\ doomed' \in [Requests -> Requests \cup {NoValue}]
      /\ session'[r] = s
  BY <1>2, <1>4 DEF Return, Goto, IInv, TypeOK, Places, Waiting, Answers
<1>6. \/ pc'[r] = "done" /\ answer'[r] = NoValue /\ doomed'[r] = doomed[r] /\ s = NoValue
      \/ /\ pc'[r] = "expire" /\ answer'[r] = answer[r] /\ doomed'[r] = doomed[r]
         /\ s # NoValue /\ FootprintMatches(r, s)
      \/ pc'[r] = "del" /\ answer'[r] = answer[r] /\ doomed'[r] = s /\ s # NoValue
  BY <1>4 DEF Return, Goto, IInv, TypeOK
<1>7. StoreInv'
  BY <1>4, SameStoreInv
<1>8. CommandsOfCalls' /\ NotYetStored'
  BY <1>4, <1>5, <1>6 DEF IInv, CommandsOfCalls, NotYetStored
<1>9. ReadMatches'
  BY <1>3, <1>4, <1>5, <1>6 DEF IInv, ReadMatches, Matches, FootprintMatches, KeyOf
<1>10. AnswerMatchesFootprint'
  BY <1>4, <1>5, <1>6, SessionsAssumption DEF IInv, AnswerMatchesFootprint, KeyOf
<1>11. DoomedIsEnded'
  <2> SUFFICES ASSUME NEW q \in Requests, doomed'[q] # NoValue,
                      q \notin faulted, doomed'[q] \notin faulted
               PROVE  /\ pc'[doomed'[q]] \notin {"new", "set"}
                      /\ KeyOf(doomed'[q]) = KeyOf(q)
                      /\ \/ pc'[q] = "del"
                         \/ pc'[q] = "done" /\ \A k \in Keys : store[k].val # doomed'[q]
    BY <1>4 DEF DoomedIsEnded, KeyOf
  <2>1. \A p \in Requests : pc[p] \notin {"new", "set"} => pc'[p] \notin {"new", "set"}
    BY <1>5, <1>6
  <2>2. CASE q # r
    <3>1. doomed'[q] = doomed[q] /\ pc'[q] = pc[q] /\ doomed[q] \in Requests
      BY <1>5, <2>2 DEF IInv, TypeOK
    <3> QED
      BY <2>1, <3>1 DEF IInv, DoomedIsEnded
  <2>3. CASE q = r /\ pc'[r] = "del"
    BY <1>2, <1>3, <1>4, <1>6, <2>1, <2>3
  <2>4. CASE q = r /\ doomed'[r] = doomed[r]
    BY <1>4, <2>4 DEF IInv, DoomedIsEnded
  <2> QED
    BY <1>6, <2>2, <2>3, <2>4
<1> QED
  BY <1>4, <1>5, <1>7, <1>8, <1>9, <1>10, <1>11, Together DEF CallsInv, IInv, TypeOK

(* EXPIRE leaves the entry with the session it had.                        *)
LEMMA SlideStore ==
  ASSUME IInv, NEW r \in Requests, Put(KeyOf(r), Slide(r)), UNCHANGED <<call, faulted>>
  PROVE  /\ StoreInv' /\ UNCHANGED ended
         /\ \A k \in Keys : store'[k].val = store[k].val
<1>1. KeyOf(r) \in Keys
  BY SessionKeyAssumption DEF KeyOf, IInv, TypeOK, Call
<1>2. /\ Slide(r) \in Entry(Requests) /\ Slide(r).val = store[KeyOf(r)].val
      /\ Slide(r).val # NoValue => Slide(r).ttl
  BY <1>1 DEF Slide, ExpireEntry, Entry, IInv, TypeOK
<1>3. Slide(r).val # NoValue => KeyOf(Slide(r).val) = KeyOf(r)
  BY <1>1, <1>2 DEF IInv, StoredUnderOwnKey
<1>4. StoreInv'
  BY <1>1, <1>2, <1>3, PutStoreInv
<1>5. UNCHANGED ended
  BY <1>2 DEF Put
<1> QED
  BY <1>1, <1>2, <1>4, <1>5, PutEffect

(* The validation answers the session it read; whatever took its place in  *)
(* between keeps its own.                                                  *)
LEMMA ExpireIInv ==
  ASSUME IInv, NEW r \in Requests, Expire(r)
  PROVE  IInv'
<1>1. /\ pc[r] = "expire" /\ pc'[r] = "done" /\ answer'[r] = session[r]
      /\ Matches(r, session[r]) /\ session[r] \in Requests
      /\ \A q \in Requests \ {r} : pc'[q] = pc[q] /\ answer'[q] = answer[q]
      /\ UNCHANGED <<call, session, doomed, faulted>>
      /\ pc' \in [Requests -> Places] /\ answer' \in [Requests -> Answers]
  BY DEF Expire, Return, IInv, TypeOK, Places, Answers, CommandsOfCalls, ReadMatches
<1>2. /\ StoreInv' /\ UNCHANGED ended
      /\ \A k \in Keys : store'[k].val = store[k].val
  BY <1>1, SlideStore DEF Expire
<1>3. CommandsOfCalls' /\ ReadMatches' /\ AnswerMatchesFootprint'
  BY <1>1 DEF IInv, CommandsOfCalls, ReadMatches, Matches, AnswerMatchesFootprint, KeyOf
<1>4. NotYetStored'
  BY <1>1, <1>2 DEF IInv, NotYetStored
<1>5. DoomedIsEnded'
  BY <1>1, <1>2 DEF IInv, TypeOK, DoomedIsEnded, KeyOf
<1> QED
  BY <1>1, <1>2, <1>3, <1>4, <1>5, Together DEF CallsInv, IInv, TypeOK

(* The store after a DEL of key k, sent or due.                            *)
LEMMA ClearedStore ==
  ASSUME IInv, NEW k \in Keys, Put(k, NoEntry), UNCHANGED call, faulted \subseteq faulted'
  PROVE  /\ StoreInv'
         /\ store'[k].val = NoValue
         /\ \A j \in Keys \ {k} : store'[j] = store[j]
         /\ \A s \in ended' : s \in ended \/ \E j \in Keys : store[j].val = s
<1>1. NoEntry \in Entry(Requests) /\ NoEntry.val = NoValue
  BY DEF NoEntry, Entry
<1>2. StoreInv'
  BY <1>1, PutStoreInv
<1> QED
  BY <1>1, <1>2, PutEffect

(* The session the call was to end is gone with its key.                   *)
LEMMA DeleteIInv ==
  ASSUME IInv, NEW r \in Requests, Delete(r)
  PROVE  IInv'
<1>1. KeyOf(r) \in Keys
  BY SessionKeyAssumption DEF KeyOf, IInv, TypeOK, Call
<1>2. /\ pc[r] = "del" /\ pc'[r] = "done"
      /\ call[r].op # "revoke" => answer'[r] = NoValue
      /\ \A q \in Requests \ {r} : pc'[q] = pc[q] /\ answer'[q] = answer[q]
      /\ UNCHANGED <<call, session, doomed, faulted>>
      /\ pc' \in [Requests -> Places] /\ answer' \in [Requests -> Answers]
  BY DEF Delete, Return, IInv, TypeOK, Places, Answers
<1>3. /\ StoreInv'
      /\ store'[KeyOf(r)].val = NoValue
      /\ \A j \in Keys \ {KeyOf(r)} : store'[j] = store[j]
      /\ \A s \in ended' : s \in ended \/ \E j \in Keys : store[j].val = s
  BY <1>1, <1>2, ClearedStore DEF Delete, Del
<1>4. CommandsOfCalls' /\ ReadMatches' /\ AnswerMatchesFootprint'
  BY <1>2, SessionsAssumption
     DEF IInv, CommandsOfCalls, ReadMatches, Matches, AnswerMatchesFootprint, KeyOf
<1>5. NotYetStored'
  BY <1>2, <1>3, SessionsAssumption DEF IInv, NotYetStored
<1>6. DoomedIsEnded'
  <2> SUFFICES ASSUME NEW q \in Requests, doomed[q] # NoValue,
                      q \notin faulted, doomed[q] \notin faulted
               PROVE  /\ pc'[doomed[q]] \notin {"new", "set"}
                      /\ KeyOf(doomed[q]) = KeyOf(q)
                      /\ \/ pc'[q] = "del"
                         \/ pc'[q] = "done" /\ \A k \in Keys : store'[k].val # doomed[q]
    BY <1>2 DEF DoomedIsEnded, KeyOf
  <2>1. /\ pc[doomed[q]] \notin {"new", "set"} /\ doomed[q] \in Requests
        /\ KeyOf(doomed[q]) = KeyOf(q)
        /\ \/ pc[q] = "del"
           \/ pc[q] = "done" /\ \A k \in Keys : store[k].val # doomed[q]
    BY DEF IInv, TypeOK, DoomedIsEnded
  <2>2. pc'[doomed[q]] \notin {"new", "set"}
    BY <1>2, <2>1
  <2>3. CASE q = r
    <3>1. \A k \in Keys : store'[k].val # doomed[r]
      BY <1>3, <2>1, <2>3 DEF IInv, StoredUnderOwnKey
    <3> QED
      BY <1>2, <2>1, <2>2, <2>3, <3>1
  <2>4. CASE q # r
    BY <1>2, <1>3, <2>1, <2>2, <2>4
  <2> QED
    BY <2>3, <2>4
<1> QED
  BY <1>2, <1>3, <1>4, <1>5, <1>6, Together DEF CallsInv, IInv, TypeOK

(***************************************************************************)
(* Redis and the faults                                                    *)
(***************************************************************************)
(* A key that is gone ends its session, and brings none back.              *)
LEMMA KeyExpiresIInv ==
  ASSUME IInv, NEW k \in Keys, KeyExpires(k)
  PROVE  IInv'
<1>1. UNCHANGED <<pc, call, session, answer, doomed, faulted>>
  BY DEF KeyExpires
<1>2. /\ StoreInv'
      /\ store'[k].val = NoValue
      /\ \A j \in Keys \ {k} : store'[j] = store[j]
      /\ \A s \in ended' : s \in ended \/ \E j \in Keys : store[j].val = s
  BY <1>1, ClearedStore DEF KeyExpires
<1>3. CommandsOfCalls' /\ ReadMatches' /\ AnswerMatchesFootprint'
  BY <1>1 DEF IInv, CommandsOfCalls, ReadMatches, Matches, AnswerMatchesFootprint, KeyOf
<1>4. NotYetStored'
  BY <1>1, <1>2, SessionsAssumption DEF IInv, NotYetStored
<1>5. DoomedIsEnded'
  BY <1>1, <1>2 DEF IInv, DoomedIsEnded, KeyOf
<1> QED
  BY <1>1, <1>2, <1>3, <1>4, <1>5, Together DEF CallsInv, IInv, TypeOK

(* A call that a fault ends or cuts short ends no session, and answers     *)
(* nothing but what it had read.                                           *)
LEMMA FaultIInv ==
  ASSUME IInv, NEW r \in Requests, CacheError(r) \/ Crash(r)
  PROVE  IInv'
<1>1. /\ pc[r] \in Waiting /\ pc'[r] \in {"done", "lost"}
      /\ \A q \in Requests \ {r} : pc'[q] = pc[q] /\ answer'[q] = answer[q]
      /\ faulted' = faulted \cup {r}
      /\ UNCHANGED <<store, call, session, doomed, ended>>
      /\ pc' \in [Requests -> Places]
  BY DEF CacheError, Crash, Goto, Return, IInv, TypeOK, Places, Waiting
<1>2. /\ answer' \in [Requests -> Answers]
      /\ call[r].op = "validate" =>
           answer'[r] \in {NoValue, answer[r]} \/ (pc[r] = "expire" /\ answer'[r] = session[r])
  BY DEF CacheError, Crash, Goto, Return, CacheFailure, IInv, TypeOK, Answers,
         CommandsOfCalls
<1>3. StoreInv'
  BY <1>1, SameStoreInv
<1>4. CommandsOfCalls' /\ ReadMatches' /\ NotYetStored'
  BY <1>1 DEF IInv, CommandsOfCalls, ReadMatches, Matches, NotYetStored, KeyOf
<1>5. AnswerMatchesFootprint'
  BY <1>1, <1>2, SessionsAssumption
     DEF IInv, AnswerMatchesFootprint, ReadMatches, Matches, KeyOf
<1>6. DoomedIsEnded'
  BY <1>1 DEF IInv, TypeOK, DoomedIsEnded, KeyOf, Waiting
<1> QED
  BY <1>1, <1>2, <1>3, <1>4, <1>5, <1>6, Together DEF CallsInv, IInv, TypeOK

(* SET or DEL has run, and its call, now known to be faulted, waits on.    *)
LEMMA LoseReplyIInv ==
  ASSUME IInv, NEW r \in Requests, LoseReply(r)
  PROVE  IInv'
<1>1. /\ UNCHANGED <<pc, call, session, answer, doomed>>
      /\ faulted' = faulted \cup {r}
  BY DEF LoseReply
<1>2. CommandsOfCalls' /\ ReadMatches' /\ AnswerMatchesFootprint'
  BY <1>1 DEF IInv, CommandsOfCalls, ReadMatches, Matches, AnswerMatchesFootprint, KeyOf
<1>3. /\ StoreInv'
      /\ \A k \in Keys : store'[k].val \in {store[k].val, r, NoValue}
      /\ \A s \in ended' : s \in ended \/ \E k \in Keys : store[k].val = s
  <2>1. CASE pc[r] = "set" /\ Put(KeyOf(r), Established(r))
    <3>1. faulted \subseteq faulted'
      BY <1>1
    <3> QED
      BY <1>1, <2>1, <3>1, EstablishStore
  <2>2. CASE Put(KeyOf(r), Del(store[KeyOf(r)]))
    <3>1. KeyOf(r) \in Keys /\ faulted \subseteq faulted'
      BY <1>1, SessionKeyAssumption DEF KeyOf, IInv, TypeOK, Call
    <3>2. Put(KeyOf(r), NoEntry)
      BY <2>2 DEF Del
    <3>3. /\ StoreInv'
          /\ store'[KeyOf(r)].val = NoValue
          /\ \A j \in Keys \ {KeyOf(r)} : store'[j] = store[j]
          /\ \A s \in ended' : s \in ended \/ \E j \in Keys : store[j].val = s
      BY <1>1, <3>1, <3>2, ClearedStore
    <3> QED
      BY <3>3
  <2> QED
    BY <2>1, <2>2 DEF LoseReply
<1>4. NotYetStored'
  BY <1>1, <1>3, SessionsAssumption DEF IInv, NotYetStored
<1>5. DoomedIsEnded'
  BY <1>1, <1>3 DEF IInv, TypeOK, DoomedIsEnded, KeyOf
<1> QED
  BY <1>1, <1>2, <1>3, <1>4, <1>5, Together DEF CallsInv, IInv, TypeOK

(* Every step keeps the inductive invariant.                               *)
LEMMA NextIInv == IInv /\ [Next]_vars => IInv'
<1> SUFFICES ASSUME IInv, [Next]_vars
             PROVE  IInv'
  OBVIOUS
<1>1. CASE UNCHANGED vars
  BY <1>1 DEF vars, IInv, TypeOK, SessionsExpire, CommandsOfCalls, StoredUnderOwnKey,
              NotYetStored, DoomedIsEnded, ReadMatches, Matches, AnswerMatchesFootprint,
              NoResurrection, LiveSessions, KeyOf
<1>2. CASE Next
  BY <1>1, <1>2, BeginIInv, EstablishIInv, ValidateIInv, ExpireIInv, DeleteIInv,
     FaultIInv, LoseReplyIInv, KeyExpiresIInv DEF Next, Done
<1> QED
  BY <1>1, <1>2

(***************************************************************************)
(* The theorems                                                            *)
(***************************************************************************)
(* The inductive invariant of the session manager holds in every reachable *)
(* state.                                                                  *)
THEOREM Invariance == Spec => []IInv
  BY InitIInv, NextIInv, PTL DEF Spec

(* The sessions in the store, what the calls have read and what they       *)
(* answered stay well typed.                                               *)
THEOREM TypeCorrect == Spec => []TypeOK
<1>1. IInv => TypeOK
  BY DEF IInv
<1> QED
  BY Invariance, <1>1, PTL

(* Whatever mix of establishSession, validateSession and revokeSession     *)
(* runs, no session is ever stored without its expiry.                     *)
THEOREM SessionsAlwaysExpire == Spec => []SessionsExpire
<1>1. IInv => SessionsExpire
  BY DEF IInv
<1> QED
  BY Invariance, <1>1, PTL

(* A session that has left the store stays away from it, for any number of *)
(* validations that were about to slide it, unless its own SET is resent.  *)
THEOREM NothingComesBack == Spec => []NoResurrection
<1>1. IInv => NoResurrection
  BY DEF IInv
<1> QED
  BY Invariance, <1>1, PTL

(* revokeSession, and a validation that found a foreign user agent, end    *)
(* the session they meant for good.                                        *)
THEOREM RevocationsAreFinal == Spec => []RevocationIsFinal
<1>1. IInv => RevocationIsFinal
  BY DEF IInv, DoomedIsEnded, RevocationIsFinal, LiveSessions
<1> QED
  BY Invariance, <1>1, PTL

(* validateSession answers only a session established under its own key    *)
(* from the user agent that asks.                                          *)
THEOREM AnswersMatchFootprint == Spec => []AnswerMatchesFootprint
<1>1. IInv => AnswerMatchesFootprint
  BY DEF IInv
<1> QED
  BY Invariance, <1>1, PTL
=============================================================================
