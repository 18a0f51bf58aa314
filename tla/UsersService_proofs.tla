------------------------- MODULE UsersService_proofs -------------------------
(***************************************************************************)
(* For every set of requests, users and keys, both kinds of repository and *)
(* every mix of the faults: the type invariant of UsersService, its safety *)
(* properties, and that it implements UserDirectory.                       *)
(***************************************************************************)
EXTENDS UsersService, TLAPS

(***************************************************************************)
(* The inductive invariant                                                 *)
(***************************************************************************)

(* Each place belongs to the operations that go there, and only calls that *)
(* passed every check go anywhere.                                         *)
Course(r) ==
  /\ pc[r] \in Running => Refusal(call[r]) = "NONE"
  /\ pc[r] \in {"lookup", "fill"} => call[r].op = "get"
  /\ pc[r] = "find" => call[r].op \in {"get", "update", "delete"}
  /\ pc[r] \in {"write", "evict"} => Writer(r)
  /\ pc[r] \in {"find_email", "insert"} => call[r].op = "create"
  /\ pc[r] = "scan" => call[r].op = "list"

(* What a request holds across an await: the row it is about to cache,     *)
(* which is the one in the table still or was overlapped; and that the row *)
(* it found is there.                                                      *)
Holding(r) ==
  /\ pc[r] \in {"fill", "write"} => table[call[r].id] # NoUser
  /\ pc[r] = "fill" =>
       /\ found[r] \in User /\ found[r].id = call[r].id
       /\ found[r] = table[call[r].id] \/ r \in overlapped

(* Where a request may be that has written, or has said so.                *)
Recorded(r) ==
  /\ pc[r] \in {"evict", "audit"} \/ r \in audited => kind = "default" \/ r \in committed
  /\ r \in committed => /\ pc[r] \in {"evict", "audit", "answered", "lost"}
                        /\ pc[r] = "answered" => r \in audited \/ r \in faulted

Facts(r) == Course(r) /\ Holding(r) /\ Recorded(r)
Requested == \A r \in Requests : Facts(r)

(* Every row has the id it is found by, and an e-mail that was checked.    *)
Rows == \A i \in Ids :
  table[i] # NoUser => table[i].id = i /\ table[i].email \in WellFormedEmails

(* Every cached profile is under its own key, and its row exists.          *)
Cached == \A k \in Keys :
  store[k].val # NoValue =>
    ProfileKey[store[k].val.id] = k /\ table[store[k].val.id] # NoUser

(* Under k the profile of u is cached, and differs from its row; and what  *)
(* may be the reason: StaleHasCause, by user.                              *)
StaleOf(k, u) == store[k].val # NoValue /\ store[k].val.id = u /\ store[k].val # table[u]
Cause(q, u) ==
  /\ call[q].id = u
  /\ pc[q] = "evict" \/ q \in overlapped \/ (Writer(q) /\ q \in faulted)
Explained == \A k \in Keys, u \in Ids : StaleOf(k, u) => \E q \in Requests : Cause(q, u)

IInv ==
  /\ TypeOK
  /\ Requested
  /\ Rows
  /\ EmailUnique
  /\ Cached
  /\ Explained

(***************************************************************************)
(* The checks                                                              *)
(***************************************************************************)

(* A call that is not refused passed each of the checks.                   *)
LEMMA NotRefused ==
  ASSUME NEW c, Refusal(c) = "NONE"
  PROVE  Entitled(c) /\ ~SelfDelete(c) /\ ~RoleBlocked(c) /\ ~Malformed(c)
  BY DEF Refusal

(* A list that is not refused reads a page that exists, of 1 to 100        *)
(* records.                                                                *)
LEMMA ListBounds ==
  ASSUME NEW c \in Call, c.op = "list", Refusal(c) = "NONE"
  PROVE  Skip(c) >= 0 /\ Limit(c) \in 1..100
<1>1. ValidateListQueries(c)
  BY NotRefused DEF Malformed
<1>2. Limit(c) \in 1..100
  BY <1>1 DEF Call, Parsed, ValidateListQueries, InInterval, Limit, Or
<1>3. Or(c.page, 1) - 1 \in Nat
  BY <1>1 DEF Call, Parsed, ValidateListQueries, Or
<1>4. \A m, n \in Nat : m * n >= 0
  OBVIOUS
<1> QED
  BY <1>2, <1>3, <1>4 DEF Skip

(***************************************************************************)
(* The steps                                                               *)
(***************************************************************************)

(* Only r moves, to a place.                                               *)
Moves(r, place) ==
  /\ pc' \in [Requests -> Places]
  /\ answer' \in [Requests -> [status : Nat, user : User \cup {NoUser}]]
  /\ pc'[r] = place
  /\ \A q \in Requests \ {r} : pc'[q] = pc[q]

(* A request goes on to its next place.                                    *)
LEMMA GotoMoves ==
  ASSUME TypeOK, NEW r \in Requests, NEW place \in Places, Goto(r, place)
  PROVE  Moves(r, place)
  BY DEF Goto, Moves, TypeOK

(* A request is answered.                                                  *)
LEMMA ReplyMoves ==
  ASSUME TypeOK, NEW r \in Requests, NEW user \in User \cup {NoUser},
         NEW outcome \in {"SUCCESS", "CREATED", "VALIDATION", "BAD_REQUEST", "UNAUTHORIZED",
                          "FORBIDDEN", "NOT_FOUND", "CONFLICT", "DATABASE"},
         Reply(r, outcome, user)
  PROVE  Moves(r, "answered")
<1>1. Status[outcome] \in Nat
  BY DEF Status
<1> DEFINE a == [status |-> Status[outcome], user |-> user]
<1>2. a \in [status : Nat, user : User \cup {NoUser}]
  BY <1>1
<1>3. pc' = [pc EXCEPT ![r] = "answered"] /\ answer' = [answer EXCEPT ![r] = a]
  BY DEF Reply
<1> HIDE DEF a
<1> QED
  BY <1>2, <1>3 DEF Moves, TypeOK, Places

(* A request is answered with success.                                     *)
LEMMA SucceedMoves ==
  ASSUME TypeOK, NEW r \in Requests, NEW user \in User \cup {NoUser}, Succeed(r, user)
  PROVE  Moves(r, "answered")
  BY ReplyMoves DEF Succeed

(* A request is answered with an error.                                    *)
LEMMA FailMoves ==
  ASSUME TypeOK, NEW r \in Requests,
         NEW error \in {"VALIDATION", "BAD_REQUEST", "UNAUTHORIZED", "FORBIDDEN", "NOT_FOUND",
                        "CONFLICT", "DATABASE"},
         Fail(r, error)
  PROVE  Moves(r, "answered")
  BY ReplyMoves DEF Fail

(* What a step of r leaves alone: the calls, the rows that exist, and the  *)
(* requests other than r, but for the reads it overlaps.                   *)
StepOf(r) ==
  /\ UNCHANGED <<kind, call>>
  /\ \A i \in Ids : table[i] # NoUser => table'[i] # NoUser
  /\ \A q \in Requests \ {r} :
       /\ pc'[q] = pc[q] /\ found'[q] = found[q]
       /\ q \in committed' <=> q \in committed
       /\ q \in audited' <=> q \in audited
       /\ pc[q] = "fill" => table'[call[q].id] = table[call[q].id] \/ q \in overlapped'
  /\ overlapped \subseteq overlapped' /\ faulted \subseteq faulted'

(* The facts about the other requests outlast a step of r.                 *)
LEMMA OthersKept ==
  ASSUME IInv, NEW r, StepOf(r), NEW q \in Requests, q # r
  PROVE  Facts(q)'
<1>1. Facts(q) /\ call[q].id \in Ids
  BY DEF IInv, Requested, TypeOK, Call
<1>2. /\ pc'[q] = pc[q] /\ found'[q] = found[q] /\ call' = call /\ kind' = kind
      /\ (q \in committed' <=> q \in committed) /\ (q \in audited' <=> q \in audited)
  BY DEF StepOf
<1>3. Course(q)'
  BY <1>1, <1>2 DEF Facts, Course, Writer
<1>4. Holding(q)'
  BY <1>1, <1>2 DEF Facts, Holding, StepOf
<1>5. Recorded(q)'
  BY <1>1, <1>2 DEF Facts, Recorded, StepOf
<1> QED
  BY <1>3, <1>4, <1>5 DEF Facts

(* The causes outlast a step of r that makes nothing stale without being a *)
(* cause itself, and that ends a cause only with what it caused.           *)
LEMMA CauseKept ==
  ASSUME IInv, NEW r, StepOf(r),
         \A k \in Keys, u \in Ids : StaleOf(k, u)' =>
           StaleOf(k, u) \/ \E q \in Requests : Cause(q, u)',
         r \in Requests => \A k \in Keys, u \in Ids :
                            StaleOf(k, u)' /\ Cause(r, u) => Cause(r, u)'
  PROVE  Explained'
<1> SUFFICES ASSUME NEW k \in Keys, NEW u \in Ids, StaleOf(k, u)'
             PROVE  \E q \in Requests : Cause(q, u)'
  BY DEF Explained
<1>1. CASE StaleOf(k, u)
  <2>1. PICK q \in Requests : Cause(q, u)
    BY <1>1 DEF IInv, Explained
  <2>2. CASE q # r
    BY <2>1, <2>2 DEF StepOf, Cause, Writer
  <2>3. CASE q = r
    BY <2>1, <2>3
  <2> QED
    BY <2>2, <2>3
<1> QED
  BY <1>1

(* A step that leaves the table and the cache alone.                       *)
LEMMA UnwrittenStep ==
  ASSUME IInv, NEW r \in Requests, NEW place \in Places, Moves(r, place),
         UNCHANGED <<kind, table, store, call, committed, overlapped>>,
         found' \in [Requests -> User \cup {NoUser}],
         \A q \in Requests \ {r} : found'[q] = found[q] /\ (q \in audited' <=> q \in audited),
         audited' \subseteq Requests, faulted \subseteq faulted', faulted' \subseteq Requests,
         afterDelete' \subseteq Requests,
         pc[r] = "evict" => r \in faulted',
         Facts(r)'
  PROVE  IInv'
<1>1. TypeOK'
  BY DEF IInv, TypeOK, Moves
<1>2. StepOf(r)
  BY DEF StepOf, Moves
<1>3. Requested'
  BY <1>2, OthersKept DEF Requested
<1>4. Rows' /\ EmailUnique' /\ Cached'
  BY DEF IInv, Rows, EmailUnique, Cached
<1>5. Explained'
  <2>1. \A k \in Keys, u \in Ids : StaleOf(k, u)' => StaleOf(k, u)
    BY DEF StaleOf
  <2>2. \A u \in Ids : Cause(r, u) => Cause(r, u)'
    BY DEF IInv, Requested, Facts, Course, Cause, Writer
  <2> QED
    BY <1>2, <2>1, <2>2, CauseKept
<1> QED
  BY <1>1, <1>3, <1>4, <1>5 DEF IInv

(* The checks before the first await.                                      *)
LEMMA StartStep ==
  ASSUME IInv, NEW r \in Requests, Start(r)
  PROVE  IInv'
<1>1. TypeOK /\ Facts(r) /\ call[r] \in Call /\ pc[r] = "new"
  BY DEF IInv, Requested, TypeOK, Start
<1>2. UNCHANGED <<kind, table, store, call, found, audited, committed, overlapped, faulted>>
      /\ afterDelete' \subseteq Requests
  BY <1>1 DEF Start, TypeOK
<1>3. PICK place \in {"lookup", "find", "find_email", "scan", "answered"} :
        /\ Moves(r, place)
        /\ place # "answered" => Refusal(call[r]) = "NONE" /\ place = FirstAwait[call[r].op]
  <2>1. CASE Refusal(call[r]) = "NONE"
    <3>1. FirstAwait[call[r].op] \in {"lookup", "find", "find_email", "scan"}
      BY <1>1 DEF FirstAwait, Call
    <3>2. Goto(r, FirstAwait[call[r].op])
      BY <2>1 DEF Start
    <3>3. Moves(r, FirstAwait[call[r].op])
      BY <1>1, <3>1, <3>2, GotoMoves DEF Places, Running, AtDatabase, AtCache
    <3> QED
      BY <2>1, <3>1, <3>3
  <2>2. CASE Refusal(call[r]) # "NONE"
    <3>1. Refusal(call[r]) \in {"UNAUTHORIZED", "BAD_REQUEST", "FORBIDDEN", "VALIDATION"}
      BY <2>2 DEF Refusal
    <3>2. Fail(r, Refusal(call[r]))
      BY <2>2 DEF Start
    <3>3. Moves(r, "answered")
      BY <1>1, <3>1, <3>2, FailMoves
    <3> QED
      BY <3>3
  <2> QED
    BY <2>1, <2>2
<1>4. Course(r)'
  <2>1. place = "lookup" => call[r].op = "get"
    BY <1>1, <1>3 DEF FirstAwait, Call
  <2>2. place = "find" => call[r].op \in {"update", "delete"}
    BY <1>1, <1>3 DEF FirstAwait, Call
  <2>3. place = "find_email" => call[r].op = "create"
    BY <1>1, <1>3 DEF FirstAwait, Call
  <2>4. place = "scan" => call[r].op = "list"
    BY <1>1, <1>3 DEF FirstAwait, Call
  <2> QED
    BY <1>2, <1>3, <2>1, <2>2, <2>3, <2>4 DEF Course, Moves, Running, AtDatabase, AtCache
<1>5. Holding(r)' /\ Recorded(r)'
  BY <1>1, <1>2, <1>3 DEF Facts, Holding, Recorded, Moves
<1> QED
  BY <1>1, <1>2, <1>3, <1>4, <1>5, UnwrittenStep
  DEF Facts, TypeOK, Places, Running, AtDatabase, AtCache

(* The cache is asked, or does not answer.                                 *)
LEMMA LookupStep ==
  ASSUME IInv, NEW r \in Requests,
         Lookup(r) \/ (CacheError(r) /\ pc[r] = "lookup")
  PROVE  IInv'
<1>1. TypeOK /\ Facts(r) /\ call[r] \in Call /\ pc[r] = "lookup"
  BY DEF IInv, Requested, TypeOK, Lookup
<1>2. /\ UNCHANGED <<kind, table, store, call, found, audited, committed, overlapped, afterDelete>>
      /\ faulted \subseteq faulted' /\ faulted' \subseteq Requests
  BY <1>1 DEF Lookup, CacheError, history, TypeOK
<1>3. PICK place \in {"find", "answered"} : Moves(r, place)
  <2>1. CASE Goto(r, "find")
    BY <1>1, <2>1, GotoMoves DEF Places, Running, AtDatabase
  <2>2. ASSUME store[KeyOf(r)].val # NoValue, Succeed(r, store[KeyOf(r)].val)
        PROVE  Moves(r, "answered")
    <3>1. KeyOf(r) \in Keys
      BY <1>1, ProfileKeyAssumption DEF KeyOf, Call
    <3>2. store[KeyOf(r)].val \in User
      BY <1>1, <2>2, <3>1 DEF TypeOK, Entry
    <3> QED
      BY <1>1, <2>2, <3>2, SucceedMoves
  <2> QED
    BY <1>1, <2>1, <2>2 DEF Lookup, CacheError
<1>4. Facts(r)'
  BY <1>1, <1>2, <1>3 DEF Facts, Course, Holding, Recorded, Moves, Running, AtDatabase, AtCache
<1> QED
  BY <1>1, <1>2, <1>3, <1>4, UnwrittenStep DEF TypeOK, Places, Running, AtDatabase

(* The row is read.                                                        *)
LEMMA FindStep ==
  ASSUME IInv, NEW r \in Requests, Find(r)
  PROVE  IInv'
<1>1. TypeOK /\ Facts(r) /\ call[r] \in Call /\ pc[r] = "find" /\ call[r].id \in Ids
      /\ UNCHANGED <<kind, table, store, call, audited, committed, overlapped, faulted, afterDelete>>
  BY DEF IInv, Requested, TypeOK, Find, Call, history
<1>2. CASE table[call[r].id] = NoUser
  <2>1. Moves(r, "answered") /\ UNCHANGED found
    BY <1>1, <1>2, FailMoves DEF Find
  <2>2. Facts(r)'
    BY <1>1, <2>1 DEF Facts, Course, Holding, Recorded, Moves, Running, AtDatabase, AtCache
  <2> QED
    BY <1>1, <2>1, <2>2, UnwrittenStep DEF TypeOK, Places
<1>3. CASE table[call[r].id] # NoUser
  <2>1. /\ found' = [found EXCEPT ![r] = table[call[r].id]]
        /\ Goto(r, AfterFind(r))
    BY <1>3 DEF Find
  <2>2. PICK place \in {"write", "fill"} : Moves(r, place) /\ (place = "write" <=> Writer(r))
    BY <1>1, <2>1, GotoMoves DEF AfterFind, Places, Running, AtDatabase, AtCache
  <2>3. table[call[r].id] \in User /\ table[call[r].id].id = call[r].id
    BY <1>1, <1>3 DEF IInv, Rows, TypeOK
  <2>4. /\ found' \in [Requests -> User \cup {NoUser}] /\ found'[r] = table[call[r].id]
        /\ \A q \in Requests \ {r} : found'[q] = found[q]
    BY <1>1, <2>1, <2>3 DEF TypeOK
  <2>5. Facts(r)'
    BY <1>1, <1>3, <2>2, <2>3, <2>4
    DEF Facts, Course, Holding, Recorded, Moves, Writer, Running, AtDatabase, AtCache
  <2> QED
    BY <1>1, <2>2, <2>4, <2>5, UnwrittenStep DEF TypeOK, Places, Running, AtDatabase, AtCache
<1> QED
  BY <1>2, <1>3

(* Steps that write nothing at all: a read of the table, a write that the  *)
(* database refuses or the default repository makes up, a failed command.  *)
LEMMA PlainStep ==
  ASSUME IInv, NEW r \in Requests,
         NEW place \in {"insert", "audit", "answered", "evict"}, Moves(r, place),
         UNCHANGED <<kind, table, store, call, committed, overlapped, audited, afterDelete>>,
         found' \in [Requests -> User \cup {NoUser}],
         \A q \in Requests \ {r} : found'[q] = found[q],
         faulted \subseteq faulted', faulted' \subseteq Requests,
         \/ place = "insert" /\ pc[r] = "find_email"
         \/ place = "evict" /\ pc[r] = "write" /\ kind = "default"
         \/ place = "audit" /\ pc[r] \in {"insert", "evict"} /\ (kind = "default" \/ r \in committed)
         \/ place = "answered" /\ pc[r] \in Running,
         pc[r] \in {"evict", "audit"} => r \in faulted'
  PROVE  IInv'
<1>1. TypeOK /\ Facts(r)
  BY DEF IInv, Requested
<1>2. Course(r)'
  BY <1>1 DEF Facts, Course, Moves, Writer, Running, AtDatabase, AtCache
<1>3. Holding(r)' /\ Recorded(r)'
  BY <1>1 DEF Facts, Holding, Recorded, Moves, Running, AtDatabase, AtCache
<1> QED
  BY <1>1, <1>2, <1>3, UnwrittenStep
  DEF Facts, TypeOK, Places, Running, AtDatabase, AtCache

(* The audit record is written, or its failure swallowed.                  *)
LEMMA AuditStep ==
  ASSUME IInv, NEW r \in Requests, Audit(r) \/ AuditError(r)
  PROVE  IInv'
<1>1. /\ TypeOK /\ Facts(r) /\ pc[r] = "audit"
      /\ UNCHANGED <<kind, table, store, call, found, committed, overlapped, afterDelete>>
      /\ faulted \subseteq faulted' /\ faulted' \subseteq Requests /\ audited' \subseteq Requests
      /\ r \in audited' \/ r \in faulted'
      /\ \A q \in Requests \ {r} : q \in audited' <=> q \in audited
  BY DEF IInv, Requested, TypeOK, Audit, AuditError, history
<1>2. Moves(r, "answered")
  <2> DEFINE user == IF call[r].op = "delete" THEN NoUser ELSE found[r]
  <2>1. user \in User \cup {NoUser}
    BY <1>1 DEF TypeOK
  <2>2. Succeed(r, user)
    BY DEF Audit, AuditError
  <2> HIDE DEF user
  <2> QED
    BY <1>1, <2>1, <2>2, SucceedMoves
<1>3. Facts(r)'
  BY <1>1, <1>2 DEF Facts, Course, Holding, Recorded, Moves, Running, AtDatabase, AtCache
<1> QED
  BY <1>1, <1>2, <1>3, UnwrittenStep DEF TypeOK, Places

(* An entry disappears: it was evicted, or has expired.                    *)
LEMMA EntryDropped ==
  ASSUME IInv, NEW k \in Keys, store' = [store EXCEPT ![k] = NoEntry], UNCHANGED table
  PROVE  /\ store' \in [Keys -> Entry(User)] /\ Cached'
         /\ \A l \in Keys, u \in Ids : StaleOf(l, u)' => StaleOf(l, u) /\ l # k
<1>1. NoEntry \in Entry(User) /\ NoEntry.val = NoValue
  BY DEF NoEntry, Entry
<1>2. store' \in [Keys -> Entry(User)] /\ store'[k] = NoEntry
      /\ \A l \in Keys \ {k} : store'[l] = store[l]
  BY <1>1 DEF IInv, TypeOK
<1>3. Cached'
  BY <1>1, <1>2 DEF IInv, Cached
<1>4. \A l \in Keys, u \in Ids : StaleOf(l, u)' => StaleOf(l, u) /\ l # k
  BY <1>1, <1>2 DEF StaleOf
<1> QED
  BY <1>2, <1>3, <1>4

(* A writer evicts the profile it may have made stale.                     *)
LEMMA EvictStep ==
  ASSUME IInv, NEW r \in Requests, Evict(r)
  PROVE  IInv'
<1>1. TypeOK /\ Facts(r) /\ pc[r] = "evict" /\ call[r] \in Call /\ KeyOf(r) \in Keys
  BY ProfileKeyAssumption DEF IInv, Requested, TypeOK, Evict, KeyOf, Call
<1>2. UNCHANGED <<kind, table, call, found, audited, committed, overlapped, faulted, afterDelete>>
      /\ store' = [store EXCEPT ![KeyOf(r)] = NoEntry]
  BY DEF Evict, history, Del
<1>3. Moves(r, "audit")
  BY <1>1, GotoMoves DEF Evict, Places, Running
<1>4. /\ store' \in [Keys -> Entry(User)] /\ Cached'
      /\ \A l \in Keys, u \in Ids : StaleOf(l, u)' => StaleOf(l, u) /\ l # KeyOf(r)
  BY <1>1, <1>2, EntryDropped
<1>5. TypeOK'
  BY <1>1, <1>2, <1>3, <1>4 DEF TypeOK, Moves
<1>6. StepOf(r)
  BY <1>2, <1>3 DEF StepOf, Moves
<1>7. Facts(r)'
  BY <1>1, <1>2, <1>3 DEF Facts, Course, Holding, Recorded, Moves, Running, AtCache
<1>8. Requested'
  BY <1>6, <1>7, OthersKept DEF Requested
<1>9. Rows' /\ EmailUnique'
  BY <1>2 DEF IInv, Rows, EmailUnique
<1>10. Explained'
  <2>1. ASSUME NEW l \in Keys, NEW u \in Ids, StaleOf(l, u)', Cause(r, u)
        PROVE  FALSE
    <3>1. StaleOf(l, u) /\ l # KeyOf(r)
      BY <1>4, <2>1
    <3>2. ProfileKey[u] = l
      BY <3>1 DEF IInv, Cached, StaleOf
    <3>3. call[r].id = u
      BY <2>1 DEF Cause
    <3> QED
      BY <3>1, <3>2, <3>3 DEF KeyOf
  <2> QED
    BY <1>4, <1>6, <2>1, CauseKept
<1> QED
  BY <1>4, <1>5, <1>8, <1>9, <1>10 DEF IInv

(* A profile expires.                                                      *)
LEMMA ExpiryStep ==
  ASSUME IInv, NEW k \in Keys, KeyExpires(k)
  PROVE  IInv'
<1>1. UNCHANGED <<kind, table, pc, call, found, answer, audited, committed, overlapped, faulted,
                  afterDelete>>
  BY DEF KeyExpires, history
<1>2. /\ store' \in [Keys -> Entry(User)] /\ Cached'
      /\ \A l \in Keys, u \in Ids : StaleOf(l, u)' => StaleOf(l, u) /\ l # k
  BY <1>1, EntryDropped DEF KeyExpires
<1>3. TypeOK' /\ Rows' /\ EmailUnique'
  BY <1>1, <1>2 DEF IInv, TypeOK, Rows, EmailUnique
<1>4. Requested'
  BY <1>1 DEF IInv, Requested, Facts, Course, Holding, Recorded, Writer
<1>5. Explained'
  BY <1>1, <1>2 DEF IInv, Explained, Cause, Writer
<1> QED
  BY <1>2, <1>3, <1>4, <1>5 DEF IInv

(* A reader caches the row it holds, or fails to.                          *)
LEMMA FillStep ==
  ASSUME IInv, NEW r \in Requests, Fill(r)
  PROVE  IInv'
<1>1. /\ TypeOK /\ Facts(r) /\ pc[r] = "fill" /\ call[r] \in Call /\ KeyOf(r) \in Keys
      /\ found[r] \in User /\ found[r].id = call[r].id /\ table[call[r].id] # NoUser
      /\ found[r] = table[call[r].id] \/ r \in overlapped
  BY ProfileKeyAssumption DEF IInv, Requested, TypeOK, Fill, KeyOf, Call, Facts, Holding
<1>2. UNCHANGED <<kind, table, call, found, audited, committed, overlapped, faulted, afterDelete>>
  BY DEF Fill, history
<1>3. Moves(r, "answered")
  BY <1>1, SucceedMoves DEF Fill
<1>4. SetEx(found[r]) \in Entry(User) /\ SetEx(found[r]).val = found[r]
  BY <1>1 DEF SetEx, Entry
<1>5. /\ store' \in [Keys -> Entry(User)] /\ store'[KeyOf(r)].val = found[r]
      /\ \A l \in Keys \ {KeyOf(r)} : store'[l] = store[l]
  BY <1>1, <1>4 DEF Fill, CachedAs, TypeOK
<1>6. TypeOK'
  BY <1>1, <1>2, <1>3, <1>5 DEF TypeOK, Moves
<1>7. StepOf(r)
  BY <1>2, <1>3 DEF StepOf, Moves
<1>8. Facts(r)'
  BY <1>1, <1>2, <1>3 DEF Facts, Course, Holding, Recorded, Moves, Running, AtDatabase, AtCache
<1>9. Requested'
  BY <1>7, <1>8, OthersKept DEF Requested
<1>10. Rows' /\ EmailUnique'
  BY <1>2 DEF IInv, Rows, EmailUnique
<1>11. Cached'
  BY <1>1, <1>2, <1>5 DEF IInv, Cached, KeyOf
<1>12. Explained'
  <2>1. ASSUME NEW l \in Keys, NEW u \in Ids, StaleOf(l, u)', ~StaleOf(l, u)
        PROVE  Cause(r, u)'
    <3>1. l = KeyOf(r)
      BY <1>2, <1>5, <2>1 DEF StaleOf
    <3>2. found[r].id = u /\ found[r] # table[u]
      BY <1>2, <1>5, <2>1, <3>1 DEF StaleOf
    <3> QED
      BY <1>1, <1>2, <3>2 DEF Cause
  <2>2. \A u \in Ids : Cause(r, u) => Cause(r, u)'
    BY <1>1, <1>2 DEF Cause, Writer
  <2> QED
    BY <1>7, <2>1, <2>2, CauseKept
<1> QED
  BY <1>6, <1>9, <1>10, <1>11, <1>12 DEF IInv

(* An update or soft delete that passed the checks leaves a row with the   *)
(* same id and an e-mail that was checked.                                 *)
LEMMA PatchedRow ==
  ASSUME NEW row \in User, row.email \in WellFormedEmails, NEW c \in Call,
         c.op \in {"update", "delete"}, Refusal(c) = "NONE"
  PROVE  /\ Patched(row, c) \in User /\ Patched(row, c).id = row.id
         /\ Patched(row, c).email \in WellFormedEmails
<1>1. CASE c.op = "delete"
  BY <1>1 DEF Patched, User
<1>2. CASE c.op = "update"
  <2>1. ValidateUpdatePayload(c)
    BY <1>2, NotRefused DEF Malformed
  <2>2. /\ Default(c.email, row.email) \in Emails \cup {UpdatedEmail}
        /\ Default(c.email, row.email) \in WellFormedEmails
        /\ Default(c.active, row.active) \in BOOLEAN
    BY <2>1 DEF ValidateUpdatePayload, Default, Call, User
  <2>3. Patched(row, c) = [row EXCEPT !.email = Default(c.email, row.email),
                                     !.active = Default(c.active, row.active)]
    BY <1>2 DEF Patched
  <2> QED
    BY <2>2, <2>3 DEF User
<1> QED
  BY <1>1, <1>2

(* What the default repository makes up is a profile too.                  *)
LEMMA FabricatedUser ==
  ASSUME NEW c \in Call, c.op \in {"update", "delete"}, Refusal(c) = "NONE"
  PROVE  Fabricated(c) \in User
<1>1. c.op = "update" => c.active \in BOOLEAN \cup {Unset}
  BY NotRefused DEF Malformed, ValidateUpdatePayload
<1>2. Default(c.email, UpdatedEmail) \in Emails \cup {UpdatedEmail}
  BY DEF Default, Call
<1>3. (IF c.op = "delete" THEN FALSE ELSE Default(c.active, TRUE)) \in BOOLEAN
  BY <1>1 DEF Default
<1>4. c.id \in Ids
  BY DEF Call
<1> QED
  BY <1>2, <1>3, <1>4 DEF Fabricated, User

(* What is cached is a profile.                                            *)
LEMMA CachedProfile ==
  ASSUME TypeOK, NEW k \in Keys, store[k].val # NoValue
  PROVE  store[k].val \in User /\ store[k].val.id \in Ids
<1>1. store[k].val \in User
  BY DEF TypeOK, Entry
<1> QED
  BY <1>1 DEF User

(* A row that appears or is patched takes nothing from under a profile.    *)
LEMMA CachedKept ==
  ASSUME IInv, NEW r, StepOf(r), store' = store
  PROVE  Cached'
<1> SUFFICES ASSUME NEW k \in Keys, store[k].val # NoValue
             PROVE  ProfileKey[store[k].val.id] = k /\ table'[store[k].val.id] # NoUser
  BY DEF Cached
<1>1. store[k].val.id \in Ids
  BY CachedProfile DEF IInv
<1> QED
  BY <1>1 DEF IInv, Cached, StepOf

(* A write reaches the table, and is answered or not.                      *)
LEMMA WriteCommitted ==
  ASSUME IInv, NEW r \in Requests, pc[r] = "write", CommitWrite(r),
         NEW place \in {"evict", "answered"}, Moves(r, place),
         UNCHANGED <<kind, store, call, audited, afterDelete>>,
         found' \in [Requests -> User \cup {NoUser}],
         \A q \in Requests \ {r} : found'[q] = found[q],
         faulted \subseteq faulted', faulted' \subseteq Requests,
         place = "evict" \/ r \in faulted'
  PROVE  IInv'
<1>0. PICK id \in Ids : id = call[r].id
  BY DEF IInv, TypeOK, Call
<1> DEFINE row == Patched(table[id], call[r])
<1>1. /\ TypeOK /\ Facts(r) /\ call[r] \in Call /\ id \in Ids /\ Writer(r)
      /\ Refusal(call[r]) = "NONE" /\ table[id] # NoUser
      /\ table[id] \in User /\ table[id].id = id /\ table[id].email \in WellFormedEmails
  BY <1>0 DEF IInv, Requested, TypeOK, Facts, Course, Holding, Rows, Running, AtDatabase
<1>2. row \in User /\ row.id = id /\ row.email \in WellFormedEmails /\ row # NoUser
  BY <1>1, PatchedRow, TableAssumption DEF Writer
<1>3. /\ kind = "custom" /\ EmailFree(row.email, id)
      /\ table' = [table EXCEPT ![id] = row]
      /\ committed' = committed \cup {r}
      /\ overlapped' = overlapped \cup {q \in Requests : pc[q] = "fill" /\ call[q].id = id}
  BY <1>0 DEF CommitWrite
<1> HIDE DEF row
<1>4. /\ table' \in [Ids -> User \cup {NoUser}] /\ table'[id] = row
      /\ \A i \in Ids \ {id} : table'[i] = table[i]
  BY <1>1, <1>2, <1>3 DEF TypeOK
<1>5. TypeOK'
  BY <1>1, <1>3, <1>4 DEF TypeOK, Moves
<1>6. StepOf(r)
  <2>1. \A q \in Requests : pc[q] = "fill" /\ call[q].id = id => q \in overlapped'
    BY <1>3
  <2>2. \A q \in Requests : call[q].id \in Ids
    BY <1>1 DEF TypeOK, Call
  <2> QED
    BY <1>2, <1>3, <1>4, <2>1, <2>2 DEF StepOf, Moves
<1>7. Facts(r)'
  BY <1>0, <1>1, <1>3 DEF Facts, Course, Holding, Recorded, Moves, Writer, Running, AtDatabase, AtCache
<1>8. Requested'
  BY <1>6, <1>7, OthersKept DEF Requested
<1>9. Rows' /\ EmailUnique'
  BY <1>2, <1>3, <1>4 DEF IInv, Rows, EmailUnique, EmailFree
<1>10. Cached'
  BY <1>6, CachedKept
<1>11. Explained'
  <2>1. call[r].id = id
    BY <1>0
  <2>2. Cause(r, id)'
    <3>1. pc'[r] = "evict" \/ r \in faulted'
      BY DEF Moves
    <3> QED
      BY <1>1, <2>1, <3>1 DEF Cause, Writer
  <2>3. \A k \in Keys, u \in Ids : StaleOf(k, u)' => StaleOf(k, u) \/ u = id
    BY <1>4 DEF StaleOf
  <2>4. \A u \in Ids : Cause(r, u) => u = id
    BY <2>1 DEF Cause
  <2>5. \A k \in Keys, u \in Ids :
          StaleOf(k, u)' => StaleOf(k, u) \/ \E q \in Requests : Cause(q, u)'
    BY <2>2, <2>3
  <2>6. \A k \in Keys, u \in Ids : StaleOf(k, u)' /\ Cause(r, u) => Cause(r, u)'
    BY <2>2, <2>4
  <2> QED
    BY <1>6, <2>5, <2>6, CauseKept
<1> QED
  BY <1>5, <1>8, <1>9, <1>10, <1>11 DEF IInv

(* An insertion reaches the table, and is answered or not.                 *)
LEMMA InsertCommitted ==
  ASSUME IInv, NEW r \in Requests, pc[r] = "insert", kind = "custom", ~InsertRefused(call[r]),
         NEW i \in FreshIds, CommitInsert(r, i),
         NEW place \in {"audit", "answered"}, Moves(r, place),
         UNCHANGED <<kind, store, call, audited, overlapped, afterDelete>>,
         found' \in [Requests -> User \cup {NoUser}],
         \A q \in Requests \ {r} : found'[q] = found[q],
         faulted \subseteq faulted', faulted' \subseteq Requests,
         place = "audit" \/ r \in faulted'
  PROVE  IInv'
<1> DEFINE row == NewUser(i, call[r])
<1>1. /\ TypeOK /\ Facts(r) /\ call[r] \in Call /\ i \in Ids /\ table[i] = NoUser
      /\ Refusal(call[r]) = "NONE" /\ call[r].op = "create" /\ ~EmailTaken(call[r].email)
  BY DEF IInv, Requested, TypeOK, Facts, Course, FreshIds, InsertRefused, Running, AtDatabase
<1>2. call[r].email \in WellFormedEmails /\ call[r].email \in Emails
  <2>1. ValidateCreatePayload(call[r])
    BY <1>1, NotRefused DEF Malformed
  <2> QED
    BY <1>1, <2>1, UnsetAssumption DEF ValidateCreatePayload, Call
<1>3. row \in User /\ row.id = i /\ row.email = call[r].email /\ row # NoUser
  <2>1. row \in User /\ row.id = i /\ row.email = call[r].email
    BY <1>1, <1>2 DEF NewUser, User
  <2> QED
    BY <2>1, TableAssumption
<1>4. /\ table' = [table EXCEPT ![i] = row]
      /\ committed' = committed \cup {r}
  BY DEF CommitInsert
<1> HIDE DEF row
<1>5. /\ table' \in [Ids -> User \cup {NoUser}] /\ table'[i] = row
      /\ \A j \in Ids \ {i} : table'[j] = table[j]
  BY <1>1, <1>3, <1>4 DEF TypeOK
<1>6. TypeOK'
  BY <1>1, <1>4, <1>5 DEF TypeOK, Moves
<1>7. StepOf(r)
  <2>1. \A q \in Requests : pc[q] = "fill" => call[q].id \in Ids /\ call[q].id # i
    BY <1>1 DEF IInv, Requested, Facts, Holding, TypeOK, Call
  <2> QED
    BY <1>3, <1>4, <1>5, <2>1 DEF StepOf, Moves
<1>8. Facts(r)'
  BY <1>1, <1>4 DEF Facts, Course, Holding, Recorded, Moves, Writer, Running, AtDatabase, AtCache
<1>9. Requested'
  BY <1>7, <1>8, OthersKept DEF Requested
<1>10. Rows' /\ EmailUnique'
  BY <1>1, <1>2, <1>3, <1>5 DEF IInv, Rows, EmailUnique, EmailTaken
<1>11. Cached'
  BY <1>7, CachedKept
<1>12. Explained'
  <2>1. \A k \in Keys, u \in Ids : StaleOf(k, u)' => StaleOf(k, u)
    <3> SUFFICES ASSUME NEW k \in Keys, NEW u \in Ids, StaleOf(k, u)'
                 PROVE  StaleOf(k, u)
      OBVIOUS
    <3>1. store[k].val # NoValue /\ store[k].val.id = u
      BY DEF StaleOf
    <3>2. table[u] # NoUser
      BY <3>1 DEF IInv, Cached
    <3> QED
      BY <1>1, <1>5, <3>1, <3>2 DEF StaleOf
  <2>2. \A u \in Ids : Cause(r, u) => Cause(r, u)'
    BY DEF Cause, Writer
  <2> QED
    BY <1>7, <2>1, <2>2, CauseKept
<1> QED
  BY <1>6, <1>9, <1>10, <1>11, <1>12 DEF IInv

(* update or softDelete: committed, refused by the unique index, or made   *)
(* up.                                                                     *)
LEMMA WriteStep ==
  ASSUME IInv, NEW r \in Requests, Write(r)
  PROVE  IInv'
<1>1. /\ TypeOK /\ Facts(r) /\ pc[r] = "write" /\ call[r] \in Call
      /\ UNCHANGED <<kind, store, call, audited, faulted, afterDelete>>
  BY DEF IInv, Requested, TypeOK, Write
<1>2. ASSUME CommitWrite(r), found' = [found EXCEPT ![r] = table'[call[r].id]],
             Goto(r, AfterWrite)
      PROVE  IInv'
  <2>1. Moves(r, "evict")
    BY <1>1, <1>2, GotoMoves DEF AfterWrite, Places, Running, AtCache
  <2>2. table'[call[r].id] \in User
    <3>1. PICK id \in Ids : id = call[r].id
      BY <1>1 DEF Call
    <3>2. table[id] \in User /\ table[id].email \in WellFormedEmails
      BY <1>1, <3>1 DEF IInv, Rows, TypeOK, Facts, Holding
    <3>3. Patched(table[id], call[r]) \in User
      BY <1>1, <3>2, PatchedRow DEF Facts, Course, Writer, Running, AtDatabase
    <3> QED
      BY <1>1, <1>2, <3>1, <3>3 DEF CommitWrite, TypeOK
  <2>3. found' \in [Requests -> User \cup {NoUser}]
        /\ \A q \in Requests \ {r} : found'[q] = found[q]
    BY <1>1, <1>2, <2>2 DEF TypeOK
  <2> QED
    BY <1>1, <1>2, <2>1, <2>3, WriteCommitted DEF TypeOK
<1>3. ASSUME kind = "custom", Fail(r, "DATABASE"),
             UNCHANGED <<table, committed, overlapped, found>>
      PROVE  IInv'
  <2>1. Moves(r, "answered")
    BY <1>1, <1>3, FailMoves
  <2> QED
    BY <1>1, <1>3, <2>1, PlainStep DEF TypeOK, Running, AtDatabase
<1>4. ASSUME kind = "default", found' = [found EXCEPT ![r] = Fabricated(call[r])],
             Goto(r, AfterWrite), UNCHANGED <<table, committed, overlapped>>
      PROVE  IInv'
  <2>1. Moves(r, "evict")
    BY <1>1, <1>4, GotoMoves DEF AfterWrite, Places, Running, AtCache
  <2>2. Fabricated(call[r]) \in User
    BY <1>1, FabricatedUser DEF Facts, Course, Writer, Running, AtDatabase
  <2>3. found' \in [Requests -> User \cup {NoUser}]
        /\ \A q \in Requests \ {r} : found'[q] = found[q]
    BY <1>1, <1>4, <2>2 DEF TypeOK
  <2> QED
    BY <1>1, <1>4, <2>1, <2>3, PlainStep DEF TypeOK
<1> QED
  BY <1>2, <1>3, <1>4 DEF Write

(* The e-mail of a new account is looked for.                              *)
LEMMA FindEmailStep ==
  ASSUME IInv, NEW r \in Requests, FindEmail(r)
  PROVE  IInv'
<1>1. /\ TypeOK /\ pc[r] = "find_email"
      /\ UNCHANGED <<kind, table, store, call, found, audited, committed, overlapped, faulted,
                     afterDelete>>
  BY DEF IInv, FindEmail, history
<1>2. CASE Fail(r, "CONFLICT")
  <2>1. Moves(r, "answered")
    BY <1>1, <1>2, FailMoves
  <2> QED
    BY <1>1, <2>1, PlainStep DEF TypeOK, Running, AtDatabase
<1>3. CASE Goto(r, "insert")
  <2>1. Moves(r, "insert")
    BY <1>1, <1>3, GotoMoves DEF Places, Running, AtDatabase
  <2> QED
    BY <1>1, <2>1, PlainStep DEF TypeOK
<1> QED
  BY <1>2, <1>3 DEF FindEmail

(* create: committed, refused by the unique index, or made up.             *)
LEMMA InsertStep ==
  ASSUME IInv, NEW r \in Requests, Insert(r)
  PROVE  IInv'
<1>1. /\ TypeOK /\ Facts(r) /\ pc[r] = "insert" /\ call[r] \in Call
      /\ UNCHANGED <<kind, store, call, audited, overlapped, faulted, afterDelete>>
  BY DEF IInv, Requested, TypeOK, Insert
<1>2. ASSUME Fail(r, "DATABASE"), UNCHANGED <<table, found, committed>>
      PROVE  IInv'
  <2>1. Moves(r, "answered")
    BY <1>1, <1>2, FailMoves
  <2> QED
    BY <1>1, <1>2, <2>1, PlainStep DEF TypeOK, Running, AtDatabase
<1>3. ASSUME ~InsertRefused(call[r]), NEW i \in FreshIds,
             found' = [found EXCEPT ![r] = NewUser(i, call[r])], Goto(r, "audit"),
             IF kind = "custom" THEN CommitInsert(r, i) ELSE UNCHANGED <<table, committed>>
      PROVE  IInv'
  <2>1. Moves(r, "audit")
    BY <1>1, <1>3, GotoMoves DEF Places, Running
  <2>2. NewUser(i, call[r]) \in User
    <3>1. ValidateCreatePayload(call[r])
      BY <1>1, NotRefused DEF Malformed, Facts, Course, Running, AtDatabase
    <3>2. call[r].email \in Emails
      BY <1>1, <3>1, UnsetAssumption DEF ValidateCreatePayload, Call
    <3> QED
      BY <3>2 DEF NewUser, User, FreshIds
  <2>3. found' \in [Requests -> User \cup {NoUser}]
        /\ \A q \in Requests \ {r} : found'[q] = found[q]
    BY <1>1, <1>3, <2>2 DEF TypeOK
  <2>4. CASE kind = "custom"
    BY <1>1, <1>3, <2>1, <2>3, <2>4, InsertCommitted DEF TypeOK
  <2>5. CASE kind = "default"
    BY <1>1, <1>3, <2>1, <2>3, <2>5, PlainStep DEF TypeOK
  <2> QED
    BY <1>1, <2>4, <2>5 DEF TypeOK
<1> QED
  BY <1>2, <1>3 DEF Insert

(* A page is read.                                                         *)
LEMMA ScanStep ==
  ASSUME IInv, NEW r \in Requests, Scan(r)
  PROVE  IInv'
<1>1. /\ TypeOK /\ pc[r] = "scan"
      /\ UNCHANGED <<kind, table, store, call, found, audited, committed, overlapped, faulted,
                     afterDelete>>
  BY DEF IInv, Scan, history
<1>2. Moves(r, "answered")
  BY <1>1, SucceedMoves DEF Scan
<1> QED
  BY <1>1, <1>2, PlainStep DEF TypeOK, Running, AtDatabase

(* A command of the cache fails.                                           *)
LEMMA CacheErrorStep ==
  ASSUME IInv, NEW r \in Requests, CacheError(r)
  PROVE  IInv'
<1>1. /\ TypeOK /\ Facts(r)
      /\ UNCHANGED <<kind, table, store, call, found, audited, committed, overlapped, afterDelete>>
      /\ faulted' = faulted \cup {r}
  BY DEF IInv, Requested, CacheError
<1>2. CASE pc[r] = "lookup"
  BY <1>2, LookupStep
<1>3. CASE pc[r] = "fill"
  <2>1. found[r] \in User
    BY <1>1, <1>3 DEF Facts, Holding
  <2>2. Moves(r, "answered")
    BY <1>1, <1>3, <2>1, SucceedMoves DEF CacheError
  <2> QED
    BY <1>1, <1>3, <2>2, PlainStep DEF TypeOK, Running, AtCache
<1>4. CASE pc[r] = "evict"
  <2>1. Moves(r, "audit")
    BY <1>1, <1>4, GotoMoves DEF CacheError, Places, Running
  <2>2. kind = "default" \/ r \in committed
    BY <1>1, <1>4 DEF Facts, Recorded
  <2> QED
    BY <1>1, <1>4, <2>1, <2>2, PlainStep DEF TypeOK
<1> QED
  BY <1>2, <1>3, <1>4 DEF CacheError

(* The repository throws, before or after its write.                       *)
LEMMA DatabaseErrorStep ==
  ASSUME IInv, NEW r \in Requests, DatabaseError(r)
  PROVE  IInv'
<1>1. /\ TypeOK /\ kind = "custom" /\ pc[r] \in AtDatabase
      /\ UNCHANGED <<kind, store, call, found, audited, afterDelete>>
      /\ faulted' = faulted \cup {r}
  BY DEF IInv, DatabaseError
<1>2. Moves(r, "answered")
  BY <1>1, FailMoves DEF DatabaseError
<1>3. CASE UNCHANGED <<table, committed, overlapped>>
  BY <1>1, <1>2, <1>3, PlainStep DEF TypeOK, Running, AtDatabase
<1>4. CASE pc[r] = "write" /\ CommitWrite(r)
  BY <1>1, <1>2, <1>4, WriteCommitted DEF TypeOK
<1>5. ASSUME pc[r] = "insert", ~InsertRefused(call[r]), NEW i \in FreshIds, CommitInsert(r, i),
             UNCHANGED overlapped
      PROVE  IInv'
  BY <1>1, <1>2, <1>5, InsertCommitted DEF TypeOK
<1> QED
  BY <1>3, <1>4, <1>5 DEF DatabaseError

(* The process of a request dies.                                          *)
LEMMA CrashStep ==
  ASSUME IInv, NEW r \in Requests, Crash(r)
  PROVE  IInv'
<1>1. /\ TypeOK /\ Facts(r) /\ pc[r] \in Running
      /\ UNCHANGED <<kind, table, store, call, found, audited, committed, overlapped, afterDelete>>
      /\ faulted' = faulted \cup {r}
  BY DEF IInv, Requested, Crash
<1>2. Moves(r, "lost")
  BY <1>1, GotoMoves DEF Crash, Places
<1>3. Facts(r)'
  BY <1>1, <1>2 DEF Facts, Course, Holding, Recorded, Moves, Running, AtDatabase, AtCache
<1> QED
  BY <1>1, <1>2, <1>3, UnwrittenStep DEF TypeOK, Places

(***************************************************************************)
(* The theorems                                                            *)
(***************************************************************************)

(* The facts hold before the first request.                                *)
LEMMA InitInvariant ==
  ASSUME Init
  PROVE  IInv
<1>1. \A r \in Requests : call[r] \in Call
  BY CallsAssumption DEF Init
<1>2. NoEntry \in Entry(User) /\ NoEntry.val = NoValue
  BY DEF NoEntry, Entry
<1>3. NoAnswer \in [status : Nat, user : User \cup {NoUser}]
  BY DEF NoAnswer
<1>4. call \in [Requests -> Call]
  BY <1>1 DEF Init
<1>5. TypeOK
  BY <1>2, <1>3, <1>4, TableAssumption, KindsAssumption DEF Init, TypeOK, Places
<1>6. Requested
  BY DEF Init, Requested, Facts, Course, Holding, Recorded, Running, AtDatabase, AtCache
<1>7. Rows /\ EmailUnique
  BY TableAssumption DEF Init, Rows, EmailUnique
<1>8. Cached /\ Explained
  BY <1>2 DEF Init, Cached, Explained, StaleOf
<1> QED
  BY <1>5, <1>6, <1>7, <1>8 DEF IInv

(* Every step keeps them.                                                  *)
LEMMA NextInvariant ==
  ASSUME IInv, [Next]_vars
  PROVE  IInv'
<1>1. ASSUME UNCHANGED vars
      PROVE  IInv'
  BY <1>1 DEF vars, IInv, TypeOK, Requested, Facts, Course, Holding, Recorded, Rows,
              EmailUnique, Cached, Explained, StaleOf, Cause, Writer
<1>2. ASSUME NEW r \in Requests, Start(r)
      PROVE  IInv'
  BY <1>2, StartStep
<1>3. ASSUME NEW r \in Requests, Step(r)
      PROVE  IInv'
  BY <1>3, LookupStep, FindStep, FillStep, WriteStep, EvictStep, AuditStep, FindEmailStep,
     InsertStep, ScanStep DEF Step
<1>4. ASSUME NEW r \in Requests, CacheError(r) \/ DatabaseError(r) \/ AuditError(r) \/ Crash(r)
      PROVE  IInv'
  BY <1>4, CacheErrorStep, DatabaseErrorStep, AuditStep, CrashStep
<1>5. ASSUME NEW k \in Keys, KeyExpires(k)
      PROVE  IInv'
  BY <1>5, ExpiryStep
<1> QED
  BY <1>1, <1>2, <1>3, <1>4, <1>5 DEF Next, Done

(* The inductive invariant holds throughout: what a request holds across   *)
(* an await is as old as StaleHasCause says, and no step of another        *)
(* request takes it away.                                                  *)
THEOREM Invariance == Spec => []IInv
  BY InitInvariant, NextInvariant, PTL DEF Spec

(* Type correctness.                                                       *)
THEOREM TypeCorrect == Spec => []TypeOK
<1>1. IInv => TypeOK
  BY DEF IInv
<1> QED
  BY <1>1, Invariance, PTL

(* A profile is cached under the key of its own id, for any identification *)
(* of spellings by the key function.                                       *)
THEOREM ProfilesUnderOwnKey == Spec => []CacheHoldsOwnKey
<1>1. IInv => CacheHoldsOwnKey
  BY DEF IInv, Cached, CacheHoldsOwnKey
<1> QED
  BY <1>1, Invariance, PTL

(* A stale profile has one of the three causes, for every number of        *)
(* requests and every order of their steps and faults.                     *)
THEOREM StalenessHasCause == Spec => []StaleHasCause
<1>1. ASSUME IInv
      PROVE  StaleHasCause
  <2> SUFFICES ASSUME NEW k \in Keys, Stale(k)
               PROVE  \E r \in Requests :
                        /\ call[r].id = store[k].val.id
                        /\ \/ pc[r] = "evict"
                           \/ r \in overlapped
                           \/ Writer(r) /\ r \in faulted
    BY DEF StaleHasCause
  <2>1. PICK u \in Ids : u = store[k].val.id
    BY <1>1, CachedProfile DEF Stale, IInv
  <2>2. StaleOf(k, u)
    BY <2>1 DEF Stale, StaleOf
  <2> QED
    BY <1>1, <2>1, <2>2 DEF IInv, Explained, Cause
<1> QED
  BY <1>1, Invariance, PTL

(* E-mails are unique, for every interleaving of creations and updates.    *)
THEOREM EmailsUnique == Spec => []EmailUnique
<1>1. IInv => EmailUnique
  BY DEF IInv
<1> QED
  BY <1>1, Invariance, PTL

(* The audit trail follows the table, under every mix of the faults.       *)
THEOREM AuditFollows == Spec => []AuditFollowsTable
<1>1. IInv => AuditFollowsTable
  BY DEF IInv, Requested, Facts, Recorded, AuditFollowsTable
<1> QED
  BY <1>1, Invariance, PTL

(* Nothing gets in unchecked, for every sequence of calls.                 *)
THEOREM NothingUnchecked == Spec => []NothingUncheckedGetsIn
<1>1. ASSUME IInv
      PROVE  NothingUncheckedGetsIn
  <2>1. \A i \in Ids : table[i] # NoUser => table[i].email \in WellFormedEmails
    BY <1>1 DEF IInv, Rows
  <2>2. ASSUME NEW r \in Requests, pc[r] = "scan"
        PROVE  Skip(call[r]) >= 0 /\ Limit(call[r]) \in 1..100
    <3>1. call[r] \in Call /\ call[r].op = "list" /\ Refusal(call[r]) = "NONE"
      BY <1>1, <2>2 DEF IInv, TypeOK, Requested, Facts, Course, Running, AtDatabase
    <3> QED
      BY <3>1, ListBounds
  <2> QED
    BY <2>1, <2>2 DEF NothingUncheckedGetsIn
<1> QED
  BY <1>1, Invariance, PTL

(* Every write of the table is an entitled one: the checks are made before *)
(* the first await, and the invariant carries them to the write.           *)
THEOREM OnlyEntitled == Spec => OnlyEntitledWrites
<1> DEFINE EntitledStep ==
      \A r \in Requests :
        r \in committed' \ committed =>
          \/ call[r].operator \in Admins
             /\ (call[r].op = "delete" => OperatorId[call[r].operator] # call[r].id)
          \/ /\ call[r].op = "update" /\ call[r].role = Unset
             /\ OperatorId[call[r].operator] = call[r].id
<1>1. ASSUME IInv, [Next]_vars
      PROVE  EntitledStep
  <2> SUFFICES ASSUME NEW r \in Requests, r \in committed' \ committed
               PROVE  \/ call[r].operator \in Admins
                         /\ (call[r].op = "delete" =>
                               OperatorId[call[r].operator] # call[r].id)
                      \/ /\ call[r].op = "update" /\ call[r].role = Unset
                         /\ OperatorId[call[r].operator] = call[r].id
    OBVIOUS
  <2>1. PICK q \in Requests : Write(q) \/ Insert(q) \/ DatabaseError(q)
    BY <1>1 DEF Next, vars, Done, Step, Start, Lookup, Find, Fill, Evict, Audit, FindEmail, Scan,
                CacheError, AuditError, Crash, KeyExpires, history
  <2>2. q = r /\ pc[r] \in {"write", "insert"}
    BY <2>1 DEF Write, Insert, DatabaseError, CommitWrite, CommitInsert
  <2>3. /\ Refusal(call[r]) = "NONE"
        /\ call[r].op \in {"update", "delete", "create"}
    BY <1>1, <2>2 DEF IInv, Requested, Facts, Course, Writer, Running, AtDatabase
  <2>4. Entitled(call[r]) /\ ~SelfDelete(call[r]) /\ ~RoleBlocked(call[r])
    BY <2>3, NotRefused
  <2> QED
    BY <2>3, <2>4 DEF Entitled, SelfDelete, RoleBlocked, Privileged, SelfService
<1>2. Spec => [][EntitledStep]_vars
  BY <1>1, Invariance, PTL DEF Spec
<1> QED
  BY <1>2 DEF OnlyEntitledWrites

(***************************************************************************)
(* The refinement of UserDirectory                                         *)
(***************************************************************************)

(* Nobody is told anything before its end, only the writing operations go  *)
(* to the audit, with a record in their hands, and a repository that       *)
(* stores nothing has nothing committed.                                   *)
Quiet ==
  /\ \A r \in Requests :
       /\ pc[r] # "answered" => answer[r] = NoAnswer
       /\ pc[r] \in {"evict", "audit"} => found[r] # NoUser
       /\ pc[r] = "audit" => call[r].op \in {"create", "update", "delete"}
  /\ kind = "default" => committed = {}

(* A refused request is told so.                                           *)
LEMMA FailWord ==
  ASSUME TypeOK, NEW r \in Requests,
         NEW error \in {"VALIDATION", "BAD_REQUEST", "UNAUTHORIZED", "FORBIDDEN", "NOT_FOUND",
                        "CONFLICT", "DATABASE"},
         Fail(r, error)
  PROVE  /\ \A q \in Requests \ {r} : answer'[q] = answer[q] /\ pc'[q] = pc[q]
         /\ pc'[r] = "answered" /\ answer'[r] = [status |-> Status[error], user |-> NoUser]
         /\ answer'[r].status \notin {200, 201}
<1>1. Status[error] \notin {200, 201}
  BY DEF Status
<1>2. answer'[r] = [status |-> Status[error], user |-> NoUser]
  BY DEF Fail, Reply, TypeOK
<1>3. \A q \in Requests \ {r} : answer'[q] = answer[q] /\ pc'[q] = pc[q]
  BY DEF Fail, Reply, TypeOK
<1>4. pc'[r] = "answered"
  BY DEF Fail, Reply, TypeOK
<1> QED
  BY <1>1, <1>2, <1>3, <1>4

(* A served request is told of it.                                         *)
LEMMA SucceedWord ==
  ASSUME TypeOK, NEW r \in Requests, NEW user, Succeed(r, user)
  PROVE  /\ \A q \in Requests \ {r} : answer'[q] = answer[q] /\ pc'[q] = pc[q]
         /\ pc'[r] = "answered"
         /\ answer'[r] = [status |-> Directory!Success(call[r]), user |-> user]
<1>1. Status[IF call[r].op = "create" THEN "CREATED" ELSE "SUCCESS"] = Directory!Success(call[r])
  BY DEF Status, Directory!Success
<1> QED
  BY <1>1 DEF Succeed, Reply, TypeOK

(* What every action says of the requests, where it is not a write or a    *)
(* confirmation of one.                                                    *)
Silent(r) ==
  /\ UNCHANGED <<kind, call, table, committed>>
  /\ audited' = audited \/ kind = "default"
  /\ faulted' = faulted \/ faulted' = faulted \cup {r}
  /\ \A q \in Requests \ {r} : answer'[q] = answer[q] /\ found'[q] = found[q] /\ pc'[q] = pc[q]
  /\ \/ answer'[r] = answer[r] /\ (found'[r] = found[r] \/ r \notin committed)
     \/ /\ r \notin committed /\ pc[r] # "answered" /\ pc'[r] = "answered"
        /\ \/ answer'[r].status \notin {200, 201}
           \/ call[r].op \in {"get", "list"}
           \/ kind = "default"

(* Such a step means nothing to the directory, or a fault.                 *)
LEMMA SilentStep ==
  ASSUME IInv, Quiet, NEW r \in Requests, Silent(r)
  PROVE  [Directory!Next]_(Directory!dirVars)
<1>1. Result' = Result
  <2>1. \A q \in Requests \ {r} : Result'[q] = Result[q]
    BY DEF Result, Silent
  <2>2. Result'[r] = Result[r]
    BY DEF Result, Silent
  <2> QED
    BY <2>1, <2>2 DEF Result
<1>2. Told' = Told
  <2>1. \A q \in Requests \ {r} : Told'[q] = Told[q]
    BY DEF Told, Silent
  <2>2. Told'[r] = Told[r]
    <3>1. CASE answer'[r] = answer[r]
      BY <3>1 DEF Told, Silent
    <3>2. CASE answer'[r] # answer[r]
      <4>1. answer[r] = NoAnswer
        BY <3>2 DEF Silent, Quiet
      <4>2. Told[r] = NoAnswer
        BY <4>1 DEF Told, NoAnswer
      <4>3. Told'[r] = NoAnswer
        BY <3>2 DEF Told, Silent, Status
      <4> QED
        BY <4>2, <4>3
    <3> QED
      BY <3>1, <3>2
  <2> QED
    BY <2>1, <2>2 DEF Told
<1>3. OnRecord' = OnRecord
  BY DEF OnRecord, Silent
<1>4. CASE faulted' = faulted
  BY <1>1, <1>2, <1>3, <1>4 DEF Silent, Directory!dirVars
<1>5. CASE faulted' = faulted \cup {r}
  <2>1. Directory!Fault(r)
    BY <1>1, <1>2, <1>3, <1>5 DEF Silent, Directory!Fault
  <2> QED
    BY <2>1 DEF Directory!Next
<1> QED
  BY <1>4, <1>5 DEF Silent

(* A call that passed the checks has the right to what it asks.            *)
LEMMA RightfulCall ==
  ASSUME NEW c \in Call, c.op \in {"create", "update", "delete"}, Refusal(c) = "NONE"
  PROVE  Directory!Rightful(c)
<1>1. Entitled(c) /\ ~SelfDelete(c) /\ ~RoleBlocked(c)
  BY NotRefused
<1> QED
  BY <1>1 DEF Entitled, SelfDelete, RoleBlocked, Privileged, SelfService, Directory!Rightful,
              Directory!Own

(* A write that reaches the table is a change of the directory, whether    *)
(* its request goes on with the row it left or is told of an error.        *)
LEMMA ChangeStep ==
  ASSUME IInv, Quiet, NEW r \in Requests, NEW i \in Ids,
         call[r].op \in {"create", "update", "delete"}, Refusal(call[r]) = "NONE",
         r \notin committed, pc[r] # "answered",
         IF call[r].op = "create" THEN table[i] = NoUser ELSE i = call[r].id /\ table[i] # NoUser,
         NEW row, row = Directory!Left(i, call[r]),
         row.email \in WellFormedEmails, EmailFree(row.email, i),
         table' = [table EXCEPT ![i] = row], committed' = committed \cup {r},
         UNCHANGED <<kind, call, audited>>,
         \A q \in Requests \ {r} : answer'[q] = answer[q] /\ found'[q] = found[q],
         \/ answer'[r] = answer[r] /\ found'[r] = row /\ faulted' = faulted
         \/ answer'[r].status = 500 /\ faulted' = faulted \cup {r}
  PROVE  [Directory!Next]_(Directory!dirVars)
<1>1. answer[r] = NoAnswer /\ call[r] \in Call
  BY DEF Quiet, IInv, TypeOK
<1>2. Told' = Told
  <2>1. \A q \in Requests \ {r} : Told'[q] = Told[q]
    BY DEF Told
  <2>2. Told'[r] = NoAnswer /\ Told[r] = NoAnswer
    BY <1>1 DEF Told, NoAnswer, Status
  <2> QED
    BY <2>1, <2>2 DEF Told
<1>3. OnRecord' = OnRecord
  BY DEF OnRecord
<1>4. \A q \in Requests \ {r} : Result'[q] = Result[q]
  BY DEF Result
<1>5. Result[r] = NoUser
  BY DEF Result
<1>6. \/ Result' = [Result EXCEPT ![r] = row] /\ faulted' = faulted
      \/ Result' = Result /\ faulted' = faulted \cup {r}
  <2>1. CASE answer'[r] = answer[r] /\ found'[r] = row /\ faulted' = faulted
    <3>1. Result'[r] = row
      BY <1>1, <2>1 DEF Result, NoAnswer, Status
    <3> QED
      BY <1>4, <2>1, <3>1 DEF Result
  <2>2. CASE answer'[r].status = 500 /\ faulted' = faulted \cup {r}
    <3>1. Result'[r] = NoUser
      BY <2>2 DEF Result, Status
    <3> QED
      BY <1>4, <1>5, <2>2, <3>1 DEF Result
  <2> QED
    BY <2>1, <2>2
<1>7. Directory!Rightful(call[r])
  BY <1>1, RightfulCall
<1>8. \A j \in Ids \ {i} : table[j] # NoUser => table[j].email # row.email
  BY DEF EmailFree
<1>9. Directory!Change(r, i)
  BY <1>2, <1>3, <1>6, <1>7, <1>8 DEF Directory!Change
<1> QED
  BY <1>9 DEF Directory!Next

(* The row a persisting write leaves is the one of the directory.          *)
LEMMA PatchedLeft ==
  ASSUME NEW i \in Ids, NEW c \in Call, c.op \in {"update", "delete"}
  PROVE  Patched(table[i], c) = Directory!Left(i, c)
  BY DEF Patched, Default, Directory!Left

(* A write that reaches the table.                                         *)
LEMMA WriteChanges ==
  ASSUME IInv, Quiet, NEW r \in Requests, pc[r] = "write", CommitWrite(r),
         UNCHANGED <<kind, call, audited>>,
         \A q \in Requests \ {r} : answer'[q] = answer[q] /\ found'[q] = found[q],
         \/ answer'[r] = answer[r] /\ found'[r] = table'[call[r].id] /\ faulted' = faulted
         \/ answer'[r].status = 500 /\ faulted' = faulted \cup {r}
  PROVE  [Directory!Next]_(Directory!dirVars)
<1>0. PICK id \in Ids : id = call[r].id
  BY DEF IInv, TypeOK, Call
<1>1. /\ TypeOK /\ call[r] \in Call /\ call[r].op \in {"update", "delete"}
      /\ Refusal(call[r]) = "NONE" /\ table[id] # NoUser /\ r \notin committed
      /\ table[id] \in User /\ table[id].email \in WellFormedEmails
  BY <1>0 DEF IInv, Requested, TypeOK, Facts, Course, Holding, Recorded, Rows, Writer, Running,
              AtDatabase
<1>2. PICK row : row = Directory!Left(id, call[r])
  OBVIOUS
<1>3. row = Patched(table[id], call[r])
  BY <1>1, <1>2, PatchedLeft
<1>4. row.email \in WellFormedEmails
  BY <1>1, <1>3, PatchedRow
<1>5. /\ EmailFree(row.email, id) /\ table' = [table EXCEPT ![id] = row]
      /\ committed' = committed \cup {r}
  BY <1>0, <1>3 DEF CommitWrite
<1>6. table'[call[r].id] = row
  BY <1>0, <1>1, <1>5 DEF TypeOK
<1> QED
  BY <1>0, <1>1, <1>2, <1>4, <1>5, <1>6, ChangeStep

(* An insertion that reaches the table.                                    *)
LEMMA InsertChanges ==
  ASSUME IInv, Quiet, NEW r \in Requests, pc[r] = "insert", kind = "custom",
         ~InsertRefused(call[r]), NEW i \in FreshIds, CommitInsert(r, i),
         UNCHANGED <<kind, call, audited>>,
         \A q \in Requests \ {r} : answer'[q] = answer[q] /\ found'[q] = found[q],
         \/ answer'[r] = answer[r] /\ found'[r] = NewUser(i, call[r]) /\ faulted' = faulted
         \/ answer'[r].status = 500 /\ faulted' = faulted \cup {r}
  PROVE  [Directory!Next]_(Directory!dirVars)
<1>1. /\ call[r] \in Call /\ i \in Ids /\ table[i] = NoUser /\ r \notin committed
      /\ Refusal(call[r]) = "NONE" /\ call[r].op = "create" /\ ~EmailTaken(call[r].email)
  BY DEF IInv, Requested, TypeOK, Facts, Course, Recorded, FreshIds, InsertRefused, Running,
         AtDatabase
<1>2. PICK row : row = Directory!Left(i, call[r])
  OBVIOUS
<1>3. row = NewUser(i, call[r])
  BY <1>1, <1>2 DEF NewUser, Directory!Left
<1>4. row.email \in WellFormedEmails /\ EmailFree(row.email, i)
  <2>1. ValidateCreatePayload(call[r])
    BY <1>1, NotRefused DEF Malformed
  <2>2. row.email = call[r].email
    BY <1>3 DEF NewUser
  <2>3. call[r].email \in WellFormedEmails
    BY <1>1, <2>1, UnsetAssumption DEF ValidateCreatePayload, Call
  <2>4. EmailFree(call[r].email, i)
    BY <1>1 DEF EmailTaken, EmailFree
  <2> QED
    BY <2>2, <2>3, <2>4
<1>5. table' = [table EXCEPT ![i] = row] /\ committed' = committed \cup {r}
  BY <1>3 DEF CommitInsert
<1> QED
  BY <1>1, <1>2, <1>3, <1>4, <1>5, ChangeStep

(* The audit, written or not, and the answer confirm a write.              *)
LEMMA ConfirmStep ==
  ASSUME IInv, Quiet, NEW r \in Requests, Audit(r) \/ AuditError(r)
  PROVE  [Directory!Next]_(Directory!dirVars)
<1> DEFINE user == IF call[r].op = "delete" THEN NoUser ELSE found[r]
<1>1. /\ TypeOK /\ Facts(r) /\ pc[r] = "audit" /\ answer[r] = NoAnswer /\ found[r] # NoUser
      /\ call[r].op \in {"create", "update", "delete"}
      /\ UNCHANGED <<kind, table, call, found, committed>>
      /\ \/ audited' = audited \cup {r} /\ faulted' = faulted
         \/ audited' = audited /\ faulted' = faulted \cup {r}
      /\ Succeed(r, user)
  BY DEF IInv, Requested, Quiet, Audit, AuditError, history
<1>2. /\ \A q \in Requests \ {r} : answer'[q] = answer[q] /\ pc'[q] = pc[q]
      /\ pc'[r] = "answered"
      /\ answer'[r] = [status |-> Directory!Success(call[r]), user |-> user]
  BY <1>1, SucceedWord
<1> HIDE DEF user
<1>3. CASE kind = "default"
  <2>1. Silent(r)
    BY <1>1, <1>2, <1>3 DEF Silent, Quiet
  <2> QED
    BY <2>1, SilentStep
<1>4. CASE kind = "custom"
  <2>1. r \in committed
    BY <1>1, <1>4 DEF Facts, Recorded
  <2>2. Directory!Success(call[r]) \in {200, 201}
    BY DEF Directory!Success
  <2>3. Result[r] = found[r] /\ Result' = Result
    <3>1. Result[r] = found[r]
      BY <1>1, <2>1 DEF Result, NoAnswer, Status
    <3>2. Result'[r] = found[r]
      BY <1>1, <1>2, <2>1, <2>2 DEF Result, Status
    <3>3. \A q \in Requests \ {r} : Result'[q] = Result[q]
      BY <1>1, <1>2 DEF Result
    <3> QED
      BY <3>1, <3>2, <3>3 DEF Result
  <2>4. Told[r] = NoAnswer
    BY <1>1 DEF Told, NoAnswer
  <2>5. Told' = [Told EXCEPT ![r] = [status |-> Directory!Success(call[r]), user |-> user]]
    <3>1. Told'[r] = [status |-> Directory!Success(call[r]), user |-> user]
      BY <1>1, <1>2, <1>4, <2>2 DEF Told, Status
    <3>2. \A q \in Requests \ {r} : Told'[q] = Told[q]
      BY <1>1, <1>2 DEF Told
    <3> QED
      BY <3>1, <3>2 DEF Told
  <2>6. \/ OnRecord' = OnRecord \cup {r} /\ faulted' = faulted
        \/ OnRecord' = OnRecord /\ faulted' = faulted \cup {r}
    BY <1>1, <1>4 DEF OnRecord
  <2>7. user = IF call[r].op = "delete" THEN NoUser ELSE Result[r]
    BY <2>3 DEF user
  <2>8. Directory!Confirm(r)
    BY <1>1, <2>1, <2>3, <2>4, <2>5, <2>6, <2>7 DEF Directory!Confirm, Directory!NoWord, NoAnswer
  <2> QED
    BY <2>8 DEF Directory!Next
<1> QED
  BY <1>1, <1>3, <1>4 DEF TypeOK

(* A step that means nothing to the directory.                             *)
LEMMA IdleStep ==
  ASSUME IInv, Quiet, NEW r \in Requests,
         \/ Start(r) \/ Lookup(r) \/ Find(r) \/ Fill(r) \/ Evict(r) \/ FindEmail(r) \/ Scan(r)
         \/ CacheError(r) \/ Crash(r)
  PROVE  Silent(r)
<1>0. TypeOK /\ Facts(r) /\ call[r] \in Call
  BY DEF IInv, Requested, TypeOK
<1>1. /\ UNCHANGED <<kind, call, table, committed, audited>>
      /\ faulted' = faulted \/ faulted' = faulted \cup {r}
      /\ \A q \in Requests \ {r} : found'[q] = found[q]
  BY <1>0 DEF Start, Lookup, Find, Fill, Evict, FindEmail, Scan, CacheError, Crash, history, TypeOK
<1>2. r \in committed => pc[r] \notin {"new", "lookup", "find", "fill", "find_email", "scan"}
  BY <1>0 DEF Facts, Recorded
<1>3. ASSUME NEW place, Goto(r, place), found'[r] = found[r] \/ r \notin committed
      PROVE  Silent(r)
  BY <1>0, <1>1, <1>3 DEF Goto, Silent, TypeOK
<1>4. ASSUME NEW error \in {"VALIDATION", "BAD_REQUEST", "UNAUTHORIZED", "FORBIDDEN", "NOT_FOUND",
                            "CONFLICT", "DATABASE"},
             Fail(r, error), r \notin committed, pc[r] # "answered"
      PROVE  Silent(r)
  <2>1. /\ \A q \in Requests \ {r} : answer'[q] = answer[q] /\ pc'[q] = pc[q]
        /\ pc'[r] = "answered" /\ answer'[r].status \notin {200, 201}
    BY <1>0, <1>4, FailWord
  <2> QED
    BY <1>1, <1>4, <2>1 DEF Silent
<1>5. ASSUME NEW user, Succeed(r, user), r \notin committed, pc[r] # "answered",
             call[r].op \in {"get", "list"}
      PROVE  Silent(r)
  <2>1. /\ \A q \in Requests \ {r} : answer'[q] = answer[q] /\ pc'[q] = pc[q]
        /\ pc'[r] = "answered"
    BY <1>0, <1>5, SucceedWord
  <2> QED
    BY <1>1, <1>5, <2>1 DEF Silent
<1>6. CASE Start(r)
  <2>1. pc[r] = "new" /\ UNCHANGED found
    BY <1>6 DEF Start
  <2>2. CASE Refusal(call[r]) = "NONE"
    <3>1. Goto(r, FirstAwait[call[r].op])
      BY <1>6, <2>2 DEF Start
    <3> QED
      BY <1>3, <2>1, <3>1
  <2>3. CASE Refusal(call[r]) # "NONE"
    <3>1. Refusal(call[r]) \in {"UNAUTHORIZED", "BAD_REQUEST", "FORBIDDEN", "VALIDATION"}
      BY <2>3 DEF Refusal
    <3>2. Fail(r, Refusal(call[r]))
      BY <1>6, <2>3 DEF Start
    <3> QED
      BY <1>2, <1>4, <2>1, <3>1, <3>2
  <2> QED
    BY <2>2, <2>3
<1>7. CASE Lookup(r)
  <2>1. pc[r] = "lookup" /\ call[r].op = "get" /\ UNCHANGED found
    BY <1>0, <1>7 DEF Lookup, Facts, Course
  <2>2. Goto(r, "find") \/ Succeed(r, store[KeyOf(r)].val)
    BY <1>7 DEF Lookup
  <2> QED
    BY <1>2, <1>3, <1>5, <2>1, <2>2
<1>8. CASE Find(r)
  <2>1. pc[r] = "find" /\ (Fail(r, "NOT_FOUND") \/ Goto(r, AfterFind(r)))
    BY <1>8 DEF Find
  <2> QED
    BY <1>2, <1>3, <1>4, <2>1
<1>9. CASE Fill(r)
  <2>1. pc[r] = "fill" /\ call[r].op = "get" /\ Succeed(r, found[r])
    BY <1>0, <1>9 DEF Fill, Facts, Course
  <2> QED
    BY <1>2, <1>5, <2>1
<1>10. CASE Evict(r) \/ Crash(r)
  <2>1. UNCHANGED found /\ \E place : Goto(r, place)
    BY <1>10 DEF Evict, Crash
  <2> QED
    BY <1>3, <2>1
<1>11. CASE FindEmail(r)
  <2>1. pc[r] = "find_email" /\ UNCHANGED found /\ (Fail(r, "CONFLICT") \/ Goto(r, "insert"))
    BY <1>11 DEF FindEmail
  <2> QED
    BY <1>2, <1>3, <1>4, <2>1
<1>12. CASE Scan(r)
  <2>1. pc[r] = "scan" /\ call[r].op = "list" /\ Succeed(r, NoUser)
    BY <1>0, <1>12 DEF Scan, Facts, Course
  <2> QED
    BY <1>2, <1>5, <2>1
<1>13. CASE CacheError(r)
  <2>1. UNCHANGED found
    BY <1>13 DEF CacheError
  <2>2. CASE \E place : Goto(r, place)
    BY <1>3, <2>1, <2>2
  <2>3. CASE pc[r] = "fill" /\ Succeed(r, found[r])
    <3>1. call[r].op = "get"
      BY <1>0, <2>3 DEF Facts, Course
    <3> QED
      BY <1>2, <1>5, <2>3, <3>1
  <2> QED
    BY <1>13, <2>2, <2>3 DEF CacheError
<1> QED
  BY <1>6, <1>7, <1>8, <1>9, <1>10, <1>11, <1>12, <1>13

(* update or softDelete.                                                   *)
LEMMA WriteDirectory ==
  ASSUME IInv, Quiet, NEW r \in Requests, Write(r)
  PROVE  [Directory!Next]_(Directory!dirVars)
<1>0. /\ TypeOK /\ Facts(r) /\ pc[r] = "write" /\ r \notin committed
      /\ UNCHANGED <<kind, store, call, audited, faulted, afterDelete>>
  BY DEF IInv, Requested, Facts, Recorded, Write
<1>1. ASSUME CommitWrite(r), found' = [found EXCEPT ![r] = table'[call[r].id]],
             Goto(r, AfterWrite)
      PROVE  [Directory!Next]_(Directory!dirVars)
  BY <1>0, <1>1, WriteChanges DEF Goto, TypeOK
<1>2. ASSUME Fail(r, "DATABASE"), UNCHANGED <<table, committed, overlapped, found>>
      PROVE  [Directory!Next]_(Directory!dirVars)
  <2>1. /\ \A q \in Requests \ {r} : answer'[q] = answer[q] /\ pc'[q] = pc[q]
        /\ pc'[r] = "answered" /\ answer'[r].status \notin {200, 201}
    BY <1>0, <1>2, FailWord
  <2>2. Silent(r)
    BY <1>0, <1>2, <2>1 DEF Silent
  <2> QED
    BY <2>2, SilentStep
<1>3. ASSUME found' = [found EXCEPT ![r] = Fabricated(call[r])], Goto(r, AfterWrite),
             UNCHANGED <<table, committed, overlapped>>
      PROVE  [Directory!Next]_(Directory!dirVars)
  <2>1. Silent(r)
    BY <1>0, <1>3 DEF Silent, Goto, TypeOK
  <2> QED
    BY <2>1, SilentStep
<1> QED
  BY <1>1, <1>2, <1>3 DEF Write

(* create                                                                  *)
LEMMA InsertDirectory ==
  ASSUME IInv, Quiet, NEW r \in Requests, Insert(r)
  PROVE  [Directory!Next]_(Directory!dirVars)
<1>0. /\ TypeOK /\ Facts(r) /\ pc[r] = "insert" /\ r \notin committed
      /\ UNCHANGED <<kind, store, call, audited, overlapped, faulted, afterDelete>>
  BY DEF IInv, Requested, Facts, Recorded, Insert
<1>1. ASSUME Fail(r, "DATABASE"), UNCHANGED <<table, found, committed>>
      PROVE  [Directory!Next]_(Directory!dirVars)
  <2>1. /\ \A q \in Requests \ {r} : answer'[q] = answer[q] /\ pc'[q] = pc[q]
        /\ pc'[r] = "answered" /\ answer'[r].status \notin {200, 201}
    BY <1>0, <1>1, FailWord
  <2>2. Silent(r)
    BY <1>0, <1>1, <2>1 DEF Silent
  <2> QED
    BY <2>2, SilentStep
<1>2. ASSUME ~InsertRefused(call[r]), NEW i \in FreshIds,
             found' = [found EXCEPT ![r] = NewUser(i, call[r])], Goto(r, "audit"),
             IF kind = "custom" THEN CommitInsert(r, i) ELSE UNCHANGED <<table, committed>>
      PROVE  [Directory!Next]_(Directory!dirVars)
  <2>1. /\ \A q \in Requests \ {r} : answer'[q] = answer[q] /\ found'[q] = found[q] /\ pc'[q] = pc[q]
        /\ answer'[r] = answer[r] /\ found'[r] = NewUser(i, call[r])
    BY <1>0, <1>2 DEF Goto, TypeOK
  <2>2. CASE kind = "custom"
    BY <1>0, <1>2, <2>1, <2>2, InsertChanges
  <2>3. CASE kind # "custom"
    <3>1. Silent(r)
      BY <1>0, <1>2, <2>1, <2>3 DEF Silent
    <3> QED
      BY <3>1, SilentStep
  <2> QED
    BY <2>2, <2>3
<1> QED
  BY <1>1, <1>2 DEF Insert

(* An error of the repository, which may hide a write.                     *)
LEMMA DatabaseErrorDirectory ==
  ASSUME IInv, Quiet, NEW r \in Requests, DatabaseError(r)
  PROVE  [Directory!Next]_(Directory!dirVars)
<1>0. /\ TypeOK /\ Facts(r) /\ pc[r] \in AtDatabase /\ r \notin committed /\ kind = "custom"
      /\ UNCHANGED <<kind, store, call, found, audited, afterDelete>>
      /\ faulted' = faulted \cup {r} /\ Fail(r, "DATABASE")
  BY DEF IInv, Requested, Facts, Recorded, DatabaseError, AtDatabase
<1>1. /\ \A q \in Requests \ {r} : answer'[q] = answer[q] /\ pc'[q] = pc[q]
      /\ pc'[r] = "answered" /\ answer'[r].status = 500
  <2>1. Status["DATABASE"] = 500
    BY DEF Status
  <2> QED
    BY <1>0, <2>1, FailWord
<1>2. CASE UNCHANGED <<table, committed, overlapped>>
  <2>1. Silent(r)
    BY <1>0, <1>1, <1>2 DEF Silent, AtDatabase
  <2> QED
    BY <2>1, SilentStep
<1>3. CASE pc[r] = "write" /\ CommitWrite(r)
  BY <1>0, <1>1, <1>3, WriteChanges
<1>4. ASSUME pc[r] = "insert", ~InsertRefused(call[r]), NEW i \in FreshIds, CommitInsert(r, i)
      PROVE  [Directory!Next]_(Directory!dirVars)
  BY <1>0, <1>1, <1>4, InsertChanges
<1> QED
  BY <1>2, <1>3, <1>4 DEF DatabaseError

(* The facts of Quiet outlast every step.                                  *)
LEMMA QuietKept ==
  ASSUME IInv, Quiet, NEW r \in Requests, UNCHANGED <<kind, call>>,
         kind = "default" => committed' = committed,
         \A q \in Requests \ {r} : answer'[q] = answer[q] /\ found'[q] = found[q] /\ pc'[q] = pc[q],
         pc'[r] = "answered" \/ (answer'[r] = answer[r] /\ pc[r] # "answered"),
         pc'[r] \in {"evict", "audit"} => found'[r] # NoUser,
         pc'[r] = "audit" => call[r].op \in {"create", "update", "delete"}
  PROVE  Quiet'
  BY DEF Quiet

(* Each action is of one of the kinds of QuietKept.                        *)
LEMMA QuietStep ==
  ASSUME IInv, Quiet, [Next]_vars
  PROVE  Quiet'
<1>0. TypeOK /\ \A r \in Requests : Facts(r) /\ call[r] \in Call
  BY DEF IInv, Requested, TypeOK
<1>1. ASSUME NEW r \in Requests, NEW place, Goto(r, place), UNCHANGED <<kind, call>>,
             kind = "default" => committed' = committed, pc[r] # "answered",
             \A q \in Requests \ {r} : found'[q] = found[q],
             place \in {"evict", "audit"} => found'[r] # NoUser,
             place = "audit" => call[r].op \in {"create", "update", "delete"}
      PROVE  Quiet'
  <2>1. /\ UNCHANGED answer /\ pc'[r] = place
        /\ \A q \in Requests \ {r} : pc'[q] = pc[q]
    BY <1>0, <1>1 DEF Goto, TypeOK
  <2> QED
    BY <1>1, <2>1, QuietKept
<1>2. ASSUME NEW r \in Requests, NEW outcome, NEW user, Reply(r, outcome, user),
             UNCHANGED <<kind, call, found>>, kind = "default" => committed' = committed
      PROVE  Quiet'
  <2>1. /\ pc'[r] = "answered"
        /\ \A q \in Requests \ {r} : pc'[q] = pc[q] /\ answer'[q] = answer[q]
    BY <1>0, <1>2 DEF Reply, TypeOK
  <2> QED
    BY <1>2, <2>1, QuietKept
<1>3. ASSUME NEW r \in Requests, Start(r)
      PROVE  Quiet'
  <2>1. UNCHANGED <<kind, call, found, committed>> /\ pc[r] = "new"
    BY <1>3 DEF Start
  <2>2. FirstAwait[call[r].op] \notin {"evict", "audit"}
    BY <1>0 DEF FirstAwait, Call
  <2>3. Goto(r, FirstAwait[call[r].op]) \/ Fail(r, Refusal(call[r]))
    BY <1>3 DEF Start
  <2> QED
    BY <1>1, <1>2, <2>1, <2>2, <2>3 DEF Fail
<1>4. ASSUME NEW r \in Requests, Lookup(r) \/ Fill(r) \/ FindEmail(r) \/ Scan(r) \/ Audit(r) \/ AuditError(r)
      PROVE  Quiet'
  <2>1. UNCHANGED <<kind, call, found, committed>> /\ pc[r] # "answered"
    BY <1>4 DEF Lookup, Fill, FindEmail, Scan, Audit, AuditError, history
  <2>2. (\E place \in {"find", "insert"} : Goto(r, place)) \/ \E outcome, user : Reply(r, outcome, user)
    BY <1>4 DEF Lookup, Fill, FindEmail, Scan, Audit, AuditError, Succeed, Fail
  <2> QED
    BY <1>1, <1>2, <2>1, <2>2
<1>5. ASSUME NEW r \in Requests, Find(r)
      PROVE  Quiet'
  <2>1. UNCHANGED <<kind, call, committed>> /\ pc[r] = "find"
    BY <1>5 DEF Find, history
  <2>2. \/ Reply(r, "NOT_FOUND", NoUser) /\ UNCHANGED found
        \/ /\ \E place \in {"write", "fill"} : Goto(r, place)
           /\ \A q \in Requests \ {r} : found'[q] = found[q]
    BY <1>0, <1>5 DEF Find, Fail, AfterFind, TypeOK
  <2> QED
    BY <1>1, <1>2, <2>1, <2>2
<1>6. ASSUME NEW r \in Requests, Write(r)
      PROVE  Quiet'
  <2>1. UNCHANGED <<kind, call>> /\ pc[r] = "write" /\ IInv'
    BY <1>6, WriteStep DEF Write
  <2>2. CASE Fail(r, "DATABASE") /\ UNCHANGED <<committed, found>>
    BY <1>2, <2>1, <2>2 DEF Fail
  <2>3. ASSUME Goto(r, AfterWrite), NEW row, found' = [found EXCEPT ![r] = row], row # NoUser,
               kind = "default" => committed' = committed
        PROVE  Quiet'
    BY <1>0, <1>1, <2>1, <2>3 DEF TypeOK, AfterWrite
  <2>4. CASE CommitWrite(r) /\ found' = [found EXCEPT ![r] = table'[call[r].id]]
             /\ Goto(r, AfterWrite)
    <3>1. table[call[r].id] # NoUser /\ call[r].id \in Ids
      BY <1>0, <2>1 DEF Facts, Holding, Call
    <3>2. table'[call[r].id] # NoUser
      <4>1. table[call[r].id] \in User /\ table[call[r].id].email \in WellFormedEmails
        BY <1>0, <3>1 DEF IInv, Rows, TypeOK
      <4>2. Patched(table[call[r].id], call[r]) \in User
        BY <1>0, <2>1, <4>1, PatchedRow DEF Facts, Course, Writer, Running, AtDatabase
      <4> QED
        BY <1>0, <2>4, <3>1, <4>2, TableAssumption DEF CommitWrite, TypeOK
    <3> QED
      BY <2>3, <2>4, <3>2 DEF CommitWrite
  <2>5. CASE found' = [found EXCEPT ![r] = Fabricated(call[r])]
             /\ committed' = committed /\ Goto(r, AfterWrite)
    <3>1. Fabricated(call[r]) \in User
      BY <1>0, <2>1, FabricatedUser DEF Facts, Course, Writer, Running, AtDatabase
    <3> QED
      BY <2>3, <2>5, <3>1, TableAssumption
  <2> QED
    BY <1>6, <2>2, <2>4, <2>5 DEF Write
<1>7. ASSUME NEW r \in Requests, Insert(r)
      PROVE  Quiet'
  <2>1. UNCHANGED <<kind, call>> /\ pc[r] = "insert" /\ call[r].op = "create"
        /\ Refusal(call[r]) = "NONE"
    BY <1>0, <1>7 DEF Insert, Facts, Course, Running, AtDatabase
  <2>2. CASE Fail(r, "DATABASE") /\ UNCHANGED <<committed, found>>
    BY <1>2, <2>1, <2>2 DEF Fail
  <2>3. ASSUME NEW i \in FreshIds, found' = [found EXCEPT ![r] = NewUser(i, call[r])],
               Goto(r, "audit"), kind # "custom" => committed' = committed
        PROVE  Quiet'
    <3>1. NewUser(i, call[r]) \in User
      <4>1. ValidateCreatePayload(call[r])
        BY <2>1, NotRefused DEF Malformed
      <4>2. call[r].email \in Emails
        BY <1>0, <4>1, UnsetAssumption DEF ValidateCreatePayload, Call
      <4> QED
        BY <4>2 DEF NewUser, User, FreshIds
    <3>2. found'[r] # NoUser /\ \A q \in Requests \ {r} : found'[q] = found[q]
      BY <1>0, <2>3, <3>1, TableAssumption DEF TypeOK
    <3> QED
      BY <1>1, <2>1, <2>3, <3>2
  <2> QED
    BY <1>7, <2>2, <2>3 DEF Insert
<1>8. ASSUME NEW r \in Requests, Evict(r) \/ CacheError(r) \/ Crash(r)
      PROVE  Quiet'
  <2>1. UNCHANGED <<kind, call, found, committed>> /\ pc[r] # "answered"
    BY <1>8 DEF Evict, CacheError, Crash, history, Running, AtDatabase, AtCache
  <2>2. CASE Goto(r, "audit") /\ pc[r] = "evict"
    <3>1. call[r].op \in {"create", "update", "delete"} /\ found[r] # NoUser
      BY <1>0, <2>2 DEF Facts, Course, Writer, Quiet
    <3> QED
      BY <1>1, <2>1, <2>2, <3>1
  <2>3. CASE \E place \in {"find", "lost"} : Goto(r, place)
    BY <1>1, <2>1, <2>3
  <2>4. CASE \E outcome, user : Reply(r, outcome, user)
    BY <1>2, <2>1, <2>4
  <2> QED
    BY <1>8, <2>2, <2>3, <2>4 DEF Evict, CacheError, Crash, Succeed
<1>9. ASSUME NEW r \in Requests, DatabaseError(r)
      PROVE  Quiet'
  <2>1. UNCHANGED <<kind, call, found>> /\ kind = "custom" /\ Fail(r, "DATABASE")
    BY <1>9 DEF DatabaseError
  <2> QED
    BY <1>0, <1>2, <2>1 DEF Fail
<1>10. CASE (\E k \in Keys : KeyExpires(k)) \/ UNCHANGED vars
  BY <1>10 DEF KeyExpires, history, vars, Quiet
<1> QED
  BY <1>3, <1>4, <1>5, <1>6, <1>7, <1>8, <1>9, <1>10 DEF Next, Step, Done

(* Each step of the service is one of the directory or none.               *)
LEMMA DirectoryStep ==
  ASSUME IInv, Quiet, [Next]_vars
  PROVE  [Directory!Next]_(Directory!dirVars)
<1>1. ASSUME NEW r \in Requests, Start(r) \/ Step(r) \/ CacheError(r) \/ Crash(r)
      PROVE  [Directory!Next]_(Directory!dirVars)
  <2>1. CASE Write(r) \/ Insert(r) \/ Audit(r)
    BY <2>1, WriteDirectory, InsertDirectory, ConfirmStep
  <2>2. CASE ~(Write(r) \/ Insert(r) \/ Audit(r))
    <3>1. Silent(r)
      BY <1>1, <2>2, IdleStep DEF Step
    <3> QED
      BY <3>1, SilentStep
  <2> QED
    BY <2>1, <2>2
<1>2. ASSUME NEW r \in Requests, DatabaseError(r) \/ AuditError(r)
      PROVE  [Directory!Next]_(Directory!dirVars)
  BY <1>2, DatabaseErrorDirectory, ConfirmStep
<1>3. CASE (\E k \in Keys : KeyExpires(k)) \/ UNCHANGED vars
  BY <1>3 DEF KeyExpires, history, vars, Result, Told, OnRecord, Directory!dirVars
<1> QED
  BY <1>1, <1>2, <1>3 DEF Next, Done

(* Before the first request nothing is changed and nobody told.            *)
LEMMA DirectoryInit == Init => Quiet /\ Directory!Init
<1> SUFFICES ASSUME Init
             PROVE  Quiet /\ Directory!Init
  OBVIOUS
<1>1. call \in [Requests -> Call]
  BY InitInvariant DEF IInv, TypeOK
<1>2. Result = [r \in Requests |-> NoUser] /\ OnRecord = {}
  BY DEF Init, Result, OnRecord
<1>3. Told = [r \in Requests |-> Directory!NoWord]
  BY DEF Init, Told, NoAnswer, Directory!NoWord
<1>4. Quiet
  BY DEF Init, Quiet
<1> QED
  BY <1>1, <1>2, <1>3, <1>4 DEF Init, Directory!Init

(* For every set of requests and every order of their steps and faults the *)
(* service implements the directory of UserDirectory.                      *)
THEOREM DirectoryImplemented == Spec => ImplementsDirectory
<1>1. IInv /\ Quiet /\ [Next]_vars => Quiet' /\ [Directory!Next]_(Directory!dirVars)
  BY QuietStep, DirectoryStep
<1> QED
  BY <1>1, DirectoryInit, Invariance, PTL DEF Spec, ImplementsDirectory, Directory!Spec
=============================================================================
