----------------------------- MODULE UsersService -----------------------------
(***************************************************************************)
(* UsersService (src/modules/users/users.service.ts) behind its controller *)
(* (users.controller.ts): the profile operations as concurrent requests    *)
(* over one users table and one Redis cache shared by every server         *)
(* process.  Profiles are cached aside: a read fills the cache, a write    *)
(* evicts.  Every await of the service is a point where another request,   *)
(* a failure or the death of the process may come in between; so each      *)
(* action below is the code from one await to the next.                    *)
(*                                                                         *)
(* The service takes its repository from the constructor.  A "custom" one  *)
(* persists: it is modelled from how the service uses it, over the users   *)
(* table of the repository's SQL migration.  The "default" one is          *)
(* users.repository.ts, which knows one fixed account, answers writes with *)
(* a record made up on the spot, and stores nothing.                       *)
(***************************************************************************)
EXTENDS CacheService, UsersValidator, FiniteSets

CONSTANTS
  Requests,         \* requests, each served once
  Calls,            \* the calls each request may carry (see Call)
  Ids,              \* user ids as they are spelled in a URL or in the table
  Keys,             \* Redis keys
  ProfileKey,       \* CacheKeys.getUserProfileKey, from Ids to Keys: it trims
                    \* and lowercases, so two spellings may share a key
  Emails,
  Operators,        \* authenticated operator contexts (request.user)
  OperatorId,       \* their ids
  Admins,           \* the operators with role ADMIN, the only role of the
                    \* RBAC matrix that holds users:view and users:write
  SeededTable,      \* the table at start: one record or NoUser per id
  CollisionEmails,  \* what findByEmail of the default repository matches
  RepositoryKinds,  \* the kinds of repository a run considers
  NoUser,           \* null
  UpdatedEmail,     \* the e-mail a default repository makes up in update
  Faults            \* the faults a run lets happen

FaultKinds == {"crash", "cache_error", "db_error", "audit_error"}

User == [id : Ids, email : Emails \cup {UpdatedEmail}, active : BOOLEAN]

(* What a request asks; the fields an operation does not read are Unset.   *)
Call == [op : {"get", "update", "delete", "create", "list"}, id : Ids,
         operator : Operators, email : Emails \cup {Unset}, password : Lengths,
         active : Flags, role : Roles, page : Parsed, limit : Parsed,
         sortOrder : SortOrders]

ASSUME ProfileKeyAssumption == ProfileKey \in [Ids -> Keys]
ASSUME OperatorAssumption ==
  OperatorId \in [Operators -> Ids \cup {Unset}] /\ Admins \subseteq Operators
ASSUME TableAssumption ==
  /\ SeededTable \in [Ids -> User \cup {NoUser}]
  /\ \A i \in Ids : SeededTable[i] # NoUser => SeededTable[i].id = i
  /\ \A i \in Ids : SeededTable[i] # NoUser => SeededTable[i].email \in WellFormedEmails
  /\ \A i, j \in Ids :
       i # j /\ SeededTable[i] # NoUser /\ SeededTable[j] # NoUser
       => SeededTable[i].email # SeededTable[j].email
  /\ NoUser \notin User /\ NoValue \notin User
ASSUME CallsAssumption == Calls \in [Requests -> SUBSET Call]
ASSUME KindsAssumption == RepositoryKinds \subseteq {"custom", "default"}

VARIABLES
  kind,        \* customRepo || new UsersRepository()
  table,       \* the rows of the users table
  store,       \* Redis: the entry of each profile key
  pc,          \* where each request is
  call,        \* what each request asked
  found,       \* the record a request holds across an await
  answer,      \* what each request was answered
  audited,     \* requests whose audit record was written
  committed,   \* history: requests whose write reached the table
  overlapped,  \* history: reads whose row was written before they cached it
  faulted,     \* history: requests a fault hit
  afterDelete  \* history: requests that came after a delete was confirmed

vars == <<kind, table, store, pc, call, found, answer, audited, committed,
          overlapped, faulted, afterDelete>>
history == <<committed, overlapped, faulted, afterDelete>>

NoAnswer == [status |-> 0, user |-> NoUser]
AtDatabase == {"find", "write", "find_email", "insert", "scan"}
AtCache == {"lookup", "fill", "evict"}
Running == AtDatabase \cup AtCache \cup {"audit"}
Places == {"new", "answered", "lost"} \cup Running

Init ==
  /\ kind \in RepositoryKinds
  /\ table = SeededTable
  /\ store = [k \in Keys |-> NoEntry]
  /\ pc = [r \in Requests |-> "new"]
  /\ call \in {f \in [Requests -> UNION {Calls[r] : r \in Requests}] :
                 \A r \in Requests : f[r] \in Calls[r]}
  /\ found = [r \in Requests |-> NoUser]
  /\ answer = [r \in Requests |-> NoAnswer]
  /\ audited = {}
  /\ committed = {}
  /\ overlapped = {}
  /\ faulted = {}
  /\ afterDelete = {}

(***************************************************************************)
(* Control and answers                                                     *)
(***************************************************************************)
Goto(r, place) ==
  pc' = [pc EXCEPT ![r] = place] /\ UNCHANGED answer

(* The catch of each handler turns the message of the error into a status. *)
Status == [SUCCESS |-> 200, CREATED |-> 201, VALIDATION |-> 400,
           BAD_REQUEST |-> 400, UNAUTHORIZED |-> 403, FORBIDDEN |-> 403,
           NOT_FOUND |-> 404, CONFLICT |-> 409, DATABASE |-> 500]

Reply(r, outcome, user) ==
  /\ pc' = [pc EXCEPT ![r] = "answered"]
  /\ answer' = [answer EXCEPT ![r] = [status |-> Status[outcome], user |-> user]]

Succeed(r, user) ==
  Reply(r, IF call[r].op = "create" THEN "CREATED" ELSE "SUCCESS", user)

Fail(r, error) == Reply(r, error, NoUser)

KeyWithoutId(r) == CHOOSE k \in Keys : TRUE
KeyOf(r) == ProfileKey[call[r].id]
Writer(r) == call[r].op \in {"update", "delete"}

(***************************************************************************)
(* The repositories                                                        *)
(***************************************************************************)
EmailTaken(email) == \E i \in Ids : table[i] # NoUser /\ table[i].email = email

(* The unique index users_email_key lets no other row have the e-mail.     *)
EmailFree(email, id) ==
  \A i \in Ids \ {id} : table[i] # NoUser => table[i].email # email

FindByEmail(email) ==
  IF kind = "default" THEN email \in CollisionEmails ELSE EmailTaken(email)

Default(value, other) == IF value = Unset THEN other ELSE value

(* The row a persisting update, or soft delete, of the call leaves.        *)
Patched(row, c) ==
  IF c.op = "delete" THEN [row EXCEPT !.active = FALSE]
  ELSE [row EXCEPT !.email = Default(c.email, @), !.active = Default(c.active, @)]

(* What update of the default repository answers.                          *)
Fabricated(c) ==
  [id |-> c.id, email |-> Default(c.email, UpdatedEmail),
   active |-> IF c.op = "delete" THEN FALSE ELSE Default(c.active, TRUE)]

(***************************************************************************)
(* Requests                                                                *)
(***************************************************************************)

(* The checks each operation makes before its first await, in their order. *)
Privileged(c) == c.operator \in Admins
SelfService(c) == OperatorId[c.operator] = c.id

Entitled(c) == Privileged(c) \/ (c.op \in {"get", "update"} /\ SelfService(c))
SelfDeleteIgnored(c) == FALSE
SelfDelete(c) == c.op = "delete" /\ SelfService(c)
RoleBlocked(c) == c.op = "update" /\ c.role # Unset /\ ~Privileged(c)
Malformed(c) ==
  \/ c.op = "create" /\ ~ValidateCreatePayload(c)
  \/ c.op = "update" /\ ~ValidateUpdatePayload(c)
  \/ c.op = "list" /\ ~ValidateListQueries(c)

Refusal(c) ==
  CASE ~Entitled(c) -> "UNAUTHORIZED"
    [] Entitled(c) /\ SelfDelete(c) -> "BAD_REQUEST"
    [] Entitled(c) /\ RoleBlocked(c) -> "FORBIDDEN"
    [] Entitled(c) /\ ~RoleBlocked(c) /\ Malformed(c) -> "VALIDATION"
    [] OTHER -> "NONE"

FirstAwait == [get |-> "lookup", update |-> "find", delete |-> "find",
               create |-> "find_email", list |-> "scan"]

Start(r) ==
  LET c == call[r]
  IN  /\ pc[r] = "new"
      /\ IF Refusal(c) = "NONE" THEN Goto(r, FirstAwait[c.op])
                                ELSE Fail(r, Refusal(c))
      /\ afterDelete' =
           IF \E q \in Requests : /\ call[q].op = "delete" /\ call[q].id = c.id
                                  /\ answer[q].status = 200
           THEN afterDelete \cup {r} ELSE afterDelete
      /\ UNCHANGED <<kind, table, store, call, found, audited, committed,
                     overlapped, faulted>>

(* cache.get: a hit is the answer.                                         *)
Lookup(r) ==
  LET cached == store[KeyOf(r)].val
  IN  /\ pc[r] = "lookup"
      /\ IF cached # NoValue THEN Succeed(r, cached) ELSE Goto(r, "find")
      /\ UNCHANGED <<kind, table, store, call, found, audited, history>>

(* repo.findById *)
AfterFindUnwritten(r) == IF Writer(r) THEN "audit" ELSE "fill"
AfterFind(r) == IF Writer(r) THEN "write" ELSE "fill"

Find(r) ==
  LET row == table[call[r].id]
  IN  /\ pc[r] = "find"
      /\ IF row = NoUser THEN Fail(r, "NOT_FOUND") /\ UNCHANGED found
         ELSE /\ found' = [found EXCEPT ![r] = row]
              /\ Goto(r, AfterFind(r))
      /\ UNCHANGED <<kind, table, store, call, audited, history>>

(* cache.set(cacheKey, user, 3600), then the answer.                       *)
CachedForever(user) == [SetEx(user) EXCEPT !.ttl = FALSE]
CachedAsNull(user) == SetEx(NoUser)
CachedAs(user) == SetEx(user)

Fill(r) ==
  /\ pc[r] = "fill"
  /\ store' = [store EXCEPT ![KeyOf(r)] = CachedAs(found[r])]
  /\ Succeed(r, found[r])
  /\ UNCHANGED <<kind, table, call, found, audited, history>>

(* The effect of repo.update, or softDelete, on the table.  Another        *)
(* request between findById and the set of its cache is overlapped.        *)
CommitWrite(r) ==
  LET c == call[r]
  IN  /\ kind = "custom"
      /\ EmailFree(Patched(table[c.id], c).email, c.id)
      /\ table' = [table EXCEPT ![c.id] = Patched(@, c)]
      /\ committed' = committed \cup {r}
      /\ overlapped' =
           overlapped \cup {q \in Requests : pc[q] = "fill" /\ call[q].id = c.id}

AfterWriteNoEviction == "audit"
AfterWrite == "evict"

Write(r) ==
  LET c == call[r]
  IN  /\ pc[r] = "write"
      /\ \/ /\ CommitWrite(r)
            /\ found' = [found EXCEPT ![r] = table'[c.id]]
            /\ Goto(r, AfterWrite)
         \/ /\ kind = "custom"
            /\ ~EmailFree(Patched(table[c.id], c).email, c.id)
            /\ Fail(r, "DATABASE")
            /\ UNCHANGED <<table, committed, overlapped, found>>
         \/ /\ kind = "default"
            /\ found' = [found EXCEPT ![r] = Fabricated(c)]
            /\ Goto(r, AfterWrite)
            /\ UNCHANGED <<table, committed, overlapped>>
      /\ UNCHANGED <<kind, store, call, audited, faulted, afterDelete>>

(* cache.delete: whether it evicted anything does not matter.              *)
Evict(r) ==
  /\ pc[r] = "evict"
  /\ store' = [store EXCEPT ![KeyOf(r)] = Del(@)]
  /\ Goto(r, "audit")
  /\ UNCHANGED <<kind, table, call, found, audited, history>>

(* auditRepo.create, then the answer; deleteUser answers no record.        *)
Audit(r) ==
  /\ pc[r] = "audit"
  /\ audited' = audited \cup {r}
  /\ Succeed(r, IF call[r].op = "delete" THEN NoUser ELSE found[r])
  /\ UNCHANGED <<kind, table, store, call, found, history>>

(* createUser: repo.findByEmail *)
FindEmail(r) ==
  /\ pc[r] = "find_email"
  /\ IF FindByEmail(call[r].email) THEN Fail(r, "CONFLICT") ELSE Goto(r, "insert")
  /\ UNCHANGED <<kind, table, store, call, found, audited, history>>

(* createUser: hashPassword and repo.create; the row gets a fresh id, and  *)
(* the unique index refuses an e-mail that was taken meanwhile.            *)
NewUser(id, c) == [id |-> id, email |-> c.email, active |-> TRUE]

InsertNeverRefused(c) == FALSE
InsertRefused(c) == kind = "custom" /\ EmailTaken(c.email)

CommitInsert(r, i) ==
  /\ table' = [table EXCEPT ![i] = NewUser(i, call[r])]
  /\ committed' = committed \cup {r}

FreshIds == {i \in Ids : table[i] = NoUser}

Insert(r) ==
  LET c == call[r]
  IN  /\ pc[r] = "insert"
      /\ IF InsertRefused(c)
         THEN Fail(r, "DATABASE") /\ UNCHANGED <<table, found, committed>>
         ELSE \E i \in FreshIds :
                /\ found' = [found EXCEPT ![r] = NewUser(i, c)]
                /\ Goto(r, "audit")
                /\ IF kind = "custom"
                   THEN CommitInsert(r, i)
                   ELSE UNCHANGED <<table, committed>>
      /\ UNCHANGED <<kind, store, call, audited, overlapped, faulted, afterDelete>>

(* getPaginatedUsers: repo.findManyPaginated, no cache involved.  The page *)
(* is the Limit(c) records after the first Skip(c).                        *)
Or(number, other) == IF number \in {Unset, NaN, 0} THEN other ELSE number
Limit(c) == Or(c.limit, 20)
Skip(c) == (Or(c.page, 1) - 1) * Limit(c)

Scan(r) ==
  /\ pc[r] = "scan"
  /\ Succeed(r, NoUser)
  /\ UNCHANGED <<kind, table, store, call, found, audited, history>>

(***************************************************************************)
(* Redis and the faults                                                    *)
(***************************************************************************)

(* The 3600 s of an entry are over.                                        *)
KeyExpires(k) ==
  /\ store[k].ttl
  /\ store' = [store EXCEPT ![k] = NoEntry]
  /\ UNCHANGED <<kind, table, pc, call, found, answer, audited, history>>

(* A cache command of r fails; the service goes on as after a miss, a      *)
(* completed set or a completed eviction.                                  *)
CacheError(r) ==
  /\ "cache_error" \in Faults
  /\ \/ pc[r] = "lookup" /\ Goto(r, "find")
     \/ pc[r] = "fill" /\ Succeed(r, found[r])
     \/ pc[r] = "evict" /\ Goto(r, "audit")
  /\ faulted' = faulted \cup {r}
  /\ UNCHANGED <<kind, table, store, call, found, audited, committed,
                 overlapped, afterDelete>>

(* The persisting repository throws; the error may hide a write that took  *)
(* effect.  The default one has nothing that could fail.                  *)
DatabaseError(r) ==
  /\ "db_error" \in Faults /\ kind = "custom"
  /\ pc[r] \in AtDatabase
  /\ \/ UNCHANGED <<table, committed, overlapped>>
     \/ pc[r] = "write" /\ CommitWrite(r)
     \/ /\ pc[r] = "insert" /\ ~InsertRefused(call[r])
        /\ \E i \in FreshIds : CommitInsert(r, i)
        /\ UNCHANGED overlapped
  /\ Fail(r, "DATABASE")
  /\ faulted' = faulted \cup {r}
  /\ UNCHANGED <<kind, store, call, found, audited, afterDelete>>

(* AuditLogRepository.create catches every error and answers null.         *)
AuditError(r) ==
  /\ "audit_error" \in Faults
  /\ pc[r] = "audit"
  /\ Succeed(r, IF call[r].op = "delete" THEN NoUser ELSE found[r])
  /\ faulted' = faulted \cup {r}
  /\ UNCHANGED <<kind, table, store, call, found, audited, committed,
                 overlapped, afterDelete>>

(* The process serving r dies between two awaits.                          *)
Crash(r) ==
  /\ "crash" \in Faults
  /\ pc[r] \in Running
  /\ Goto(r, "lost")
  /\ faulted' = faulted \cup {r}
  /\ UNCHANGED <<kind, table, store, call, found, audited, committed,
                 overlapped, afterDelete>>

Done == (\A r \in Requests : pc[r] \in {"answered", "lost"}) /\ UNCHANGED vars

Step(r) ==
  \/ Lookup(r) \/ Find(r) \/ Fill(r) \/ Write(r) \/ Evict(r) \/ Audit(r)
  \/ FindEmail(r) \/ Insert(r) \/ Scan(r)

Next ==
  \/ \E r \in Requests :
       \/ Start(r)
       \/ Step(r)
       \/ CacheError(r)
       \/ DatabaseError(r)
       \/ AuditError(r)
       \/ Crash(r)
  \/ \E k \in Keys : KeyExpires(k)
  \/ Done

Spec == Init /\ [][Next]_vars

(* Node runs the continuation of a settled promise, the database and Redis *)
(* answer, and Redis drops a key some time after its expiry.               *)
Fairness ==
  /\ \A r \in Requests : WF_vars(Step(r))
  /\ \A k \in Keys : WF_vars(KeyExpires(k))

FairSpec == Spec /\ Fairness

(***************************************************************************)
(* Properties                                                              *)
(***************************************************************************)
TypeOK ==
  /\ kind \in {"custom", "default"}
  /\ table \in [Ids -> User \cup {NoUser}]
  /\ store \in [Keys -> Entry(User)]
  /\ pc \in [Requests -> Places]
  /\ call \in [Requests -> Call]
  /\ found \in [Requests -> User \cup {NoUser}]
  /\ answer \in [Requests -> [status : Nat, user : User \cup {NoUser}]]
  /\ audited \subseteq Requests
  /\ committed \subseteq Requests
  /\ overlapped \subseteq Requests
  /\ faulted \subseteq Requests
  /\ afterDelete \subseteq Requests

Stale(k) == store[k].val # NoValue /\ store[k].val # table[store[k].val.id]

(* A profile is served from the cache only under the key of its own id:    *)
(* no update or made-up record ever lands under the key of another user.   *)
CacheHoldsOwnKey == \A k \in Keys :
  store[k].val # NoValue => ProfileKey[store[k].val.id] = k

(* The cached profile differs from its row only for one of three reasons:  *)
(* a write has not yet reached its eviction, a read held the old row       *)
(* across a write and cached it afterwards, or a fault hit a write.  A     *)
(* write and its eviction cannot otherwise leave an old profile behind,    *)
(* in whatever order the steps of the requests come.                       *)
StaleHasCause == \A k \in Keys :
  Stale(k) =>
    \E r \in Requests :
      /\ call[r].id = store[k].val.id
      /\ \/ pc[r] = "evict"
         \/ r \in overlapped
         \/ Writer(r) /\ r \in faulted

(* A stale profile is served for the time to live of its entry at most.    *)
StaleEntryDisappears == \A k \in Keys : Stale(k) ~> ~Stale(k)

(* Two accounts never share an e-mail, although creations and updates only *)
(* check for it before, or not at all, and then wait: the unique index is  *)
(* what holds.                                                             *)
EmailUnique == \A i, j \in Ids :
  /\ table[i] # NoUser /\ table[j] # NoUser
  /\ table[i].email = table[j].email
  => i = j

(* The audit trail follows the table: an audited operation has taken       *)
(* effect (in a repository that stores anything), and an operation that    *)
(* took effect and was answered with success is audited unless the audit   *)
(* failed, was cut short, or the answer of the database was lost.          *)
AuditFollowsTable == \A r \in Requests :
  /\ r \in audited => kind = "default" \/ r \in committed
  /\ r \in committed /\ pc[r] = "answered" => r \in audited \/ r \in faulted

(* Every change of the table is made for a caller entitled to it: an ADMIN *)
(* other than its own deleter, or the account's owner updating it without  *)
(* touching the role.                                                      *)
OnlyEntitledWrites ==
  [][\A r \in Requests :
       r \in committed' \ committed =>
         \/ call[r].operator \in Admins
            /\ (call[r].op = "delete" => OperatorId[call[r].operator] # call[r].id)
         \/ /\ call[r].op = "update" /\ call[r].role = Unset
            /\ OperatorId[call[r].operator] = call[r].id]_vars

(* What the requests that write have to show of it in a repository that    *)
(* persists.                                                               *)
Result == [r \in Requests |->
  IF r \in committed /\ answer[r].status # Status["DATABASE"] THEN found[r] ELSE NoUser]
Told == [r \in Requests |->
  IF /\ kind = "custom" /\ call[r].op \in {"create", "update", "delete"}
     /\ answer[r].status \in {Status["SUCCESS"], Status["CREATED"]}
  THEN answer[r] ELSE NoAnswer]
OnRecord == {r \in audited : kind = "custom"}

Directory == INSTANCE UserDirectory WITH
  accounts <- table, done <- committed, result <- Result, told <- Told, recorded <- OnRecord

(* The operations with their checks before the first await, their writes   *)
(* after later ones, evictions, audits and faults are those of a directory *)
(* that changes in one piece: each write has its effect once, for a caller *)
(* with the right to it, and who is told of success is told what the own   *)
(* write left, whatever was written since.                                 *)
ImplementsDirectory == Directory!Spec

(* No payload gets around the checks on some path: whatever sequence of    *)
(* creations and updates ran, every stored e-mail has the accepted form,   *)
(* and a list reads a page that exists and has 1 to 100 records, whether   *)
(* the query or a default set its bounds.                                  *)
NothingUncheckedGetsIn ==
  /\ \A i \in Ids : table[i] # NoUser => table[i].email \in WellFormedEmails
  /\ \A r \in Requests : pc[r] = "scan" =>
       /\ Skip(call[r]) >= 0
       /\ Limit(call[r]) \in 1..100

(* "Executes a secure, audited identity deactivation and enforces          *)
(* immediate cache invalidation" (users.service.ts line 153): a read that  *)
(* comes after a confirmed delete does not answer an active profile.  To   *)
(* be checked with calls that do not activate the account again.           *)
DeletionIsImmediate == \A r \in Requests :
  r \in afterDelete /\ answer[r].user # NoUser => ~answer[r].user.active
=============================================================================
