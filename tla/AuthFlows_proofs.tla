--------------------------- MODULE AuthFlows_proofs ---------------------------
(***************************************************************************)
(* For every set of requests, accounts and calls, both kinds of            *)
(* repositories and every mix of the faults: the type invariant of         *)
(* AuthFlows, its five safety properties, and that it implements           *)
(* RotationChain.                                                          *)
(***************************************************************************)
EXTENDS AuthFlows, FiniteSetTheorems, TLAPS

(***************************************************************************)
(* The inductive invariant                                                 *)
(***************************************************************************)

(* Each place belongs to the operations that go there; a request that has  *)
(* not begun has left no trace, and an answer is the end.                  *)
Course(r) ==
  /\ pc[r] = "new" => /\ status[r] = 0 /\ trail[r] = NoAudit /\ family[r] = r
                      /\ shown[r] = Unset /\ r \notin tooLate
  /\ status[r] # 0 => pc[r] = "answered"
  /\ pc[r] \in {"find_email", "verify", "audit_bad"} => Op(r) = "login"
  /\ pc[r] \in {"find_token", "revoke"} => Op(r) \in {"refresh", "logout"}
  /\ pc[r] \in {"find_user", "revoke_expired", "revoke_replay", "audit_replay"} =>
       Op(r) = "refresh"
  /\ pc[r] = "store" => Op(r) \in {"login", "refresh"}
  /\ Op(r) = "login" /\ pc[r] \in Running => ~Incomplete(call[r])

(* A persisting repository has a row for each token that is about to be    *)
(* handed out or was, and a token whose row is there although it is        *)
(* neither had a fault.                                                    *)
OwnRow(r) ==
  /\ HasRow(r) => /\ kind = "custom" /\ Op(r) # "logout"
                  /\ pc[r] \in {"audit", "answered", "lost"}
                  /\ pc[r] = "audit" \/ status[r] = 200 \/ r \in faulted
  /\ kind = "custom" /\ Op(r) # "logout" /\ (pc[r] = "audit" \/ status[r] = 200) =>
       HasRow(r)

(* A token that is shown was handed out, and its family is the request's.  *)
ShownToken(r) ==
  shown[r] \in Requests =>
    /\ status[shown[r]] = 200 /\ Op(shown[r]) # "logout"
    /\ family[r] = family[shown[r]]

(* Who founds a family is the login of its first token, long answered when *)
(* others join.                                                            *)
Rooted(r) == family[r] # r => Op(r) # "login" /\ status[family[r]] = 200

(* What a refresh or logout that is past its check knows of the token it   *)
(* was shown.                                                              *)
ShownRow(r) ==
  kind = "custom" /\ Op(r) # "login" =>
    /\ pc[r] \in {"find_user", "revoke", "store", "audit", "revoke_expired",
                  "audit_replay", "revoke_replay"} => HasRow(shown[r])
    /\ pc[r] \in {"store", "audit", "audit_replay", "revoke_replay"} =>
         ledger[shown[r]].revoked
    /\ pc[r] = "revoke_expired" => ledger[shown[r]].expired

(* Where a request that came too late may still be.                        *)
LateCourse(r) ==
  r \in tooLate =>
    /\ kind = "custom" /\ ~HasRow(r)
    /\ Op(r) = "login" =>
         /\ ~Incomplete(call[r])
         /\ accounts[call[r].email] # "active" /\ status[r] # 200
         /\ pc[r] \in {"find_email", "answered", "lost"}
    /\ Op(r) = "refresh" =>
         /\ HasRow(shown[r]) /\ status[r] # 200
         /\ pc[r] \in {"find_token", "find_user", "revoke_expired", "audit_replay",
                       "revoke_replay", "answered", "lost"}
         /\ \/ accounts[ledger[shown[r]].user] # "active"
            \/ /\ pc[r] # "find_user"
               /\ ledger[shown[r]].revoked \/ ledger[shown[r]].expired

(* AuditMatchesLedger, of one request.                                     *)
Audited(r) ==
  /\ kind = "custom" =>
       /\ trail[r] \in {"USER_LOGIN_SUCCESS", "TOKEN_ROTATION_SUCCESS"} => HasRow(r)
       /\ trail[r] \in {"TOKEN_ROTATION_SUCCESS", "USER_LOGOUT_SUCCESS",
                        "SECURITY_REPLAY_ATTACK_DETECTED"} =>
            HasRow(shown[r]) /\ ~Live(shown[r])
  /\ status[r] = 200 /\ (Op(r) = "logout" => HasRow(shown[r])) =>
       trail[r] # NoAudit \/ r \in faulted

Facts(r) ==
  /\ Course(r) /\ OwnRow(r) /\ ShownToken(r) /\ Rooted(r) /\ ShownRow(r)
  /\ LateCourse(r) /\ Audited(r)

Requested == \A r \in Requests : Facts(r)

(* The tokens of a family that are live or about to be stored, and the     *)
(* refreshes past their check that have not revoked the token they hold:   *)
(* in a family without a race there is one carrier, the one that is held,  *)
(* and one holder.                                                         *)
Carries(t, f) == family[t] = f /\ (Live(t) \/ pc[t] = "store")
Holds(q, f) == family[q] = f /\ Op(q) = "refresh" /\ pc[q] \in {"find_user", "revoke"}

OneCarrier == \A f \in Requests \ raced : \A s, t \in Requests :
  /\ kind = "custom" /\ Carries(s, f) /\ Carries(t, f) => s = t
  /\ kind = "custom" /\ Holds(s, f) /\ Holds(t, f) => s = t
  /\ kind = "custom" /\ Holds(s, f) /\ Carries(t, f) => t = shown[s]

IInv ==
  /\ TypeOK
  /\ Requested
  /\ LostSessionHasCause
  /\ OneCarrier

(***************************************************************************)
(* The steps                                                               *)
(***************************************************************************)
(* What every step does to the rows and the accounts: a row stays with its *)
(* owner, what is revoked or expired stays so, and no account becomes      *)
(* active.                                                                 *)
RowsKept ==
  /\ ledger' \in [Requests -> Row \cup {NoRow}]
  /\ \A t \in Requests : ledger[t] # NoRow =>
       /\ ledger'[t] # NoRow
       /\ ledger'[t].user = ledger[t].user
       /\ ledger[t].revoked => ledger'[t].revoked
       /\ ledger[t].expired => ledger'[t].expired

(* Only r moves, to a place, and is answered code (0 when not yet).        *)
Moves(r, place, code) ==
  /\ pc' \in [Requests -> Places] /\ status' \in [Requests -> {0, 200, 400, 401, 500}]
  /\ pc'[r] = place
  /\ status'[r] = code
  /\ \A q \in Requests \ {r} : pc'[q] = pc[q] /\ status'[q] = status[q]

(* A request goes on to its next place.                                    *)
LEMMA GotoMoves ==
  ASSUME TypeOK, NEW r \in Requests, NEW place \in Places, Goto(r, place)
  PROVE  Moves(r, place, status[r])
  BY DEF Goto, Moves, TypeOK

(* A request is answered.                                                  *)
LEMMA AnswerMoves ==
  ASSUME TypeOK, NEW r \in Requests, NEW code \in {200, 400, 401, 500}, Answer(r, code)
  PROVE  Moves(r, "answered", code)
  BY DEF Answer, Moves, TypeOK, Places

(* revoke marks the row of its token, if there is one, and no other.       *)
LEMMA RevokeRowEffect ==
  ASSUME TypeOK, NEW t, RevokeRow(t)
  PROVE  /\ RowsKept
         /\ \A q \in Requests : q # t => ledger'[q] = ledger[q]
         /\ HasRow(t) => ledger'[t].revoked
         /\ \A q \in Requests : ledger[q] = NoRow => ledger'[q] = NoRow
<1>1. CASE ~HasRow(t)
  BY <1>1 DEF RevokeRow, RowsKept, TypeOK
<1>2. CASE HasRow(t)
  <2>1. t \in Requests /\ ledger[t] \in Row /\ ledger[t] # NoRow
    BY <1>2 DEF HasRow, TypeOK
  <2> DEFINE row == [ledger[t] EXCEPT !.revoked = TRUE]
  <2>2. /\ row \in Row /\ row.revoked = TRUE
        /\ row.user = ledger[t].user /\ row.expired = ledger[t].expired
    BY <2>1 DEF Row
  <2>3. row # NoRow
    BY <2>2, NoValuesAssumption
  <2>4. ledger' = [ledger EXCEPT ![t] = row]
    BY <1>2 DEF RevokeRow
  <2> HIDE DEF row
  <2>5. ledger' \in [Requests -> Row \cup {NoRow}] /\ ledger'[t] = row
        /\ \A q \in Requests \ {t} : ledger'[q] = ledger[q]
    BY <2>1, <2>2, <2>4 DEF TypeOK
  <2> QED
    BY <2>1, <2>2, <2>3, <2>5 DEF RowsKept
<1> QED
  BY <1>1, <1>2

(* create stores a live row of the new token, in a repository that does.   *)
LEMMA CreateRowEffect ==
  ASSUME TypeOK, NEW r \in Requests, CreateRow(r), ledger[r] = NoRow,
         kind = "custom" => OwnerOf(r) \in Users
  PROVE  /\ RowsKept
         /\ \A q \in Requests : q # r => ledger'[q] = ledger[q]
         /\ kind = "custom" =>
              ledger'[r] # NoRow /\ ~ledger'[r].revoked /\ ledger'[r].user = OwnerOf(r)
         /\ kind # "custom" => ledger' = ledger
<1>1. CASE kind # "custom"
  <2>1. ledger' = ledger
    BY <1>1 DEF CreateRow, TypeOK
  <2> QED
    BY <1>1, <2>1 DEF RowsKept, TypeOK
<1>2. CASE kind = "custom"
  <2> DEFINE row == [user |-> OwnerOf(r), revoked |-> FALSE, expired |-> FALSE]
  <2>1. ledger' = [ledger EXCEPT ![r] = row]
    BY <1>2 DEF CreateRow
  <2>2. row \in Row /\ row.user = OwnerOf(r) /\ row.revoked = FALSE
    BY <1>2 DEF Row
  <2>3. row # NoRow
    BY <2>2, NoValuesAssumption
  <2> HIDE DEF row
  <2>4. ledger' \in [Requests -> Row \cup {NoRow}] /\ ledger'[r] = row
        /\ \A q \in Requests \ {r} : ledger'[q] = ledger[q]
    BY <2>1, <2>2 DEF TypeOK
  <2> QED
    BY <1>2, <2>2, <2>3, <2>4 DEF RowsKept
<1> QED
  BY <1>1, <1>2

(* A row expires and stays what it was otherwise.                          *)
LEMMA TokenExpiresEffect ==
  ASSUME TypeOK, NEW t \in Requests, TokenExpires(t)
  PROVE  /\ RowsKept
         /\ \A q \in Requests : q # t => ledger'[q] = ledger[q]
         /\ ledger[t] # NoRow /\ (ledger'[t].revoked <=> ledger[t].revoked)
<1>1. ledger[t] \in Row /\ ledger[t] # NoRow
  BY DEF TokenExpires, TypeOK
<1> DEFINE row == [ledger[t] EXCEPT !.expired = TRUE]
<1>2. /\ row \in Row /\ row.expired = TRUE
      /\ row.user = ledger[t].user /\ row.revoked = ledger[t].revoked
  BY <1>1 DEF Row
<1>3. row # NoRow
  BY <1>2, NoValuesAssumption
<1>4. ledger' = [ledger EXCEPT ![t] = row]
  BY DEF TokenExpires
<1> HIDE DEF row
<1>5. ledger' \in [Requests -> Row \cup {NoRow}] /\ ledger'[t] = row
      /\ \A q \in Requests \ {t} : ledger'[q] = ledger[q]
  BY <1>1, <1>2, <1>4 DEF TypeOK
<1> QED
  BY <1>1, <1>2, <1>3, <1>5 DEF RowsKept

(* What the check of a shown token decides.                                *)
LEMMA FindTokenEffect ==
  ASSUME TypeOK, Requested, NEW r \in Requests, FindToken(r)
  PROVE  /\ pc[r] = "find_token"
         /\ UNCHANGED <<kind, accounts, ledger, call, shown, trail, family, tooLate, faulted>>
         /\ \/ /\ Moves(r, "answered", 200) /\ Op(r) = "logout" /\ ~HasRow(shown[r])
               /\ kind = "custom"
            \/ /\ Moves(r, "answered", 401) /\ Op(r) = "refresh" /\ ~HasRow(shown[r])
               /\ kind = "custom"
            \/ /\ Moves(r, "revoke", status[r]) /\ Op(r) = "logout"
               /\ kind = "custom" => HasRow(shown[r])
            \/ /\ Moves(r, "audit_replay", status[r]) /\ Op(r) = "refresh"
               /\ kind = "custom" /\ HasRow(shown[r]) /\ ledger[shown[r]].revoked
            \/ /\ Moves(r, "revoke_expired", status[r]) /\ Op(r) = "refresh"
               /\ kind = "custom" /\ HasRow(shown[r]) /\ ledger[shown[r]].expired
            \/ /\ Moves(r, "find_user", status[r]) /\ Op(r) = "refresh"
               /\ kind = "custom" => /\ HasRow(shown[r]) /\ ~ledger[shown[r]].revoked
                                     /\ ~ledger[shown[r]].expired
         /\ raced \subseteq raced' /\ raced' \subseteq Requests
         /\ pc'[r] = "find_user" /\ (\E q \in Requests : HoldsToken(q, shown[r])) =>
              family[r] \in raced'
<1>1. pc[r] = "find_token" /\ Op(r) \in {"refresh", "logout"}
  BY DEF FindToken, Requested, Facts, Course
<1> DEFINE row == FoundToken(shown[r])
           next == Verdict(r)
<1>2. CASE Op(r) = "logout"
  <2>1. next = IF row.found THEN "revoke" ELSE "answered"
    BY <1>2 DEF Verdict
  <2>2. row.found <=> (kind = "default" \/ HasRow(shown[r]))
    BY DEF FoundToken
  <2>3. CASE row.found
    <3>1. Goto(r, "revoke")
      BY <2>1, <2>3 DEF FindToken
    <3>2. Moves(r, "revoke", status[r])
      BY <3>1, GotoMoves DEF Places, Running, AtDatabase
    <3> QED
      BY <1>1, <1>2, <2>1, <2>2, <2>3, <3>2 DEF FindToken, TypeOK, Moves
  <2>4. CASE ~row.found
    <3>1. Answer(r, 200)
      BY <1>2, <2>1, <2>4 DEF FindToken
    <3>2. Moves(r, "answered", 200)
      BY <3>1, AnswerMoves
    <3> QED
      BY <1>1, <1>2, <2>1, <2>2, <2>4, <3>2 DEF FindToken, TypeOK, Moves
  <2> QED
    BY <2>3, <2>4
<1>3. CASE Op(r) = "refresh"
  <2>1. next = IF ~row.found THEN "answered" ELSE IF row.revoked THEN "audit_replay"
               ELSE IF row.expired THEN "revoke_expired" ELSE "find_user"
    BY <1>3 DEF Verdict, FoundToken
  <2>2. /\ row.found <=> (kind = "default" \/ HasRow(shown[r]))
        /\ kind = "default" => ~row.revoked /\ ~row.expired
        /\ kind = "custom" /\ HasRow(shown[r]) =>
             (row.revoked <=> ledger[shown[r]].revoked) /\ (row.expired <=> ledger[shown[r]].expired)
    BY DEF FoundToken, TypeOK
  <2> HIDE DEF row, next
  <2>3. CASE ~row.found
    <3>1. Answer(r, 401)
      BY <1>3, <2>1, <2>3 DEF FindToken, next
    <3>2. Moves(r, "answered", 401)
      BY <3>1, AnswerMoves
    <3> QED
      BY <1>1, <1>3, <2>1, <2>2, <2>3, <3>2 DEF FindToken, TypeOK, Moves, next
  <2>4. CASE row.found
    <3>1. Goto(r, next) /\ next \in {"audit_replay", "revoke_expired", "find_user"}
      BY <2>1, <2>4 DEF FindToken, next
    <3>2. Moves(r, next, status[r])
      BY <3>1, GotoMoves DEF Places, Running, AtDatabase, AtAudit
    <3>3. /\ raced \subseteq raced' /\ raced' \subseteq Requests
          /\ next = "find_user" /\ (\E q \in Requests : HoldsToken(q, shown[r])) =>
               family[r] \in raced'
      BY DEF FindToken, TypeOK, next
    <3>4. /\ pc[r] = "find_token" /\ pc'[r] = next
          /\ UNCHANGED <<kind, accounts, ledger, call, shown, trail, family, tooLate, faulted>>
      BY <3>2 DEF FindToken, Moves
    <3>5. kind = "custom" \/ kind = "default"
      BY DEF TypeOK
    <3> QED
      BY <1>3, <2>1, <2>2, <2>4, <3>2, <3>3, <3>4, <3>5
  <2> QED
    BY <2>3, <2>4
<1> QED
  BY <1>1, <1>2, <1>3

(* What a step of r leaves alone: the calls, the requests other than r,    *)
(* and what is on record of r once it is answered.                         *)
StepOf(r) ==
  /\ RowsKept
  /\ kind = "custom" \/ UNCHANGED ledger
  /\ UNCHANGED <<kind, call>>
  /\ \A q \in Requests \ {r} :
       /\ pc'[q] = pc[q] /\ status'[q] = status[q] /\ trail'[q] = trail[q]
       /\ shown'[q] = shown[q] /\ family'[q] = family[q]
       /\ ledger[q] = NoRow => ledger'[q] = NoRow
       /\ q \in tooLate' => q \in tooLate
  /\ \A u \in Users : accounts[u] # "active" => accounts'[u] # "active"
  /\ faulted \subseteq faulted'
  /\ family'[r] = family[r] \/ pc[r] = "new"
  /\ status'[r] = status[r] \/ status[r] = 0

(* The facts about the other requests outlast a step of r, or of no        *)
(* request.                                                                *)
LEMMA OthersKept ==
  ASSUME IInv, NEW r, StepOf(r), NEW q \in Requests, q # r
  PROVE  Facts(q)'
<1>1. Facts(q) /\ (shown[q] \in Requests => Facts(shown[q]))
  BY DEF IInv, Requested
<1>2. /\ pc'[q] = pc[q] /\ status'[q] = status[q] /\ trail'[q] = trail[q]
      /\ shown'[q] = shown[q] /\ family'[q] = family[q] /\ (HasRow(q)' <=> HasRow(q))
      /\ kind' = kind /\ call' = call
  BY DEF StepOf, RowsKept, HasRow
<1>3. \A t \in Requests : status[t] = 200 => status'[t] = 200 /\ family'[t] = family[t]
  <2> SUFFICES ASSUME NEW t \in Requests, status[t] = 200
               PROVE  status'[t] = 200 /\ family'[t] = family[t]
    OBVIOUS
  <2>1. pc[t] = "answered"
    BY DEF IInv, Requested, Facts, Course
  <2> QED
    BY <2>1 DEF StepOf
<1>4. \A t : HasRow(t) => /\ HasRow(t)' /\ ledger'[t].user = ledger[t].user
                          /\ ledger[t].revoked => ledger'[t].revoked
                          /\ ledger[t].expired => ledger'[t].expired
  BY DEF StepOf, RowsKept, HasRow
<1>5. HasRow(shown[q])' => HasRow(shown[q])
  <2>1. CASE kind = "custom" /\ shown[q] \in Requests
    BY <1>1, <1>4, <2>1 DEF Facts, ShownToken, OwnRow, HasRow
  <2>2. CASE kind # "custom" \/ shown[q] \notin Requests
    BY <1>2, <2>2 DEF StepOf, HasRow
  <2> QED
    BY <2>1, <2>2
<1>6. Course(q)'
  BY <1>1, <1>2 DEF Facts, Course, Op, Incomplete, StepOf
<1>7. OwnRow(q)'
  BY <1>1, <1>2 DEF Facts, OwnRow, Op, StepOf
<1>8. ShownToken(q)'
  BY <1>1, <1>2, <1>3 DEF Facts, ShownToken, Op
<1>9. Rooted(q)'
  <2>1. family[q] \in Requests
    BY DEF IInv, TypeOK
  <2> QED
    BY <1>1, <1>2, <1>3, <2>1 DEF Facts, Rooted, Op
<1>10. ShownRow(q)'
  BY <1>1, <1>2, <1>4 DEF Facts, ShownRow, Op
<1>11. LateCourse(q)'
  <2> SUFFICES ASSUME q \in tooLate'
               PROVE  LateCourse(q)'
    BY DEF LateCourse
  <2>1. q \in tooLate /\ LateCourse(q)
    BY <1>1 DEF StepOf, Facts
  <2>2. call[q] \in Call
    BY DEF IInv, TypeOK
  <2>3. Op(q) = "login" => call[q].email \in Users
    BY <2>1, <2>2 DEF LateCourse, Incomplete, Call
  <2>4. HasRow(shown[q]) => ledger[shown[q]].user \in Users
    BY DEF HasRow, IInv, TypeOK, Row
  <2>5. \A u \in Users : accounts[u] # "active" => accounts'[u] # "active"
    BY DEF StepOf
  <2>6. Op(q) = "login" => accounts'[call[q].email] # "active"
    BY <2>1, <2>3, <2>5 DEF LateCourse
  <2>7. Op(q) = "refresh" =>
          /\ HasRow(shown[q])'
          /\ \/ accounts'[ledger'[shown[q]].user] # "active"
             \/ /\ pc[q] # "find_user"
                /\ ledger'[shown[q]].revoked \/ ledger'[shown[q]].expired
    BY <1>2, <1>4, <2>1, <2>4, <2>5 DEF LateCourse
  <2> QED
    BY <1>2, <2>1, <2>6, <2>7 DEF LateCourse, Op, Incomplete
<1>12. Audited(q)'
  <2>1. HasRow(shown[q]) /\ ~Live(shown[q]) => HasRow(shown[q])' /\ ~Live(shown[q])'
    BY <1>2, <1>4 DEF Live, HasRow
  <2> QED
    BY <1>1, <1>2, <1>5, <2>1 DEF Facts, Audited, Op, StepOf
<1> QED
  BY <1>6, <1>7, <1>8, <1>9, <1>10, <1>11, <1>12 DEF Facts

(* A step that leaves the ledger alone keeps its rows.                     *)
LEMMA SameRows ==
  ASSUME TypeOK, UNCHANGED ledger
  PROVE  RowsKept
  BY DEF TypeOK, RowsKept

(* A login is checked for its fields.                                      *)
LEMMA StartLoginStep ==
  ASSUME IInv, NEW r \in Requests, StartLogin(r)
  PROVE  TypeOK' /\ StepOf(r) /\ Facts(r)'
<1>1. Facts(r) /\ TypeOK /\ pc[r] = "new" /\ Op(r) = "login"
  BY DEF IInv, Requested, StartLogin
<1>2. /\ UNCHANGED <<kind, accounts, ledger, call, shown, trail, family, raced, faulted>>
      /\ tooLate' = IF ~Incomplete(call[r]) /\ Ended(r, Unset)
                    THEN tooLate \cup {r} ELSE tooLate
  BY DEF StartLogin
<1>3. \/ Incomplete(call[r]) /\ \E code \in {400, 500} : Moves(r, "answered", code)
      \/ ~Incomplete(call[r]) /\ Moves(r, "find_email", 0)
  <2>1. CASE Incomplete(call[r])
    BY <1>1, <2>1, AnswerMoves DEF StartLogin, Refused
  <2>2. CASE ~Incomplete(call[r])
    BY <1>1, <2>2, GotoMoves DEF StartLogin, Facts, Course, Places, Running, AtDatabase
  <2> QED
    BY <2>1, <2>2
<1>4. RowsKept
  BY <1>1, <1>2, SameRows
<1>5. TypeOK'
  BY <1>1, <1>2, <1>3 DEF TypeOK, Moves
<1>6. StepOf(r)
  BY <1>1, <1>2, <1>3, <1>4 DEF StepOf, Moves, Facts, Course
<1>7. ~HasRow(r) /\ ~HasRow(r)' /\ Op(r)' = "login"
  BY <1>1, <1>2 DEF Facts, OwnRow, HasRow, Op
<1>8. Course(r)'
  <2>1. /\ pc'[r] \in {"answered", "find_email"}
        /\ status'[r] # 0 => pc'[r] = "answered"
        /\ pc'[r] = "find_email" => ~Incomplete(call[r])'
    BY <1>2, <1>3 DEF Moves, Incomplete
  <2> QED
    BY <1>7, <2>1 DEF Course, Running, AtDatabase, AtAudit
<1>9. OwnRow(r)' /\ ShownToken(r)' /\ Rooted(r)' /\ ShownRow(r)' /\ Audited(r)'
  BY <1>1, <1>2, <1>3, <1>7, NoValuesAssumption
  DEF Facts, Course, OwnRow, ShownToken, Rooted, ShownRow, Audited, Moves, NoAudit
<1>10. LateCourse(r)'
  BY <1>1, <1>2, <1>3, <1>7 DEF Facts, Course, LateCourse, Moves, Ended, Incomplete
<1> QED
  BY <1>5, <1>6, <1>8, <1>9, <1>10 DEF Facts

(* A refresh or logout is shown a token.                                   *)
LEMMA StartWithTokenStep ==
  ASSUME IInv, NEW r \in Requests, StartWithToken(r)
  PROVE  TypeOK' /\ StepOf(r) /\ Facts(r)'
<1>1. Facts(r) /\ TypeOK /\ pc[r] = "new" /\ Op(r) \in {"refresh", "logout"}
  BY DEF IInv, Requested, StartWithToken, TypeOK, Call, Op
<1>2. UNCHANGED <<kind, accounts, ledger, call, trail, raced, faulted>>
  BY DEF StartWithToken
<1>3. PICK t \in Delivered \cup {Unset, Unknown} :
        /\ shown' = [shown EXCEPT ![r] = t]
        /\ IF t # Unset THEN Goto(r, "find_token")
           ELSE Answer(r, IF Op(r) = "logout" THEN 200 ELSE 400)
        /\ family' = IF t \in Requests THEN [family EXCEPT ![r] = family[t]] ELSE family
        /\ tooLate' = IF Ended(r, t) THEN tooLate \cup {r} ELSE tooLate
  BY DEF StartWithToken
<1>4. \/ t # Unset /\ Moves(r, "find_token", 0)
      \/ t = Unset /\ \E code \in {200, 400} :
           Moves(r, "answered", code) /\ (code = 200 => Op(r) = "logout")
  <2>1. CASE t = Unset
    BY <1>1, <1>3, <2>1, AnswerMoves
  <2>2. CASE t # Unset
    BY <1>1, <1>3, <2>2, GotoMoves DEF Facts, Course, Places, Running, AtDatabase
  <2> QED
    BY <2>1, <2>2
<1>5. /\ t \in Requests => /\ status[t] = 200 /\ Op(t) # "logout" /\ t # r
                           /\ Facts(t)
      /\ t \in Requests \cup {Unset, Unknown}
  <2>1. status[r] = 0
    BY <1>1 DEF Facts, Course
  <2>2. t \in Delivered \/ t = Unset \/ t = Unknown
    OBVIOUS
  <2>3. t \in Requests => t \in Delivered
    BY <2>2, NoValuesAssumption
  <2> QED
    BY <2>1, <2>2, <2>3 DEF Delivered, IInv, Requested
<1>6. RowsKept
  BY <1>1, <1>2, SameRows
<1>7. TypeOK'
  BY <1>1, <1>2, <1>3, <1>4, <1>5 DEF TypeOK, Moves
<1>8. shown'[r] = t /\ family'[r] = (IF t \in Requests THEN family[t] ELSE family[r])
  BY <1>1, <1>3 DEF TypeOK
<1>9. /\ status'[r] \in {0, 200, 400} /\ (status'[r] = 200 => Op(r) = "logout")
      /\ pc'[r] \in {"find_token", "answered"} /\ (pc'[r] = "find_token" => status'[r] = 0)
  BY <1>4 DEF Moves
<1>10. \A q \in Requests \ {r} : /\ pc'[q] = pc[q] /\ status'[q] = status[q]
                                  /\ shown'[q] = shown[q] /\ family'[q] = family[q]
  BY <1>1, <1>3, <1>4 DEF Moves, TypeOK
<1>11. StepOf(r)
  BY <1>1, <1>2, <1>3, <1>6, <1>10 DEF StepOf, Facts, Course
<1>12. ~HasRow(r)' /\ Op(r)' = Op(r) /\ \A q : HasRow(q)' <=> HasRow(q)
  BY <1>1, <1>2 DEF Facts, OwnRow, HasRow, Op
<1>13. Course(r)'
  BY <1>1, <1>9, <1>12 DEF Course
<1>14. OwnRow(r)' /\ ShownRow(r)'
  BY <1>1, <1>9, <1>12 DEF OwnRow, ShownRow
<1>15. ShownToken(r)' /\ Rooted(r)'
  <2>1. CASE t \notin Requests
    BY <1>1, <1>8, <2>1 DEF ShownToken, Rooted, Facts, Course
  <2>2. CASE t \in Requests
    <3>1. status'[t] = 200 /\ family'[t] = family[t] /\ Op(t)' = Op(t)
      BY <1>2, <1>5, <1>10, <2>2 DEF Op
    <3>2. ShownToken(r)'
      BY <1>5, <1>8, <2>2, <3>1 DEF ShownToken
    <3>3. status[family[t]] = 200 /\ family[t] \in Requests
      BY <1>1, <1>5, <2>2 DEF Facts, Rooted, TypeOK
    <3>4. Rooted(r)'
      BY <1>1, <1>8, <1>10, <1>12, <2>2, <3>3 DEF Rooted, Facts, Course
    <3> QED
      BY <3>2, <3>4
  <2> QED
    BY <2>1, <2>2
<1>16. LateCourse(r)'
  BY <1>1, <1>2, <1>3, <1>5, <1>8, <1>9, <1>12 DEF LateCourse, Ended, Facts, Course, HasRow
<1>17. Audited(r)'
  <2>1. trail'[r] = "none"
    BY <1>1, <1>2 DEF Facts, Course, NoAudit
  <2>2. status'[r] = 200 => Op(r) = "logout" /\ ~HasRow(shown[r])'
    BY <1>4, <1>8, NoValuesAssumption DEF Moves, HasRow
  <2> QED
    BY <1>12, <2>1, <2>2 DEF Audited
<1> QED
  BY <1>7, <1>11, <1>13, <1>14, <1>15, <1>16, <1>17 DEF Facts

(* What any step of a running request keeps: the types, the other requests *)
(* and the token it was shown.                                             *)
LEMMA RunningStep ==
  ASSUME IInv, NEW r \in Requests, pc[r] \in Running,
         NEW place \in Places, NEW code \in {0, 200, 400, 401, 500}, Moves(r, place, code),
         RowsKept, kind = "custom" \/ UNCHANGED ledger,
         \A q \in Requests \ {r} : ledger[q] = NoRow => ledger'[q] = NoRow,
         UNCHANGED <<kind, accounts, call, shown, family, tooLate>>,
         trail' \in [Requests -> AuditActions \cup {NoAudit}],
         \A q \in Requests \ {r} : trail'[q] = trail[q],
         raced' \subseteq Requests, faulted \subseteq faulted', faulted' \subseteq Requests
  PROVE  /\ TypeOK' /\ StepOf(r) /\ ShownToken(r)' /\ Rooted(r)'
         /\ Facts(r) /\ status[r] = 0 /\ pc'[r] = place /\ status'[r] = code
         /\ Op(r)' = Op(r) /\ Op(r) \in {"login", "refresh", "logout"}
         /\ call[r] \in Call /\ kind \in {"custom", "default"}
<1>1. Facts(r) /\ TypeOK
  BY DEF IInv, Requested
<1>2. status[r] = 0 /\ pc[r] \notin {"new", "answered"}
  BY <1>1 DEF Facts, Course, TypeOK, Running, AtDatabase, AtAudit
<1>3. TypeOK'
  BY <1>1 DEF TypeOK, Moves, RowsKept
<1>4. StepOf(r)
  BY <1>2 DEF StepOf, Moves
<1>5. ShownToken(r)'
  BY <1>1, <1>2 DEF Facts, ShownToken, Op, Moves
<1>6. Rooted(r)'
  BY <1>1, <1>2 DEF Facts, Rooted, Op, Moves, TypeOK
<1>7. Op(r)' = Op(r) /\ Op(r) \in {"login", "refresh", "logout"} /\ call[r] \in Call
      /\ kind \in {"custom", "default"}
  BY <1>1 DEF Op, TypeOK, Call
<1> QED
  BY <1>1, <1>2, <1>3, <1>4, <1>5, <1>6, <1>7 DEF Moves

(* The same of a step that neither writes the ledger nor the audit trail.  *)
LEMMA QuietStep ==
  ASSUME IInv, NEW r \in Requests, pc[r] \in Running,
         NEW place \in Places, NEW code \in {0, 200, 400, 401, 500}, Moves(r, place, code),
         UNCHANGED <<kind, accounts, ledger, call, shown, trail, family, tooLate>>,
         raced' \subseteq Requests, faulted \subseteq faulted', faulted' \subseteq Requests
  PROVE  /\ TypeOK' /\ StepOf(r) /\ ShownToken(r)' /\ Rooted(r)'
         /\ Facts(r) /\ status[r] = 0 /\ pc'[r] = place /\ status'[r] = code
         /\ Op(r)' = Op(r) /\ Op(r) \in {"login", "refresh", "logout"}
         /\ call[r] \in Call /\ kind \in {"custom", "default"}
         /\ \A q : (HasRow(q)' <=> HasRow(q)) /\ (Live(q)' <=> Live(q))
<1>1. TypeOK
  BY DEF IInv
<1>2. RowsKept /\ trail' \in [Requests -> AuditActions \cup {NoAudit}]
  BY <1>1, SameRows DEF TypeOK
<1>3. \A q : (HasRow(q)' <=> HasRow(q)) /\ (Live(q)' <=> Live(q))
  BY DEF HasRow, Live
<1> QED
  BY <1>2, <1>3, RunningStep

(* The account of a login is looked up.                                    *)
LEMMA FindEmailStep ==
  ASSUME IInv, NEW r \in Requests, FindEmail(r)
  PROVE  TypeOK' /\ StepOf(r) /\ Facts(r)'
<1>1. /\ pc[r] = "find_email" /\ pc[r] \in Running /\ TypeOK /\ Facts(r)
      /\ UNCHANGED <<kind, accounts, ledger, call, shown, trail, family, raced, tooLate, faulted>>
      /\ raced' \subseteq Requests /\ faulted \subseteq faulted' /\ faulted' \subseteq Requests
  BY DEF FindEmail, IInv, Requested, TypeOK, Running, AtDatabase
<1>2. PICK place \in {"verify", "answered"}, code \in {0, 401} :
        /\ Moves(r, place, code) /\ (code # 0 => place = "answered")
        /\ place = "verify" => AccountOf(call[r].email) = "active"
  <2>1. CASE AccountOf(call[r].email) = "active"
    BY <1>1, <2>1, GotoMoves DEF FindEmail, Places, Running, Facts, Course
  <2>2. CASE AccountOf(call[r].email) # "active"
    BY <1>1, <2>2, AnswerMoves DEF FindEmail
  <2> QED
    BY <2>1, <2>2
<1>3. /\ TypeOK' /\ StepOf(r) /\ ShownToken(r)' /\ Rooted(r)'
      /\ status[r] = 0 /\ pc'[r] = place /\ status'[r] = code
      /\ Op(r)' = Op(r) /\ call[r] \in Call
      /\ \A q : (HasRow(q)' <=> HasRow(q)) /\ (Live(q)' <=> Live(q))
  BY <1>1, <1>2, QuietStep DEF Places, Running
<1>4. Op(r) = "login" /\ ~HasRow(r) /\ ~Incomplete(call[r])
  BY <1>1 DEF Facts, Course, OwnRow
<1>5. Course(r)' /\ OwnRow(r)' /\ ShownRow(r)'
  BY <1>1, <1>2, <1>3, <1>4 DEF Course, OwnRow, ShownRow, Incomplete
<1>6. LateCourse(r)'
  BY <1>1, <1>2, <1>3, <1>4 DEF Facts, LateCourse, AccountOf, Incomplete
<1>7. Audited(r)'
  BY <1>1, <1>2, <1>3, <1>4 DEF Facts, Audited
<1> QED
  BY <1>3, <1>5, <1>6, <1>7 DEF Facts

(* The password of a login is checked.                                     *)
LEMMA VerifyStep ==
  ASSUME IInv, NEW r \in Requests, Verify(r)
  PROVE  TypeOK' /\ StepOf(r) /\ Facts(r)'
<1>1. /\ pc[r] = "verify" /\ pc[r] \in Running /\ TypeOK /\ Facts(r)
      /\ UNCHANGED <<kind, accounts, ledger, call, shown, trail, family, raced, tooLate, faulted>>
      /\ raced' \subseteq Requests /\ faulted \subseteq faulted' /\ faulted' \subseteq Requests
  BY DEF Verify, IInv, Requested, TypeOK, Running
<1>2. PICK place \in {"store", "audit_bad"} : Moves(r, place, 0)
  BY <1>1, GotoMoves DEF Verify, Places, Running, AtDatabase, AtAudit, Facts, Course
<1>3. /\ TypeOK' /\ StepOf(r) /\ ShownToken(r)' /\ Rooted(r)'
      /\ status[r] = 0 /\ pc'[r] = place /\ status'[r] = 0
      /\ Op(r)' = Op(r) /\ call[r] \in Call
      /\ \A q : (HasRow(q)' <=> HasRow(q)) /\ (Live(q)' <=> Live(q))
  BY <1>1, <1>2, QuietStep DEF Places, Running, AtDatabase, AtAudit
<1>4. Op(r) = "login" /\ ~HasRow(r) /\ ~Incomplete(call[r]) /\ r \notin tooLate
  BY <1>1 DEF Facts, Course, OwnRow, LateCourse
<1>5. Course(r)' /\ OwnRow(r)' /\ ShownRow(r)' /\ LateCourse(r)'
  BY <1>1, <1>2, <1>3, <1>4 DEF Course, OwnRow, ShownRow, Incomplete, LateCourse
<1>6. Audited(r)'
  BY <1>1, <1>2, <1>3, <1>4 DEF Facts, Audited
<1> QED
  BY <1>3, <1>5, <1>6 DEF Facts

(* The row of the token shown is read and judged.                          *)
LEMMA FindTokenStep ==
  ASSUME IInv, NEW r \in Requests, FindToken(r)
  PROVE  TypeOK' /\ StepOf(r) /\ Facts(r)'
<1>1. /\ pc[r] = "find_token" /\ pc[r] \in Running /\ TypeOK /\ Facts(r)
      /\ UNCHANGED <<kind, accounts, ledger, call, shown, trail, family, tooLate, faulted>>
      /\ raced' \subseteq Requests /\ faulted \subseteq faulted' /\ faulted' \subseteq Requests
      /\ status[r] = 0 /\ Op(r) \in {"refresh", "logout"}
  BY FindTokenEffect DEF IInv, Requested, TypeOK, Running, AtDatabase, Facts, Course
<1>2. PICK place \in {"answered", "revoke", "audit_replay", "revoke_expired", "find_user"},
           code \in {0, 200, 401} :
        /\ Moves(r, place, code)
        /\ place = "answered" => kind = "custom" /\ ~HasRow(shown[r])
        /\ place # "answered" /\ kind = "custom" => HasRow(shown[r])
        /\ code # 0 => place = "answered"
        /\ code = 200 => Op(r) = "logout"
        /\ place = "revoke" => Op(r) = "logout"
        /\ place \in {"audit_replay", "revoke_expired", "find_user"} => Op(r) = "refresh"
        /\ place = "audit_replay" => ledger[shown[r]].revoked
        /\ place = "revoke_expired" => ledger[shown[r]].expired
        /\ place = "find_user" /\ kind = "custom" =>
             ~ledger[shown[r]].revoked /\ ~ledger[shown[r]].expired
  BY <1>1, FindTokenEffect DEF IInv
<1>3. /\ TypeOK' /\ StepOf(r) /\ ShownToken(r)' /\ Rooted(r)'
      /\ pc'[r] = place /\ status'[r] = code /\ Op(r)' = Op(r) /\ call[r] \in Call
      /\ \A q : (HasRow(q)' <=> HasRow(q)) /\ (Live(q)' <=> Live(q))
  BY <1>1, <1>2, QuietStep DEF Places, Running, AtDatabase, AtAudit
<1>4. ~HasRow(r)
  BY <1>1 DEF Facts, OwnRow
<1>5. Course(r)' /\ OwnRow(r)'
  BY <1>1, <1>2, <1>3, <1>4 DEF Course, OwnRow
<1>6. HasRow(shown[r])' <=> HasRow(shown[r])
  BY <1>1 DEF HasRow
<1>7. ShownRow(r)'
  BY <1>1, <1>2, <1>3, <1>6 DEF ShownRow
<1>8. LateCourse(r)'
  BY <1>1, <1>2, <1>3, <1>4, <1>6 DEF Facts, LateCourse
<1>9. Audited(r)'
  BY <1>1, <1>2, <1>3, <1>4, <1>6 DEF Facts, Audited, Live
<1> QED
  BY <1>3, <1>5, <1>7, <1>8, <1>9 DEF Facts

(* The account of a refresh is looked up.                                  *)
LEMMA FindUserStep ==
  ASSUME IInv, NEW r \in Requests, FindUser(r)
  PROVE  TypeOK' /\ StepOf(r) /\ Facts(r)'
<1>1. /\ pc[r] = "find_user" /\ pc[r] \in Running /\ TypeOK /\ Facts(r)
      /\ UNCHANGED <<kind, accounts, ledger, call, shown, trail, family, raced, tooLate, faulted>>
      /\ raced' \subseteq Requests /\ faulted \subseteq faulted' /\ faulted' \subseteq Requests
      /\ status[r] = 0 /\ Op(r) = "refresh" /\ ~HasRow(r)
  BY DEF FindUser, IInv, Requested, TypeOK, Running, AtDatabase, Facts, Course, OwnRow
<1>2. PICK place \in {"revoke", "answered"}, code \in {0, 401} :
        /\ Moves(r, place, code) /\ (code # 0 => place = "answered")
        /\ place = "revoke" => kind = "default" \/ accounts[ledger[shown[r]].user] = "active"
  <2>1. CASE kind = "default" \/ AccountOf(OwnerOf(r)) = "active"
    <3>1. Moves(r, "revoke", 0)
      BY <1>1, <2>1, GotoMoves DEF FindUser, AfterFindUser, Places, Running, AtDatabase
    <3> QED
      BY <1>1, <2>1, <3>1 DEF AccountOf, OwnerOf
  <2>2. CASE ~(kind = "default" \/ AccountOf(OwnerOf(r)) = "active")
    BY <1>1, <2>2, AnswerMoves DEF FindUser
  <2> QED
    BY <2>1, <2>2
<1>3. /\ TypeOK' /\ StepOf(r) /\ ShownToken(r)' /\ Rooted(r)'
      /\ pc'[r] = place /\ status'[r] = code /\ Op(r)' = Op(r) /\ call[r] \in Call
      /\ \A q : (HasRow(q)' <=> HasRow(q)) /\ (Live(q)' <=> Live(q))
  BY <1>1, <1>2, QuietStep DEF Places, Running, AtDatabase, AtAudit
<1>4. HasRow(shown[r])' <=> HasRow(shown[r])
  BY <1>1 DEF HasRow
<1>5. Course(r)' /\ OwnRow(r)' /\ ShownRow(r)'
  BY <1>1, <1>2, <1>3, <1>4 DEF Facts, Course, OwnRow, ShownRow
<1>6. LateCourse(r)'
  BY <1>1, <1>2, <1>3, <1>4 DEF Facts, LateCourse
<1>7. Audited(r)'
  BY <1>1, <1>2, <1>3, <1>4 DEF Facts, Audited, Live
<1> QED
  BY <1>3, <1>5, <1>6, <1>7 DEF Facts

(* What revoking the token shown does, by a request that is past its check *)
(* of it: in a default repository nothing.                                 *)
LEMMA RevokeShownEffect ==
  ASSUME IInv, NEW r \in Requests, RevokeRow(shown[r]), ~HasRow(r)
  PROVE  /\ RowsKept /\ (kind = "custom" \/ UNCHANGED ledger)
         /\ \A q \in Requests : ledger[q] = NoRow => ledger'[q] = NoRow
         /\ \A q \in Requests : q # shown[r] => ledger'[q] = ledger[q]
         /\ HasRow(shown[r]) => ledger'[shown[r]].revoked
<1>1. TypeOK /\ (HasRow(shown[r]) => kind = "custom")
  BY DEF IInv, Requested, Facts, OwnRow, HasRow
<1>2. /\ RowsKept
      /\ \A q \in Requests : q # shown[r] => ledger'[q] = ledger[q]
      /\ HasRow(shown[r]) => ledger'[shown[r]].revoked
      /\ \A q \in Requests : ledger[q] = NoRow => ledger'[q] = NoRow
  BY <1>1, RevokeRowEffect
<1>3. kind = "custom" \/ UNCHANGED ledger
  BY <1>1 DEF RevokeRow
<1> QED
  BY <1>2, <1>3

(* The token shown is revoked.                                             *)
LEMMA RevokeStep ==
  ASSUME IInv, NEW r \in Requests, Revoke(r)
  PROVE  TypeOK' /\ StepOf(r) /\ Facts(r)'
<1>1. /\ pc[r] \in {"revoke", "revoke_expired", "revoke_replay"} /\ pc[r] \in Running
      /\ TypeOK /\ Facts(r) /\ status[r] = 0 /\ ~HasRow(r)
      /\ UNCHANGED <<kind, accounts, call, shown, trail, family, raced, tooLate, faulted>>
      /\ raced' \subseteq Requests /\ faulted \subseteq faulted' /\ faulted' \subseteq Requests
      /\ trail' \in [Requests -> AuditActions \cup {NoAudit}]
      /\ RevokeRow(shown[r])
  BY DEF Revoke, IInv, Requested, TypeOK, Running, AtDatabase, Facts, Course, OwnRow
<1>2. PICK place \in {"store", "audit", "answered"}, code \in {0, 401} :
        /\ Moves(r, place, code) /\ (code # 0 => place = "answered")
        /\ place = "store" => Op(r) = "refresh" /\ pc[r] = "revoke"
        /\ place = "audit" => Op(r) # "refresh" /\ pc[r] = "revoke"
        /\ place = "answered" => pc[r] # "revoke"
  <2>1. CASE pc[r] = "revoke" /\ Op(r) = "refresh"
    BY <1>1, <2>1, GotoMoves DEF Revoke, AfterRevoke, Places, Running, AtDatabase
  <2>2. CASE pc[r] = "revoke" /\ Op(r) # "refresh"
    BY <1>1, <2>2, GotoMoves DEF Revoke, AfterRevoke, Places, Running, AtAudit
  <2>3. CASE pc[r] # "revoke"
    BY <1>1, <2>3, AnswerMoves DEF Revoke
  <2> QED
    BY <2>1, <2>2, <2>3
<1>3. /\ RowsKept /\ (kind = "custom" \/ UNCHANGED ledger)
      /\ \A q \in Requests : ledger[q] = NoRow => ledger'[q] = NoRow
      /\ HasRow(shown[r]) => ledger'[shown[r]].revoked
  BY <1>1, RevokeShownEffect
<1>4. /\ TypeOK' /\ StepOf(r) /\ ShownToken(r)' /\ Rooted(r)'
      /\ pc'[r] = place /\ status'[r] = code /\ Op(r)' = Op(r) /\ call[r] \in Call
      /\ Op(r) \in {"login", "refresh", "logout"}
  BY <1>1, <1>2, <1>3, RunningStep DEF Places, Running, AtDatabase, AtAudit
<1>5. ~HasRow(r)' /\ (HasRow(shown[r]) => HasRow(shown[r])')
  BY <1>1, <1>3 DEF HasRow, RowsKept
<1>6. HasRow(shown[r]) => ledger'[shown[r]].user = ledger[shown[r]].user
  BY <1>3 DEF HasRow, RowsKept
<1>7. Course(r)' /\ OwnRow(r)' /\ ShownRow(r)'
  BY <1>1, <1>2, <1>3, <1>4, <1>5 DEF Facts, Course, OwnRow, ShownRow
<1>8. LateCourse(r)'
  BY <1>1, <1>2, <1>3, <1>4, <1>5, <1>6 DEF Facts, Course, LateCourse
<1>9. HasRow(shown[r])' => HasRow(shown[r])
  BY <1>1, <1>3 DEF HasRow
<1>10. Audited(r)'
  BY <1>1, <1>2, <1>3, <1>4, <1>5, <1>9 DEF Facts, Audited, Live
<1> QED
  BY <1>4, <1>7, <1>8, <1>10 DEF Facts

(* What storing the new token does: in a persisting repository it adds a   *)
(* live row, and only that.                                                *)
LEMMA StoreEffect ==
  ASSUME IInv, NEW r \in Requests, pc[r] = "store", CreateRow(r)
  PROVE  /\ RowsKept /\ (kind = "custom" \/ UNCHANGED ledger)
         /\ ledger[r] = NoRow
         /\ \A q \in Requests \ {r} : ledger'[q] = ledger[q]
         /\ kind = "custom" => ledger'[r] # NoRow /\ ~ledger'[r].revoked
<1>1. TypeOK /\ Facts(r) /\ ledger[r] = NoRow
  BY DEF IInv, Requested, Facts, OwnRow, HasRow
<1>2. kind = "custom" => OwnerOf(r) \in Users
  <2>1. ASSUME Op(r) = "login"
        PROVE  call[r].email \in Users
    <3>1. ~Incomplete(call[r]) /\ call[r] \in Call
      BY <1>1, <2>1 DEF Facts, Course, Running, AtDatabase, TypeOK
    <3> QED
      BY <3>1 DEF Incomplete, Call
  <2>2. ASSUME kind = "custom", Op(r) # "login"
        PROVE  ledger[shown[r]].user \in Users
    <3>1. HasRow(shown[r])
      BY <1>1, <2>2 DEF Facts, ShownRow
    <3>2. ledger[shown[r]] \in Row
      BY <1>1, <3>1 DEF HasRow, TypeOK
    <3> QED
      BY <3>2 DEF Row
  <2> QED
    BY <2>1, <2>2 DEF OwnerOf
<1> QED
  BY <1>1, <1>2, CreateRowEffect

(* The new token is stored.                                                *)
LEMMA StoreStep ==
  ASSUME IInv, NEW r \in Requests, Store(r)
  PROVE  TypeOK' /\ StepOf(r) /\ Facts(r)'
<1>1. /\ pc[r] = "store" /\ pc[r] \in Running
      /\ TypeOK /\ Facts(r) /\ status[r] = 0 /\ Op(r) \in {"login", "refresh"}
      /\ UNCHANGED <<kind, accounts, call, shown, trail, family, raced, tooLate, faulted>>
      /\ raced' \subseteq Requests /\ faulted \subseteq faulted' /\ faulted' \subseteq Requests
      /\ trail' \in [Requests -> AuditActions \cup {NoAudit}]
      /\ CreateRow(r) /\ Goto(r, "audit")
  BY DEF Store, AfterStore, IInv, Requested, TypeOK, Running, AtDatabase, Facts, Course
<1>2. Moves(r, "audit", 0)
  BY <1>1, GotoMoves DEF Places, Running, AtAudit
<1>3. /\ RowsKept /\ (kind = "custom" \/ UNCHANGED ledger) /\ ledger[r] = NoRow
      /\ \A q \in Requests \ {r} : ledger'[q] = ledger[q]
      /\ kind = "custom" => ledger'[r] # NoRow /\ ~ledger'[r].revoked
  BY <1>1, StoreEffect
<1>4. /\ TypeOK' /\ StepOf(r) /\ ShownToken(r)' /\ Rooted(r)'
      /\ pc'[r] = "audit" /\ status'[r] = 0 /\ Op(r)' = Op(r) /\ call[r] \in Call
      /\ kind \in {"custom", "default"}
  BY <1>1, <1>2, <1>3, RunningStep DEF Places, Running, AtAudit
<1>5. (kind = "custom" => HasRow(r)') /\ (kind = "default" => ~HasRow(r)')
  BY <1>3, <1>4 DEF HasRow
<1>6. shown[r] # r
  BY <1>1 DEF Facts, ShownToken
<1>7. Course(r)'
  BY <1>1, <1>4 DEF Facts, Course, Incomplete, Running, AtDatabase
<1>8. OwnRow(r)'
  BY <1>1, <1>4, <1>5 DEF OwnRow
<1>9. ShownRow(r)' /\ LateCourse(r)' /\ Audited(r)'
  BY <1>1, <1>3, <1>4, <1>5, <1>6 DEF Facts, ShownRow, LateCourse, Audited, HasRow, Live
<1> QED
  BY <1>4, <1>7, <1>8, <1>9 DEF Facts

(* Where a request goes after its audit entry.                             *)
LEMMA AfterAuditEffect ==
  ASSUME IInv, NEW r \in Requests, AfterAudit(r)
  PROVE  /\ TypeOK /\ Facts(r) /\ status[r] = 0 /\ pc[r] \in AtAudit /\ pc[r] \in Running
         /\ \E place \in {"answered", "revoke_replay"}, code \in {0, 200, 401} :
              /\ Moves(r, place, code)
              /\ place = "revoke_replay" <=> pc[r] = "audit_replay"
              /\ place = "revoke_replay" => code = 0
              /\ code = 200 <=> pc[r] = "audit"
<1>1. /\ TypeOK /\ Facts(r) /\ pc[r] \in AtAudit /\ pc[r] \in Running
      /\ status[r] = 0
  BY DEF AfterAudit, IInv, Requested, AtAudit, Running, Facts, Course
<1>2. CASE pc[r] = "audit"
  BY <1>1, <1>2, AnswerMoves DEF AfterAudit
<1>3. CASE pc[r] = "audit_bad"
  BY <1>1, <1>3, AnswerMoves DEF AfterAudit
<1>4. CASE pc[r] = "audit_replay"
  BY <1>1, <1>4, GotoMoves DEF AfterAudit, Places, Running, AtDatabase
<1> QED
  BY <1>1, <1>2, <1>3, <1>4 DEF AtAudit

(* The audit entry is written, or its failure swallowed.                   *)
LEMMA AuditStep ==
  ASSUME IInv, NEW r \in Requests, Audit(r) \/ AuditError(r)
  PROVE  TypeOK' /\ StepOf(r) /\ Facts(r)'
<1>1. /\ TypeOK /\ Facts(r) /\ status[r] = 0 /\ pc[r] \in AtAudit /\ pc[r] \in Running
      /\ AfterAudit(r)
      /\ UNCHANGED <<kind, accounts, ledger, call, shown, family, raced, tooLate>>
  BY AfterAuditEffect DEF Audit, AuditError
<1>2. PICK place \in {"answered", "revoke_replay"}, code \in {0, 200, 401} :
        /\ Moves(r, place, code)
        /\ place = "revoke_replay" <=> pc[r] = "audit_replay"
        /\ place = "revoke_replay" => code = 0
        /\ code = 200 <=> pc[r] = "audit"
  BY <1>1, AfterAuditEffect
<1>3. Op(r) \in {"login", "refresh", "logout"}
  BY <1>1 DEF TypeOK, Call, Op
<1>4. /\ \/ trail'[r] = trail[r] /\ r \in faulted'
         \/ trail'[r] = ActionOf(r)
      /\ \A q \in Requests \ {r} : trail'[q] = trail[q]
      /\ faulted \subseteq faulted' /\ faulted' \subseteq Requests /\ raced' \subseteq Requests
  BY <1>1 DEF Audit, AuditError, TypeOK
<1>5. /\ pc[r] = "audit_bad" => ActionOf(r) = "USER_LOGIN_FAILURE_BAD_CREDENTIAL"
      /\ pc[r] = "audit_replay" => ActionOf(r) = "SECURITY_REPLAY_ATTACK_DETECTED"
      /\ pc[r] = "audit" =>
           /\ Op(r) = "login" => ActionOf(r) = "USER_LOGIN_SUCCESS"
           /\ Op(r) = "refresh" => ActionOf(r) = "TOKEN_ROTATION_SUCCESS"
           /\ Op(r) = "logout" => ActionOf(r) = "USER_LOGOUT_SUCCESS"
  BY DEF ActionOf
<1>6. ActionOf(r) \in AuditActions
  BY <1>1, <1>3, <1>5 DEF AuditActions, AtAudit
<1>7. trail' \in [Requests -> AuditActions \cup {NoAudit}]
  BY <1>1, <1>6 DEF Audit, AuditError, TypeOK
<1>8. RowsKept
  BY <1>1, SameRows
<1>9. /\ TypeOK' /\ StepOf(r) /\ ShownToken(r)' /\ Rooted(r)'
      /\ pc'[r] = place /\ status'[r] = code /\ Op(r)' = Op(r) /\ call[r] \in Call
  BY <1>1, <1>2, <1>4, <1>7, <1>8, RunningStep DEF Places, Running, AtDatabase
<1>10. \A q : (HasRow(q)' <=> HasRow(q)) /\ (Live(q)' <=> Live(q))
  BY <1>1 DEF HasRow, Live
<1>11. (HasRow(shown[r])' <=> HasRow(shown[r])) /\ (Live(shown[r])' <=> Live(shown[r]))
  BY <1>1 DEF HasRow, Live
<1>12. Course(r)'
  BY <1>1, <1>2, <1>3, <1>9 DEF Facts, Course, AtAudit
<1>13. OwnRow(r)' /\ ShownRow(r)' /\ LateCourse(r)'
  BY <1>1, <1>2, <1>4, <1>9, <1>10, <1>11 DEF Facts, Course, OwnRow, ShownRow, LateCourse, AtAudit
<1>14. Audited(r)'
  <2>1. CASE trail'[r] = trail[r] /\ r \in faulted'
    BY <1>1, <1>10, <1>11, <2>1 DEF Facts, Audited
  <2>2. CASE trail'[r] = ActionOf(r)
    <3>1. kind = "custom" /\ pc[r] = "audit" /\ Op(r) # "logout" => HasRow(r)
      BY <1>1 DEF Facts, OwnRow
    <3>2. kind = "custom" /\ pc[r] \in {"audit", "audit_replay"} /\ Op(r) # "login" =>
            HasRow(shown[r]) /\ ~Live(shown[r])
      BY <1>1 DEF Facts, ShownRow, Live
    <3>3. pc[r] = "audit_replay" => Op(r) = "refresh"
      BY <1>1 DEF Facts, Course
    <3>4. pc[r] \in {"audit", "audit_bad", "audit_replay"}
      BY <1>1 DEF AtAudit
    <3>5. trail'[r] # NoAudit
      BY <1>3, <1>5, <2>2, <3>4 DEF NoAudit
    <3> QED
      BY <1>1, <1>3, <1>5, <1>10, <1>11, <2>2, <3>1, <3>2, <3>3, <3>4, <3>5 DEF Audited
  <2> QED
    BY <1>4, <2>1, <2>2
<1> QED
  BY <1>9, <1>12, <1>13, <1>14 DEF Facts

(* A query fails, its write done or not.                                   *)
LEMMA DatabaseErrorStep ==
  ASSUME IInv, NEW r \in Requests, DatabaseError(r)
  PROVE  TypeOK' /\ StepOf(r) /\ Facts(r)'
<1>1. /\ pc[r] \in AtDatabase /\ pc[r] \in Running /\ kind = "custom"
      /\ TypeOK /\ Facts(r) /\ ~HasRow(r) /\ status[r] = 0
      /\ UNCHANGED <<kind, accounts, call, shown, trail, family, raced, tooLate>>
      /\ raced' \subseteq Requests /\ faulted \subseteq faulted' /\ faulted' \subseteq Requests
      /\ r \in faulted' /\ trail' \in [Requests -> AuditActions \cup {NoAudit}]
  BY DEF DatabaseError, IInv, Requested, TypeOK, AtDatabase, Running, Facts, Course, OwnRow
<1>2. PICK code \in {401, 500} : Moves(r, "answered", code)
  BY <1>1, AnswerMoves DEF DatabaseError
<1>3. /\ RowsKept
      /\ \A q \in Requests \ {r} : ledger[q] = NoRow => ledger'[q] = NoRow
      /\ pc[r] # "store" => ~HasRow(r)'
      /\ HasRow(shown[r])' => HasRow(shown[r])
  <2>1. CASE UNCHANGED ledger
    BY <1>1, <2>1, SameRows DEF HasRow
  <2>2. CASE pc[r] = "store" /\ CreateRow(r)
    <3>1. shown[r] # r
      BY <1>1 DEF Facts, ShownToken
    <3> QED
      BY <1>1, <2>2, <3>1, StoreEffect DEF HasRow
  <2>3. CASE RevokeRow(shown[r])
    BY <1>1, <2>3, RevokeShownEffect DEF HasRow
  <2> QED
    BY <2>1, <2>2, <2>3 DEF DatabaseError
<1>4. /\ TypeOK' /\ StepOf(r) /\ ShownToken(r)' /\ Rooted(r)'
      /\ pc'[r] = "answered" /\ status'[r] = code /\ Op(r)' = Op(r) /\ call[r] \in Call
      /\ Op(r) \in {"login", "refresh", "logout"}
  BY <1>1, <1>2, <1>3, RunningStep DEF Places
<1>5. \A t : HasRow(t) => /\ t \in Requests /\ ledger'[t] # NoRow
                          /\ ledger'[t].user = ledger[t].user
                          /\ ledger[t].revoked => ledger'[t].revoked
                          /\ ledger[t].expired => ledger'[t].expired
  BY <1>1, <1>3 DEF HasRow, RowsKept
<1>6. Course(r)' /\ ShownRow(r)'
  BY <1>1, <1>4 DEF Facts, Course, ShownRow
<1>7. OwnRow(r)'
  BY <1>1, <1>3, <1>4 DEF Facts, Course, OwnRow
<1>8. LateCourse(r)'
  <2>1. r \in tooLate => pc[r] # "store"
    BY <1>1, <1>4 DEF Facts, Course, LateCourse
  <2>2. r \in tooLate /\ Op(r) = "refresh" /\ accounts[ledger[shown[r]].user] = "active" =>
          ledger[shown[r]].revoked \/ ledger[shown[r]].expired
    BY <1>1 DEF Facts, LateCourse
  <2>3. /\ shown' = shown /\ tooLate' = tooLate /\ kind' = kind /\ call' = call
        /\ accounts' = accounts /\ status'[r] # 200 /\ kind = "custom"
    BY <1>1, <1>2, <1>4
  <2>4. r \in tooLate /\ Op(r) = "login" =>
          ~Incomplete(call[r]) /\ accounts[call[r].email] # "active"
    BY <1>1 DEF Facts, LateCourse
  <2>5. r \in tooLate /\ Op(r) = "refresh" =>
          /\ HasRow(shown[r])'
          /\ \/ accounts[ledger'[shown[r]].user] # "active"
             \/ ledger'[shown[r]].revoked \/ ledger'[shown[r]].expired
    <3>1. r \in tooLate /\ Op(r) = "refresh" => HasRow(shown[r])
      BY <1>1 DEF Facts, LateCourse
    <3> QED
      BY <1>1, <1>5, <2>2, <3>1 DEF HasRow
  <2> QED
    BY <1>3, <1>4, <2>1, <2>3, <2>4, <2>5 DEF LateCourse, Incomplete
<1>9. Audited(r)'
  <2>1. trail'[r] = trail[r] /\ kind' = kind /\ status'[r] # 200
    BY <1>1, <1>2, <1>4
  <2>2. HasRow(shown[r]) /\ ~Live(shown[r]) => HasRow(shown[r])' /\ ~Live(shown[r])'
    BY <1>1, <1>5 DEF Live, HasRow
  <2> QED
    BY <1>1, <2>1, <2>2 DEF Facts, Audited
<1> QED
  BY <1>4, <1>6, <1>7, <1>8, <1>9 DEF Facts

(* The process of a request dies.                                          *)
LEMMA CrashStep ==
  ASSUME IInv, NEW r \in Requests, Crash(r)
  PROVE  TypeOK' /\ StepOf(r) /\ Facts(r)'
<1>1. /\ pc[r] \in Running /\ TypeOK /\ Facts(r) /\ status[r] = 0
      /\ UNCHANGED <<kind, accounts, ledger, call, shown, trail, family, raced, tooLate>>
      /\ raced' \subseteq Requests /\ faulted \subseteq faulted' /\ faulted' \subseteq Requests
      /\ r \in faulted'
  BY DEF Crash, IInv, Requested, TypeOK, AtDatabase, AtAudit, Running, Facts, Course
<1>2. Moves(r, "lost", 0)
  BY <1>1, GotoMoves DEF Crash, Places
<1>3. /\ TypeOK' /\ StepOf(r) /\ ShownToken(r)' /\ Rooted(r)'
      /\ pc'[r] = "lost" /\ status'[r] = 0 /\ Op(r)' = Op(r) /\ call[r] \in Call
      /\ \A q : (HasRow(q)' <=> HasRow(q)) /\ (Live(q)' <=> Live(q))
  BY <1>1, <1>2, QuietStep DEF Places
<1>4. (HasRow(shown[r])' <=> HasRow(shown[r])) /\ (Live(shown[r])' <=> Live(shown[r]))
  BY <1>1 DEF HasRow, Live
<1>5. Course(r)' /\ ShownRow(r)' /\ OwnRow(r)'
  BY <1>1, <1>3 DEF Facts, Course, ShownRow, OwnRow, Running, AtAudit, AtDatabase
<1>6. LateCourse(r)' /\ Audited(r)'
  BY <1>1, <1>3, <1>4 DEF Facts, LateCourse, Audited, Incomplete
<1> QED
  BY <1>3, <1>5, <1>6 DEF Facts

(* An account is deactivated, or a token expires: no request moves.        *)
LEMMA WorldStep ==
  ASSUME IInv, (\E u \in Users : Deactivate(u)) \/ (\E t \in Requests : TokenExpires(t))
  PROVE  TypeOK' /\ StepOf(Unset) /\ Requested'
<1>1. TypeOK
  BY DEF IInv
<1>2. UNCHANGED <<kind, pc, call, shown, status, trail, family, raced, tooLate, faulted>>
  BY DEF Deactivate, TokenExpires
<1>3. /\ RowsKept /\ (kind = "custom" \/ UNCHANGED ledger)
      /\ \A q \in Requests : ledger[q] = NoRow => ledger'[q] = NoRow
      /\ accounts' \in [Users -> AccountStates]
      /\ \A u \in Users : accounts[u] # "active" => accounts'[u] # "active"
  <2>1. CASE \E u \in Users : Deactivate(u)
    <3>1. PICK u \in Users : Deactivate(u)
      BY <2>1
    <3> QED
      BY <1>1, <3>1, SameRows DEF Deactivate, TypeOK, AccountStates
  <2>2. CASE \E t \in Requests : TokenExpires(t)
    <3>1. PICK t \in Requests : TokenExpires(t)
      BY <2>2
    <3>2. /\ RowsKept /\ ledger[t] # NoRow
          /\ \A q \in Requests : q # t => ledger'[q] = ledger[q]
      BY <1>1, <3>1, TokenExpiresEffect
    <3>3. kind = "custom"
      BY <3>2 DEF IInv, Requested, Facts, OwnRow, HasRow
    <3> QED
      BY <1>1, <3>1, <3>2, <3>3 DEF TokenExpires, TypeOK
  <2> QED
    BY <2>1, <2>2
<1>4. TypeOK'
  BY <1>1, <1>2, <1>3 DEF TypeOK, RowsKept
<1>5. StepOf(Unset)
  BY <1>2, <1>3 DEF StepOf
<1>6. Requested'
  BY <1>5, OthersKept, NoValuesAssumption DEF Requested
<1> QED
  BY <1>4, <1>5, <1>6

(* The types and the facts of each request are inductive.                  *)
LEMMA RequestedKept ==
  ASSUME IInv, [Next]_vars
  PROVE  TypeOK' /\ Requested'
<1>1. ASSUME NEW r \in Requests, TypeOK', StepOf(r), Facts(r)'
      PROVE  TypeOK' /\ Requested'
  <2>1. \A q \in Requests : q # r => Facts(q)'
    BY <1>1, OthersKept
  <2> QED
    BY <1>1, <2>1 DEF Requested
<1>2. ASSUME NEW r \in Requests, StartLogin(r)
      PROVE  TypeOK' /\ Requested'
  BY <1>1, <1>2, StartLoginStep
<1>3. ASSUME NEW r \in Requests, StartWithToken(r)
      PROVE  TypeOK' /\ Requested'
  BY <1>1, <1>3, StartWithTokenStep
<1>4. ASSUME NEW r \in Requests, Step(r)
      PROVE  TypeOK' /\ Requested'
  BY <1>1, <1>4, FindEmailStep, VerifyStep, FindTokenStep, FindUserStep, RevokeStep,
     StoreStep, AuditStep DEF Step
<1>5. ASSUME NEW r \in Requests, DatabaseError(r) \/ AuditError(r) \/ Crash(r)
      PROVE  TypeOK' /\ Requested'
  BY <1>1, <1>5, DatabaseErrorStep, AuditStep, CrashStep
<1>6. CASE (\E u \in Users : Deactivate(u)) \/ (\E t \in Requests : TokenExpires(t))
  BY <1>6, WorldStep
<1>7. CASE UNCHANGED vars
  BY <1>7 DEF IInv, vars, TypeOK, Requested, Facts, Course, OwnRow, ShownToken, Rooted,
     ShownRow, LateCourse, Audited, HasRow, Live, Op, Incomplete
<1> QED
  BY <1>2, <1>3, <1>4, <1>5, <1>6, <1>7 DEF Next, Done

(***************************************************************************)
(* A session that is lost has a cause                                      *)
(***************************************************************************)
Cause(q) ==
  \/ Op(q) = "logout" /\ pc[q] \in {"audit", "answered"}
  \/ Op(q) = "refresh" /\ pc[q] = "store"
  \/ Op(q) # "login" /\ (pc[q] = "lost" \/ status[q] = 500)
  \/ HasRow(q) /\ ledger[q].expired

(* The cause of a loss outlasts a step that takes no live token without    *)
(* being a cause itself.                                                   *)
LEMMA CauseKept ==
  ASSUME IInv, NEW r, StepOf(r),
         \A t \in Requests : Live(t) =>
           Live(t)' \/ \E q \in Requests : family'[q] = family[t] /\ Cause(q)',
         \A t \in Requests : HasRow(t)' /\ ~HasRow(t) => Live(t)',
         r \in Requests /\ Cause(r) => Cause(r)' \/ Live(r)'
  PROVE  LostSessionHasCause'
<1> SUFFICES ASSUME NEW f \in Requests, family'[f] = f, HasRow(f)',
                    \A t \in Requests : family'[t] = f => ~Live(t)'
             PROVE  \E q \in Requests : family'[q] = f /\ Cause(q)'
  BY DEF LostSessionHasCause, LiveTokens, Cause
<1>1. \A t \in Requests : HasRow(t) \/ Cause(t) => family'[t] = family[t]
  <2> SUFFICES ASSUME NEW t \in Requests, HasRow(t) \/ Cause(t)
               PROVE  family'[t] = family[t]
    OBVIOUS
  <2>1. Facts(t)
    BY DEF IInv, Requested
  <2>2. pc[t] # "new"
    BY <2>1 DEF Facts, Course, OwnRow, Cause
  <2> QED
    BY <2>2 DEF StepOf
<1>2. HasRow(f) /\ family[f] = f
  BY <1>1
<1>3. CASE \E t \in Requests : family[t] = f /\ Live(t)
  <2>1. PICK t \in Requests : family[t] = f /\ Live(t)
    BY <1>3
  <2>2. family'[t] = f
    BY <1>1, <2>1 DEF Live
  <2> QED
    BY <2>1, <2>2
<1>4. CASE \A t \in Requests : family[t] = f => ~Live(t)
  <2>1. PICK q \in Requests : family[q] = f /\ Cause(q)
    BY <1>2, <1>4 DEF IInv, LostSessionHasCause, LiveTokens, Cause
  <2>2. family'[q] = f
    BY <1>1, <2>1
  <2>3. CASE q = r
    BY <2>1, <2>2, <2>3
  <2>4. CASE q # r
    <3>1. pc'[q] = pc[q] /\ status'[q] = status[q] /\ call' = call
      BY <2>4 DEF StepOf
    <3>2. HasRow(q) /\ ledger[q].expired => HasRow(q)' /\ ledger'[q].expired
      BY DEF StepOf, RowsKept, HasRow
    <3>3. Cause(q)'
      BY <2>1, <3>1, <3>2 DEF Cause, Op
    <3> QED
      BY <2>2, <3>3
  <2> QED
    BY <2>3, <2>4
<1> QED
  BY <1>3, <1>4

(* Requests before their check and the writes that follow cause nothing.   *)
LEMMA NoCauseYet ==
  ASSUME IInv, NEW r \in Requests, pc[r] \in Running \cup {"new"}, pc[r] # "audit"
  PROVE  ~HasRow(r) /\ (Cause(r) => pc[r] = "store" /\ Op(r) = "refresh")
<1>1. Facts(r)
  BY DEF IInv, Requested
<1>2. ~HasRow(r) /\ status[r] = 0
  BY <1>1 DEF Facts, Course, OwnRow, Running, AtDatabase, AtAudit
<1> QED
  BY <1>2 DEF Cause, Running, AtDatabase, AtAudit

(* A step that writes nothing keeps the causes.                            *)
LEMMA LostUnwritten ==
  ASSUME IInv, NEW r \in Requests, StepOf(r), UNCHANGED ledger,
         Cause(r) => Cause(r)'
  PROVE  LostSessionHasCause'
<1>1. \A t \in Requests : (Live(t) => Live(t)') /\ (HasRow(t)' => HasRow(t))
  BY DEF Live, HasRow
<1> QED
  BY <1>1, CauseKept

(* A step that revokes the token shown is a cause of the loss.             *)
LEMMA LostRevoking ==
  ASSUME IInv, NEW r \in Requests, StepOf(r), RevokeRow(shown[r]),
         pc[r] \in {"revoke", "revoke_expired", "revoke_replay"},
         family' = family,
         Cause(r)' \/ pc[r] \in {"revoke_expired", "revoke_replay"}
  PROVE  LostSessionHasCause'
<1>1. Facts(r) /\ ~HasRow(r) /\ ~Cause(r)
  BY NoCauseYet DEF IInv, Requested, Running, AtDatabase
<1>2. /\ \A q \in Requests : ledger[q] = NoRow => ledger'[q] = NoRow
      /\ \A q \in Requests : q # shown[r] => ledger'[q] = ledger[q]
      /\ RowsKept
  BY <1>1, RevokeShownEffect
<1>3. \A t \in Requests : HasRow(t)' => HasRow(t)
  BY <1>2 DEF HasRow
<1>4. ASSUME NEW t \in Requests, Live(t), ~Live(t)'
      PROVE  \E q \in Requests : family'[q] = family[t] /\ Cause(q)'
  <2>1. t = shown[r] /\ HasRow(t) /\ kind = "custom"
    <3>1. t = shown[r]
      BY <1>2, <1>4 DEF Live, HasRow
    <3>2. Facts(t) /\ HasRow(t)
      BY <1>4 DEF IInv, Requested, Live
    <3> QED
      BY <3>1, <3>2 DEF Facts, OwnRow
  <2>2. family[r] = family[t]
    BY <1>1, <2>1 DEF Facts, ShownToken
  <2>3. Op(r) # "login"
    BY <1>1 DEF Facts, Course, Running, AtDatabase
  <2>4. CASE Cause(r)'
    BY <2>2, <2>4
  <2>5. CASE pc[r] = "revoke_expired"
    <3>1. ledger[t].expired
      BY <1>1, <2>1, <2>3, <2>5 DEF Facts, ShownRow
    <3>2. Cause(t)'
      BY <1>2, <2>1, <3>1 DEF Cause, HasRow, RowsKept
    <3> QED
      BY <3>2
  <2>6. CASE pc[r] = "revoke_replay"
    BY <1>1, <1>4, <2>1, <2>3, <2>6 DEF Facts, ShownRow, Live
  <2> QED
    BY <2>4, <2>5, <2>6
<1> QED
  BY <1>1, <1>3, <1>4, CauseKept

(* A step that stores the new token of r leaves the session with it.       *)
LEMMA LostStoring ==
  ASSUME IInv, NEW r \in Requests, StepOf(r), pc[r] = "store", CreateRow(r)
  PROVE  LostSessionHasCause'
<1>1. /\ \A q \in Requests \ {r} : ledger'[q] = ledger[q]
      /\ kind = "custom" => ledger'[r] # NoRow /\ ~ledger'[r].revoked
      /\ kind = "custom" \/ UNCHANGED ledger
      /\ ledger[r] = NoRow
  BY StoreEffect
<1>2. CASE kind = "custom"
  <2>1. Live(r)'
    BY <1>1, <1>2 DEF Live, HasRow
  <2>2. \A t \in Requests : (Live(t) => Live(t)') /\ (HasRow(t)' /\ ~HasRow(t) => Live(t)')
    BY <1>1, <2>1 DEF Live, HasRow
  <2> QED
    BY <2>1, <2>2, CauseKept
<1>3. CASE kind # "custom"
  <2>1. \A f \in Requests : ~HasRow(f)'
    BY <1>1, <1>3 DEF IInv, Requested, Facts, OwnRow, HasRow
  <2> QED
    BY <2>1 DEF LostSessionHasCause
<1> QED
  BY <1>2, <1>3

(* LostSessionHasCause is inductive.                                       *)
LEMMA LostKept ==
  ASSUME IInv, [Next]_vars
  PROVE  LostSessionHasCause'
<1>1. ASSUME NEW r \in Requests, StartLogin(r) \/ StartWithToken(r)
      PROVE  LostSessionHasCause'
  <2>1. StepOf(r) /\ UNCHANGED ledger /\ pc[r] = "new"
    BY <1>1, StartLoginStep, StartWithTokenStep DEF StartLogin, StartWithToken
  <2> QED
    BY <2>1, NoCauseYet, LostUnwritten
<1>2. ASSUME NEW r \in Requests, FindEmail(r) \/ Verify(r) \/ FindToken(r) \/ FindUser(r)
      PROVE  LostSessionHasCause'
  <2>1. StepOf(r) /\ UNCHANGED ledger
    BY <1>2, FindEmailStep, VerifyStep, FindTokenStep, FindUserStep
    DEF FindEmail, Verify, FindToken, FindUser
  <2>2. pc[r] \in {"find_email", "verify", "find_token", "find_user"}
    BY <1>2 DEF FindEmail, Verify, FindToken, FindUser
  <2> QED
    BY <2>1, <2>2, NoCauseYet, LostUnwritten DEF Running, AtDatabase
<1>3. ASSUME NEW r \in Requests, Revoke(r)
      PROVE  LostSessionHasCause'
  <2>1. StepOf(r) /\ RevokeRow(shown[r]) /\ family' = family /\ UNCHANGED <<call>>
    BY <1>3, RevokeStep DEF Revoke
  <2>2. CASE pc[r] = "revoke"
    <3>1. Op(r) \in {"refresh", "logout"} /\ TypeOK
      BY <2>2 DEF IInv, Requested, Facts, Course
    <3>2. pc'[r] = AfterRevoke(r)
      BY <1>3, <2>2, <3>1 DEF Revoke, Goto, TypeOK
    <3>3. Cause(r)'
      BY <2>1, <3>1, <3>2 DEF Cause, AfterRevoke, Op
    <3> QED
      BY <2>1, <2>2, <3>3, LostRevoking
  <2>3. CASE pc[r] \in {"revoke_expired", "revoke_replay"}
    BY <2>1, <2>3, LostRevoking
  <2> QED
    BY <1>3, <2>2, <2>3 DEF Revoke
<1>4. ASSUME NEW r \in Requests, Store(r)
      PROVE  LostSessionHasCause'
  BY <1>4, StoreStep, LostStoring DEF Store
<1>5. ASSUME NEW r \in Requests, Audit(r) \/ AuditError(r)
      PROVE  LostSessionHasCause'
  <2>1. StepOf(r) /\ UNCHANGED <<ledger, call>> /\ AfterAudit(r) /\ TypeOK
    BY <1>5, AuditStep DEF Audit, AuditError, IInv
  <2>2. pc[r] = "audit" => pc'[r] = "answered"
    BY <2>1 DEF AfterAudit, Answer, TypeOK
  <2>3. HasRow(r) => pc[r] = "audit" \/ pc[r] \notin {"audit_bad", "audit_replay"}
    BY DEF IInv, Requested, Facts, OwnRow
  <2>4. pc[r] \in AtAudit
    BY <2>1, AfterAuditEffect
  <2>5. status[r] = 0
    BY <2>1, AfterAuditEffect
  <2>6. Cause(r) => Cause(r)'
    BY <2>1, <2>2, <2>4, <2>5 DEF Cause, AtAudit, Op, HasRow
  <2> QED
    BY <2>1, <2>6, LostUnwritten
<1>6. ASSUME NEW r \in Requests, DatabaseError(r)
      PROVE  LostSessionHasCause'
  <2>1. /\ StepOf(r) /\ UNCHANGED <<call, family>> /\ pc[r] \in AtDatabase /\ TypeOK
        /\ Answer(r, IF Op(r) = "login" THEN 401 ELSE 500)
    BY <1>6, DatabaseErrorStep DEF DatabaseError, IInv
  <2>2. Op(r) # "login" => Cause(r)'
    BY <2>1 DEF Answer, Cause, Op, TypeOK
  <2>3. CASE UNCHANGED ledger
    <3>1. Cause(r) => Op(r) = "refresh"
      BY <2>1, NoCauseYet DEF Running, AtDatabase
    <3> QED
      BY <2>1, <2>2, <2>3, <3>1, LostUnwritten
  <2>4. CASE pc[r] = "store" /\ CreateRow(r)
    BY <2>1, <2>4, LostStoring
  <2>5. CASE pc[r] \in {"revoke", "revoke_expired", "revoke_replay"} /\ RevokeRow(shown[r])
    <3>1. Op(r) # "login"
      BY <2>5 DEF IInv, Requested, Facts, Course
    <3> QED
      BY <2>1, <2>2, <2>5, <3>1, LostRevoking
  <2> QED
    BY <1>6, <2>3, <2>4, <2>5 DEF DatabaseError
<1>7. ASSUME NEW r \in Requests, Crash(r)
      PROVE  LostSessionHasCause'
  <2>1. StepOf(r) /\ UNCHANGED <<call, ledger>> /\ pc[r] \in Running /\ Goto(r, "lost")
    BY <1>7, CrashStep DEF Crash
  <2>2. pc'[r] = "lost"
    BY <2>1 DEF Goto, IInv, TypeOK
  <2>3. Cause(r) => Cause(r)'
    BY <2>1, <2>2 DEF Cause, Op, HasRow, Running, AtDatabase, AtAudit
  <2> QED
    BY <2>1, <2>3, LostUnwritten
<1>8. CASE (\E u \in Users : Deactivate(u)) \/ (\E t \in Requests : TokenExpires(t))
  <2>1. StepOf(Unset) /\ TypeOK
    BY <1>8, WorldStep DEF IInv
  <2>2. \A t \in Requests : (Live(t) => Live(t)') /\ (HasRow(t)' => HasRow(t))
    <3>1. CASE \E u \in Users : Deactivate(u)
      BY <3>1 DEF Deactivate, Live, HasRow
    <3>2. CASE \E t \in Requests : TokenExpires(t)
      <4>1. PICK t \in Requests : TokenExpires(t)
        BY <3>2
      <4>2. /\ \A q \in Requests : q # t => ledger'[q] = ledger[q]
            /\ ledger[t] # NoRow /\ (ledger'[t].revoked <=> ledger[t].revoked) /\ RowsKept
        BY <2>1, <4>1, TokenExpiresEffect
      <4> QED
        BY <4>2 DEF Live, HasRow, RowsKept
    <3> QED
      BY <1>8, <3>1, <3>2
  <2> QED
    BY <2>1, <2>2, CauseKept, NoValuesAssumption
<1>9. CASE UNCHANGED vars
  BY <1>9 DEF IInv, vars, LostSessionHasCause, LiveTokens, HasRow, Live, Op
<1> QED
  BY <1>1, <1>2, <1>3, <1>4, <1>5, <1>6, <1>7, <1>8, <1>9 DEF Next, Step, Done

(***************************************************************************)
(* One carrier in each family                                              *)
(***************************************************************************)

(* A step that brings neither a carrier nor a holder keeps them unique.    *)
LEMMA NoNewCarrier ==
  ASSUME IInv, UNCHANGED kind, raced \subseteq raced',
         \A f, t \in Requests : Carries(t, f)' => Carries(t, f),
         \A f, q \in Requests : Holds(q, f)' => Holds(q, f) /\ shown'[q] = shown[q]
  PROVE  OneCarrier'
<1> SUFFICES ASSUME NEW f \in Requests \ raced', NEW s \in Requests, NEW t \in Requests
             PROVE  /\ kind' = "custom" /\ Carries(s, f)' /\ Carries(t, f)' => s = t
                    /\ kind' = "custom" /\ Holds(s, f)' /\ Holds(t, f)' => s = t
                    /\ kind' = "custom" /\ Holds(s, f)' /\ Carries(t, f)' => t = shown'[s]
  BY DEF OneCarrier
<1>1. /\ kind = "custom" /\ Carries(s, f) /\ Carries(t, f) => s = t
      /\ kind = "custom" /\ Holds(s, f) /\ Holds(t, f) => s = t
      /\ kind = "custom" /\ Holds(s, f) /\ Carries(t, f) => t = shown[s]
  BY DEF IInv, OneCarrier
<1> QED
  BY <1>1

(* What a step of r brings no carrier and no holder but r.                 *)
LEMMA OthersCarry ==
  ASSUME IInv, NEW r, StepOf(r), NEW q \in Requests \ {r}, NEW f \in Requests
  PROVE  /\ Carries(q, f)' => Carries(q, f)
         /\ Holds(q, f)' <=> Holds(q, f)
         /\ shown'[q] = shown[q]
<1>1. /\ pc'[q] = pc[q] /\ family'[q] = family[q] /\ shown'[q] = shown[q]
      /\ ledger[q] = NoRow => ledger'[q] = NoRow
      /\ ledger[q] # NoRow /\ ledger[q].revoked => ledger'[q].revoked
      /\ call' = call
  BY DEF StepOf, RowsKept
<1> QED
  BY <1>1 DEF Carries, Holds, Live, HasRow, Op

(* It is enough, then, that r is no new one.                               *)
LEMMA QuietCarrier ==
  ASSUME IInv, NEW r, StepOf(r), raced \subseteq raced',
         r \in Requests => /\ \A f \in Requests : Carries(r, f)' => Carries(r, f)
                           /\ \A f \in Requests : Holds(r, f)' => Holds(r, f)
                           /\ pc[r] # "new" => shown'[r] = shown[r]
  PROVE  OneCarrier'
<1>1. \A f, t \in Requests : Carries(t, f)' => Carries(t, f)
  BY OthersCarry
<1>2. \A f, q \in Requests : Holds(q, f)' => Holds(q, f) /\ shown'[q] = shown[q]
  <2> SUFFICES ASSUME NEW f \in Requests, NEW q \in Requests, Holds(q, f)'
               PROVE  Holds(q, f) /\ shown'[q] = shown[q]
    OBVIOUS
  <2>1. CASE q # r
    BY <2>1, OthersCarry
  <2>2. CASE q = r
    <3>1. Holds(q, f) /\ pc[r] # "new"
      BY <2>2 DEF Holds
    <3> QED
      BY <2>2, <3>1
  <2> QED
    BY <2>1, <2>2
<1>3. kind' = kind
  BY DEF StepOf
<1> QED
  BY <1>1, <1>2, <1>3, NoNewCarrier

(* A login about to store its token is alone in its family.                *)
LEMMA CarrierOfLogin ==
  ASSUME IInv, NEW r \in Requests, Verify(r)
  PROVE  OneCarrier'
<1>1. /\ StepOf(r) /\ pc[r] = "verify" /\ Op(r) = "login" /\ status[r] = 0 /\ family[r] = r
      /\ UNCHANGED <<call, shown, family, raced, kind>> /\ Op(r)' = Op(r)
  BY VerifyStep DEF Verify, IInv, Requested, Facts, Course, Rooted, Op
<1>2. \A q \in Requests : family[q] = r => q = r
  <2> SUFFICES ASSUME NEW q \in Requests, family[q] = r, q # r
               PROVE  FALSE
    OBVIOUS
  <2>1. status[r] = 200
    BY DEF IInv, Requested, Facts, Rooted
  <2> QED
    BY <1>1, <2>1
<1>3. ~Holds(r, r)'
  BY <1>1 DEF Holds
<1> SUFFICES ASSUME NEW f \in Requests \ raced', NEW s \in Requests, NEW t \in Requests
             PROVE  /\ kind' = "custom" /\ Carries(s, f)' /\ Carries(t, f)' => s = t
                    /\ kind' = "custom" /\ Holds(s, f)' /\ Holds(t, f)' => s = t
                    /\ kind' = "custom" /\ Holds(s, f)' /\ Carries(t, f)' => t = shown'[s]
  BY DEF OneCarrier
<1>4. CASE f = r
  BY <1>1, <1>2, <1>3, <1>4 DEF Carries, Holds
<1>5. CASE f # r
  <2>1. /\ kind = "custom" /\ Carries(s, f) /\ Carries(t, f) => s = t
        /\ kind = "custom" /\ Holds(s, f) /\ Holds(t, f) => s = t
        /\ kind = "custom" /\ Holds(s, f) /\ Carries(t, f) => t = shown[s]
    BY <1>1 DEF IInv, OneCarrier
  <2>2. (Carries(s, f)' \/ Holds(s, f)' => s # r) /\ (Carries(t, f)' \/ Holds(t, f)' => t # r)
    BY <1>1, <1>5 DEF Carries, Holds
  <2> QED
    BY <1>1, <2>1, <2>2, OthersCarry
<1> QED
  BY <1>4, <1>5

(* A refresh that passes its check is the one that holds the one carrier,  *)
(* or the family has a race from now on.                                   *)
LEMMA CarrierOfCheck ==
  ASSUME IInv, NEW r \in Requests, FindToken(r)
  PROVE  OneCarrier'
<1>1. /\ StepOf(r) /\ pc[r] = "find_token" /\ Facts(r) /\ TypeOK
      /\ UNCHANGED <<call, shown, family, ledger, kind>> /\ raced \subseteq raced'
      /\ Op(r)' = Op(r)
  BY FindTokenStep, FindTokenEffect DEF IInv, Requested, Op
<1>2. CASE pc'[r] # "find_user"
  <2>1. pc'[r] \notin {"store"} /\ (pc'[r] = "revoke" => Op(r) = "logout")
    BY <1>1, FindTokenEffect DEF IInv, Moves
  <2>2. \A f \in Requests : (Carries(r, f)' => Carries(r, f)) /\ (Holds(r, f)' => Holds(r, f))
    BY <1>1, <1>2, <2>1 DEF Carries, Holds, Live, HasRow
  <2> QED
    BY <1>1, <2>2, QuietCarrier
<1>3. CASE pc'[r] = "find_user"
  <2> SUFFICES ASSUME NEW f \in Requests \ raced', NEW s \in Requests, NEW t \in Requests,
                      kind = "custom"
               PROVE  /\ Carries(s, f)' /\ Carries(t, f)' => s = t
                      /\ Holds(s, f)' /\ Holds(t, f)' => s = t
                      /\ Holds(s, f)' /\ Carries(t, f)' => t = shown'[s]
    BY <1>1 DEF OneCarrier
  <2>1. \A p, q \in Requests : /\ Carries(p, f) /\ Carries(q, f) => p = q
                               /\ Holds(p, f) /\ Holds(q, f) => p = q
                               /\ Holds(p, f) /\ Carries(q, f) => q = shown[p]
    BY <1>1 DEF IInv, OneCarrier
  <2>2. \A q \in Requests : (Carries(q, f)' => Carries(q, f)) /\ shown'[q] = shown[q]
    <3>1. Carries(r, f)' => Carries(r, f)
      BY <1>1, <1>3 DEF Carries, Live, HasRow
    <3> QED
      BY <1>1, <3>1, OthersCarry
  <2>3. CASE family[r] # f
    <3>1. ~Holds(r, f)'
      BY <1>1, <2>3 DEF Holds
    <3>2. \A q \in Requests : Holds(q, f)' => Holds(q, f)
      BY <1>1, <3>1, OthersCarry
    <3> QED
      BY <2>1, <2>2, <3>2
  <2>4. CASE family[r] = f
    <3>1. /\ HasRow(shown[r]) /\ ~ledger[shown[r]].revoked
          /\ \A q \in Requests : ~HoldsToken(q, shown[r])
      BY <1>1, <1>3, <2>4, FindTokenEffect DEF IInv, Moves
    <3>2. Carries(shown[r], f) /\ shown[r] \in Requests
      BY <1>1, <2>4, <3>1 DEF Facts, ShownToken, Carries, Live, HasRow
    <3>3. \A q \in Requests : ~Holds(q, f)
      BY <2>1, <3>1, <3>2 DEF Holds, HoldsToken
    <3>4. \A q \in Requests : Holds(q, f)' => q = r
      BY <1>1, <3>3, OthersCarry
    <3> QED
      BY <2>1, <2>2, <3>2, <3>4
  <2> QED
    BY <2>3, <2>4
<1> QED
  BY <1>2, <1>3

(* A refresh that has revoked the token it held carries the session alone. *)
LEMMA CarrierOfRefresh ==
  ASSUME IInv, NEW r \in Requests, Revoke(r), pc[r] = "revoke", Op(r) = "refresh"
  PROVE  OneCarrier'
<1>1. /\ StepOf(r) /\ Facts(r) /\ TypeOK /\ pc'[r] = "store" /\ Op(r)' = Op(r) /\ ~HasRow(r)
      /\ UNCHANGED <<call, shown, family, kind, raced>> /\ RevokeRow(shown[r])
  BY RevokeStep DEF Revoke, IInv, Requested, Op, AfterRevoke, Goto, TypeOK, Facts, OwnRow
<1> SUFFICES ASSUME NEW f \in Requests \ raced', NEW s \in Requests, NEW t \in Requests,
                    kind = "custom"
             PROVE  /\ Carries(s, f)' /\ Carries(t, f)' => s = t
                    /\ Holds(s, f)' /\ Holds(t, f)' => s = t
                    /\ Holds(s, f)' /\ Carries(t, f)' => t = shown'[s]
  BY <1>1 DEF OneCarrier
<1>2. \A p, q \in Requests : /\ Carries(p, f) /\ Carries(q, f) => p = q
                             /\ Holds(p, f) /\ Holds(q, f) => p = q
                             /\ Holds(p, f) /\ Carries(q, f) => q = shown[p]
  BY <1>1 DEF IInv, OneCarrier
<1>3. ~Holds(r, f)'
  BY <1>1 DEF Holds
<1>4. \A q \in Requests : Holds(q, f)' => Holds(q, f) /\ q # r /\ shown'[q] = shown[q]
  BY <1>1, <1>3, OthersCarry
<1>5. CASE family[r] # f
  <2>1. \A q \in Requests : Carries(q, f)' => Carries(q, f)
    <3>1. ~Carries(r, f)'
      BY <1>1, <1>5 DEF Carries
    <3> QED
      BY <1>1, <3>1, OthersCarry
  <2> QED
    BY <1>2, <1>4, <2>1
<1>6. CASE family[r] = f
  <2>1. Holds(r, f)
    BY <1>6 DEF Holds
  <2>2. \A q \in Requests : ~Holds(q, f)'
    BY <1>2, <1>4, <2>1
  <2>3. \A q \in Requests : Carries(q, f)' => q = r
    <3> SUFFICES ASSUME NEW q \in Requests, Carries(q, f)', q # r
                 PROVE  FALSE
      OBVIOUS
    <3>1. Carries(q, f)
      BY <1>1, OthersCarry
    <3>2. q = shown[r]
      BY <1>2, <2>1, <3>1
    <3>3. HasRow(q) /\ status[q] = 200
      BY <1>1, <3>2 DEF Facts, ShownRow, ShownToken
    <3>4. pc[q] = "answered"
      BY <3>3 DEF IInv, Requested, Facts, Course
    <3>5. ledger'[q].revoked
      BY <1>1, <3>2, <3>3, RevokeShownEffect
    <3>6. pc'[q] = pc[q]
      BY <1>1 DEF StepOf
    <3> QED
      BY <3>4, <3>5, <3>6 DEF Carries, Live
  <2> QED
    BY <2>2, <2>3
<1> QED
  BY <1>5, <1>6

(* OneCarrier is inductive.                                                *)
LEMMA OneCarrierKept ==
  ASSUME IInv, [Next]_vars
  PROVE  OneCarrier'
<1>1. ASSUME NEW r \in Requests, StartLogin(r) \/ StartWithToken(r)
      PROVE  OneCarrier'
  <2>1. /\ StepOf(r) /\ Facts(r) /\ pc[r] = "new" /\ ~HasRow(r) /\ raced' = raced
        /\ ledger' = ledger
    BY <1>1, StartLoginStep, StartWithTokenStep, NoCauseYet
    DEF StartLogin, StartWithToken, IInv, Requested
  <2>2. pc'[r] \in {"answered", "find_email", "find_token"}
    BY <1>1 DEF StartLogin, StartWithToken, Goto, Answer, IInv, TypeOK
  <2>3. \A f \in Requests : ~Carries(r, f)' /\ ~Holds(r, f)'
    BY <2>1, <2>2 DEF Carries, Holds, Live, HasRow
  <2> QED
    BY <2>1, <2>3, QuietCarrier
<1>2. ASSUME NEW r \in Requests, FindEmail(r) \/ FindUser(r) \/ Audit(r) \/ AuditError(r) \/ Crash(r)
      PROVE  OneCarrier'
  <2>1. /\ StepOf(r) /\ UNCHANGED <<kind, call, shown, family, raced, ledger>>
    BY <1>2, FindEmailStep, FindUserStep, AuditStep, CrashStep
    DEF FindEmail, FindUser, Audit, AuditError, Crash
  <2>2. \/ pc'[r] \in {"verify", "answered", "revoke_replay", "lost"}
        \/ pc[r] = "find_user" /\ pc'[r] = "revoke"
    BY <1>2 DEF FindEmail, FindUser, Audit, AuditError, Crash, AfterAudit, AfterFindUser, Goto,
                Answer, IInv, TypeOK
  <2>3. \A f \in Requests : (Carries(r, f)' => Carries(r, f)) /\ (Holds(r, f)' => Holds(r, f))
    BY <2>1, <2>2 DEF Carries, Holds, Live, HasRow, Op
  <2> QED
    BY <2>1, <2>3, QuietCarrier
<1>3. ASSUME NEW r \in Requests, Revoke(r)
      PROVE  OneCarrier'
  <2>1. CASE pc[r] = "revoke" /\ Op(r) = "refresh"
    BY <1>3, <2>1, CarrierOfRefresh
  <2>2. CASE ~(pc[r] = "revoke" /\ Op(r) = "refresh")
    <3>1. /\ StepOf(r) /\ UNCHANGED <<kind, call, shown, family, raced>> /\ ~HasRow(r)
          /\ pc[r] \in {"revoke", "revoke_expired", "revoke_replay"}
      BY <1>3, RevokeStep, NoCauseYet DEF Revoke, Running, AtDatabase
    <3>2. ~HasRow(r)'
      BY <1>3, <3>1, RevokeShownEffect DEF HasRow, Revoke
    <3>3. pc'[r] \in {"audit", "answered"}
      BY <1>3, <2>2 DEF Revoke, AfterRevoke, Goto, Answer, IInv, TypeOK
    <3>4. \A f \in Requests : ~Carries(r, f)' /\ ~Holds(r, f)'
      BY <3>2, <3>3 DEF Carries, Holds, Live
    <3> QED
      BY <3>1, <3>4, QuietCarrier
  <2> QED
    BY <2>1, <2>2
<1>4. ASSUME NEW r \in Requests, Store(r)
      PROVE  OneCarrier'
  <2>1. /\ StepOf(r) /\ UNCHANGED <<kind, call, shown, family, raced>> /\ pc[r] = "store"
    BY <1>4, StoreStep DEF Store
  <2>2. pc'[r] = "audit"
    BY <1>4 DEF Store, AfterStore, Goto, IInv, TypeOK
  <2>3. \A f \in Requests : (Carries(r, f)' => Carries(r, f)) /\ ~Holds(r, f)'
    BY <2>1, <2>2 DEF Carries, Holds
  <2> QED
    BY <2>1, <2>3, QuietCarrier
<1>5. ASSUME NEW r \in Requests, DatabaseError(r)
      PROVE  OneCarrier'
  <2>1. /\ StepOf(r) /\ UNCHANGED <<kind, call, shown, family, raced>> /\ pc[r] \in AtDatabase
        /\ ~HasRow(r)
    BY <1>5, DatabaseErrorStep, NoCauseYet DEF DatabaseError, Running, AtDatabase
  <2>2. pc'[r] = "answered"
    BY <1>5 DEF DatabaseError, Answer, IInv, TypeOK
  <2>3. pc[r] # "store" => ~HasRow(r)'
    BY <1>5, <2>1, RevokeShownEffect DEF DatabaseError, HasRow
  <2>4. \A f \in Requests : (Carries(r, f)' => Carries(r, f)) /\ ~Holds(r, f)'
    BY <2>1, <2>2, <2>3 DEF Carries, Holds, Live
  <2> QED
    BY <2>1, <2>4, QuietCarrier
<1>6. CASE (\E u \in Users : Deactivate(u)) \/ (\E t \in Requests : TokenExpires(t))
  <2>1. StepOf(Unset) /\ raced' = raced
    BY <1>6, WorldStep DEF Deactivate, TokenExpires
  <2> QED
    BY <2>1, QuietCarrier, NoValuesAssumption
<1>7. CASE UNCHANGED vars
  BY <1>7 DEF IInv, vars, OneCarrier, Carries, Holds, HasRow, Live, Op
<1> QED
  BY <1>1, <1>2, <1>3, <1>4, <1>5, <1>6, <1>7, CarrierOfLogin, CarrierOfCheck DEF Next, Step, Done

(***************************************************************************)
(* The theorems                                                            *)
(***************************************************************************)

(* The inductive invariant holds initially.                                *)
LEMMA InitInvariant == Init => IInv
<1> SUFFICES ASSUME Init
             PROVE  IInv
  OBVIOUS
<1>1. call \in [Requests -> Call]
  <2>1. /\ call \in [Requests -> UNION {Calls[r] : r \in Requests}]
        /\ \A r \in Requests : call[r] \in Calls[r]
    BY DEF Init
  <2>2. \A r \in Requests : Calls[r] \subseteq Call
    BY CallsAssumption
  <2> QED
    BY <2>1, <2>2
<1>2. TypeOK
  BY <1>1, KindsAssumption, AccountsAssumption DEF Init, TypeOK, Places
<1>3. \A r : ~HasRow(r)
  BY DEF Init, HasRow
<1>4. Requested
  BY <1>3, NoValuesAssumption
  DEF Init, Requested, Facts, Course, OwnRow, ShownToken, Rooted, ShownRow, LateCourse, Audited,
      NoAudit, Running, AtDatabase, AtAudit
<1>5. LostSessionHasCause
  BY <1>3 DEF LostSessionHasCause
<1>6. OneCarrier
  BY <1>3 DEF Init, OneCarrier, Carries, Holds, Live
<1> QED
  BY <1>2, <1>4, <1>5, <1>6 DEF IInv

(* Every behaviour keeps the inductive invariant: what the requests of     *)
(* src/security may assume of each other at every await.                   *)
THEOREM Invariance == Spec => []IInv
<1>1. IInv /\ [Next]_vars => IInv'
  BY RequestedKept, LostKept, OneCarrierKept DEF IInv
<1> QED
  BY <1>1, InitInvariant, PTL DEF Spec

(* The variables of the flows stay within their types.                     *)
THEOREM TypeCorrect == Spec => []TypeOK
<1>1. IInv => TypeOK
  BY DEF IInv
<1> QED
  BY <1>1, Invariance, PTL

(* Rotation keeps at most one token of a login live, without a race.       *)
THEOREM RotationKeepsOne == Spec => []OneLivePerSession
<1>1. IInv => OneLivePerSession
  <2> SUFFICES ASSUME IInv, NEW f \in Requests \ raced
               PROVE  Cardinality(LiveTokens(f)) <= 1
    BY DEF OneLivePerSession
  <2>1. \A s, t \in LiveTokens(f) : s = t
    <3> SUFFICES ASSUME NEW s \in LiveTokens(f), NEW t \in LiveTokens(f)
                 PROVE  s = t
      OBVIOUS
    <3>1. /\ s \in Requests /\ t \in Requests /\ HasRow(s)
          /\ Carries(s, f) /\ Carries(t, f)
      BY DEF LiveTokens, Carries, Live
    <3>2. kind = "custom"
      BY <3>1 DEF IInv, Requested, Facts, OwnRow
    <3> QED
      BY <3>1, <3>2 DEF IInv, OneCarrier
  <2>2. CASE LiveTokens(f) = {}
    BY <2>2, FS_EmptySet
  <2>3. CASE LiveTokens(f) # {}
    <3>1. PICK t : LiveTokens(f) = {t}
      BY <2>1, <2>3
    <3> QED
      BY <3>1, FS_Singleton
  <2> QED
    BY <2>2, <2>3
<1> QED
  BY <1>1, Invariance, PTL

(* No session is lost without a cause.                                     *)
THEOREM LossesHaveCause == Spec => []LostSessionHasCause
<1>1. IInv => LostSessionHasCause
  BY DEF IInv
<1> QED
  BY <1>1, Invariance, PTL

(* What has ended gives no tokens to who comes later.                      *)
THEOREM EndingIsFinal == Spec => []EndedMeansEnded
<1>1. IInv => EndedMeansEnded
  <2> SUFFICES ASSUME IInv, NEW r \in tooLate
               PROVE  ~HasRow(r) /\ (Op(r) # "logout" => status[r] # 200)
    BY DEF EndedMeansEnded
  <2>1. r \in Requests /\ Facts(r) /\ call[r] \in Call
    BY DEF IInv, TypeOK, Requested
  <2> QED
    BY <2>1 DEF Facts, LateCourse, Op, Call
<1> QED
  BY <1>1, Invariance, PTL

(* A live token nobody was handed is on its way, or had a fault.           *)
THEOREM OrphansHaveCause == Spec => []OrphanHasCause
<1>1. IInv => OrphanHasCause
  <2> SUFFICES ASSUME IInv, NEW r \in Requests, Live(r), r \notin Delivered
               PROVE  pc[r] = "audit" \/ r \in faulted
    BY DEF OrphanHasCause
  <2> QED
    BY DEF IInv, Requested, Facts, OwnRow, Live, Delivered
<1> QED
  BY <1>1, Invariance, PTL

(* The audit trail agrees with the ledger.                                 *)
THEOREM AuditTrailHolds == Spec => []AuditMatchesLedger
<1>1. IInv => AuditMatchesLedger
  BY DEF IInv, Requested, Facts, Audited, AuditMatchesLedger
<1> QED
  BY <1>1, Invariance, PTL

(***************************************************************************)
(* The refinement of RotationChain                                         *)
(***************************************************************************)

Claiming == {"find_user", "revoke", "store"}

(* Before the first request there is no token.                             *)
LEMMA ChainInit == Init => Chain!Init
<1> SUFFICES ASSUME Init
             PROVE  Chain!Init
  OBVIOUS
<1>1. Issued = {} /\ Unspent = {}
  BY DEF Init, Issued, Unspent, Live, HasRow
<1>2. Claimants = {}
  BY DEF Init, Claimants
<1>3. Claims = {} /\ Forked = {}
  BY <1>2 DEF Claims, Init, Forked
<1> QED
  BY <1>1, <1>3 DEF Init, Chain!Init

(* What a request that claims nothing, or holds the claim on the token it  *)
(* was shown, means to the chain.                                          *)
LEMMA ClaimsOf ==
  ASSUME IInv, NEW r \in Requests
  PROVE  /\ r \in Claimants => shown[r] \in Requests /\ <<r, shown[r]>> \in Claims
         /\ r \notin Claimants => \A c \in Claims : c[1] # r
         /\ kind # "custom" => Claimants = {} /\ Claims = {}
         /\ pc[r] \notin Claiming \/ Op(r) # "refresh" => r \notin Claimants
         /\ pc[r] \in Claiming /\ Op(r) = "refresh" /\ kind = "custom" => r \in Claimants
<1>1. Facts(r)
  BY DEF IInv, Requested
<1>2. r \in Claimants => shown[r] \in Requests
  BY <1>1 DEF Claimants, Facts, ShownRow, HasRow
<1>3. r \in Claimants => <<r, shown[r]>> \in Claims
  BY DEF Claims
<1>4. r \notin Claimants => \A c \in Claims : c[1] # r
  BY DEF Claims
<1>5. kind # "custom" => Claimants = {} /\ Claims = {}
  BY DEF Claimants, Claims
<1> QED
  BY <1>2, <1>3, <1>4, <1>5 DEF Claimants, Claiming

(* A request that goes where it claims nothing gives up its claim.         *)
LEMMA ClaimsEnd ==
  ASSUME IInv, NEW r \in Requests, NEW place, NEW code, Moves(r, place, code),
         UNCHANGED <<kind, call>>, \A q \in Requests \ {r} : shown'[q] = shown[q],
         place \notin Claiming
  PROVE  /\ Claims' = Claims \ {<<r, shown[r]>>}
         /\ r \notin Claimants => Claims' = Claims
<1>1. \A q \in Requests : Op(q)' = Op(q)
  BY DEF Op
<1>2. \A q \in Requests \ {r} : q \in Claimants' <=> q \in Claimants
  BY <1>1 DEF Claimants, Moves
<1>3. r \notin Claimants'
  BY DEF Claimants, Moves, Claiming
<1>4. Claimants' = Claimants \ {r} /\ Claimants \subseteq Requests
  BY <1>2, <1>3 DEF Claimants
<1>5. \A q \in Claimants' : shown'[q] = shown[q] /\ q # r
  BY <1>4
<1>6. ASSUME NEW c
      PROVE  c \in Claims' <=> c \in Claims /\ c # <<r, shown[r]>>
  <2>1. c \in Claims' <=> \E q \in Claimants' : c = <<q, shown[q]>>
    BY <1>5 DEF Claims
  <2>2. c \in Claims <=> \E q \in Claimants : c = <<q, shown[q]>>
    BY DEF Claims
  <2> QED
    BY <1>4, <2>1, <2>2
<1>7. r \notin Claimants => <<r, shown[r]>> \notin Claims
  BY DEF Claims
<1> QED
  BY <1>6, <1>7

(* The claims are the same where it claims nothing before or after, or     *)
(* keeps its claim.                                                        *)
LEMMA ClaimsStay ==
  ASSUME IInv, NEW r \in Requests, NEW place, NEW code, Moves(r, place, code),
         UNCHANGED <<kind, call, shown>>,
         \/ Op(r) # "refresh"
         \/ kind # "custom"
         \/ pc[r] \in Claiming /\ place \in Claiming
  PROVE  Claims' = Claims
<1>1. \A q \in Requests : Op(q)' = Op(q)
  BY DEF Op
<1>2. \A q \in Requests : q \in Claimants' <=> q \in Claimants
  BY <1>1 DEF Claimants, Moves, Claiming
<1>3. Claimants' = Claimants
  BY <1>2 DEF Claimants
<1> QED
  BY <1>3 DEF Claims

(* A request that goes to claim the token it was shown.                    *)
LEMMA ClaimsGrow ==
  ASSUME IInv, NEW r \in Requests, NEW place \in Claiming, NEW code, Moves(r, place, code),
         UNCHANGED <<kind, call, shown>>, Op(r) = "refresh", kind = "custom"
  PROVE  Claims' = Claims \cup {<<r, shown[r]>>}
<1>1. \A q \in Requests : Op(q)' = Op(q)
  BY DEF Op
<1>2. \A q \in Requests : q \in Claimants' <=> q \in Claimants \/ q = r
  BY <1>1 DEF Claimants, Moves, Claiming
<1>3. Claimants' = Claimants \cup {r}
  BY <1>2 DEF Claimants
<1> QED
  BY <1>3 DEF Claims

(* A step that at most spends the token its request was shown and gives up *)
(* its claim on it.                                                        *)
LEMMA EndsAtMost ==
  ASSUME NEW r \in Requests, UNCHANGED <<family, Issued, Forked>>,
         \/ UNCHANGED Unspent
         \/ shown[r] \in Requests /\ Unspent' = Unspent \ {shown[r]},
         \/ Claims' = Claims
         \/ shown[r] \in Requests /\ Claims' = Claims \ {<<r, shown[r]>>}
  PROVE  [Chain!Next]_(Chain!chainVars)
<1>1. CASE shown[r] \notin Requests
  BY <1>1 DEF Chain!chainVars
<1>2. CASE shown[r] \in Requests
  <2>1. PICK spent \in SUBSET {shown[r]} : Unspent' = Unspent \ spent
    <3>1. Unspent' = Unspent \ {} \/ Unspent' = Unspent \ {shown[r]}
      OBVIOUS
    <3>2. {} \in SUBSET {shown[r]} /\ {shown[r]} \in SUBSET {shown[r]}
      OBVIOUS
    <3> QED
      BY <3>1, <3>2, Zenon
  <2>2. PICK given \in SUBSET {<<r, shown[r]>>} : Claims' = Claims \ given
    <3>1. Claims' = Claims \ {} \/ Claims' = Claims \ {<<r, shown[r]>>}
      OBVIOUS
    <3>2. {} \in SUBSET {<<r, shown[r]>>} /\ {<<r, shown[r]>>} \in SUBSET {<<r, shown[r]>>}
      OBVIOUS
    <3> QED
      BY <3>1, <3>2, Zenon
  <2>3. Chain!End(spent, given)
    BY <2>1, <2>2 DEF Chain!End
  <2> QED
    BY <1>2, <2>3 DEF Chain!Next
<1> QED
  BY <1>1, <1>2

(* Rows that are left alone are the same tokens.                           *)
LEMMA SameTokens ==
  ASSUME UNCHANGED ledger
  PROVE  UNCHANGED <<Issued, Unspent>>
  BY DEF Issued, Unspent, Live, HasRow

(* The same of the sessions with a race.                                   *)
LEMMA SameForks ==
  ASSUME UNCHANGED <<kind, raced>>
  PROVE  UNCHANGED Forked
  BY DEF Forked

(* A step of one request that goes on without touching a row.              *)
LEMMA IdleStep ==
  ASSUME IInv, NEW r \in Requests, NEW place, NEW code, Moves(r, place, code),
         UNCHANGED <<kind, call, shown, ledger, family, raced>>,
         \/ place \notin Claiming
         \/ pc[r] \in Claiming
         \/ Op(r) # "refresh"
         \/ kind # "custom"
  PROVE  [Chain!Next]_(Chain!chainVars)
<1>1. UNCHANGED <<Issued, Unspent, Forked>>
  BY SameTokens, SameForks
<1>2. Claims' = Claims \/ Claims' = Claims \ {<<r, shown[r]>>}
  <2>1. CASE place \notin Claiming
    <3>1. Claims' = Claims \ {<<r, shown[r]>>}
      BY <2>1, ClaimsEnd
    <3> QED
      BY <3>1
  <2>2. CASE place \in Claiming /\ pc[r] \in Claiming
    <3>1. Claims' = Claims
      BY <2>2, ClaimsStay
    <3> QED
      BY <3>1
  <2>3. CASE Op(r) # "refresh" \/ kind # "custom"
    <3>1. Claims' = Claims
      BY <2>3, ClaimsStay
    <3> QED
      BY <3>1
  <2> QED
    BY <2>1, <2>2, <2>3
<1>3. \/ Claims' = Claims
      \/ shown[r] \in Requests /\ Claims' = Claims \ {<<r, shown[r]>>}
  <2>1. CASE r \in Claimants
    BY <1>2, <2>1, ClaimsOf
  <2>2. CASE r \notin Claimants
    <3>1. <<r, shown[r]>> \notin Claims
      BY <2>2 DEF Claims
    <3>2. Claims \ {<<r, shown[r]>>} = Claims
      BY <3>1
    <3> QED
      BY <1>2, <3>2
  <2> QED
    BY <2>1, <2>2
<1> QED
  BY <1>1, <1>3, EndsAtMost

(* The step that revokes the token its request was shown.                  *)
LEMMA SpendingStep ==
  ASSUME IInv, NEW r \in Requests, NEW place, NEW code, Moves(r, place, code),
         UNCHANGED <<kind, call, shown, family, raced>>, RevokeRow(shown[r]),
         place \notin Claiming \/ pc[r] \in Claiming
  PROVE  [Chain!Next]_(Chain!chainVars)
<1>1. CASE ~HasRow(shown[r])
  <2>1. UNCHANGED ledger
    BY <1>1 DEF RevokeRow
  <2> QED
    BY <2>1, IdleStep
<1>2. CASE HasRow(shown[r])
  <2>1. shown[r] \in Requests
    BY <1>2 DEF HasRow
  <2>2. /\ \A q \in Requests : q # shown[r] => ledger'[q] = ledger[q]
        /\ ledger'[shown[r]].revoked /\ ledger'[shown[r]] # NoRow
    BY <1>2, RevokeRowEffect DEF IInv, RowsKept, HasRow
  <2>3. Issued' = Issued
    <3>1. \A q \in Requests : HasRow(q)' <=> HasRow(q)
      BY <1>2, <2>2 DEF HasRow
    <3> QED
      BY <3>1 DEF Issued
  <2>4. Unspent' = Unspent \ {shown[r]}
    <3>1. \A q \in Requests : q # shown[r] => (Live(q)' <=> Live(q))
      BY <2>2 DEF Live, HasRow
    <3>2. ~Live(shown[r])'
      BY <2>2 DEF Live
    <3> QED
      BY <2>1, <3>1, <3>2 DEF Unspent
  <2>5. Claims' = Claims \/ Claims' = Claims \ {<<r, shown[r]>>}
    <3>1. CASE place \notin Claiming
      <4>1. Claims' = Claims \ {<<r, shown[r]>>}
        BY <3>1, ClaimsEnd
      <4> QED
        BY <4>1
    <3>2. CASE place \in Claiming /\ pc[r] \in Claiming
      <4>1. Claims' = Claims
        BY <3>2, ClaimsStay
      <4> QED
        BY <4>1
    <3> QED
      BY <3>1, <3>2
  <2> QED
    BY <2>1, <2>3, <2>4, <2>5, SameForks, EndsAtMost
<1> QED
  BY <1>1, <1>2

(* The step that stores a new token: the first of its session, or the one  *)
(* that replaces the token that was claimed.                               *)
LEMMA IssuingStep ==
  ASSUME IInv, NEW r \in Requests, NEW place, NEW code, Moves(r, place, code),
         UNCHANGED <<kind, call, shown, family, raced>>,
         pc[r] = "store", CreateRow(r), place \notin Claiming
  PROVE  [Chain!Next]_(Chain!chainVars)
<1>0. /\ TypeOK /\ Facts(r) /\ OneCarrier /\ ledger[r] = NoRow
      /\ Op(r) \in {"login", "refresh"} /\ ~HasRow(r)
  BY StoreEffect DEF IInv, Requested, Facts, Course, HasRow
<1>1. CASE kind # "custom"
  <2>1. UNCHANGED ledger
    BY <1>1, StoreEffect
  <2> QED
    BY <2>1, IdleStep
<1>2. CASE kind = "custom"
  <2>1. /\ \A q \in Requests \ {r} : ledger'[q] = ledger[q]
        /\ ledger'[r] # NoRow /\ ~ledger'[r].revoked
    BY <1>2, StoreEffect
  <2>2. Issued' = Issued \cup {r} /\ r \notin Issued
    <3>1. \A q \in Requests : HasRow(q)' <=> HasRow(q) \/ q = r
      BY <2>1 DEF HasRow
    <3> QED
      BY <1>0, <3>1 DEF Issued
  <2>3. Unspent' = Unspent \cup {r}
    <3>1. \A q \in Requests : Live(q)' <=> Live(q) \/ q = r
      BY <2>1 DEF Live, HasRow
    <3> QED
      BY <3>1 DEF Unspent
  <2>4. UNCHANGED <<family, Forked>>
    BY SameForks
  <2>5. CASE Op(r) = "login"
    <3>1. family[r] = r
      BY <1>0, <2>5 DEF Facts, Rooted
    <3>2. \A other \in Issued : family[other] # r
      <4> SUFFICES ASSUME NEW other \in Issued, family[other] = r
                   PROVE  FALSE
        OBVIOUS
      <4>1. other # r /\ other \in Requests
        BY <1>0 DEF Issued
      <4>2. status[r] = 200
        BY <4>1 DEF IInv, Requested, Facts, Rooted
      <4> QED
        BY <1>0, <4>2 DEF Facts, Course
    <3>3. Claims' = Claims
      BY <2>5, ClaimsStay
    <3>4. Chain!Open(r)
      BY <2>2, <2>3, <2>4, <3>1, <3>2, <3>3 DEF Chain!Open
    <3> QED
      BY <3>4 DEF Chain!Next
  <2>6. CASE Op(r) = "refresh"
    <3>1. r \in Claimants /\ shown[r] \in Requests /\ <<r, shown[r]>> \in Claims
      BY <1>2, <2>6, ClaimsOf DEF Claiming
    <3>2. shown[r] \notin Unspent
      BY <1>0, <1>2, <2>6 DEF Facts, ShownRow, Unspent, Live
    <3>3. family[r] \in Forked \/ \A other \in Unspent : family[other] # family[r]
      <4> SUFFICES ASSUME family[r] \notin Forked, NEW other \in Unspent, family[other] = family[r]
                   PROVE  FALSE
        OBVIOUS
      <4>1. family[r] \in Requests \ raced /\ other \in Requests /\ Live(other)
        BY <1>0, <1>2 DEF TypeOK, Forked, Unspent
      <4>2. Carries(r, family[r]) /\ Carries(other, family[r])
        BY <4>1 DEF Carries
      <4>3. r = other
        BY <1>0, <1>2, <4>1, <4>2 DEF OneCarrier
      <4> QED
        BY <1>0, <4>1, <4>3 DEF Live
    <3>4. Claims' = Claims \ {<<r, shown[r]>>}
      BY ClaimsEnd
    <3>5. Chain!Issue(r, shown[r])
      BY <2>2, <2>3, <2>4, <3>1, <3>2, <3>3, <3>4 DEF Chain!Issue
    <3> QED
      BY <3>1, <3>5 DEF Chain!Next
  <2> QED
    BY <1>0, <2>5, <2>6
<1> QED
  BY <1>1, <1>2

(* The check of a shown token claims it, and forks the session where it is *)
(* the second to do so.                                                    *)
LEMMA ClaimingStep ==
  ASSUME IInv, NEW r \in Requests, FindToken(r)
  PROVE  [Chain!Next]_(Chain!chainVars)
<1>0. /\ TypeOK /\ Requested /\ Facts(r) /\ ~HasRow(r) /\ pc[r] = "find_token"
      /\ UNCHANGED <<kind, accounts, ledger, call, shown, trail, family, tooLate, faulted>>
  BY DEF IInv, Requested, Facts, OwnRow, FindToken
<1>1. CASE kind = "custom" /\ Op(r) = "refresh" /\ Verdict(r) = "find_user"
  <2>1. HasRow(shown[r]) /\ ~ledger[shown[r]].revoked /\ Moves(r, "find_user", status[r])
    <3>1. /\ FoundToken(shown[r]).found /\ ~FoundToken(shown[r]).revoked
      BY <1>1 DEF Verdict
    <3>2. HasRow(shown[r]) /\ ~ledger[shown[r]].revoked
      BY <1>1, <3>1 DEF FoundToken
    <3>3. Goto(r, "find_user")
      BY <1>1 DEF FindToken
    <3> QED
      BY <1>0, <3>2, <3>3, GotoMoves DEF Places, Running, AtDatabase
  <2>2. shown[r] \in Requests /\ shown[r] \in Unspent /\ family[shown[r]] = family[r]
    BY <1>0, <2>1 DEF HasRow, Unspent, Live, Facts, ShownToken
  <2>3. r \notin Issued
    BY <1>0 DEF Issued
  <2>4. Claims' = Claims \cup {<<r, shown[r]>>}
    <3>1. "find_user" \in Claiming
      BY DEF Claiming
    <3> QED
      BY <1>0, <1>1, <2>1, <3>1, ClaimsGrow
  <2>5. Chain!Claimed(shown[r]) <=> \E q \in Requests : HoldsToken(q, shown[r])
    <3>1. ASSUME NEW c \in Claims, c[2] = shown[r]
          PROVE  \E q \in Requests : HoldsToken(q, shown[r])
      <4>1. PICK q \in Claimants : c = <<q, shown[q]>>
        BY DEF Claims
      <4>2. q \in Requests /\ Op(q) = "refresh" /\ shown[q] = shown[r] /\ pc[q] \in Claiming
        BY <3>1, <4>1 DEF Claimants, Claiming
      <4>3. pc[q] # "store"
        BY <1>0, <1>1, <2>1, <4>2 DEF Requested, Facts, ShownRow
      <4> QED
        BY <4>2, <4>3 DEF HoldsToken, Claiming
    <3>2. ASSUME NEW q \in Requests, HoldsToken(q, shown[r])
          PROVE  \E c \in Claims : c[2] = shown[r]
      <4>1. q \in Claimants /\ shown[q] = shown[r]
        BY <1>1, <3>2 DEF HoldsToken, Claimants
      <4>2. <<q, shown[q]>> \in Claims
        BY <4>1 DEF Claims
      <4> QED
        BY <4>1, <4>2
    <3> QED
      BY <3>1, <3>2 DEF Chain!Claimed
  <2>6. raced' = IF \E q \in Requests : HoldsToken(q, shown[r])
                 THEN raced \cup {family[r]} ELSE raced
    BY <1>1 DEF FindToken
  <2>7. Forked' = IF Chain!Claimed(shown[r]) THEN Forked \cup {family[r]} ELSE Forked
    <3>1. Forked = raced /\ Forked' = raced'
      BY <1>0, <1>1 DEF Forked
    <3> QED
      BY <2>5, <2>6, <3>1
  <2>8. UNCHANGED <<family, Issued, Unspent>>
    BY <1>0, SameTokens
  <2>9. Chain!Claim(r, shown[r])
    BY <2>2, <2>3, <2>4, <2>7, <2>8 DEF Chain!Claim
  <2> QED
    BY <2>2, <2>9 DEF Chain!Next
<1>2. CASE kind = "custom" /\ ~(Op(r) = "refresh" /\ Verdict(r) = "find_user")
  <2>1. Verdict(r) # "find_user"
    <3>1. Op(r) \in {"refresh", "logout"}
      BY <1>0 DEF Facts, Course
    <3>2. Op(r) = "logout" => Verdict(r) \in {"revoke", "answered"}
      BY DEF Verdict
    <3> QED
      BY <1>2, <3>1, <3>2
  <2>2. UNCHANGED raced
    BY <2>1 DEF FindToken
  <2>3. \E place, code : /\ Moves(r, place, code)
                         /\ place \notin Claiming \/ Op(r) # "refresh"
    <3>1. pc'[r] # "find_user"
      BY <1>0, <2>1, FindTokenEffect DEF FindToken, Goto, Answer, TypeOK
    <3> QED
      BY <1>0, <3>1, FindTokenEffect DEF Moves, Claiming
  <2> QED
    BY <1>0, <2>2, <2>3, IdleStep
<1>3. CASE kind # "custom"
  <2>1. \E place, code : Moves(r, place, code)
    BY <1>0, FindTokenEffect
  <2>2. Claims' = Claims /\ Forked' = Forked
    <3>1. Forked = {} /\ Forked' = {}
      BY <1>0, <1>3 DEF Forked
    <3>2. Claims' = Claims
      BY <1>0, <1>3, <2>1, ClaimsStay
    <3> QED
      BY <3>1, <3>2
  <2> QED
    BY <1>0, <2>2, SameTokens DEF Chain!chainVars
<1> QED
  BY <1>1, <1>2, <1>3

(* Each step of the flows is one of the chain or none.                     *)
LEMMA ChainStep ==
  ASSUME IInv, [Next]_vars
  PROVE  [Chain!Next]_(Chain!chainVars)
<1>0. TypeOK /\ Requested
  BY DEF IInv
<1>1. ASSUME NEW r \in Requests, StartLogin(r)
      PROVE  [Chain!Next]_(Chain!chainVars)
  <2>1. /\ UNCHANGED <<kind, ledger, call, shown, family, raced>>
        /\ \E place \in {"answered", "find_email"} : \E code : Moves(r, place, code)
    BY <1>0, <1>1, AnswerMoves, GotoMoves
    DEF StartLogin, Refused, Places, Running, AtDatabase
  <2> QED
    BY <2>1, IdleStep DEF Claiming
<1>2. ASSUME NEW r \in Requests, StartWithToken(r)
      PROVE  [Chain!Next]_(Chain!chainVars)
  <2>1. PICK t \in Delivered \cup {Unset, Unknown} :
          /\ shown' = [shown EXCEPT ![r] = t]
          /\ IF t # Unset THEN Goto(r, "find_token")
             ELSE Answer(r, IF Op(r) = "logout" THEN 200 ELSE 400)
          /\ family' = IF t \in Requests THEN [family EXCEPT ![r] = family[t]] ELSE family
    BY <1>2 DEF StartWithToken
  <2>2. /\ UNCHANGED <<kind, ledger, call, raced>> /\ pc[r] = "new" /\ Facts(r)
        /\ shown \in [Requests -> Requests \cup {Unset, Unknown}]
    BY <1>0, <1>2 DEF StartWithToken, Requested, TypeOK
  <2>3. \E place \in {"answered", "find_token"} : \E code : Moves(r, place, code)
    BY <1>0, <2>1, AnswerMoves, GotoMoves DEF Places, Running, AtDatabase
  <2>4. r \notin Claimants /\ ~HasRow(r)
    BY <2>2 DEF Claimants, Facts, OwnRow
  <2>5. \A q \in Requests \ {r} : shown'[q] = shown[q]
    BY <2>1, <2>2
  <2>6. Claims' = Claims
    BY <2>2, <2>3, <2>4, <2>5, ClaimsEnd DEF Claiming
  <2>7. UNCHANGED <<Issued, Unspent, Forked>>
    BY <2>2, SameTokens, SameForks
  <2>8. CASE t \in Requests
    <3>1. r \notin Issued /\ (\A c \in Claims : c[1] # r) /\ family[t] \in Requests
      BY <1>0, <2>4, <2>8, ClaimsOf DEF Issued, TypeOK
    <3>2. Chain!Join(r, family[t])
      BY <2>1, <2>6, <2>7, <2>8, <3>1 DEF Chain!Join
    <3> QED
      BY <3>1, <3>2 DEF Chain!Next
  <2>9. CASE t \notin Requests
    BY <2>1, <2>6, <2>7, <2>9 DEF Chain!chainVars
  <2> QED
    BY <2>8, <2>9
<1>3. ASSUME NEW r \in Requests, FindEmail(r) \/ Verify(r) \/ Audit(r) \/ AuditError(r) \/ Crash(r)
      PROVE  [Chain!Next]_(Chain!chainVars)
  <2>1. UNCHANGED <<kind, ledger, call, shown, family, raced>> /\ Facts(r)
    BY <1>0, <1>3 DEF FindEmail, Verify, Audit, AuditError, Crash, Requested
  <2>2. \E place, code : /\ Moves(r, place, code)
                         /\ place \notin Claiming \/ Op(r) # "refresh"
    <3>1. CASE FindEmail(r)
      BY <1>0, <3>1, AnswerMoves, GotoMoves DEF FindEmail, Places, Running, Claiming
    <3>2. CASE Verify(r)
      BY <1>0, <2>1, <3>2, GotoMoves
      DEF Verify, Places, Running, AtDatabase, AtAudit, Claiming, Facts, Course
    <3>3. CASE Audit(r) \/ AuditError(r)
      BY <1>0, <3>3, AnswerMoves, GotoMoves
      DEF Audit, AuditError, AfterAudit, Places, Running, AtDatabase, Claiming
    <3>4. CASE Crash(r)
      BY <1>0, <3>4, GotoMoves DEF Crash, Places, Claiming
    <3> QED
      BY <1>3, <3>1, <3>2, <3>3, <3>4
  <2> QED
    BY <2>1, <2>2, IdleStep
<1>4. ASSUME NEW r \in Requests, FindToken(r)
      PROVE  [Chain!Next]_(Chain!chainVars)
  BY <1>4, ClaimingStep
<1>5. ASSUME NEW r \in Requests, FindUser(r)
      PROVE  [Chain!Next]_(Chain!chainVars)
  <2>1. UNCHANGED <<kind, ledger, call, shown, family, raced>> /\ pc[r] \in Claiming
    BY <1>5 DEF FindUser, Claiming
  <2>2. \E place, code : Moves(r, place, code)
    BY <1>0, <1>5, AnswerMoves, GotoMoves
    DEF FindUser, AfterFindUser, Places, Running, AtDatabase
  <2> QED
    BY <2>1, <2>2, IdleStep
<1>6. ASSUME NEW r \in Requests, Revoke(r)
      PROVE  [Chain!Next]_(Chain!chainVars)
  <2>1. UNCHANGED <<kind, call, shown, family, raced>> /\ RevokeRow(shown[r])
    BY <1>6 DEF Revoke
  <2>2. \E place, code : /\ Moves(r, place, code)
                         /\ place \notin Claiming \/ pc[r] \in Claiming
    BY <1>0, <1>6, AnswerMoves, GotoMoves
    DEF Revoke, AfterRevoke, Places, Running, AtDatabase, AtAudit, Claiming
  <2> QED
    BY <2>1, <2>2, SpendingStep
<1>7. ASSUME NEW r \in Requests, Store(r)
      PROVE  [Chain!Next]_(Chain!chainVars)
  <2>1. UNCHANGED <<kind, call, shown, family, raced>> /\ pc[r] = "store" /\ CreateRow(r)
    BY <1>7 DEF Store
  <2>2. Moves(r, "audit", status[r])
    BY <1>0, <1>7, GotoMoves DEF Store, AfterStore, Places, Running, AtAudit
  <2> QED
    BY <2>1, <2>2, IssuingStep DEF Claiming
<1>8. ASSUME NEW r \in Requests, DatabaseError(r)
      PROVE  [Chain!Next]_(Chain!chainVars)
  <2>1. UNCHANGED <<kind, call, shown, family, raced>>
    BY <1>8 DEF DatabaseError
  <2>2. \E code : Moves(r, "answered", code)
    BY <1>0, <1>8, AnswerMoves DEF DatabaseError
  <2>3. \/ UNCHANGED ledger
        \/ pc[r] = "store" /\ CreateRow(r)
        \/ RevokeRow(shown[r])
    BY <1>8 DEF DatabaseError
  <2> QED
    BY <2>1, <2>2, <2>3, IdleStep, IssuingStep, SpendingStep DEF Claiming
<1>9. ASSUME NEW t \in Requests, TokenExpires(t)
      PROVE  [Chain!Next]_(Chain!chainVars)
  <2>1. UNCHANGED <<kind, call, pc, shown, family, raced>>
    BY <1>9 DEF TokenExpires
  <2>2. \A q \in Requests : (HasRow(q)' <=> HasRow(q)) /\ (Live(q)' <=> Live(q))
    BY <1>0, <1>9, TokenExpiresEffect DEF HasRow, Live, RowsKept
  <2>3. UNCHANGED <<Issued, Unspent, Forked, Claims>>
    BY <2>1, <2>2 DEF Issued, Unspent, Forked, Claims, Claimants, Op
  <2> QED
    BY <2>1, <2>3 DEF Chain!chainVars
<1>10. CASE (\E u \in Users : Deactivate(u)) \/ UNCHANGED vars
  <2>1. UNCHANGED <<kind, ledger, call, pc, shown, family, raced>>
    BY <1>10 DEF Deactivate, vars
  <2>2. Claims' = Claims /\ Forked' = Forked
    BY <2>1 DEF Claims, Claimants, Op, Forked
  <2> QED
    BY <2>1, <2>2, SameTokens DEF Chain!chainVars
<1> QED
  BY <1>1, <1>2, <1>3, <1>4, <1>5, <1>6, <1>7, <1>8, <1>9, <1>10 DEF Next, Step, Done

(* The flows, with their awaits, failures and deaths of the process,       *)
(* implement the rotation of RotationChain.                                *)
THEOREM RotationImplemented == Spec => ImplementsRotation
<1>1. IInv /\ [Next]_vars => [Chain!Next]_(Chain!chainVars)
  BY ChainStep
<1> QED
  BY <1>1, ChainInit, Invariance, PTL DEF Spec, ImplementsRotation, Chain!Spec
=============================================================================
