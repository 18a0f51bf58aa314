----------------------------- MODULE UserDirectory -----------------------------
(***************************************************************************)
(* What the users service promises of the accounts, without its awaits,    *)
(* its cache and its checks.  A call changes one account, once and in one  *)
(* piece, if its caller has the right to and the e-mails stay distinct;    *)
(* it is told of its success only when the change is made, and told the    *)
(* account as that change left it; and each success is on record but for   *)
(* faults.  UsersService implements this.                                  *)
(***************************************************************************)
CONSTANTS
  Requests, Call, Ids, Admins, OperatorId, SeededTable, WellFormedEmails,
  NoUser, Unset

VARIABLES
  accounts,  \* the accounts
  call,      \* what each request asks
  done,      \* the requests whose change is made
  result,    \* what such a request may be told, NoUser once that is lost
  told,      \* what each request was told of its change
  recorded,  \* the requests on record
  faulted    \* the requests a fault hit

dirVars == <<accounts, call, done, result, told, recorded, faulted>>

NoWord == [status |-> 0, user |-> NoUser]

Init ==
  /\ accounts = SeededTable
  /\ call \in [Requests -> Call]
  /\ done = {}
  /\ result = [r \in Requests |-> NoUser]
  /\ told = [r \in Requests |-> NoWord]
  /\ recorded = {}
  /\ faulted = {}

Own(c) == OperatorId[c.operator] = c.id

(* An ADMIN may do anything but delete itself, and an owner may update the *)
(* account except for its role.                                            *)
Rightful(c) ==
  \/ c.operator \in Admins /\ (c.op = "delete" => ~Own(c))
  \/ c.op = "update" /\ c.role = Unset /\ Own(c)

(* Account i after the change.                                             *)
Left(i, c) ==
  CASE c.op = "create" -> [id |-> i, email |-> c.email, active |-> TRUE]
    [] c.op = "update" -> [accounts[i] EXCEPT !.email = IF c.email = Unset THEN @ ELSE c.email,
                                              !.active = IF c.active = Unset THEN @ ELSE c.active]
    [] c.op = "delete" -> [accounts[i] EXCEPT !.active = FALSE]

Change(r, i) ==
  LET c == call[r]
      row == Left(i, c)
  IN  /\ r \notin done
      /\ c.op \in {"create", "update", "delete"} /\ Rightful(c)
      /\ IF c.op = "create" THEN accounts[i] = NoUser
         ELSE i = c.id /\ accounts[i] # NoUser
      /\ row.email \in WellFormedEmails
      /\ \A j \in Ids \ {i} : accounts[j] # NoUser => accounts[j].email # row.email
      /\ accounts' = [accounts EXCEPT ![i] = row]
      /\ done' = done \cup {r}
      /\ \/ result' = [result EXCEPT ![r] = row] /\ UNCHANGED faulted
         \/ faulted' = faulted \cup {r} /\ UNCHANGED result
      /\ UNCHANGED <<call, told, recorded>>

Success(c) == IF c.op = "create" THEN 201 ELSE 200

(* A deletion is confirmed without the account.                            *)
Confirm(r) ==
  LET c == call[r]
  IN  /\ r \in done /\ result[r] # NoUser
      /\ told[r] = NoWord
      /\ told' = [told EXCEPT ![r] =
                    [status |-> Success(c),
                     user |-> IF c.op = "delete" THEN NoUser ELSE result[r]]]
      /\ \/ recorded' = recorded \cup {r} /\ UNCHANGED faulted
         \/ faulted' = faulted \cup {r} /\ UNCHANGED recorded
      /\ UNCHANGED <<accounts, call, done, result>>

Fault(r) ==
  /\ faulted' = faulted \cup {r}
  /\ UNCHANGED <<accounts, call, done, result, told, recorded>>

Next == \E r \in Requests : (\E i \in Ids : Change(r, i)) \/ Confirm(r) \/ Fault(r)

Spec == Init /\ [][Next]_dirVars
=============================================================================
