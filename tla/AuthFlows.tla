------------------------------ MODULE AuthFlows ------------------------------
(***************************************************************************)
(* Login, refresh and logout (src/security/login, tokens, logout) as       *)
(* concurrent requests over one ledger of refresh tokens.  A refresh spends *)
(* the token it is shown and issues its successor; checking, revoking and  *)
(* storing are separate awaits, so another request, a failure or the death *)
(* of the process may come between any two of them.                        *)
(*                                                                         *)
(* A request issues one token at most, so a token is named after the       *)
(* request that issues it.  Its hash names its row: SHA-256 is taken to be *)
(* one-to-one.                                                             *)
(*                                                                         *)
(* The repositories that ship are stubs (kind "default"): they answer with *)
(* made-up records and store nothing.  A "custom" repository is what their *)
(* methods are named and commented for, and what the SQL migration has     *)
(* tables for: one that persists.                                          *)
(***************************************************************************)
EXTENDS Naturals, FiniteSets

CONSTANTS
  Requests,         \* requests, each served once
  Calls,            \* the calls each request may carry (see Call)
  Users,            \* e-mails, each standing for its account too
  Passwords,
  PasswordHashes,   \* the stored hash of each account
  SeededAccounts,   \* the state of each account at start
  RepositoryKinds,  \* the kinds of repositories a run considers
  NotFoundAddress,  \* the e-mail the default repository does not find
  Unset,            \* a field missing from the payload, a missing token
  Unknown,          \* a token no request issued
  NoRow,            \* null
  Faults            \* the faults a run lets happen

FaultKinds == {"crash", "db_error", "audit_error"}
AccountStates == {"active", "inactive", "absent"}

Call == [op : {"login", "refresh", "logout"}, email : Users \cup {Unset},
         password : Passwords \cup {Unset}, body : BOOLEAN]

Row == [user : Users, revoked : BOOLEAN, expired : BOOLEAN]

(* hashPassword and verifyPassword.  The derivation is external: two       *)
(* hashes made by it agree when their passwords do.                        *)
HashFormats == {"pbkdf2v1", "other"}
HashPassword(p) == [format |-> "pbkdf2v1", of |-> p]
VerifyPassword(p, hash) == hash.format = "pbkdf2v1" /\ hash.of = p

(* The hash in every record findByEmail of the default repository answers. *)
PlaceholderHash == [format |-> "other", of |-> Unset]

ASSUME CallsAssumption == Calls \in [Requests -> SUBSET Call]
ASSUME AccountsAssumption ==
  /\ SeededAccounts \in [Users -> AccountStates]
  /\ PasswordHashes \in [Users -> [format : HashFormats, of : Passwords]]
ASSUME NoValuesAssumption ==
  NoRow \notin Row /\ Unset \notin Requests /\ Unknown \notin Requests
ASSUME KindsAssumption == RepositoryKinds \subseteq {"custom", "default"}

VARIABLES
  kind,       \* the repositories in use
  accounts,   \* the state of each account
  ledger,     \* the rows of the refresh_tokens table, by token
  pc,         \* where each request is
  call,       \* what each request asked
  shown,      \* the token shown to a refresh or logout
  status,     \* what each request was answered, 0 before
  trail,      \* the audit action recorded for each request
  family,     \* history: the login a request, and its token, descends from
  raced,      \* history: families with a token two refreshes held at once
  tooLate,    \* history: requests whose session had ended when they came
  faulted     \* history: requests a fault hit

vars == <<kind, accounts, ledger, pc, call, shown, status, trail, family,
          raced, tooLate, faulted>>

NoAudit == "none"
AuditActions == {"USER_LOGIN_SUCCESS", "USER_LOGIN_FAILURE_BAD_CREDENTIAL",
                 "TOKEN_ROTATION_SUCCESS", "SECURITY_REPLAY_ATTACK_DETECTED",
                 "USER_LOGOUT_SUCCESS"}
AtDatabase == {"find_email", "find_token", "find_user", "store", "revoke",
               "revoke_expired", "revoke_replay"}
AtAudit == {"audit", "audit_bad", "audit_replay"}
Running == {"verify"} \cup AtDatabase \cup AtAudit
Places == {"new", "answered", "lost"} \cup Running

Init ==
  /\ kind \in RepositoryKinds
  /\ accounts = SeededAccounts
  /\ ledger = [t \in Requests |-> NoRow]
  /\ pc = [r \in Requests |-> "new"]
  /\ call \in {f \in [Requests -> UNION {Calls[r] : r \in Requests}] :
                 \A r \in Requests : f[r] \in Calls[r]}
  /\ shown = [r \in Requests |-> Unset]
  /\ status = [r \in Requests |-> 0]
  /\ trail = [r \in Requests |-> NoAudit]
  /\ family = [r \in Requests |-> r]
  /\ raced = {}
  /\ tooLate = {}
  /\ faulted = {}

Goto(r, place) == pc' = [pc EXCEPT ![r] = place] /\ UNCHANGED status

Answer(r, code) ==
  /\ pc' = [pc EXCEPT ![r] = "answered"]
  /\ status' = [status EXCEPT ![r] = code]

Op(r) == call[r].op

(* Tokens some client was handed: the answers of logins and refreshes.     *)
Delivered == {t \in Requests : Op(t) # "logout" /\ status[t] = 200}

HasRow(t) == t \in Requests /\ ledger[t] # NoRow
Live(t) == HasRow(t) /\ ~ledger[t].revoked

(***************************************************************************)
(* The repositories                                                        *)
(***************************************************************************)

(* findByEmail: the default one finds an active account for every address  *)
(* but one.  findById: the default one finds one for every id the flows    *)
(* give it.                                                                *)
MadeUpAccount(user) == IF user = NotFoundAddress THEN "absent" ELSE "active"

AccountOfAnyState(user) ==
  IF kind = "default" THEN MadeUpAccount(user)
  ELSE IF accounts[user] = "inactive" THEN "active" ELSE accounts[user]
AccountOf(user) == IF kind = "default" THEN MadeUpAccount(user) ELSE accounts[user]

HashOf(user) == IF kind = "default" THEN PlaceholderHash ELSE PasswordHashes[user]

(* findByHash: the default one finds a live token under every hash.        *)
FoundToken(t) ==
  IF kind = "default"
  THEN [found |-> TRUE, revoked |-> FALSE, expired |-> FALSE]
  ELSE [found |-> HasRow(t), revoked |-> HasRow(t) /\ ledger[t].revoked,
        expired |-> HasRow(t) /\ ledger[t].expired]

(* revoke(hash) and create(data).                                          *)
RevokeRow(t) ==
  ledger' = IF HasRow(t) THEN [ledger EXCEPT ![t].revoked = TRUE] ELSE ledger

OwnerOf(r) == IF Op(r) = "login" THEN call[r].email ELSE ledger[shown[r]].user

CreateRowOfPayload(r) ==
  ledger' = IF kind = "default" THEN ledger
            ELSE [ledger EXCEPT ![r] = [user |-> call[r].email, revoked |-> FALSE,
                                        expired |-> FALSE]]
CreateRow(r) ==
  ledger' = IF kind = "default" THEN ledger
            ELSE [ledger EXCEPT ![r] = [user |-> OwnerOf(r), revoked |-> FALSE,
                                        expired |-> FALSE]]

(***************************************************************************)
(* Requests                                                                *)
(***************************************************************************)

(* What a request may do no more when it comes (history): use a token that *)
(* was revoked or has expired, or act for a deactivated account.           *)
Ended(r, t) ==
  /\ kind = "custom"
  /\ IF Op(r) = "login" THEN accounts[call[r].email] # "active"
     ELSE HasRow(t) /\ \/ ledger[t].revoked \/ ledger[t].expired
                       \/ accounts[ledger[t].user] # "active"

Incomplete(c) == c.email = Unset \/ c.password = Unset

(* Where a login without a field, or without any body, ends: its body is   *)
(* taken apart outside of any catch, and the framework answers 500.        *)
Refused(c) == IF c.body THEN 400 ELSE 500

(* The checks of each handler before its first await.  A client shows any  *)
(* token that was handed out, the last one or an older one.                *)
StartLogin(r) ==
  /\ pc[r] = "new" /\ Op(r) = "login"
  /\ IF Incomplete(call[r]) THEN Answer(r, Refused(call[r])) ELSE Goto(r, "find_email")
  /\ tooLate' = IF ~Incomplete(call[r]) /\ Ended(r, Unset)
                THEN tooLate \cup {r} ELSE tooLate
  /\ UNCHANGED <<kind, accounts, ledger, call, shown, trail, family, raced, faulted>>

StartWithToken(r) ==
  /\ pc[r] = "new" /\ Op(r) # "login"
  /\ \E t \in Delivered \cup {Unset, Unknown} :
       /\ shown' = [shown EXCEPT ![r] = t]
       /\ IF t # Unset THEN Goto(r, "find_token")
          ELSE Answer(r, IF Op(r) = "logout" THEN 200 ELSE 400)
       /\ family' = IF t \in Requests THEN [family EXCEPT ![r] = family[t]] ELSE family
       /\ tooLate' = IF Ended(r, t) THEN tooLate \cup {r} ELSE tooLate
  /\ UNCHANGED <<kind, accounts, ledger, call, trail, raced, faulted>>

(* LoginService.authenticate: userRepo.findByEmail, then the active flag.  *)
FindEmail(r) ==
  /\ pc[r] = "find_email"
  /\ IF AccountOf(call[r].email) = "active" THEN Goto(r, "verify") ELSE Answer(r, 401)
  /\ UNCHANGED <<kind, accounts, ledger, call, shown, trail, family, raced, tooLate, faulted>>

(* PasswordUtility.verifyPassword, then the new pair of tokens.            *)
Verify(r) ==
  /\ pc[r] = "verify"
  /\ IF VerifyPassword(call[r].password, HashOf(call[r].email))
     THEN Goto(r, "store") ELSE Goto(r, "audit_bad")
  /\ UNCHANGED <<kind, accounts, ledger, call, shown, trail, family, raced, tooLate, faulted>>

(* tokenRepo.findByHash, then the checks of the row.                       *)
Verdict(r) ==
  LET row == FoundToken(shown[r])
  IN  CASE Op(r) = "logout" -> IF row.found THEN "revoke" ELSE "answered"
        [] Op(r) = "refresh" /\ ~row.found -> "answered"
        [] Op(r) = "refresh" /\ row.found /\ row.revoked -> "audit_replay"
        [] Op(r) = "refresh" /\ row.found /\ ~row.revoked /\ row.expired -> "revoke_expired"
        [] OTHER -> "find_user"

HoldsToken(q, t) ==
  Op(q) = "refresh" /\ shown[q] = t /\ pc[q] \in {"find_user", "revoke"}

FindToken(r) ==
  LET next == Verdict(r)
  IN  /\ pc[r] = "find_token"
      /\ IF next = "answered" THEN Answer(r, IF Op(r) = "logout" THEN 200 ELSE 401)
                             ELSE Goto(r, next)
      /\ raced' = IF next = "find_user" /\ \E q \in Requests : HoldsToken(q, shown[r])
                  THEN raced \cup {family[r]} ELSE raced
      /\ UNCHANGED <<kind, accounts, ledger, call, shown, trail, family, tooLate, faulted>>

(* userRepo.findById, then the active flag.                                *)
AfterFindUserUnrevoked == "store"
AfterFindUser == "revoke"

FindUser(r) ==
  /\ pc[r] = "find_user"
  /\ IF kind = "default" \/ AccountOf(OwnerOf(r)) = "active"
     THEN Goto(r, AfterFindUser) ELSE Answer(r, 401)
  /\ UNCHANGED <<kind, accounts, ledger, call, shown, trail, family, raced, tooLate, faulted>>

(* tokenRepo.revoke of the token shown: the spent one, the one logged out, *)
(* one that has expired, or one that had been revoked before.              *)
AfterRevokeUnstored(r) == "audit"
AfterRevoke(r) == IF Op(r) = "refresh" THEN "store" ELSE "audit"

Revoke(r) ==
  /\ \/ pc[r] = "revoke" /\ Goto(r, AfterRevoke(r))
     \/ pc[r] \in {"revoke_expired", "revoke_replay"} /\ Answer(r, 401)
  /\ RevokeRow(shown[r])
  /\ UNCHANGED <<kind, accounts, call, shown, trail, family, raced, tooLate, faulted>>

(* tokenRepo.create of the new token.                                      *)
AfterStoreCheckedAgain(r) ==
  IF AccountOf(OwnerOf(r)) = "active" THEN Goto(r, "audit") ELSE Answer(r, 401)
AfterStore(r) == Goto(r, "audit")

Store(r) ==
  /\ pc[r] = "store"
  /\ CreateRow(r)
  /\ AfterStore(r)
  /\ UNCHANGED <<kind, accounts, call, shown, trail, family, raced, tooLate, faulted>>

(* auditRepo.create, then what follows it.                                 *)
ActionOf(r) ==
  CASE pc[r] = "audit_bad" -> "USER_LOGIN_FAILURE_BAD_CREDENTIAL"
    [] pc[r] = "audit_replay" -> "SECURITY_REPLAY_ATTACK_DETECTED"
    [] OTHER -> [login |-> "USER_LOGIN_SUCCESS", refresh |-> "TOKEN_ROTATION_SUCCESS",
                 logout |-> "USER_LOGOUT_SUCCESS"][Op(r)]

AfterAudit(r) ==
  \/ pc[r] = "audit" /\ Answer(r, 200)
  \/ pc[r] = "audit_bad" /\ Answer(r, 401)
  \/ pc[r] = "audit_replay" /\ Goto(r, "revoke_replay")

Audit(r) ==
  /\ AfterAudit(r)
  /\ trail' = [trail EXCEPT ![r] = ActionOf(r)]
  /\ UNCHANGED <<kind, accounts, ledger, call, shown, family, raced, tooLate, faulted>>

(***************************************************************************)
(* The world and the faults                                                *)
(***************************************************************************)

(* Another request deactivates an account.                                 *)
Deactivate(u) ==
  /\ accounts[u] = "active"
  /\ accounts' = [accounts EXCEPT ![u] = "inactive"]
  /\ UNCHANGED <<kind, ledger, pc, call, shown, status, trail, family, raced, tooLate, faulted>>

(* The seven days of a token are over: isExpired answers true from now on. *)
TokenExpires(t) ==
  /\ ledger[t] # NoRow /\ ~ledger[t].expired
  /\ ledger' = [ledger EXCEPT ![t].expired = TRUE]
  /\ UNCHANGED <<kind, accounts, pc, call, shown, status, trail, family, raced, tooLate, faulted>>

(* A persisting repository throws; the error may hide a write that took    *)
(* effect.  The default ones have nothing that could fail.                *)
DatabaseError(r) ==
  /\ "db_error" \in Faults /\ kind = "custom"
  /\ pc[r] \in AtDatabase
  /\ Answer(r, IF Op(r) = "login" THEN 401 ELSE 500)
  /\ \/ UNCHANGED ledger
     \/ pc[r] = "store" /\ CreateRow(r)
     \/ pc[r] \in {"revoke", "revoke_expired", "revoke_replay"} /\ RevokeRow(shown[r])
  /\ faulted' = faulted \cup {r}
  /\ UNCHANGED <<kind, accounts, call, shown, trail, family, raced, tooLate>>

(* AuditLogRepository.create catches every error and answers null.         *)
AuditError(r) ==
  /\ "audit_error" \in Faults
  /\ AfterAudit(r)
  /\ faulted' = faulted \cup {r}
  /\ UNCHANGED <<kind, accounts, ledger, call, shown, trail, family, raced, tooLate>>

(* The process serving r dies between two awaits.                          *)
Crash(r) ==
  /\ "crash" \in Faults
  /\ pc[r] \in Running
  /\ Goto(r, "lost")
  /\ faulted' = faulted \cup {r}
  /\ UNCHANGED <<kind, accounts, ledger, call, shown, trail, family, raced, tooLate>>

Done == (\A r \in Requests : pc[r] \in {"answered", "lost"}) /\ UNCHANGED vars

Step(r) ==
  \/ FindEmail(r) \/ Verify(r) \/ FindToken(r) \/ FindUser(r)
  \/ Revoke(r) \/ Store(r) \/ Audit(r)

Next ==
  \/ \E r \in Requests :
       \/ StartLogin(r)
       \/ StartWithToken(r)
       \/ Step(r)
       \/ DatabaseError(r)
       \/ AuditError(r)
       \/ Crash(r)
  \/ \E u \in Users : Deactivate(u)
  \/ \E t \in Requests : TokenExpires(t)
  \/ Done

Spec == Init /\ [][Next]_vars

(***************************************************************************)
(* Properties                                                              *)
(***************************************************************************)
TypeOK ==
  /\ kind \in {"custom", "default"}
  /\ accounts \in [Users -> AccountStates]
  /\ ledger \in [Requests -> Row \cup {NoRow}]
  /\ pc \in [Requests -> Places]
  /\ call \in [Requests -> Call]
  /\ shown \in [Requests -> Requests \cup {Unset, Unknown}]
  /\ status \in [Requests -> {0, 200, 400, 401, 500}]
  /\ trail \in [Requests -> AuditActions \cup {NoAudit}]
  /\ family \in [Requests -> Requests]
  /\ raced \subseteq Requests
  /\ tooLate \subseteq Requests
  /\ faulted \subseteq Requests

LiveTokens(f) == {t \in Requests : family[t] = f /\ Live(t)}

(* Rotation keeps one session one session: among the tokens that descend   *)
(* from one login at most one is live at any moment, whatever fails,       *)
(* unless two refreshes both passed the check of one token before either   *)
(* revoked it.                                                             *)
OneLivePerSession == \A f \in Requests \ raced : Cardinality(LiveTokens(f)) <= 1

(* A session that was opened has a live token, or some request ended it or *)
(* is between revoking the old token and storing the new: a logout, a      *)
(* failed or interrupted request, or one that met an expired token.  A     *)
(* token shown again is not among the causes, although the comments of     *)
(* refresh.controller.ts (lines 18, 37, 42 and 44) want it to end the      *)
(* session: ReplayEndsFamily states what they say.                         *)
LostSessionHasCause == \A f \in Requests :
  family[f] = f /\ HasRow(f) /\ LiveTokens(f) = {} =>
    \E r \in Requests :
      /\ family[r] = f
      /\ \/ Op(r) = "logout" /\ pc[r] \in {"audit", "answered"}
         \/ Op(r) = "refresh" /\ pc[r] = "store"
         \/ Op(r) # "login" /\ (pc[r] = "lost" \/ status[r] = 500)
         \/ HasRow(r) /\ ledger[r].expired

(* "Replay Attack Detected: An old token was resubmitted.  Purge all user  *)
(* tokens immediately." and "Wipe entire session family trail"             *)
(* (refresh.controller.ts lines 37 and 44): when the answer to a token     *)
(* that was shown again is sent, and no other request of its session is    *)
(* under way, none of its tokens is live any more.                         *)
ReplayEndsFamily ==
  [][\A r \in Requests :
       /\ pc[r] = "revoke_replay" /\ pc'[r] = "answered"
       /\ \A q \in Requests \ {r} : family[q] = family[r] => pc[q] \notin Running
       => LiveTokens(family[r])' = {}]_vars

(* Once a token has been revoked or has expired, or its account has been   *)
(* deactivated, no request that comes later gets tokens out of it: what    *)
(* outlives a logout was already past its check.                           *)
EndedMeansEnded == \A r \in tooLate :
  ~HasRow(r) /\ (Op(r) # "logout" => status[r] # 200)

(* A live token that no client was ever handed is about to be, or a fault  *)
(* hit the request that stored it.                                         *)
OrphanHasCause == \A r \in Requests :
  Live(r) /\ r \notin Delivered => pc[r] = "audit" \/ r \in faulted

(* The audit trail tells what happened to the ledger: a recorded login or  *)
(* rotation stored its token, a recorded rotation or logout revoked the    *)
(* one it was shown, a recorded replay was of a revoked token; and what    *)
(* was answered with success is recorded unless the audit failed.          *)
AuditMatchesLedger == \A r \in Requests :
  /\ kind = "custom" =>
       /\ trail[r] \in {"USER_LOGIN_SUCCESS", "TOKEN_ROTATION_SUCCESS"} => HasRow(r)
       /\ trail[r] \in {"TOKEN_ROTATION_SUCCESS", "USER_LOGOUT_SUCCESS",
                        "SECURITY_REPLAY_ATTACK_DETECTED"} =>
            HasRow(shown[r]) /\ ~Live(shown[r])
  /\ status[r] = 200 /\ (Op(r) = "logout" => HasRow(shown[r])) =>
       trail[r] # NoAudit \/ r \in faulted

(* What the ledger and the requests under way are to a client: tokens, and *)
(* refreshes that have passed the check of one and may still replace it.   *)
Issued == {t \in Requests : HasRow(t)}
Unspent == {t \in Requests : Live(t)}
Claimants == {r \in Requests : /\ kind = "custom" /\ Op(r) = "refresh"
                               /\ pc[r] \in {"find_user", "revoke", "store"}}
Claims == {<<r, shown[r]>> : r \in Claimants}
Forked == {f \in raced : kind = "custom"}

Chain == INSTANCE RotationChain WITH
  Tokens <- Requests, session <- family, issued <- Issued, live <- Unspent,
  claims <- Claims, forked <- Forked

(* Check, revocation and storage, with the awaits between them, failures   *)
(* that hide what took effect and deaths of the process, rotate the tokens *)
(* of a session as if each of them were handed on in one piece: a token is *)
(* spent before its successor is live, no other one of its session is live *)
(* then, and what is over does not begin again.                            *)
ImplementsRotation == Chain!Spec
=============================================================================
