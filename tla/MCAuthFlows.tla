----------------------------- MODULE MCAuthFlows -----------------------------
(* A small instance of AuthFlows: an active account ann, an account eve    *)
(* that was deactivated and an address nil without an account; a login of  *)
(* ann, two refreshes, and a request of any kind, which may be a second    *)
(* login of ann.                                                           *)
EXTENDS AuthFlows, TLC

CONSTANTS ann, eve, nil, p1, p2, r1, r2, r3, r4

MCSeededAccounts ==
  (ann :> "active") @@ (eve :> "inactive") @@ (nil :> "absent")
MCPasswordHashes == [u \in Users |-> HashPassword(p1)]

Login(email, password) ==
  [op |-> "login", email |-> email, password |-> password, body |-> TRUE]
NoBody == [Login(Unset, Unset) EXCEPT !.body = FALSE]
Refresh == [Login(Unset, Unset) EXCEPT !.op = "refresh"]
Logout == [Login(Unset, Unset) EXCEPT !.op = "logout"]

MCCalls ==
  (r1 :> {Login(ann, p1)}) @@ (r2 :> {Refresh}) @@ (r3 :> {Refresh}) @@
  (r4 :> {Logout, Refresh, Login(ann, p1), Login(ann, p2), Login(eve, p1),
          Login(nil, p1), Login(ann, Unset), NoBody})
=============================================================================
