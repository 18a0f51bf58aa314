------------------------------ MODULE MCSessions ------------------------------
(* A small instance of Sessions: two establishing calls, one validation    *)
(* and one call that validates or revokes, over two spellings of one       *)
(* address, another address, and two user agents.                          *)
EXTENDS Sessions, TLC

CONSTANTS a, A, b, ka, kb, web, cli, r1, r2, r3, r4

MCSessionKey == (a :> ka) @@ (A :> ka) @@ (b :> kb)

Of(op, emails, agents) == [op : {op}, email : emails, agent : agents]

MCCalls ==
  (r1 :> Of("establish", {a}, {web})) @@
  (r2 :> Of("establish", {A, b}, {web, cli})) @@
  (r3 :> Of("validate", {a}, {web, cli})) @@
  (r4 :> Of("validate", {A}, {web}) \cup Of("revoke", {a, b}, {web}))
=============================================================================
