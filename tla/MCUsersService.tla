---------------------------- MODULE MCUsersService ----------------------------
(* A small instance of UsersService: one seeded account u1, also reachable *)
(* by the spelling U1, room for one new account u2, an ADMIN without a     *)
(* row, an ADMIN who is u1 and the plain user u1.                          *)
EXTENDS UsersService, TLC

CONSTANTS u1, U1, u2, k1, k2, admin, root, dev, e1, e2, e3, odd, r1, r2, r3

MCProfileKey == (u1 :> k1) @@ (U1 :> k1) @@ (u2 :> k2)
MCOperatorId == (admin :> Unset) @@ (root :> u1) @@ (dev :> u1)
MCSeededTable ==
  (u1 :> [id |-> u1, email |-> e1, active |-> TRUE]) @@ (U1 :> NoUser) @@ (u2 :> NoUser)

Plain(op, id, operator) ==
  [op |-> op, id |-> id, operator |-> operator, email |-> Unset,
   password |-> Unset, active |-> Unset, role |-> Unset, page |-> Unset,
   limit |-> Unset, sortOrder |-> Unset]
Create(email, length, role) ==
  [Plain("create", u2, admin) EXCEPT !.email = email, !.password = length, !.role = role]
List(page, limit) ==
  [Plain("list", u1, admin) EXCEPT !.page = page, !.limit = limit]
Update(operator, email, active) ==
  [Plain("update", u1, operator) EXCEPT !.email = email, !.active = active]

(* One request reads, or is refused at once; one writes; one does either.  *)
(* The bounds of the payload checks are met and missed by one.             *)
Reads == {Plain("get", u1, admin), Plain("get", U1, admin),
          Plain("get", u2, admin)}
Writes == {Plain("delete", u1, admin), Update(dev, e2, Unset),
           Update(admin, Unset, TRUE)}
Refused ==
  {Plain("get", u2, dev), Plain("delete", u1, root), Plain("delete", u1, dev),
   [Update(dev, e2, Unset) EXCEPT !.role = "DEVELOPER"],
   [Update(root, e2, Unset) EXCEPT !.role = ""], Update(root, odd, Unset),
   Update(root, Unset, NotBoolean), Plain("list", u1, dev),
   Create(odd, 12, Unset), Create(e2, 11, Unset), Create(e2, 12, "OTHER"),
   Create(e2, Unset, Unset), List(0, Unset), List(NaN, Unset), List(1, 101),
   List(1, 0), [List(1, 1) EXCEPT !.sortOrder = "other"],
   [List(1, 1) EXCEPT !.role = ""]}
Others ==
  {Create(e1, 12, ""), Create(e2, 12, "ADMIN"), List(Unset, Unset), List(2, 100),
   Plain("delete", U1, admin)}

MCCalls == (r1 :> Reads \cup Refused) @@ (r2 :> Writes) @@
           (r3 :> {Plain("get", u1, dev), Plain("delete", u1, admin), Update(admin, Unset, TRUE)}
                  \cup Others)

(* Reads and deletes of one account: nothing activates it again.           *)
MCReadDelete ==
  [r \in Requests |-> {Plain("get", u1, admin), Plain("delete", u1, admin)}]
=============================================================================
