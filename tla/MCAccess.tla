------------------------------ MODULE MCAccess ------------------------------
(***************************************************************************)
(* An administrator u1 by a stored role, a user u2 of the group /team, a   *)
(* user u3 not stored yet, a personal token of u1, a token of an           *)
(* administrator, and one that was revoked.                                *)
(***************************************************************************)
EXTENDS Access, TLC

Roles ==
  ("admin" :> [position |-> 0, manage |-> TRUE, group |-> ""]) @@
  ("team" :> [position |-> 1, manage |-> FALSE, group |-> "/team"])

Users ==
  ("u1" :> [roles |-> {"admin"}, human |-> TRUE]) @@
  ("u2" :> [roles |-> {}, human |-> TRUE]) @@
  [b \in {"b1", "b2"} |-> [roles |-> {}, human |-> FALSE]]

Token(owner, personal, usable) ==
  [owner |-> owner, personal |-> personal, usable |-> usable, manage |-> ~personal]

Tokens ==
  ("t1" :> Token("u1", TRUE, TRUE)) @@ ("t2" :> Token("b1", FALSE, TRUE)) @@
  ("t3" :> Token("b2", FALSE, FALSE))

Session(u, gs) == [session |-> TRUE, id |-> u, groups |-> gs]

By(t) == [session |-> FALSE, id |-> t]

U1 == Session("u1", {})
U2 == Session("u2", {"/team"})

Patch(p, m, g) == [position |-> p, manage |-> m, group |-> g]

Body(kind, w) == [kind |-> kind, who |-> w]

Every ==
  {Body("auth", U1), Body("auth", U2), Body("auth", Session("u3", {"/team"})), Body("createRole", By("t2"))}
  \cup {Body("patchUsers", w) @@
          [grants |-> ("u1" :> {}) @@ ("u2" :> {"admin", "team"})] : w \in {U1, By("t1")}}
  \cup {Body("patchUsers", U1) @@ [grants |-> g] :
          g \in {"u3" :> {"team"}, "u2" :> {"admin"}, "u1" :> {"admin", "team"}}}
  \cup {Body("patchRoles", By("t2")) @@ [patches |-> p] :
          p \in {("admin" :> Patch(1, Absent, Absent)) @@ ("team" :> Patch(0, TRUE, Absent)),
                 "team" :> Patch(0, Absent, "")}}
  \cup {Body("deleteRole", U2) @@ [role |-> "admin"], Body("deleteRole", U1) @@ [role |-> "team"]}
  \cup {Body("createAdminToken", By("t1")) @@ [short |-> s, manage |-> TRUE] : s \in BOOLEAN}
  \cup {Body("deleteAdminToken", U1) @@ [token |-> "t2"],
        Body("deleteAdminToken", By("t3")) @@ [token |-> "t1"]}
  \cup {Body("createPersonalToken", U2) @@ [short |-> FALSE],
        Body("createPersonalToken", By("t2")) @@ [short |-> FALSE],
        Body("deletePersonalToken", U1) @@ [token |-> "t1"]}

Alike == Permutations(Requests)
=============================================================================
