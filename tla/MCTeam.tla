------------------------------- MODULE MCTeam -------------------------------
(***************************************************************************)
(* Instance of Team: ann owns the project, bob is a member with a role that*)
(* manages roles and one that manages members, cid a member without roles, *)
(* bot a member of type bot, eve known to the identity provider only; adm  *)
(* administers the console.                                                *)
(***************************************************************************)
EXTENDS Team, TLC

CONSTANTS ann, bob, cid, bot, eve, adm, i1, i2, i3

TheRoles == (i1 :> [position |-> 0, permissions |-> {"MANAGE_ROLES"}])
         @@ (i2 :> [position |-> 1, permissions |-> {"MANAGE_MEMBERS"}])

TheTeam == (bob :> {i1, i2}) @@ (cid :> {i2}) @@ (bot :> {})

NoGrant == [u \in Users |-> None]

NoEdit == [i \in Roles |-> None]

Key(p, q) == [position |-> p, permissions |-> q]

TeamAsks ==
  {AddAsk(bob, cid, FALSE), AddAsk(adm, eve, TRUE), AddAsk(ann, eve, FALSE),
   GrantAsk(ann, [NoGrant EXCEPT ![cid] = {i1}, ![eve] = {}]),
   GrantAsk(bob, [NoGrant EXCEPT ![bob] = {i2}]),
   RemoveAsk(ann, cid), RemoveAsk(cid, cid), RemoveAsk(bob, ann)}

RoleAsks ==
  {CreateAsk(bob, i3, {"MANAGE"}), DropAsk(ann, i2), DropAsk(bob, i1),
   EditAsk(ann, [NoEdit EXCEPT ![i1] = Key(1, None), ![i2] = Key(0, None)]),
   EditAsk(bob, [NoEdit EXCEPT ![i1] = Key(1, None),
                               ![i2] = Key(1, {"GUEST"})]),
   EditAsk(bob, [NoEdit EXCEPT ![i2] = Key(None, {"MANAGE_ROLES"})]),
   EditAsk(ann, [NoEdit EXCEPT ![i1] = Key(1, None)])}

OwnerAsks ==
  {UpdateAsk(ann, bob, None, None), UpdateAsk(ann, bot, None, TRUE),
   UpdateAsk(adm, cid, {"MANAGE"}, FALSE), UpdateAsk(bob, bob, None, None),
   UpdateAsk(ann, None, {"MANAGE_ROLES"}, None),
   UpdateAsk(adm, None, None, TRUE)}

AllAsks == TeamAsks \cup RoleAsks \cup OwnerAsks

RequestSymmetry == Permutations(Requests)
=============================================================================
