------------------------------ MODULE MCProxy ------------------------------
(***************************************************************************)
(* Instance of ProxyCalls: the methods and exclusions of hook.project, and *)
(* a method without arguments as hook.misc has                             *)
(* (apps/server/src/utils/hook-wrapper.ts, lines 136-162).                 *)
(***************************************************************************)
EXTENDS ProxyCalls, TLC

ProjectMethods == {"upsert", "delete", "getSecrets", "fetchOrganizations"}

WithoutId == {"fetchOrganizations"}

ProjectExcludes ==
  [m \in ProjectMethods |->
     CASE m = "upsert"     -> {"delete"}
       [] m = "delete"     -> {"upsert", "delete"}
       [] m = "getSecrets" -> {"delete"}
       [] OTHER            -> {}]

CallSymmetry == Permutations(Calls)
=============================================================================
