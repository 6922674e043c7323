------------------------------ MODULE Services ------------------------------
(***************************************************************************)
(* What the plugins act upon: the objects of a project, a zone or a        *)
(* cluster that exist on the services (Vault, GitLab, Kubernetes, ...).    *)
(*                                                                         *)
(* An object is a fact <<service, kind, name, detail>>; the services are   *)
(* the set of the facts that hold.  A call is <<plugin, operation, name,   *)
(* detail>>, the request a plugin has sent or is about to send.  A promise *)
(* chain is the call it waits for: what it read is in the name and detail  *)
(* of the calls that follow.                                               *)
(***************************************************************************)
EXTENDS Naturals, Sequences, FiniteSets

CONSTANTS
  Envs,          \* names of environments
  ExternalEnvs,  \* those on a cluster the console does not reach
  Repos,         \* internal names of repositories
  Users,         \* who may be in a project
  Owner,         \* its owner
  Zones,         \* slugs of zones
  ZoneOf         \* the zone of the cluster of an environment

ASSUME ServicesAssumption ==
  /\ ExternalEnvs \subseteq Envs
  /\ Owner \in Users
  /\ ZoneOf \in [Envs -> Zones]

\* What a hook is given (packages/hooks/src/hooks/hook-project.ts): the
\* project with its resources, and in opts the flags of its plugins' store
\* and of the configuration that the plugins test.
Payload ==
  [envs : SUBSET Envs, repos : SUBSET Repos, mirrored : SUBSET Repos,
   users : SUBSET Users, opts : SUBSET STRING]

\* The thing of this kind and name, whatever its detail.
Named(s, p, k, n) == {f \in s : f[1] = p /\ f[2] = k /\ f[3] = n}

Has(s, p, k, n) == Named(s, p, k, n) # {}

Put(s, p, k, n, d) == (s \ Named(s, p, k, n)) \cup {<<p, k, n, d>>}

Drop(s, p, k, n) == s \ Named(s, p, k, n)

Detail(s, p, k, n) == (CHOOSE f \in Named(s, p, k, n) : TRUE)[4]

Names(s, p, k) == {f[3] : f \in {g \in s : g[1] = p /\ g[2] = k}}

\* The calls of a loop over a set that awaits each turn: one call, on some
\* element, that remembers what is left.
OneByOne(p, o, todo) ==
  IF todo = {} THEN {}
  ELSE LET n == CHOOSE x \in todo : TRUE IN {<<p, o, n, todo \ {n}>>}

\* The calls of Promise.all over a set.
Together(p, o, names) == {<<p, o, n, "">> : n \in names}

\* In a sequence without repetition, what follows x.
Following(chain, x) ==
  LET i == CHOOSE j \in 1..Len(chain) : chain[j] = x
  IN IF i < Len(chain) THEN {chain[i + 1]} ELSE {}

\* The passwords and tokens a service issues are numbered; this is the last
\* one, 0 before the first.
Latest(s, p, k) == IF Has(s, p, k, "") THEN Detail(s, p, k, "") ELSE 0

\* A plugin has found in Vault a secret that it will keep, though it no longer
\* opens what it is for.  (The memory of the model, not of the code.)
Trusts(p, n) == <<"trusted", p, n, "">>

Issue(s, p, k) == Put(s, p, k, "", Latest(s, p, k) + 1)
=============================================================================
