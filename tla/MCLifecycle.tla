---------------------------- MODULE MCLifecycle ----------------------------
(***************************************************************************)
(* Instances of ProjectLifecycle.                                          *)
(***************************************************************************)
EXTENDS ProjectLifecycle, TLC

CONSTANTS e1, e2, k1, k2

\* Two environments, on two clusters.
TwoEnvs == {e1, e2}

TwoClusters == {k1, k2}

OnItsCluster == (e1 :> k1) @@ (e2 :> k2)

OneEnv == {e1}

OnTheFirst == e1 :> k1

RequestSymmetry == Permutations(Requests)

\* The environments may be exchanged with their clusters.
Exchange == (e1 :> e2) @@ (e2 :> e1) @@ (k1 :> k2) @@ (k2 :> k1)

InstanceSymmetry ==
  RequestSymmetry \cup {p @@ Exchange : p \in RequestSymmetry}

ArchiveOps == {"createEnv", "deleteEnv", "archive"}

AllOps == EnvKinds \cup RepoKinds \cup
          {"update", "lock", "unlock", "replay", "archive", "orgOff", "orgOn"}
=============================================================================
