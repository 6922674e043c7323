------------------------ MODULE ProvisioningProofs ------------------------
(***************************************************************************)
(* Proofs about Provisioning, for any plugins, requests, failures and      *)
(* initial facts: provisioning a project again never takes away what its   *)
(* payload keeps.                                                          *)
(*                                                                         *)
(* A request is harmless for a payload when its effect, and those of the   *)
(* requests that follow it, take nothing vital away.  For each plugin, the *)
(* requests its functions send in upsertProject are harmless, and what     *)
(* follows a harmless request is harmless; so all those of a state are.    *)
(***************************************************************************)
EXTENDS Provisioning, WellFoundedInduction, TLAPS

-----------------------------------------------------------------------------
LEMMA LeastNumber ==
  ASSUME NEW T, T \subseteq Nat, T # {}
  PROVE  \E x \in T : \A y \in T : x <= y
<1> DEFINE R == {ss \in Nat \X Nat : ss[1] < ss[2]}
<1>1. OpToRel(<, Nat) = R
  BY Zenon DEF OpToRel
<1>2. IsWellFoundedOn(R, Nat)
  BY ONLY <1>1, NatLessThanWellFounded, Zenon
<1>3. \A a, b \in Nat : <<a, b>> \notin R => b <= a
  OBVIOUS
<1> HIDE DEF R
<1>4. \E x \in T : \A y \in T : ~ (<<y, x>> \in R)
  BY <1>2, WFMin
<1> QED BY <1>3, <1>4

-----------------------------------------------------------------------------
(* What a payload keeps.                                                   *)

\* Vital, of a fact; a namespace is one the console reaches.
IsVital(w, f) ==
  \/ f[1] = "kubernetes" /\ f[2] = "namespace" /\ f[3] \in Kubernetes!Reached(w)
  \/ f[1] = "gitlab" /\ f[2] = "repository" /\ f[3] \in w.repos \cup GitLab!Special
  \/ f[1] = "keycloak" /\ f[2] = "member" /\ f[3] \in w.users
  \/ f[1] = "keycloak" /\ f[2] = "env" /\ f[3] \in w.envs
  \/ f[1] = "argocd" /\ f[2] = "appProject" /\ f[3] \in w.envs
  \/ f[1] = "harbor" /\ f[2] = "project"
  \/ f[1] = "vault" /\ f[2] = "project"
  \/ f[1] = "nexus" /\ f[2] = "repository" /\ f[3] \in Nexus!Wanted(w)
  \/ f[1] = "sonarqube" /\ f[2] = "project" /\ f[3] \in w.repos

Same(f, g) == f[1] = g[1] /\ f[2] = g[2] /\ f[3] = g[3]

Spares(w, s, t) == \A f \in s : IsVital(w, f) => \E g \in t : Same(f, g)

\* A namespace where the console reaches no cluster.
Foreign(f) == f[1] = "kubernetes" /\ f[2] = "namespace" /\ f[3] \in ExternalEnvs

AddsNone(s, t) == \A f \in t : f \in s \/ ~Foreign(f)

\* A request to a service that takes nothing vital away.
Keeps(w, s, t) == AddsNone(s, t) /\ Spares(w, s, t)

LEMMA VitalOfSame ==
  ASSUME NEW w, NEW f, NEW g, IsVital(w, f), Same(f, g)
  PROVE  IsVital(w, g)
BY DEF IsVital, Same

LEMMA SameKeeps ==
  ASSUME NEW w, NEW s
  PROVE  Keeps(w, s, s)
BY DEF Keeps, AddsNone, Spares, Same

LEMMA KeepsTwice ==
  ASSUME NEW w, NEW s, NEW t, NEW u, Keeps(w, s, t), Keeps(w, t, u)
  PROVE  Keeps(w, s, u)
<1>1. ASSUME NEW f \in s, IsVital(w, f) PROVE \E h \in u : Same(f, h)
  <2>1. PICK g \in t : Same(f, g)
    BY <1>1 DEF Spares, Keeps
  <2>2. PICK h \in u : Same(g, h)
    BY <1>1, <2>1, VitalOfSame DEF Spares, Keeps
  <2> QED BY <2>1, <2>2 DEF Same
<1> QED BY <1>1 DEF Spares, Keeps, AddsNone

LEMMA PutKeeps ==
  ASSUME NEW w, NEW s, NEW p, NEW k, NEW n, NEW d, ~Foreign(<<p, k, n>>)
  PROVE  Keeps(w, s, Put(s, p, k, n, d))
<1> DEFINE g == <<p, k, n, d>>
<1>1. g \in Put(s, p, k, n, d) /\ ~Foreign(g)
  BY DEF Put, Foreign
<1>2. ASSUME NEW f \in s PROVE \E h \in Put(s, p, k, n, d) : Same(f, h)
  <2>1. CASE f \in Named(s, p, k, n)
    BY <2>1, <1>1 DEF Named, Same
  <2>2. CASE f \notin Named(s, p, k, n)
    BY <2>2 DEF Put, Same
  <2> QED BY <2>1, <2>2
<1> QED BY <1>1, <1>2 DEF Keeps, Spares, AddsNone, Put

LEMMA PutTwiceKeeps ==
  ASSUME NEW w, NEW s, NEW p, NEW k, NEW n, NEW d, NEW l, NEW o, NEW e,
         ~Foreign(<<p, k, n>>), ~Foreign(<<p, l, o>>)
  PROVE  Keeps(w, s, Put(Put(s, p, k, n, d), p, l, o, e))
<1> DEFINE t == Put(s, p, k, n, d)
<1>1. Keeps(w, s, t)
  BY PutKeeps
<1>2. Keeps(w, t, Put(t, p, l, o, e))
  BY PutKeeps
<1> QED BY <1>1, <1>2, KeepsTwice

LEMMA DropKeeps ==
  ASSUME NEW w, NEW s, NEW p, NEW k, NEW n
  PROVE  /\ AddsNone(s, Drop(s, p, k, n))
         /\ ~IsVital(w, <<p, k, n>>) => Keeps(w, s, Drop(s, p, k, n))
<1>1. AddsNone(s, Drop(s, p, k, n))
  BY DEF AddsNone, Drop
<1>2. ASSUME ~IsVital(w, <<p, k, n>>), NEW f \in s, IsVital(w, f)
      PROVE  f \in Drop(s, p, k, n)
  <2>1. f \notin Named(s, p, k, n)
    BY <1>2, VitalOfSame DEF Named, Same
  <2> QED BY <2>1 DEF Drop
<1> QED BY <1>1, <1>2 DEF Keeps, Spares, Same

-----------------------------------------------------------------------------
(* Requests that take nothing vital away.                                  *)

ResourceOps == {"findResource", "findUnwanted", "patchResource", "createResource",
                "deleteResource"}

\* What is true of any request, whatever the hook.
Formed(c) ==
  /\ c[1] \in Plugins
  /\ c[1] = "kubernetes" /\ c[2] \in {"readNamespace", "createNamespace", "patchNamespace"} =>
       c[3] \notin ExternalEnvs
  /\ c[1] = "vault" /\ c[2] \in ResourceOps => c[3][2] \in {"connection", "approle", "auth"}

\* What a request of the provisioning of w is not.
Harmless(c, w) ==
  /\ c[1] = "kubernetes" /\ c[2] = "deleteNamespace" =>
       c[3] \notin Kubernetes!Reached(w) /\ c[4] \cap Kubernetes!Reached(w) = {}
  /\ c[1] = "vault" => c[2] \notin {"delete", "deleteZone", "destroy"}
  /\ c[1] = "gitlab" =>
       /\ c[2] \in {"findOrganization", "createOrganization", "findGroup"} => c[3] # "deleted"
       /\ c[2] # "deleteGroup"
       /\ c[2] = "removeRepository" => c[3] \notin w.repos \cup GitLab!Special
  /\ c[1] = "argocd" /\ c[2] = "deleteAppProject" =>
       c[3] \notin w.envs /\ c[4] \cap w.envs = {}
  /\ c[1] = "keycloak" =>
       /\ c[2] = "findGroup" => c[3] # "deleted"
       /\ c[2] # "deleteGroup"
       /\ c[2] = "removeMember" => c[3] \notin w.users
       /\ c[2] = "removeEnv" => c[3] \notin w.envs
  /\ c[1] = "harbor" => c[2] \notin {"findProject", "removeRepositories", "deleteProject"}
  /\ c[1] = "nexus" /\ c[2] \in {"delete", "deleteUnwanted"} =>
       c[4] # "repository" \/ c[3] \notin Nexus!Wanted(w)
  /\ c[1] = "sonarqube" /\ c[2] \in {"removeProject", "deleteProject"} => c[3] \notin w.repos

\* A request plugin p sends for hook h and payload w.
Sent(p, h, w, c) == c[1] = p /\ Formed(c) /\ (h = "upsertProject" => Harmless(c, w))

Sends(p, h, w, cs) == \A c \in cs : Sent(p, h, w, c)

LEMMA Chosen == ASSUME NEW S, S # {} PROVE (CHOOSE x \in S : TRUE) \in S
OBVIOUS

-----------------------------------------------------------------------------
(* The kubernetes plugin.                                                  *)

LEMMA KubernetesSent ==
  ASSUME NEW h, NEW w, NEW o, NEW n, NEW d,
         o \in {"readNamespace", "createNamespace", "patchNamespace"} => n \notin ExternalEnvs,
         h = "upsertProject" /\ o = "deleteNamespace" =>
           n \notin Kubernetes!Reached(w) /\ d \cap Kubernetes!Reached(w) = {}
  PROVE  Sent("kubernetes", h, w, <<"kubernetes", o, n, d>>)
BY DEF Sent, Formed, Harmless, Plugins

LEMMA KubernetesPhases ==
  ASSUME NEW h, NEW st, NEW i \in 1..Len(Kubernetes!Phases(h, st))
  PROVE  /\ Kubernetes!Phases(h, st)[i] \in {"ensure", "list", "remove", "removeAll"}
         /\ h = "upsertProject" => Kubernetes!Phases(h, st)[i] # "removeAll"
BY DEF Kubernetes!Phases

LEMMA KubernetesOpening ==
  ASSUME NEW h, NEW w, NEW s, NEW m, NEW phase \in {"ensure", "list", "remove", "removeAll"},
         h = "upsertProject" => phase # "removeAll"
  PROVE  Sends("kubernetes", h, w, Kubernetes!Opening(phase, w, s, m))
<1> SUFFICES ASSUME NEW c \in Kubernetes!Opening(phase, w, s, m)
             PROVE  Sent("kubernetes", h, w, c)
  BY DEF Sends
<1>1. CASE phase = "ensure"
  <2>1. PICK e \in Kubernetes!Reached(w) : c = <<"kubernetes", "readNamespace", e, "">>
    BY <1>1 DEF Kubernetes!Opening, Kubernetes!Kc
  <2> QED BY <2>1, KubernetesSent DEF Kubernetes!Reached
<1>2. CASE phase = "list"
  <2>1. c = <<"kubernetes", "list", "", "">>
    BY <1>2 DEF Kubernetes!Opening, Kubernetes!Kc
  <2> QED BY <2>1, KubernetesSent
<1>3. CASE phase \in {"remove", "removeAll"}
  <2> DEFINE todo == IF phase = "remove" THEN Kubernetes!Namespaces(s) \ Kubernetes!Reached(w)
                                         ELSE Kubernetes!Namespaces(s)
             n == CHOOSE x \in todo : TRUE
  <2>1. c = <<"kubernetes", "deleteNamespace", n, todo \ {n}>> /\ todo # {}
    BY <1>3 DEF Kubernetes!Opening, Kubernetes!OneByOne
  <2>2. n \in todo
    BY <2>1, Chosen
  <2> QED BY <1>3, <2>1, <2>2, KubernetesSent
<1> QED BY <1>1, <1>2, <1>3

LEMMA KubernetesThen ==
  ASSUME NEW h, NEW c, NEW w, NEW s, NEW m, Sent("kubernetes", h, w, c)
  PROVE  Sends("kubernetes", h, w, Kubernetes!Then(c, w, s, m))
<1> SUFFICES ASSUME NEW d \in Kubernetes!Then(c, w, s, m)
             PROVE  Sent("kubernetes", h, w, d)
  BY DEF Sends
<1>1. CASE d \in Kubernetes!EnsureNamespace(c, s)
  <2>1. \/ d = <<"kubernetes", "readQuota", c[3], "">>
        \/ /\ c[2] = "readNamespace"
           /\ \E o \in {"createNamespace", "patchNamespace"} : d = <<"kubernetes", o, c[3], "">>
    BY <1>1 DEF Kubernetes!EnsureNamespace, Kubernetes!Kc
  <2>2. c[2] = "readNamespace" => c[3] \notin ExternalEnvs
    BY DEF Sent, Formed
  <2> QED BY <2>1, <2>2, KubernetesSent
<1>2. CASE d \in Kubernetes!SetQuota(c, s)
  <2>1. \E o \in {"replaceQuota", "createQuota"} : d = <<"kubernetes", o, c[3], "">>
    BY <1>2 DEF Kubernetes!SetQuota, Kubernetes!Kc
  <2> QED BY <2>1, KubernetesSent
<1>3. CASE /\ c[2] = "deleteNamespace"
           /\ d \in Kubernetes!OneByOne("kubernetes", "deleteNamespace", c[4])
  <2> DEFINE n == CHOOSE x \in c[4] : TRUE
  <2>1. d = <<"kubernetes", "deleteNamespace", n, c[4] \ {n}>> /\ c[4] # {}
    BY <1>3 DEF Kubernetes!OneByOne
  <2>2. n \in c[4]
    BY <2>1, Chosen
  <2>3. h = "upsertProject" => c[4] \cap Kubernetes!Reached(w) = {}
    BY <1>3 DEF Sent, Harmless
  <2> QED BY <2>1, <2>2, <2>3, KubernetesSent
<1> QED BY <1>1, <1>2, <1>3 DEF Kubernetes!Then

LEMMA KubernetesRescue ==
  ASSUME NEW h, NEW c, NEW w
  PROVE  Sends("kubernetes", h, w, Kubernetes!Rescue(c))
<1>1. \A d \in Kubernetes!Rescue(c) : d = <<"kubernetes", "createQuota", c[3], "">>
  BY DEF Kubernetes!Rescue, Kubernetes!Kc
<1> QED BY <1>1, KubernetesSent DEF Sends

LEMMA KubernetesEffect ==
  ASSUME NEW c, NEW w, NEW s, NEW m, Sent("kubernetes", "", w, c)
  PROVE  /\ AddsNone(s, Kubernetes!Effect(c, w, s, m))
         /\ Harmless(c, w) => Keeps(w, s, Kubernetes!Effect(c, w, s, m))
<1> DEFINE t == Kubernetes!Effect(c, w, s, m)
<1>1. CASE c[2] \in {"createNamespace", "patchNamespace"}
  <2>1. t = Put(s, "kubernetes", "namespace", c[3], "current")
    BY <1>1 DEF Kubernetes!Effect, Kubernetes!Put, Kubernetes!Named, Put, Named
  <2>2. c[3] \notin ExternalEnvs
    BY <1>1 DEF Sent, Formed
  <2> QED BY <2>1, <2>2, PutKeeps DEF Foreign, Keeps
<1>2. CASE c[2] \in {"createQuota", "replaceQuota"}
  <2>1. t = Put(s, "kubernetes", "quota", c[3], Kubernetes!QuotaOf(w))
    BY <1>2 DEF Kubernetes!Effect, Kubernetes!Put, Kubernetes!Named, Put, Named
  <2> QED BY <2>1, PutKeeps DEF Foreign, Keeps
<1>3. CASE c[2] = "deleteNamespace"
  <2>1. t = Kubernetes!WithoutNamespace(s, c[3])
    BY <1>3 DEF Kubernetes!Effect
  <2>2. ASSUME Harmless(c, w), NEW f \in s, IsVital(w, f)
        PROVE  f \in t
    <3>1. c[3] \notin Kubernetes!Reached(w)
      BY <1>3, <2>2 DEF Sent, Harmless
    <3> QED BY <2>1, <2>2, <3>1 DEF Kubernetes!WithoutNamespace, IsVital
  <2>3. AddsNone(s, t)
    BY <2>1 DEF AddsNone, Kubernetes!WithoutNamespace
  <2> QED BY <2>2, <2>3 DEF Keeps, Spares, Same
<1>4. CASE c[2] \notin {"createNamespace", "patchNamespace", "createQuota", "replaceQuota",
                        "deleteNamespace"}
  <2>1. t = s
    BY <1>4 DEF Kubernetes!Effect
  <2> QED BY <2>1, SameKeeps DEF Keeps
<1> QED BY <1>1, <1>2, <1>3, <1>4

-----------------------------------------------------------------------------
(* The keycloak plugin.                                                    *)

LEMMA KeycloakSent ==
  ASSUME NEW h, NEW w, NEW o, NEW n, NEW d,
         h = "upsertProject" =>
           /\ o = "findGroup" => n # "deleted"
           /\ o # "deleteGroup"
           /\ o = "removeMember" => n \notin w.users
           /\ o = "removeEnv" => n \notin w.envs
  PROVE  Sent("keycloak", h, w, <<"keycloak", o, n, d>>)
BY DEF Sent, Formed, Harmless, Plugins

LEMMA KeycloakPhases ==
  ASSUME NEW h, NEW st, NEW i \in 1..Len(Keycloak!Phases(h, st))
  PROVE  /\ Keycloak!Phases(h, st)[i] \in {"group", "members", "console", "environments",
                                           "oldEnvs", "delete", "client", "deleteClient"}
         /\ h = "upsertProject" => Keycloak!Phases(h, st)[i] # "delete"
BY DEF Keycloak!Phases

\* The groups of the environments that are left, one at a time.
LEMMA KeycloakEnvironments ==
  ASSUME NEW w, NEW s, NEW c \in Keycloak!Environments(w, s)
  PROVE  \E o \in {"listRights", "createEnv"} : \E n, d : c = <<"keycloak", o, n, d>>
BY DEF Keycloak!Environments, Keycloak!Kk

LEMMA KeycloakOpening ==
  ASSUME NEW h, NEW w, NEW s, NEW m,
         NEW phase \in {"group", "members", "console", "environments", "oldEnvs", "delete",
                        "client", "deleteClient"},
         h = "upsertProject" => phase # "delete"
  PROVE  Sends("keycloak", h, w, Keycloak!Opening(phase, w, s, m))
<1> SUFFICES ASSUME NEW c \in Keycloak!Opening(phase, w, s, m)
             PROVE  Sent("keycloak", h, w, c)
  BY DEF Sends
<1>1. CASE phase \in {"group", "console"}
  <2>1. \E n \in {"project", "console"} : c = <<"keycloak", "findGroup", n, "">>
    BY <1>1 DEF Keycloak!Opening, Keycloak!Kk
  <2> QED BY <2>1, KeycloakSent
<1>2. CASE phase = "members"
  <2>1. \/ \E u : c = <<"keycloak", "addMember", u, "">>
        \/ \E u : u \notin w.users /\ c = <<"keycloak", "removeMember", u, "">>
    BY <1>2 DEF Keycloak!Opening, Keycloak!Together
  <2> QED BY <2>1, KeycloakSent
<1>3. CASE phase = "environments"
  <2>1. \E o \in {"listRights", "createEnv"} : \E n, d : c = <<"keycloak", o, n, d>>
    BY <1>3, KeycloakEnvironments DEF Keycloak!Opening
  <2> QED BY <2>1, KeycloakSent
<1>4. CASE phase = "oldEnvs"
  <2>1. \E e : e \notin w.envs /\ c = <<"keycloak", "removeEnv", e, "">>
    BY <1>4 DEF Keycloak!Opening, Keycloak!Together
  <2> QED BY <2>1, KeycloakSent
<1>5. CASE phase = "delete"
  <2>1. c = <<"keycloak", "findGroup", "deleted", "">>
    BY <1>5 DEF Keycloak!Opening, Keycloak!Kk
  <2> QED BY <1>5, <2>1, KeycloakSent
<1>6. CASE phase \in {"client", "deleteClient"}
  <2>1. c = <<"keycloak", "findClient", "", phase>>
    BY <1>6 DEF Keycloak!Opening, Keycloak!Kk
  <2> QED BY <2>1, KeycloakSent
<1> QED BY <1>1, <1>2, <1>3, <1>4, <1>5, <1>6

LEMMA KeycloakThen ==
  ASSUME NEW h, NEW c, NEW w, NEW s, NEW m, Sent("keycloak", h, w, c)
  PROVE  Sends("keycloak", h, w, Keycloak!Then(c, w, s, m))
<1> SUFFICES ASSUME NEW d \in Keycloak!Then(c, w, s, m)
             PROVE  Sent("keycloak", h, w, d)
  BY DEF Sends
<1>1. CASE d \in Keycloak!GroupOf(c, s)
  <2>1. h = "upsertProject" /\ c[2] = "findGroup" => c[3] # "deleted"
    BY DEF Sent, Harmless
  <2>2. \/ d = <<"keycloak", "createGroup", c[3], "">>
        \/ d = <<"keycloak", "deleteGroup", "", "">> /\ c[2] = "findGroup" /\ c[3] = "deleted"
    BY <1>1 DEF Keycloak!GroupOf, Keycloak!Kk
  <2> QED BY <2>1, <2>2, KeycloakSent
<1>2. CASE d \in Keycloak!EnvironmentGroups(c, w, s)
  <2>1. CASE c[2] \in {"createEnv", "listRights"}
    <3>1. \E o \in {"listRights", "createRights"} : d = <<"keycloak", o, c[3], c[4]>>
      BY <1>2, <2>1 DEF Keycloak!EnvironmentGroups, Keycloak!Kk
    <3> QED BY <3>1, KeycloakSent
  <2>2. CASE d \in Keycloak!PermissionCalls(c[3], w)
    <3>1. PICK r \in Keycloak!Rights, u \in w.users : d = Keycloak!Permission(c[3], r, u, w)
      BY <2>2 DEF Keycloak!PermissionCalls
    <3>2. \E o \in {"grant", "revoke"} : d = <<"keycloak", o, <<c[3], r, u>>, "">>
      BY <3>1 DEF Keycloak!Permission, Keycloak!Kk
    <3> QED BY <3>2, KeycloakSent
  <2>3. CASE \E v : d \in Keycloak!Environments(v, s)
    <3>1. \E o \in {"listRights", "createEnv"} : \E n, e : d = <<"keycloak", o, n, e>>
      BY <2>3, KeycloakEnvironments
    <3> QED BY <3>1, KeycloakSent
  <2> QED BY <1>2, <2>1, <2>2, <2>3 DEF Keycloak!EnvironmentGroups
<1>3. CASE d \in Keycloak!Client(c, s)
  <2>1. \E o \in {"updateClient", "writeSecret", "deleteClient", "createClient"} :
          d = <<"keycloak", o, "", "">>
    BY <1>3 DEF Keycloak!Client, Keycloak!Kk
  <2> QED BY <2>1, KeycloakSent
<1> QED BY <1>1, <1>2, <1>3 DEF Keycloak!Then

LEMMA KeycloakEffect ==
  ASSUME NEW c, NEW w, NEW s, NEW m
  PROVE  /\ AddsNone(s, Keycloak!Effect(c, w, s, m))
         /\ c[1] = "keycloak" /\ Harmless(c, w) => Keeps(w, s, Keycloak!Effect(c, w, s, m))
<1> DEFINE t == Keycloak!Effect(c, w, s, m)
<1>1. CASE c[2] \in {"createGroup", "addMember", "createEnv", "createRights", "grant",
                     "createClient"}
  <2>1. PICK k, n : t = Put(s, "keycloak", k, n, "")
    BY <1>1 DEF Keycloak!Effect, Keycloak!Put, Keycloak!Named, Put, Named
  <2> QED BY <2>1, PutKeeps DEF Foreign, Keeps
<1>2. CASE c[2] = "writeSecret"
  <2>1. t = Put(s, "vault", "zoneSecret", "keycloak", "")
    BY <1>2 DEF Keycloak!Effect, Keycloak!Vault!WriteInZone, Keycloak!Vault!Put,
                Keycloak!Vault!Named, Put, Named
  <2> QED BY <2>1, PutKeeps DEF Foreign, Keeps
<1>3. CASE c[2] \in {"removeMember", "revoke", "deleteClient"}
  <2> DEFINE k == IF c[2] = "removeMember" THEN "member" ELSE IF c[2] = "revoke" THEN "granted"
                  ELSE "client"
             n == IF c[2] = "deleteClient" THEN "" ELSE c[3]
  <2>1. t = Drop(s, "keycloak", k, n)
    BY <1>3 DEF Keycloak!Effect, Keycloak!Drop, Keycloak!Named, Drop, Named
  <2>2. c[1] = "keycloak" /\ Harmless(c, w) => ~IsVital(w, <<"keycloak", k, n>>)
    BY <1>3 DEF Harmless, IsVital
  <2> QED BY <2>1, <2>2, DropKeeps
<1>4. CASE c[2] = "removeEnv"
  <2>1. t = Keycloak!WithoutEnv(s, c[3])
    BY <1>4 DEF Keycloak!Effect
  <2>2. ASSUME c[1] = "keycloak", Harmless(c, w), NEW f \in s, IsVital(w, f)
        PROVE  f \in t
    <3>1. c[3] \notin w.envs
      BY <1>4, <2>2 DEF Harmless
    <3> QED BY <2>1, <2>2, <3>1 DEF Keycloak!WithoutEnv, IsVital
  <2>3. AddsNone(s, t)
    BY <2>1 DEF AddsNone, Keycloak!WithoutEnv
  <2> QED BY <2>2, <2>3 DEF Keeps, Spares, Same
<1>5. CASE c[2] = "deleteGroup"
  <2>1. AddsNone(s, t)
    BY <1>5 DEF Keycloak!Effect, AddsNone
  <2> QED BY <1>5, <2>1 DEF Harmless
<1>6. CASE c[2] \notin {"createGroup", "addMember", "createEnv", "createRights", "grant",
                        "createClient", "writeSecret", "removeMember", "revoke", "deleteClient",
                        "removeEnv", "deleteGroup"}
  <2>1. t = s
    BY <1>6 DEF Keycloak!Effect
  <2> QED BY <2>1, SameKeeps DEF Keeps
<1> QED BY <1>1, <1>2, <1>3, <1>4, <1>5, <1>6

-----------------------------------------------------------------------------
(* The sonarqube plugin.                                                   *)

LEMMA SonarQubeSent ==
  ASSUME NEW h, NEW w, NEW o, NEW n, NEW d,
         h = "upsertProject" /\ o \in {"removeProject", "deleteProject"} => n \notin w.repos
  PROVE  Sent("sonarqube", h, w, <<"sonarqube", o, n, d>>)
BY DEF Sent, Formed, Harmless, Plugins

LEMMA SonarQubePhases ==
  ASSUME NEW h, NEW st, NEW i \in 1..Len(SonarQube!Phases(h, st))
  PROVE  /\ SonarQube!Phases(h, st)[i] \in {"find", "findAll", "reconcile", "readSecret",
                                            "variables", "deleteProjects", "user"}
         /\ h = "upsertProject" => SonarQube!Phases(h, st)[i] # "deleteProjects"
BY DEF SonarQube!Phases

LEMMA SonarQubeOpening ==
  ASSUME NEW h, NEW w, NEW s, NEW m,
         NEW phase \in {"find", "findAll", "reconcile", "readSecret", "variables",
                        "deleteProjects", "user"},
         h = "upsertProject" => phase # "deleteProjects"
  PROVE  Sends("sonarqube", h, w, SonarQube!Opening(phase, w, s, m))
<1> SUFFICES ASSUME NEW c \in SonarQube!Opening(phase, w, s, m)
             PROVE  Sent("sonarqube", h, w, c)
  BY DEF Sends
<1>1. CASE phase \in {"find", "findAll", "readSecret", "user"}
  <2>1. \E o \in {"find", "findAll", "readSecret", "findLogin"} : c = <<"sonarqube", o, "", "">>
    BY <1>1 DEF SonarQube!Opening, SonarQube!Sq
  <2> QED BY <2>1, SonarQubeSent
<1>2. CASE phase = "reconcile"
  <2>1. \/ \E o \in {"readToken", "findGroup", "createProject", "addUser"} : \E n :
             c = <<"sonarqube", o, n, "">>
        \/ \E r : r \notin w.repos /\ c = <<"sonarqube", "removeProject", r, "">>
    BY <1>2 DEF SonarQube!Opening, SonarQube!Sq
  <2> QED BY <2>1, SonarQubeSent
<1>3. CASE phase = "variables"
  <2>1. \E n, d : c = <<"sonarqube", "listVariables", n, d>>
    BY <1>3 DEF SonarQube!Opening, SonarQube!GitLab!SetVariable
  <2> QED BY <2>1, SonarQubeSent
<1>4. CASE phase = "deleteProjects"
  <2>1. \E r : c = <<"sonarqube", "deleteProject", r, "">>
    BY <1>4 DEF SonarQube!Opening, SonarQube!Together
  <2> QED BY <1>4, <2>1, SonarQubeSent
<1> QED BY <1>1, <1>2, <1>3, <1>4

LEMMA SonarQubeThen ==
  ASSUME NEW h, NEW c, NEW w, NEW s, NEW m, Sent("sonarqube", h, w, c)
  PROVE  Sends("sonarqube", h, w, SonarQube!Then(c, w, s, m))
<1> SUFFICES ASSUME NEW d \in SonarQube!Then(c, w, s, m)
             PROVE  Sent("sonarqube", h, w, d)
  BY DEF Sends
<1>1. c[1] = "sonarqube"
  BY DEF Sent
<1>2. CASE d \in SonarQube!UserCalls(c, s)
  <2>1. \E o \in {"findUser", "createUser", "revokeToken", "generateToken", "writeToken"} : \E e :
          d = <<"sonarqube", o, "", e>>
    BY <1>2 DEF SonarQube!UserCalls, SonarQube!Sq
  <2> QED BY <2>1, SonarQubeSent
<1>3. CASE d \in SonarQube!Configure(c)
  <2>1. \E o \in {"addUser", "addGroup"} : d = <<"sonarqube", o, c[3], "">>
    BY <1>3 DEF SonarQube!Configure, SonarQube!Sq
  <2> QED BY <2>1, SonarQubeSent
<1>4. CASE d \in SonarQube!GitLab!VariableCalls(c, s)
  <2>1. \E o \in {"editVariable", "createVariable"} : d = <<"sonarqube", o, c[3], c[4]>>
    BY <1>1, <1>4 DEF SonarQube!GitLab!VariableCalls
  <2> QED BY <2>1, SonarQubeSent
<1>5. CASE d \in SonarQube!NextVariable(c, s)
  <2>1. \E n, e : d = <<"sonarqube", "listVariables", n, e>>
    BY <1>5 DEF SonarQube!NextVariable, SonarQube!GitLab!SetVariable
  <2> QED BY <2>1, SonarQubeSent
<1>6. CASE d \in {SonarQube!Sq("createGroup", "", ""), SonarQube!Sq("deactivate", "", "")}
  <2>1. \E o \in {"createGroup", "deactivate"} : d = <<"sonarqube", o, "", "">>
    BY <1>6 DEF SonarQube!Sq
  <2> QED BY <2>1, SonarQubeSent
<1> QED BY <1>2, <1>3, <1>4, <1>5, <1>6 DEF SonarQube!Then

LEMMA SonarQubeEffect ==
  ASSUME NEW c, NEW w, NEW s, NEW m
  PROVE  /\ AddsNone(s, SonarQube!Effect(c, w, s, m))
         /\ c[1] = "sonarqube" /\ Harmless(c, w) => Keeps(w, s, SonarQube!Effect(c, w, s, m))
<1> DEFINE t == SonarQube!Effect(c, w, s, m)
<1>1. CASE c[2] \in {"createUser", "createGroup", "createProject", "addGroup"}
  <2>1. PICK k, n, d : t = Put(s, "sonarqube", k, n, d)
    BY <1>1 DEF SonarQube!Effect, SonarQube!Put, SonarQube!Named, Put, Named
  <2> QED BY <2>1, PutKeeps DEF Foreign, Keeps
<1>2. CASE c[2] = "generateToken"
  <2>1. PICK d, e : t = Put(Put(s, "sonarqube", "lastToken", "", d), "sonarqube", "token", "", e)
    BY <1>2 DEF SonarQube!Effect, SonarQube!Issue, SonarQube!Put, SonarQube!Named, Put, Named
  <2> QED BY <2>1, PutTwiceKeeps DEF Foreign, Keeps
<1>3. CASE c[2] = "writeToken"
  <2>1. t = Put(s, "vault", "secret", "SONAR", c[4])
    BY <1>3 DEF SonarQube!Effect, SonarQube!Vault!Write, SonarQube!Vault!Put,
                SonarQube!Vault!Named, Put, Named
  <2> QED BY <2>1, PutKeeps DEF Foreign, Keeps
<1>4. CASE c[2] \in {"listVariables", "editVariable", "createVariable"}
  <2>1. PICK k, n, d : t = Put(s, "gitlab", k, n, d)
    BY <1>4 DEF SonarQube!Effect, SonarQube!GitLab!VariableEffect, SonarQube!GitLab!Put,
                SonarQube!GitLab!Named, Put, Named
  <2> QED BY <2>1, PutKeeps DEF Foreign, Keeps
<1>5. CASE c[2] \in {"removeProject", "deleteProject"}
  <2>1. t = Drop(s, "sonarqube", "project", c[3])
    BY <1>5 DEF SonarQube!Effect, SonarQube!Drop, SonarQube!Named, Drop, Named
  <2>2. c[1] = "sonarqube" /\ Harmless(c, w) => ~IsVital(w, <<"sonarqube", "project", c[3]>>)
    BY <1>5 DEF Harmless, IsVital
  <2> QED BY <2>1, <2>2, DropKeeps
<1>6. CASE c[2] = "revokeToken"
  <2>1. t = Drop(s, "sonarqube", "token", "")
    BY <1>6 DEF SonarQube!Effect, SonarQube!Drop, SonarQube!Named, Drop, Named
  <2>2. ~IsVital(w, <<"sonarqube", "token", "">>)
    BY DEF IsVital
  <2> QED BY <2>1, <2>2, DropKeeps
<1>7. CASE c[2] = "deactivate"
  <2> DEFINE rest == Drop(s, "sonarqube", "user", "")
  <2>1. t = Drop(rest, "sonarqube", "token", "")
    BY <1>7 DEF SonarQube!Effect, SonarQube!Drop, SonarQube!Named, Drop, Named
  <2>2. ~IsVital(w, <<"sonarqube", "user", "">>) /\ ~IsVital(w, <<"sonarqube", "token", "">>)
    BY DEF IsVital
  <2>3. Keeps(w, s, rest) /\ Keeps(w, rest, t)
    BY <2>1, <2>2, DropKeeps
  <2> QED BY <2>3, KeepsTwice DEF Keeps
<1>8. CASE c[2] \notin {"createUser", "createGroup", "createProject", "addGroup",
                        "generateToken", "writeToken", "listVariables", "editVariable",
                        "createVariable", "removeProject", "deleteProject", "revokeToken",
                        "deactivate"}
  <2>1. t = s
    BY <1>8 DEF SonarQube!Effect
  <2> QED BY <2>1, SameKeeps DEF Keeps
<1> QED BY <1>1, <1>2, <1>3, <1>4, <1>5, <1>6, <1>7, <1>8

-----------------------------------------------------------------------------
(* The vault plugin.                                                       *)

LEMMA VaultSent ==
  ASSUME NEW h, NEW w, NEW o, NEW n, NEW d,
         o \in ResourceOps => n[2] \in {"connection", "approle", "auth"},
         h = "upsertProject" => o \notin {"delete", "deleteZone", "destroy"}
  PROVE  Sent("vault", h, w, <<"vault", o, n, d>>)
BY DEF Sent, Formed, Harmless, Plugins

LEMMA VaultResource ==
  ASSUME NEW h, NEW w, NEW o \in ResourceOps, NEW e, NEW r \in {"connection", "approle", "auth"},
         NEW d
  PROVE  Sent("vault", h, w, <<"vault", o, <<e, r>>, d>>)
<1> DEFINE n == <<e, r>>
<1>1. n[2] \in {"connection", "approle", "auth"}
  OBVIOUS
<1> QED BY <1>1, VaultSent DEF ResourceOps

LEMMA VaultPhases ==
  ASSUME NEW h, NEW st, NEW i \in 1..Len(Vault!Phases(h, st))
  PROVE  /\ Vault!Phases(h, st)[i] \in {"Project.upsert", "getCredentials", "deployAuth", "list",
                                        "Project.delete", "destroy", "Zone.upsert", "Zone.delete"}
         /\ h = "upsertProject" =>
              Vault!Phases(h, st)[i] \notin {"Project.delete", "destroy", "Zone.delete"}
BY DEF Vault!Phases

LEMMA VaultConnect ==
  ASSUME NEW h, NEW w, NEW v, NEW todo
  PROVE  Sends("vault", h, w, Vault!ConnectEnvironment(v, todo))
<1> SUFFICES ASSUME NEW c \in Vault!ConnectEnvironment(v, todo)
             PROVE  Sent("vault", h, w, c)
  BY DEF Sends
<1>1. \E o \in {"findResource", "findUnwanted"} :
        \E e, d : c = <<"vault", o, <<e, "connection">>, d>>
  BY DEF Vault!ConnectEnvironment, Vault!Kube!CreateOrPatch, Vault!Kube!DeleteResource
<1> QED BY <1>1, VaultResource DEF ResourceOps

LEMMA VaultOpening ==
  ASSUME NEW h, NEW w, NEW s, NEW m,
         NEW phase \in {"Project.upsert", "getCredentials", "deployAuth", "list",
                        "Project.delete", "destroy", "Zone.upsert", "Zone.delete"},
         h = "upsertProject" => phase \notin {"Project.delete", "destroy", "Zone.delete"}
  PROVE  Sends("vault", h, w, Vault!Opening(phase, w, s, m))
<1> SUFFICES ASSUME NEW c \in Vault!Opening(phase, w, s, m)
             PROVE  Sent("vault", h, w, c)
  BY DEF Sends
<1>1. CASE phase \in {"Project.upsert", "getCredentials", "list", "Zone.upsert"}
  <2>1. \E o \in {"upsert", "roleId", "list", "upsertZone"} : \E n, d : c = <<"vault", o, n, d>>
    BY <1>1 DEF Vault!Opening, Vault!Vt
  <2> QED BY <2>1, VaultSent DEF ResourceOps
<1>2. CASE phase = "deployAuth"
  BY <1>2, VaultConnect DEF Vault!Opening, Sends
<1>3. CASE phase \in {"Project.delete", "destroy", "Zone.delete"}
  <2>1. \E o \in {"delete", "destroy", "deleteZone"} : \E n, d : c = <<"vault", o, n, d>>
    BY <1>3 DEF Vault!Opening, Vault!Vt
  <2> QED BY <1>3, <2>1, VaultSent DEF ResourceOps
<1> QED BY <1>1, <1>2, <1>3

LEMMA VaultThen ==
  ASSUME NEW h, NEW c, NEW w, NEW s, NEW m, Sent("vault", h, w, c)
  PROVE  Sends("vault", h, w, Vault!Then(c, w, s, m))
<1> SUFFICES ASSUME NEW d \in Vault!Then(c, w, s, m)
             PROVE  Sent("vault", h, w, d)
  BY DEF Sends
<1>1. /\ c[1] = "vault"
      /\ c[2] \in ResourceOps => c[3][2] \in {"connection", "approle", "auth"}
      /\ h = "upsertProject" => c[2] \notin {"delete", "deleteZone", "destroy"}
  BY DEF Sent, Formed, Harmless
<1>2. CASE d \in Vault!Pieces(c, s)
  <2>1. /\ c[2] \in {"upsert", "delete", "upsertZone", "deleteZone"}
        /\ \E n : d = <<"vault", c[2], n, c[4]>>
    BY <1>2 DEF Vault!Pieces, Vault!Vt
  <2> QED BY <1>1, <2>1, VaultSent DEF ResourceOps
<1>3. CASE d \in Vault!Kube!ResourceCalls(c, s)
  <2>1. /\ c[2] \in {"findResource", "findUnwanted"}
        /\ \E o \in {"patchResource", "createResource", "deleteResource"} :
             d = <<"vault", o, c[3], c[4]>>
    BY <1>1, <1>3 DEF Vault!Kube!ResourceCalls
  <2> QED BY <1>1, <2>1, VaultSent DEF ResourceOps
<1>4. CASE d = Vault!Vt("secretId", "", "")
  BY <1>4, VaultSent DEF Vault!Vt, ResourceOps
<1>5. CASE Vault!Kube!ResourceDone(c, s) /\ d \in Vault!AfterResource(c, w)
  <2>1. c[3][2] \in {"connection", "approle", "auth"}
    BY <1>1, <1>5 DEF Vault!Kube!ResourceDone, ResourceOps
  <2>2. CASE c[3][2] \in {"connection", "approle"}
    <3>1. \E r \in {"approle", "auth"} : d = <<"vault", "findResource", <<c[3][1], r>>, c[4]>>
      BY <1>5, <2>2 DEF Vault!AfterResource, Vault!Kube!CreateOrPatch
    <3> QED BY <3>1, VaultResource DEF ResourceOps
  <2>3. CASE c[3][2] = "auth"
    BY <1>5, <2>3, VaultConnect DEF Vault!AfterResource, Sends
  <2> QED BY <2>1, <2>2, <2>3
<1> QED BY <1>2, <1>3, <1>4, <1>5 DEF Vault!Then, Vault!DeployAuth

LEMMA VaultRescue ==
  ASSUME NEW h, NEW c, NEW w, Sent("vault", h, w, c)
  PROVE  Sends("vault", h, w, Vault!Rescue(c))
<1> SUFFICES ASSUME NEW d \in Vault!Rescue(c)
             PROVE  Sent("vault", h, w, d)
  BY DEF Sends
<1>1. /\ c[1] = "vault"
      /\ c[2] \in ResourceOps => c[3][2] \in {"connection", "approle", "auth"}
  BY DEF Sent, Formed
<1>2. CASE d \in Vault!Kube!ResourceRescue(c)
  <2>1. c[2] = "findResource" /\ d = <<"vault", "createResource", c[3], c[4]>>
    BY <1>1, <1>2 DEF Vault!Kube!ResourceRescue
  <2> QED BY <1>1, <2>1, VaultSent DEF ResourceOps
<1>3. CASE d \in Vault!Kube!CreateOrPatch("vault", <<c[3][1], "approle">>, c[4])
  <2>1. d = <<"vault", "findResource", <<c[3][1], "approle">>, c[4]>>
    BY <1>3 DEF Vault!Kube!CreateOrPatch
  <2> QED BY <2>1, VaultResource DEF ResourceOps
<1> QED BY <1>2, <1>3 DEF Vault!Rescue

LEMMA VaultEffect ==
  ASSUME NEW c, NEW w, NEW s, NEW m
  PROVE  /\ AddsNone(s, Vault!Effect(c, w, s, m))
         /\ c[1] = "vault" /\ Harmless(c, w) => Keeps(w, s, Vault!Effect(c, w, s, m))
<1> DEFINE t == Vault!Effect(c, w, s, m)
<1>1. CASE c[2] \in {"upsert", "upsertZone", "secretId"}
  <2>1. PICK k, n : t = Put(s, "vault", k, n, "")
    BY <1>1 DEF Vault!Effect, Vault!Put, Vault!Named, Put, Named
  <2> QED BY <2>1, PutKeeps DEF Foreign, Keeps
<1>2. CASE c[2] \in {"createResource", "patchResource"}
  <2>1. t = Put(s, "kubernetes", "resource", c[3], "")
    BY <1>2 DEF Vault!Effect, Vault!Kube!CreateObject, Vault!Kube!PatchObject, Vault!Kube!Put,
                Vault!Kube!Named, Put, Named
  <2> QED BY <2>1, PutKeeps DEF Foreign, Keeps
<1>3. CASE c[2] = "deleteResource"
  <2>1. t = Drop(s, "kubernetes", "resource", c[3])
    BY <1>3 DEF Vault!Effect, Vault!Kube!DeleteObject, Vault!Kube!Drop, Vault!Kube!Named,
                Drop, Named
  <2>2. ~IsVital(w, <<"kubernetes", "resource", c[3]>>)
    BY DEF IsVital
  <2> QED BY <2>1, <2>2, DropKeeps
<1>4. CASE c[2] = "destroy"
  <2>1. AddsNone(s, t)
    BY <1>4 DEF Vault!Effect, Vault!Drop, AddsNone
  <2> QED BY <1>4, <2>1 DEF Harmless
<1>5. CASE c[2] \in {"delete", "deleteZone"}
  <2>1. \A k, n : AddsNone(s, Vault!Delete(s, k, n))
    BY DEF Vault!Delete, Vault!Drop, AddsNone
  <2>2. AddsNone(s, t)
    BY <1>5, <2>1 DEF Vault!Effect
  <2> QED BY <1>5, <2>2 DEF Harmless
<1>6. CASE c[2] \notin {"upsert", "upsertZone", "secretId", "createResource", "patchResource",
                        "deleteResource", "destroy", "delete", "deleteZone"}
  <2>1. t = s
    BY <1>6 DEF Vault!Effect
  <2> QED BY <2>1, SameKeeps DEF Keeps
<1> QED BY <1>1, <1>2, <1>3, <1>4, <1>5, <1>6

-----------------------------------------------------------------------------
(* The harbor plugin.                                                      *)

LEMMA HarborSent ==
  ASSUME NEW h, NEW w, NEW o, NEW n, NEW d,
         h = "upsertProject" => o \notin {"findProject", "removeRepositories", "deleteProject"}
  PROVE  Sent("harbor", h, w, <<"harbor", o, n, d>>)
BY DEF Sent, Formed, Harmless, Plugins

LEMMA HarborPhases ==
  ASSUME NEW h, NEW st, NEW i \in 1..Len(Harbor!Phases(h, st))
  PROVE  /\ Harbor!Phases(h, st)[i] \in {"project", "robots", "pullSecrets", "delete"}
         /\ h = "upsertProject" => Harbor!Phases(h, st)[i] # "delete"
BY DEF Harbor!Phases

LEMMA HarborOpening ==
  ASSUME NEW h, NEW w, NEW s, NEW m,
         NEW phase \in {"project", "robots", "pullSecrets", "delete"},
         h = "upsertProject" => phase # "delete"
  PROVE  Sends("harbor", h, w, Harbor!Opening(phase, w, s, m))
<1> SUFFICES ASSUME NEW c \in Harbor!Opening(phase, w, s, m)
             PROVE  Sent("harbor", h, w, c)
  BY DEF Sends
<1>1. CASE phase \in {"project", "robots"}
  <2>1. \E o \in {"getProject", "findRobot", "findOldRobot", "listMembers"} : \E n :
          c = <<"harbor", o, n, "">>
    BY <1>1 DEF Harbor!Opening, Harbor!Hb, Harbor!Together
  <2> QED BY <2>1, HarborSent
<1>2. CASE phase = "pullSecrets"
  <2>1. \E n, d : c = <<"harbor", "findResource", n, d>>
    BY <1>2 DEF Harbor!Opening, Harbor!Kube!CreateOrPatch
  <2> QED BY <2>1, HarborSent
<1>3. CASE phase = "delete"
  <2>1. c = <<"harbor", "findProject", "", "">>
    BY <1>3 DEF Harbor!Opening, Harbor!Hb
  <2> QED BY <1>3, <2>1, HarborSent
<1> QED BY <1>1, <1>2, <1>3

LEMMA HarborThen ==
  ASSUME NEW h, NEW c, NEW w, NEW s, NEW m, Sent("harbor", h, w, c)
  PROVE  Sends("harbor", h, w, Harbor!Then(c, w, s, m))
<1> SUFFICES ASSUME NEW d \in Harbor!Then(c, w, s, m)
             PROVE  Sent("harbor", h, w, d)
  BY DEF Sends
<1>1. /\ c[1] = "harbor"
      /\ h = "upsertProject" => c[2] \notin {"findProject", "removeRepositories", "deleteProject"}
  BY DEF Sent, Harmless
<1>2. CASE d \in Harbor!ProjectCalls(c, w, s)
  <2>1. \E o \in {"listQuotas", "createProject", "updateQuota", "rereadProject"} :
          d = <<"harbor", o, "", "">>
    BY <1>2 DEF Harbor!ProjectCalls, Harbor!Hb
  <2> QED BY <2>1, HarborSent
<1>3. CASE d \in Harbor!EnsureRobot(c, s)
  <2>1. \E o \in {"writeSecret", "deleteRobot", "createRobot"} :
          \E e : d = <<"harbor", o, c[3], e>>
    BY <1>3 DEF Harbor!EnsureRobot, Harbor!Hb
  <2> QED BY <2>1, HarborSent
<1>4. CASE d \in Harbor!RemoveRobot(c, s)
  <2>1. \E o \in {"deleteOldRobot", "destroySecret"} :
          \E e : d = <<"harbor", o, c[3], e>>
    BY <1>4 DEF Harbor!RemoveRobot, Harbor!Hb
  <2> QED BY <2>1, HarborSent
<1>5. CASE d \in Harbor!GroupMember(c, s)
  <2>1. d = <<"harbor", "createMember", "", "">>
    BY <1>5 DEF Harbor!GroupMember, Harbor!Hb
  <2> QED BY <2>1, HarborSent
<1>6. CASE d \in Harbor!Deletion(c, s)
  <2>1. /\ c[2] \in {"findProject", "removeRepositories"}
        /\ \E o : d = <<"harbor", o, "", "">>
    BY <1>6 DEF Harbor!Deletion, Harbor!Hb
  <2> QED BY <1>1, <2>1, HarborSent
<1>7. CASE d \in Harbor!Kube!ResourceCalls(c, s)
  <2>1. \E o \in {"patchResource", "createResource", "deleteResource"} :
          d = <<"harbor", o, c[3], c[4]>>
    BY <1>1, <1>7 DEF Harbor!Kube!ResourceCalls
  <2> QED BY <2>1, HarborSent
<1> QED BY <1>2, <1>3, <1>4, <1>5, <1>6, <1>7 DEF Harbor!Then

LEMMA HarborRescue ==
  ASSUME NEW h, NEW c, NEW w, Sent("harbor", h, w, c)
  PROVE  Sends("harbor", h, w, Harbor!Rescue(c))
<1> SUFFICES ASSUME NEW d \in Harbor!Rescue(c)
             PROVE  Sent("harbor", h, w, d)
  BY DEF Sends
<1>1. c[1] = "harbor"
  BY DEF Sent
<1>2. CASE d \in Harbor!Kube!ResourceRescue(c)
  <2>1. d = <<"harbor", "createResource", c[3], c[4]>>
    BY <1>1, <1>2 DEF Harbor!Kube!ResourceRescue
  <2> QED BY <2>1, HarborSent
<1>3. CASE \E o \in {"createProject", "rereadProject"} : d = Harbor!Hb(o, "", "")
  BY <1>3, HarborSent DEF Harbor!Hb
<1> QED BY <1>2, <1>3 DEF Harbor!Rescue

LEMMA HarborEffect ==
  ASSUME NEW c, NEW w, NEW s, NEW m
  PROVE  /\ AddsNone(s, Harbor!Effect(c, w, s, m))
         /\ c[1] = "harbor" /\ Harmless(c, w) => Keeps(w, s, Harbor!Effect(c, w, s, m))
<1> DEFINE t == Harbor!Effect(c, w, s, m)
<1>1. CASE c[2] \in {"createProject", "updateQuota", "createMember"}
  <2>1. PICK k, d : t = Put(s, "harbor", k, "", d)
    BY <1>1 DEF Harbor!Effect, Harbor!CreateProject, Harbor!UpdateQuota, Harbor!CreateMember,
                Harbor!Put, Harbor!Named, Put, Named
  <2> QED BY <2>1, PutKeeps DEF Foreign, Keeps
<1>2. CASE c[2] = "createRobot"
  <2>1. PICK d, e : t = Put(Put(s, "harbor", "lastRobot", "", d), "harbor", "robot", c[3], e)
    BY <1>2 DEF Harbor!Effect, Harbor!CreateRobot, Harbor!Issue, Harbor!Put, Harbor!Named,
                Put, Named
  <2> QED BY <2>1, PutTwiceKeeps DEF Foreign, Keeps
<1>3. CASE c[2] \in {"deleteRobot", "deleteOldRobot"}
  <2>1. t = s \ {<<"harbor", "robot", c[3], c[4]>>}
    BY <1>3 DEF Harbor!Effect, Harbor!DeleteRobot, Harbor!Hb
  <2>2. \A f \in s : IsVital(w, f) => f # <<"harbor", "robot", c[3], c[4]>>
    BY DEF IsVital
  <2> QED BY <2>1, <2>2 DEF AddsNone, Keeps, Spares, Same
<1>4. CASE c[2] = "writeSecret"
  <2>1. t = Put(s, "vault", "secret", Harbor!Path(c[3]), c[4])
    BY <1>4 DEF Harbor!Effect, Harbor!Vault!Write, Harbor!Vault!Put, Harbor!Vault!Named,
                Put, Named
  <2> QED BY <2>1, PutKeeps DEF Foreign, Keeps
<1>5. CASE c[2] = "destroySecret"
  <2>1. t = Drop(s, "vault", "secret", Harbor!Path(c[3]))
    BY <1>5 DEF Harbor!Effect, Harbor!Vault!Destroy, Harbor!Vault!Drop, Harbor!Vault!Named,
                Drop, Named
  <2>2. ~IsVital(w, <<"vault", "secret", Harbor!Path(c[3])>>)
    BY DEF IsVital
  <2> QED BY <2>1, <2>2, DropKeeps
<1>6. CASE c[2] \in {"createResource", "patchResource"}
  <2>1. t = Put(s, "kubernetes", "resource", c[3], c[4])
    BY <1>6 DEF Harbor!Effect, Harbor!Kube!CreateObject, Harbor!Kube!PatchObject,
                Harbor!Kube!Put, Harbor!Kube!Named, Put, Named
  <2> QED BY <2>1, PutKeeps DEF Foreign, Keeps
<1>7. CASE c[2] = "deleteProject"
  <2>1. AddsNone(s, t)
    BY <1>7 DEF Harbor!Effect, Harbor!DeleteProject, AddsNone
  <2> QED BY <1>7, <2>1 DEF Harmless
<1>8. CASE c[2] \notin {"createProject", "updateQuota", "createMember", "createRobot",
                        "deleteRobot", "deleteOldRobot", "writeSecret", "destroySecret",
                        "createResource", "patchResource", "deleteProject"}
  <2>1. t = s
    BY <1>8 DEF Harbor!Effect
  <2> QED BY <2>1, SameKeeps DEF Keeps
<1> QED BY <1>1, <1>2, <1>3, <1>4, <1>5, <1>6, <1>7, <1>8

-----------------------------------------------------------------------------
(* The nexus plugin.                                                       *)

LEMMA NexusSent ==
  ASSUME NEW h, NEW w, NEW o, NEW n, NEW d,
         h = "upsertProject" /\ o \in {"delete", "deleteUnwanted"} =>
           d # "repository" \/ n \notin Nexus!Wanted(w)
  PROVE  Sent("nexus", h, w, <<"nexus", o, n, d>>)
BY DEF Sent, Formed, Harmless, Plugins

LEMMA NexusPhases ==
  ASSUME NEW h, NEW st, NEW i \in 1..Len(Nexus!Phases(h, st))
  PROVE  /\ Nexus!Phases(h, st)[i] \in {"options", "maven", "npm", "role", "user", "delete"}
         /\ h = "upsertProject" => Nexus!Phases(h, st)[i] # "delete"
BY DEF Nexus!Phases

\* The repositories of a format are those of no other.
LEMMA NexusFormats ==
  ASSUME NEW w, NEW tech \in {"maven", "npm"}, NEW n \in Nexus!OfTech(tech),
         tech \notin Nexus!TechUsed(w)
  PROVE  n \notin Nexus!Wanted(w)
<1>1. \A other \in {"maven", "npm"} : n \in Nexus!OfTech(other) => other = tech
  BY DEF Nexus!OfTech, Nexus!Hosted, Nexus!Group
<1>2. Nexus!TechUsed(w) \subseteq {"maven", "npm"}
  BY DEF Nexus!TechUsed
<1> QED BY <1>1, <1>2 DEF Nexus!Wanted

LEMMA NexusOpening ==
  ASSUME NEW h, NEW w, NEW s, NEW m,
         NEW phase \in {"options", "maven", "npm", "role", "user", "delete"},
         h = "upsertProject" => phase # "delete"
  PROVE  Sends("nexus", h, w, Nexus!Opening(phase, w, s, m))
<1> SUFFICES ASSUME NEW c \in Nexus!Opening(phase, w, s, m)
             PROVE  Sent("nexus", h, w, c)
  BY DEF Sends
<1>1. CASE phase \in {"options", "role", "user"}
  <2>1. \E o \in {"invalidOptions", "findRole", "readSecret"} : c = <<"nexus", o, "", "">>
    BY <1>1 DEF Nexus!Opening, Nexus!Nx
  <2> QED BY <2>1, NexusSent
<1>2. CASE phase \in {"maven", "npm"}
  <2>1. c \in Nexus!EnsureTech(phase, w)
    BY <1>2 DEF Nexus!Opening
  <2>2. CASE phase \in Nexus!TechUsed(w)
    <3>1. \E n : c = <<"nexus", "getHosted", n, "">>
      BY <2>1, <2>2 DEF Nexus!EnsureTech, Nexus!Nx
    <3> QED BY <3>1, NexusSent
  <2>3. CASE phase \notin Nexus!TechUsed(w)
    <3>1. PICK n \in Nexus!OfTech(phase), d \in {"privilege", "repository"} :
            c = <<"nexus", "deleteUnwanted", n, d>>
      BY <2>1, <2>3 DEF Nexus!EnsureTech, Nexus!DeleteTech, Nexus!Nx
    <3> QED BY <1>2, <2>3, <3>1, NexusSent, NexusFormats
  <2> QED BY <2>2, <2>3
<1>3. CASE phase = "delete"
  <2>1. \A tech : \A x \in Nexus!DeleteTech("delete", tech) :
          \E n, d : x = <<"nexus", "delete", n, d>>
    BY DEF Nexus!DeleteTech, Nexus!Nx
  <2>2. \E o \in {"delete", "deleteRole", "deleteUser"} : \E n, d : c = <<"nexus", o, n, d>>
    BY <1>3, <2>1 DEF Nexus!Opening, Nexus!Nx
  <2> QED BY <1>3, <2>2, NexusSent
<1> QED BY <1>1, <1>2, <1>3

LEMMA NexusThen ==
  ASSUME NEW h, NEW c, NEW w, NEW s, NEW m, Sent("nexus", h, w, c)
  PROVE  Sends("nexus", h, w, Nexus!Then(c, w, s, m))
<1> SUFFICES ASSUME NEW d \in Nexus!Then(c, w, s, m)
             PROVE  Sent("nexus", h, w, d)
  BY DEF Sends
<1>1. CASE d \in Nexus!Repositories(c, s)
  <2>1. \E o \in {"putHosted", "postHosted", "putGroup", "postGroup", "postPrivilege",
                  "getPrivilege", "putPrivilege", "createPrivilege"} :
                    \E n : d = <<"nexus", o, n, "">>
    BY <1>1 DEF Nexus!Repositories, Nexus!FirstPrivilege, Nexus!Nx
  <2> QED BY <2>1, NexusSent
<1>2. CASE d \in Nexus!HostedDone(c, s, m)
  <2>1. \E o \in {"postGroup", "getGroup"} : \E n : d = <<"nexus", o, n, "">>
    BY <1>2 DEF Nexus!HostedDone, Nexus!Nx
  <2> QED BY <2>1, NexusSent
<1>3. CASE d \in Nexus!Role(c, s)
  <2>1. \E o \in {"putRole", "postRole"} : d = <<"nexus", o, "", "">>
    BY <1>3 DEF Nexus!Role, Nexus!Nx
  <2> QED BY <2>1, NexusSent
<1>4. CASE d \in Nexus!User(c, s)
  <2>1. \E o \in {"findUser", "changePassword", "createUser", "writeSecret"} : \E e :
          d = <<"nexus", o, "", e>>
    BY <1>4 DEF Nexus!User, Nexus!Nx
  <2> QED BY <2>1, NexusSent
<1> QED BY <1>1, <1>2, <1>3, <1>4 DEF Nexus!Then

LEMMA NexusEffect ==
  ASSUME NEW c, NEW w, NEW s, NEW m
  PROVE  /\ AddsNone(s, Nexus!Effect(c, w, s, m))
         /\ c[1] = "nexus" /\ Harmless(c, w) => Keeps(w, s, Nexus!Effect(c, w, s, m))
<1> DEFINE t == Nexus!Effect(c, w, s, m)
<1>1. CASE c[2] \in {"postHosted", "putHosted", "postGroup", "putGroup", "postPrivilege",
                     "putPrivilege", "createPrivilege", "postRole", "putRole"}
  <2>1. PICK k, n, d : t = Put(s, "nexus", k, n, d)
    BY <1>1 DEF Nexus!Effect, Nexus!Put, Nexus!Named, Put, Named
  <2> QED BY <2>1, PutKeeps DEF Foreign, Keeps
<1>2. CASE c[2] \in {"createUser", "changePassword"}
  <2>1. PICK d, e : t = Put(Put(s, "nexus", "lastPassword", "", d), "nexus", "user", "", e)
    BY <1>2 DEF Nexus!Effect, Nexus!Password, Nexus!Issue, Nexus!Put, Nexus!Named, Put, Named
  <2> QED BY <2>1, PutTwiceKeeps DEF Foreign, Keeps
<1>3. CASE c[2] = "writeSecret"
  <2>1. t = Put(s, "vault", "secret", "NEXUS", c[4])
    BY <1>3 DEF Nexus!Effect, Nexus!Vault!Write, Nexus!Vault!Put, Nexus!Vault!Named, Put, Named
  <2> QED BY <2>1, PutKeeps DEF Foreign, Keeps
<1>4. CASE c[2] \in {"delete", "deleteUnwanted"}
  <2>1. t = Drop(s, "nexus", c[4], c[3])
    BY <1>4 DEF Nexus!Effect, Nexus!Drop, Nexus!Named, Drop, Named
  <2>2. c[1] = "nexus" /\ Harmless(c, w) => ~IsVital(w, <<"nexus", c[4], c[3]>>)
    BY <1>4 DEF Harmless, IsVital
  <2> QED BY <2>1, <2>2, DropKeeps
<1>5. CASE c[2] \in {"deleteRole", "deleteUser"}
  <2> DEFINE k == IF c[2] = "deleteRole" THEN "role" ELSE "user"
  <2>1. t = Drop(s, "nexus", k, "")
    BY <1>5 DEF Nexus!Effect, Nexus!Drop, Nexus!Named, Drop, Named
  <2>2. ~IsVital(w, <<"nexus", k, "">>)
    BY DEF IsVital
  <2> QED BY <2>1, <2>2, DropKeeps
<1>6. CASE c[2] \notin {"postHosted", "putHosted", "postGroup", "putGroup", "postPrivilege",
                        "putPrivilege", "createPrivilege", "postRole", "putRole", "createUser",
                        "changePassword", "writeSecret", "delete", "deleteUnwanted",
                        "deleteRole", "deleteUser"}
  <2>1. t = s
    BY <1>6 DEF Nexus!Effect
  <2> QED BY <2>1, SameKeeps DEF Keeps
<1> QED BY <1>1, <1>2, <1>3, <1>4, <1>5, <1>6

-----------------------------------------------------------------------------
(* The argocd plugin.                                                      *)

LEMMA ArgoCDSent ==
  ASSUME NEW h, NEW w, NEW o, NEW n, NEW d,
         h = "upsertProject" /\ o = "deleteAppProject" => n \notin w.envs /\ d \cap w.envs = {}
  PROVE  Sent("argocd", h, w, <<"argocd", o, n, d>>)
BY DEF Sent, Formed, Harmless, Plugins

LEMMA ArgoCDPhases ==
  ASSUME NEW h, NEW st, NEW i \in 1..Len(ArgoCD!Phases(h, st))
  PROVE  ArgoCD!Phases(h, st)[i] \in
           {"list", "environments", "oldValues", "oldApplications", "oldAppProjects",
            "unlabelled", "allValues", "zoneCredentials", "clusterSecret", "deleteClusterSecret"}
BY DEF ArgoCD!Phases

\* A loop over AppProjects or Applications.
LEMMA ArgoCDLoop ==
  ASSUME NEW h, NEW w, NEW o \in {"deleteApplication", "deleteAppProject"}, NEW todo,
         h = "upsertProject" /\ o = "deleteAppProject" => todo \cap w.envs = {}
  PROVE  Sends("argocd", h, w, ArgoCD!OneByOne("argocd", o, todo))
<1> SUFFICES ASSUME NEW c \in ArgoCD!OneByOne("argocd", o, todo)
             PROVE  Sent("argocd", h, w, c)
  BY DEF Sends
<1> DEFINE n == CHOOSE x \in todo : TRUE
<1>1. c = <<"argocd", o, n, todo \ {n}>> /\ todo # {}
  BY DEF ArgoCD!OneByOne
<1>2. n \in todo
  BY <1>1, Chosen
<1> QED BY <1>1, <1>2, ArgoCDSent

LEMMA ArgoCDOpening ==
  ASSUME NEW h, NEW w, NEW s, NEW m,
         NEW phase \in {"list", "environments", "oldValues", "oldApplications",
                        "oldAppProjects", "unlabelled", "allValues", "zoneCredentials",
                        "clusterSecret", "deleteClusterSecret"}
  PROVE  Sends("argocd", h, w, ArgoCD!Opening(phase, w, s, m))
<1> SUFFICES ASSUME NEW c \in ArgoCD!Opening(phase, w, s, m)
             PROVE  Sent("argocd", h, w, c)
  BY DEF Sends
<1>1. CASE phase \in {"list", "environments", "oldValues", "allValues", "zoneCredentials",
                      "clusterSecret", "deleteClusterSecret"}
  <2>1. \E o \in {"list", "infraGroup", "zoneRole", "deleteSecret", "readSecret"} : \E n, d :
          c = <<"argocd", o, n, d>>
    BY <1>1 DEF ArgoCD!Opening, ArgoCD!Ac
  <2> QED BY <2>1, ArgoCDSent
<1>2. CASE phase \in {"oldApplications", "unlabelled"}
  <2>1. \E todo : c \in ArgoCD!OneByOne("argocd", "deleteApplication", todo)
    BY <1>2 DEF ArgoCD!Opening
  <2> QED BY <2>1, ArgoCDLoop DEF Sends
<1>3. CASE phase = "oldAppProjects"
  <2>1. c \in ArgoCD!OneByOne("argocd", "deleteAppProject",
                              ArgoCD!Listed(m, "appProject") \ w.envs)
    BY <1>3 DEF ArgoCD!Opening
  <2> QED BY <2>1, ArgoCDLoop DEF Sends
<1> QED BY <1>1, <1>2, <1>3

LEMMA ArgoCDThen ==
  ASSUME NEW h, NEW c, NEW w, NEW s, NEW m, Sent("argocd", h, w, c)
  PROVE  Sends("argocd", h, w, ArgoCD!Then(c, w, s, m))
<1> SUFFICES ASSUME NEW d \in ArgoCD!Then(c, w, s, m)
             PROVE  Sent("argocd", h, w, d)
  BY DEF Sends
<1>1. /\ c[1] = "argocd"
      /\ h = "upsertProject" /\ c[2] = "deleteAppProject" => c[4] \cap w.envs = {}
  BY DEF Sent, Harmless
<1>2. CASE d \in ArgoCD!GitLab!InfraProject(c, s)
  <2>1. \E o \in {"infraProjects", "createInfraGroup", "createInfra", "infraCommit"} :
          d = <<"argocd", o, c[3], c[4]>>
    BY <1>1, <1>2 DEF ArgoCD!GitLab!InfraProject
  <2> QED BY <2>1, ArgoCDSent
<1>3. CASE d \in ArgoCD!Environment(c, w, s, m)
  <2>1. \E o \in {"sources", "values", "patchAppProject", "createAppProject",
                  "patchApplication", "createApplication"} : \E e : d = <<"argocd", o, c[3], e>>
    BY <1>3 DEF ArgoCD!Environment, ArgoCD!Ac
  <2> QED BY <2>1, ArgoCDSent
<1>4. CASE d \in ArgoCD!ClusterSecret(c, w, s)
  <2>1. \E o \in {"replaceSecret", "createSecret", "destroySecret", "writeSecret"} :
          d = <<"argocd", o, "", "">>
    BY <1>4 DEF ArgoCD!ClusterSecret, ArgoCD!Ac
  <2> QED BY <2>1, ArgoCDSent
<1>5. CASE d \in ArgoCD!WithInfra(c)
  <2>1. \E o \in {"listFiles", "zoneValues", "credentials"} : \E n, e : d = <<"argocd", o, n, e>>
    BY <1>5 DEF ArgoCD!WithInfra, ArgoCD!Ac
  <2> QED BY <2>1, ArgoCDSent
<1>6. CASE /\ c[2] \in {"deleteApplication", "deleteAppProject"}
           /\ d \in ArgoCD!OneByOne("argocd", c[2], c[4])
  BY <1>1, <1>6, ArgoCDLoop DEF Sends
<1>7. CASE d = ArgoCD!Ac("infraGroup", c[3], c[4])
  BY <1>7, ArgoCDSent DEF ArgoCD!Ac
<1> QED BY <1>2, <1>3, <1>4, <1>5, <1>6, <1>7 DEF ArgoCD!Then

LEMMA ArgoCDEffect ==
  ASSUME NEW c, NEW w, NEW s, NEW m
  PROVE  /\ AddsNone(s, ArgoCD!Effect(c, w, s, m))
         /\ c[1] = "argocd" /\ Harmless(c, w) => Keeps(w, s, ArgoCD!Effect(c, w, s, m))
<1> DEFINE t == ArgoCD!Effect(c, w, s, m)
<1>1. CASE c[2] \in {"createInfraGroup", "createInfra", "infraCommit"}
  <2>1. PICK k, n, d : t = Put(s, "gitlab", k, n, d)
    BY <1>1 DEF ArgoCD!Effect, ArgoCD!GitLab!InfraEffect, ArgoCD!GitLab!Put,
                ArgoCD!GitLab!Named, Put, Named
  <2> QED BY <2>1, PutKeeps DEF Foreign, Keeps
<1>2. CASE c[2] \in {"patchAppProject", "createAppProject", "patchApplication",
                     "createApplication", "createSecret", "replaceSecret"}
  <2>1. PICK k, n, d : t = Put(s, "argocd", k, n, d)
    BY <1>2 DEF ArgoCD!Effect, ArgoCD!Put, ArgoCD!Named, Put, Named
  <2> QED BY <2>1, PutKeeps DEF Foreign, Keeps
<1>3. CASE c[2] \in {"credentials", "writeSecret"}
  <2>1. PICK k, n : t = Put(s, "vault", k, n, "")
    BY <1>3 DEF ArgoCD!Effect, ArgoCD!Vault!WriteInZone, ArgoCD!Vault!Put, ArgoCD!Vault!Named,
                ArgoCD!Put, ArgoCD!Named, Put, Named
  <2> QED BY <2>1, PutKeeps DEF Foreign, Keeps
<1>4. CASE c[2] = "deleteAppProject"
  <2>1. t = Drop(s, "argocd", "appProject", c[3])
    BY <1>4 DEF ArgoCD!Effect, ArgoCD!Drop, ArgoCD!Named, Drop, Named
  <2>2. c[1] = "argocd" /\ Harmless(c, w) => ~IsVital(w, <<"argocd", "appProject", c[3]>>)
    BY <1>4 DEF Harmless, IsVital
  <2> QED BY <2>1, <2>2, DropKeeps
<1>5. CASE c[2] \in {"deleteApplication", "deleteSecret"}
  <2> DEFINE k == IF c[2] = "deleteSecret" THEN "clusterSecret" ELSE "application"
             n == IF c[2] = "deleteSecret" THEN "" ELSE c[3]
  <2>1. t = Drop(s, "argocd", k, n)
    BY <1>5 DEF ArgoCD!Effect, ArgoCD!Drop, ArgoCD!Named, Drop, Named
  <2>2. ~IsVital(w, <<"argocd", k, n>>)
    BY DEF IsVital
  <2> QED BY <2>1, <2>2, DropKeeps
<1>6. CASE c[2] = "destroySecret"
  <2>1. t = Drop(s, "vault", "zoneSecret", "argocd-cluster-secret")
    BY <1>6 DEF ArgoCD!Effect, ArgoCD!Vault!DestroyInZone, ArgoCD!Vault!Drop,
                ArgoCD!Vault!Named, Drop, Named
  <2>2. ~IsVital(w, <<"vault", "zoneSecret", "argocd-cluster-secret">>)
    BY DEF IsVital
  <2> QED BY <2>1, <2>2, DropKeeps
<1>7. CASE c[2] \notin {"createInfraGroup", "createInfra", "infraCommit", "patchAppProject",
                        "createAppProject", "patchApplication", "createApplication",
                        "createSecret", "replaceSecret", "credentials", "writeSecret",
                        "deleteAppProject", "deleteApplication", "deleteSecret", "destroySecret"}
  <2>1. t = s
    BY <1>7 DEF ArgoCD!Effect
  <2> QED BY <2>1, SameKeeps DEF Keeps
<1> QED BY <1>1, <1>2, <1>3, <1>4, <1>5, <1>6, <1>7

-----------------------------------------------------------------------------
(* The gitlab plugin.                                                      *)

LEMMA GitLabSent ==
  ASSUME NEW h, NEW w, NEW o, NEW n, NEW d,
         h = "upsertProject" =>
           /\ o \in {"findOrganization", "createOrganization", "findGroup"} => n # "deleted"
           /\ o # "deleteGroup"
           /\ o = "removeRepository" => n \notin w.repos \cup GitLab!Special
  PROVE  Sent("gitlab", h, w, <<"gitlab", o, n, d>>)
BY DEF Sent, Formed, Harmless, Plugins

LEMMA GitLabPhases ==
  ASSUME NEW h, NEW st, NEW i \in 1..Len(GitLab!Phases(h, st))
  PROVE  /\ GitLab!Phases(h, st)[i] \in
              {"group", "users", "members", "mirrorCreds", "topics", "repositories",
               "oldSecrets", "trigger", "deleteGroup", "triggerMirror", "infra",
               "deleteRepository", "commitFiles"}
         /\ h = "upsertProject" => GitLab!Phases(h, st)[i] # "deleteGroup"
BY DEF GitLab!Phases

\* A loop over the commits to make.
LEMMA GitLabLoop ==
  ASSUME NEW h, NEW w, NEW todo
  PROVE  Sends("gitlab", h, w, GitLab!OneByOne("gitlab", "commit", todo))
<1>1. \A c \in GitLab!OneByOne("gitlab", "commit", todo) :
        \E n, d : c = <<"gitlab", "commit", n, d>>
  BY DEF GitLab!OneByOne
<1> QED BY <1>1, GitLabSent DEF Sends

LEMMA GitLabOpening ==
  ASSUME NEW h, NEW w, NEW s, NEW m,
         NEW phase \in {"group", "users", "members", "mirrorCreds", "topics", "repositories",
                        "oldSecrets", "trigger", "deleteGroup", "triggerMirror", "infra",
                        "deleteRepository", "commitFiles"},
         h = "upsertProject" => phase # "deleteGroup"
  PROVE  Sends("gitlab", h, w, GitLab!Opening(phase, w, s, m))
<1> SUFFICES ASSUME NEW c \in GitLab!Opening(phase, w, s, m)
             PROVE  Sent("gitlab", h, w, c)
  BY DEF Sends
<1>1. CASE phase = "group"
  <2>1. c = <<"gitlab", "findOrganization", "project", "">>
    BY <1>1 DEF GitLab!Opening, GitLab!Gl
  <2> QED BY <2>1, GitLabSent
<1>2. CASE phase = "deleteGroup"
  <2>1. c = <<"gitlab", "findOrganization", "deleted", "">>
    BY <1>2 DEF GitLab!Opening, GitLab!Gl
  <2> QED BY <1>2, <2>1, GitLabSent
<1>3. CASE phase \in {"users", "mirrorCreds", "topics", "oldSecrets", "trigger",
                      "triggerMirror", "infra", "deleteRepository"}
  <2>1. \E o \in {"findUser", "listTokens", "tag", "destroyCreds", "listTriggers",
                  "createPipeline", "infraGroup", "deleteInfra"} :
                    \E n : c = <<"gitlab", o, n, "">>
    BY <1>3 DEF GitLab!Opening, GitLab!Gl, GitLab!Together
  <2> QED BY <2>1, GitLabSent
<1>4. CASE phase = "members"
  <2>1. \E o \in {"addMember", "removeMember"} : \E n : c = <<"gitlab", o, n, "">>
    BY <1>4 DEF GitLab!Opening, GitLab!Membership, GitLab!Together
  <2> QED BY <2>1, GitLabSent
<1>5. CASE phase = "repositories"
  <2>1. \/ \E r : r \notin w.repos \cup GitLab!Special
                    /\ c = <<"gitlab", "removeRepository", r, "">>
        \/ \E o \in {"readCreds", "createRepository"} : \E r, d : c = <<"gitlab", o, r, d>>
    BY <1>5 DEF GitLab!Opening, GitLab!EnsureRepositories, GitLab!Excess, GitLab!Together,
                GitLab!Gl
  <2> QED BY <2>1, GitLabSent
<1>6. CASE phase = "commitFiles"
  BY <1>6, GitLabLoop DEF GitLab!Opening, Sends
<1> QED BY <1>1, <1>2, <1>3, <1>4, <1>5, <1>6

LEMMA GitLabThen ==
  ASSUME NEW h, NEW c, NEW w, NEW s, NEW m, Sent("gitlab", h, w, c)
  PROVE  Sends("gitlab", h, w, GitLab!Then(c, w, s, m))
<1> SUFFICES ASSUME NEW d \in GitLab!Then(c, w, s, m)
             PROVE  Sent("gitlab", h, w, d)
  BY DEF Sends
<1>1. /\ c[1] = "gitlab"
      /\ h = "upsertProject" /\ c[2] \in {"findOrganization", "createOrganization", "findGroup"} =>
           c[3] # "deleted"
  BY DEF Sent, Harmless
<1>2. CASE d \in GitLab!ProjectGroup(c, s)
  <2>1. \/ /\ c[2] \in {"findOrganization", "createOrganization"}
           /\ \E o \in {"findGroup", "createOrganization"} : d = <<"gitlab", o, c[3], "">>
        \/ c[2] = "findGroup" /\ c[3] = "deleted" /\ d = <<"gitlab", "deleteGroup", "", "">>
        \/ d = <<"gitlab", "createGroup", "", "">>
    BY <1>2 DEF GitLab!ProjectGroup, GitLab!Gl
  <2> QED BY <1>1, <2>1, GitLabSent
<1>3. CASE d \in GitLab!UpsertUser(c, s)
  <2>1. d = <<"gitlab", "createUser", c[3], "">>
    BY <1>3 DEF GitLab!UpsertUser, GitLab!Gl
  <2> QED BY <2>1, GitLabSent
<1>4. CASE d \in GitLab!MirrorCreds(c, s)
  <2>1. \E o \in {"readMirror", "createToken", "revokeToken", "writeMirror"} : \E e :
          d = <<"gitlab", o, "", e>>
    BY <1>4 DEF GitLab!MirrorCreds, GitLab!Gl
  <2> QED BY <2>1, GitLabSent
<1>5. CASE d \in GitLab!EnsureRepository(c, w, s)
  <2>1. \A r : \A x \in GitLab!Credentials(r, w, s) :
          \E o \in {"writeCreds", "destroyCreds"} : x = <<"gitlab", o, r, "">>
    BY DEF GitLab!Credentials, GitLab!Gl
  <2>2. \E o \in {"createRepository", "firstCommit", "provisionMirror", "writeCreds",
                  "destroyCreds"} : \E e : d = <<"gitlab", o, c[3], e>>
    BY <1>5, <2>1 DEF GitLab!EnsureRepository, GitLab!Gl
  <2> QED BY <2>2, GitLabSent
<1>6. CASE d \in GitLab!MirrorTrigger(c, s)
  <2>1. \E o \in {"removeTrigger", "createTrigger", "writeTrigger"} :
          \E e : d = <<"gitlab", o, "", e>>
    BY <1>6 DEF GitLab!MirrorTrigger, GitLab!Gl
  <2> QED BY <2>1, GitLabSent
<1>7. CASE d \in GitLab!InfraProject(c, s)
  <2>1. \E o \in {"infraProjects", "createInfraGroup", "createInfra", "infraCommit"} :
          d = <<"gitlab", o, c[3], c[4]>>
    BY <1>1, <1>7 DEF GitLab!InfraProject
  <2> QED BY <2>1, GitLabSent
<1>8. CASE d \in GitLab!OneByOne("gitlab", "commit", c[4])
  BY <1>8, GitLabLoop DEF Sends
<1> QED BY <1>2, <1>3, <1>4, <1>5, <1>6, <1>7, <1>8 DEF GitLab!Then

LEMMA GitLabEffect ==
  ASSUME NEW c, NEW w, NEW s, NEW m
  PROVE  /\ AddsNone(s, GitLab!Effect(c, w, s, m))
         /\ c[1] = "gitlab" /\ Harmless(c, w) => Keeps(w, s, GitLab!Effect(c, w, s, m))
<1> DEFINE t == GitLab!Effect(c, w, s, m)
<1>1. CASE c[2] \in {"createOrganization", "createGroup", "createUser", "addMember", "tag",
                     "createRepository", "firstCommit", "provisionMirror", "createPipeline"}
  <2>1. PICK k, n, d : t = Put(s, "gitlab", k, n, d)
    BY <1>1 DEF GitLab!Effect, GitLab!Put, GitLab!Named, Put, Named
  <2> QED BY <2>1, PutKeeps DEF Foreign, Keeps
<1>2. CASE c[2] \in {"createInfraGroup", "createInfra", "infraCommit"}
  <2>1. PICK k, n, d : t = Put(s, "gitlab", k, n, d)
    BY <1>2 DEF GitLab!Effect, GitLab!InfraEffect, GitLab!Put, GitLab!Named, Put, Named
  <2> QED BY <2>1, PutKeeps DEF Foreign, Keeps
<1>3. CASE c[2] \in {"writeMirror", "writeTrigger"}
  <2>1. PICK n : t = Put(s, "vault", "secret", n, c[4])
    BY <1>3 DEF GitLab!Effect, GitLab!Vault!Write, GitLab!Vault!Put, GitLab!Vault!Named,
                Put, Named
  <2> QED BY <2>1, PutKeeps DEF Foreign, Keeps
<1>4. CASE c[2] = "writeCreds"
  <2>1. PICK d : t = Put(s, "vault", "mirror", c[3], d)
    BY <1>4 DEF GitLab!Effect, GitLab!Put, GitLab!Named, Put, Named
  <2> QED BY <2>1, PutKeeps DEF Foreign, Keeps
<1>5. CASE c[2] = "createToken"
  <2>1. PICK d, e : t = Put(Put(s, "gitlab", "lastToken", "", d), "gitlab", "token", "bot", e)
    BY <1>5 DEF GitLab!Effect, GitLab!Issue, GitLab!Put, GitLab!Named, Put, Named
  <2> QED BY <2>1, PutTwiceKeeps DEF Foreign, Keeps
<1>6. CASE c[2] = "createTrigger"
  <2>1. PICK d, n : t = Put(Put(s, "gitlab", "lastTrigger", "", d), "gitlab", "trigger", n, "")
    BY <1>6 DEF GitLab!Effect, GitLab!Issue, GitLab!Put, GitLab!Named, Put, Named
  <2> QED BY <2>1, PutTwiceKeeps DEF Foreign, Keeps
<1>7. CASE c[2] = "removeRepository"
  <2>1. t = Drop(s, "gitlab", "repository", c[3])
    BY <1>7 DEF GitLab!Effect, GitLab!Drop, GitLab!Named, Drop, Named
  <2>2. c[1] = "gitlab" /\ Harmless(c, w) => ~IsVital(w, <<"gitlab", "repository", c[3]>>)
    BY <1>7 DEF Harmless, IsVital
  <2> QED BY <2>1, <2>2, DropKeeps
<1>8. CASE c[2] \in {"removeMember", "revokeToken", "removeTrigger", "destroyCreds"}
  <2> DEFINE p == IF c[2] = "destroyCreds" THEN "vault" ELSE "gitlab"
             k == IF c[2] = "removeMember" THEN "member"
                  ELSE IF c[2] = "revokeToken" THEN "token"
                  ELSE IF c[2] = "removeTrigger" THEN "trigger" ELSE "mirror"
             n == IF c[2] = "revokeToken" THEN "bot"
                  ELSE IF c[2] = "removeTrigger" THEN CHOOSE x \in GitLab!Triggers(s) : TRUE
                  ELSE c[3]
  <2>1. t = Drop(s, p, k, n)
    <3>1. CASE c[2] = "removeMember"
      BY <3>1 DEF GitLab!Effect, GitLab!Drop, GitLab!Named, Drop, Named
    <3>2. CASE c[2] = "revokeToken"
      BY <3>2 DEF GitLab!Effect, GitLab!Drop, GitLab!Named, Drop, Named
    <3>3. CASE c[2] = "removeTrigger"
      BY <3>3 DEF GitLab!Effect, GitLab!Drop, GitLab!Named, Drop, Named
    <3>4. CASE c[2] = "destroyCreds"
      BY <3>4 DEF GitLab!Effect, GitLab!Drop, GitLab!Named, Drop, Named
    <3> QED BY <1>8, <3>1, <3>2, <3>3, <3>4
  <2>2. ~IsVital(w, <<p, k, n>>)
    BY <1>8 DEF IsVital
  <2> HIDE DEF p, k, n
  <2> QED BY <2>1, <2>2, DropKeeps
<1>9. CASE c[2] = "deleteGroup"
  <2>1. AddsNone(s, t)
    BY <1>9 DEF GitLab!Effect, GitLab!WithoutGroup, GitLab!Drop, AddsNone
  <2> QED BY <1>9, <2>1 DEF Harmless
<1>10. CASE c[2] = "deleteInfra"
  <2>1. t = {f \in GitLab!Drop(s, "gitlab", "infra", c[3]) :
               ~(f[1] = "gitlab" /\ f[2] = "file" /\ f[3][1] = c[3])}
    BY <1>10 DEF GitLab!Effect
  <2>2. AddsNone(s, t) /\ \A f \in s : IsVital(w, f) => f \in t
    BY <2>1 DEF AddsNone, GitLab!Drop, GitLab!Named, IsVital
  <2> QED BY <2>2 DEF Keeps, Spares, Same
<1>11. CASE c[2] = "commit"
  <2> DEFINE zone == c[3]
             actions == {a \in GitLab!Pending(m) : a[1] = zone}
             Touched(f) == /\ f[1] = "gitlab" /\ f[2] = "file"
                           /\ \E a \in actions : f[3] = <<zone, a[2]>>
             written == {<<"gitlab", "file", <<zone, a[2]>>, a[3][2]>> :
                           a \in {b \in actions : b[3][1] # "delete"}}
  <2>1. t = {f \in s : ~Touched(f)} \cup written
    BY <1>11 DEF GitLab!Effect, GitLab!Committed
  <2>2. \A f \in written : ~Foreign(f)
    BY DEF Foreign
  <2>3. \A f \in s : IsVital(w, f) => ~Touched(f)
    BY DEF IsVital
  <2> HIDE DEF written, Touched
  <2>4. AddsNone(s, t) /\ \A f \in s : IsVital(w, f) => f \in t
    BY <2>1, <2>2, <2>3 DEF AddsNone
  <2> QED BY <2>4 DEF Keeps, Spares, Same
<1>12. CASE c[2] \notin {"createOrganization", "createGroup", "createUser", "addMember", "tag",
                         "createRepository", "firstCommit", "provisionMirror", "createPipeline",
                         "createInfraGroup", "createInfra", "infraCommit", "writeMirror",
                         "writeTrigger", "writeCreds", "createToken", "createTrigger",
                         "removeRepository", "removeMember", "revokeToken", "removeTrigger",
                         "destroyCreds", "deleteGroup", "deleteInfra", "commit"}
  <2>1. t = s
    BY <1>12 DEF GitLab!Effect
  <2> QED BY <2>1, SameKeeps DEF Keeps
<1> QED BY <1>1, <1>2, <1>3, <1>4, <1>5, <1>6, <1>7, <1>8, <1>9, <1>10, <1>11, <1>12

-----------------------------------------------------------------------------
(* All the plugins.                                                        *)

LEMMA PluginSends ==
  ASSUME NEW p \in Plugins, NEW h, NEW st, NEW i \in 1..Len(Phases(p, h, st)),
         NEW w, NEW s, NEW m
  PROVE  Sends(p, h, w, Opening(p, Phases(p, h, st)[i], w, s, m))
<1> DEFINE phase == Phases(p, h, st)[i]
<1>1. CASE p = "kubernetes"
  <2>1. /\ Phases(p, h, st) = Kubernetes!Phases(h, st)
        /\ Opening(p, phase, w, s, m) = Kubernetes!Opening(phase, w, s, m)
    BY <1>1 DEF Phases, Opening
  <2> QED BY <1>1, <2>1, KubernetesPhases, KubernetesOpening
<1>2. CASE p = "vault"
  <2>1. /\ Phases(p, h, st) = Vault!Phases(h, st)
        /\ Opening(p, phase, w, s, m) = Vault!Opening(phase, w, s, m)
    BY <1>2 DEF Phases, Opening
  <2> QED BY <1>2, <2>1, VaultPhases, VaultOpening
<1>3. CASE p = "gitlab"
  <2>1. /\ Phases(p, h, st) = GitLab!Phases(h, st)
        /\ Opening(p, phase, w, s, m) = GitLab!Opening(phase, w, s, m)
    BY <1>3 DEF Phases, Opening
  <2> QED BY <1>3, <2>1, GitLabPhases, GitLabOpening
<1>4. CASE p = "argocd"
  <2>1. /\ Phases(p, h, st) = ArgoCD!Phases(h, st)
        /\ Opening(p, phase, w, s, m) = ArgoCD!Opening(phase, w, s, m)
    BY <1>4 DEF Phases, Opening
  <2> QED BY <1>4, <2>1, ArgoCDPhases, ArgoCDOpening
<1>5. CASE p = "keycloak"
  <2>1. /\ Phases(p, h, st) = Keycloak!Phases(h, st)
        /\ Opening(p, phase, w, s, m) = Keycloak!Opening(phase, w, s, m)
    BY <1>5 DEF Phases, Opening
  <2> QED BY <1>5, <2>1, KeycloakPhases, KeycloakOpening
<1>6. CASE p = "harbor"
  <2>1. /\ Phases(p, h, st) = Harbor!Phases(h, st)
        /\ Opening(p, phase, w, s, m) = Harbor!Opening(phase, w, s, m)
    BY <1>6 DEF Phases, Opening
  <2> QED BY <1>6, <2>1, HarborPhases, HarborOpening
<1>7. CASE p = "nexus"
  <2>1. /\ Phases(p, h, st) = Nexus!Phases(h, st)
        /\ Opening(p, phase, w, s, m) = Nexus!Opening(phase, w, s, m)
    BY <1>7 DEF Phases, Opening
  <2> QED BY <1>7, <2>1, NexusPhases, NexusOpening
<1>8. CASE p = "sonarqube"
  <2>1. /\ Phases(p, h, st) = SonarQube!Phases(h, st)
        /\ Opening(p, phase, w, s, m) = SonarQube!Opening(phase, w, s, m)
    BY <1>8 DEF Phases, Opening
  <2> QED BY <1>8, <2>1, SonarQubePhases, SonarQubeOpening
<1> QED BY <1>1, <1>2, <1>3, <1>4, <1>5, <1>6, <1>7, <1>8 DEF Plugins

LEMMA PluginContinues ==
  ASSUME NEW h, NEW w, NEW c, Sent(c[1], h, w, c)
  PROVE  /\ \A s, m : Sends(c[1], h, w, Then(c, w, s, m))
         /\ Sends(c[1], h, w, Rescue(c))
<1> SUFFICES ASSUME NEW s, NEW m
             PROVE  /\ Sends(c[1], h, w, Then(c, w, s, m))
                    /\ Sends(c[1], h, w, Rescue(c))
  OBVIOUS
<1>1. CASE c[1] = "kubernetes"
  <2>1. /\ Then(c, w, s, m) = Kubernetes!Then(c, w, s, m)
        /\ Rescue(c) = Kubernetes!Rescue(c)
    BY <1>1 DEF Then, Rescue
  <2> QED BY <1>1, <2>1, KubernetesThen, KubernetesRescue
<1>2. CASE c[1] = "vault"
  <2>1. /\ Then(c, w, s, m) = Vault!Then(c, w, s, m)
        /\ Rescue(c) = Vault!Rescue(c)
    BY <1>2 DEF Then, Rescue
  <2> QED BY <1>2, <2>1, VaultThen, VaultRescue
<1>3. CASE c[1] = "gitlab"
  <2>1. /\ Then(c, w, s, m) = GitLab!Then(c, w, s, m)
        /\ Rescue(c) = {}
    BY <1>3 DEF Then, Rescue
  <2> QED BY <1>3, <2>1, GitLabThen DEF Sends
<1>4. CASE c[1] = "argocd"
  <2>1. /\ Then(c, w, s, m) = ArgoCD!Then(c, w, s, m)
        /\ Rescue(c) = {}
    BY <1>4 DEF Then, Rescue
  <2> QED BY <1>4, <2>1, ArgoCDThen DEF Sends
<1>5. CASE c[1] = "keycloak"
  <2>1. /\ Then(c, w, s, m) = Keycloak!Then(c, w, s, m)
        /\ Rescue(c) = {}
    BY <1>5 DEF Then, Rescue
  <2> QED BY <1>5, <2>1, KeycloakThen DEF Sends
<1>6. CASE c[1] = "harbor"
  <2>1. /\ Then(c, w, s, m) = Harbor!Then(c, w, s, m)
        /\ Rescue(c) = Harbor!Rescue(c)
    BY <1>6 DEF Then, Rescue
  <2> QED BY <1>6, <2>1, HarborThen, HarborRescue
<1>7. CASE c[1] = "nexus"
  <2>1. /\ Then(c, w, s, m) = Nexus!Then(c, w, s, m)
        /\ Rescue(c) = {}
    BY <1>7 DEF Then, Rescue
  <2> QED BY <1>7, <2>1, NexusThen DEF Sends
<1>8. CASE c[1] = "sonarqube"
  <2>1. /\ Then(c, w, s, m) = SonarQube!Then(c, w, s, m)
        /\ Rescue(c) = {}
    BY <1>8 DEF Then, Rescue
  <2> QED BY <1>8, <2>1, SonarQubeThen DEF Sends
<1> QED BY <1>1, <1>2, <1>3, <1>4, <1>5, <1>6, <1>7, <1>8 DEF Sent, Formed, Plugins

LEMMA PluginActs ==
  ASSUME NEW c, NEW w, NEW s, NEW m, Formed(c)
  PROVE  /\ AddsNone(s, Effect(c, w, s, m))
         /\ Harmless(c, w) => Keeps(w, s, Effect(c, w, s, m))
<1>1. CASE c[1] = "kubernetes"
  <2>1. Effect(c, w, s, m) = Kubernetes!Effect(c, w, s, m)
    BY <1>1 DEF Effect
  <2>2. Sent("kubernetes", "", w, c)
    BY <1>1 DEF Sent
  <2> QED BY <2>1, <2>2, KubernetesEffect
<1>2. CASE c[1] = "vault"
  <2>1. Effect(c, w, s, m) = Vault!Effect(c, w, s, m)
    BY <1>2 DEF Effect
  <2> QED BY <1>2, <2>1, VaultEffect
<1>3. CASE c[1] = "gitlab"
  <2>1. Effect(c, w, s, m) = GitLab!Effect(c, w, s, m)
    BY <1>3 DEF Effect
  <2> QED BY <1>3, <2>1, GitLabEffect
<1>4. CASE c[1] = "argocd"
  <2>1. Effect(c, w, s, m) = ArgoCD!Effect(c, w, s, m)
    BY <1>4 DEF Effect
  <2> QED BY <1>4, <2>1, ArgoCDEffect
<1>5. CASE c[1] = "keycloak"
  <2>1. Effect(c, w, s, m) = Keycloak!Effect(c, w, s, m)
    BY <1>5 DEF Effect
  <2> QED BY <1>5, <2>1, KeycloakEffect
<1>6. CASE c[1] = "harbor"
  <2>1. Effect(c, w, s, m) = Harbor!Effect(c, w, s, m)
    BY <1>6 DEF Effect
  <2> QED BY <1>6, <2>1, HarborEffect
<1>7. CASE c[1] = "nexus"
  <2>1. Effect(c, w, s, m) = Nexus!Effect(c, w, s, m)
    BY <1>7 DEF Effect
  <2> QED BY <1>7, <2>1, NexusEffect
<1>8. CASE c[1] = "sonarqube"
  <2>1. Effect(c, w, s, m) = SonarQube!Effect(c, w, s, m)
    BY <1>8 DEF Effect
  <2> QED BY <1>8, <2>1, SonarQubeEffect
<1> QED BY <1>1, <1>2, <1>3, <1>4, <1>5, <1>6, <1>7, <1>8 DEF Formed, Plugins

-----------------------------------------------------------------------------
(* The phases of a function.                                               *)

LEMMA PhasesAreCounted ==
  ASSUME NEW p \in Plugins, NEW h, NEW st
  PROVE  Len(Phases(p, h, st)) \in Nat
<1>1. CASE p = "kubernetes"
  <2>1. Phases(p, h, st) = Kubernetes!Phases(h, st)
    BY <1>1 DEF Phases
  <2> QED BY <2>1 DEF Kubernetes!Phases
<1>2. CASE p = "vault"
  <2>1. Phases(p, h, st) = Vault!Phases(h, st)
    BY <1>2 DEF Phases
  <2> QED BY <2>1 DEF Vault!Phases
<1>3. CASE p = "gitlab"
  <2>1. Phases(p, h, st) = GitLab!Phases(h, st)
    BY <1>3 DEF Phases
  <2> QED BY <2>1 DEF GitLab!Phases
<1>4. CASE p = "argocd"
  <2>1. Phases(p, h, st) = ArgoCD!Phases(h, st)
    BY <1>4 DEF Phases
  <2> QED BY <2>1 DEF ArgoCD!Phases
<1>5. CASE p = "keycloak"
  <2>1. Phases(p, h, st) = Keycloak!Phases(h, st)
    BY <1>5 DEF Phases
  <2> QED BY <2>1 DEF Keycloak!Phases
<1>6. CASE p = "harbor"
  <2>1. Phases(p, h, st) = Harbor!Phases(h, st)
    BY <1>6 DEF Phases
  <2> QED BY <2>1 DEF Harbor!Phases
<1>7. CASE p = "nexus"
  <2>1. Phases(p, h, st) = Nexus!Phases(h, st)
    BY <1>7 DEF Phases
  <2> QED BY <2>1 DEF Nexus!Phases
<1>8. CASE p = "sonarqube"
  <2>1. Phases(p, h, st) = SonarQube!Phases(h, st)
    BY <1>8 DEF Phases
  <2> QED BY <2>1 DEF SonarQube!Phases
<1> QED BY <1>1, <1>2, <1>3, <1>4, <1>5, <1>6, <1>7, <1>8 DEF Plugins

LEMMA NextPhaseIsOne ==
  ASSUME NEW p, NEW h, NEW st, NEW i \in Nat, NEW w, NEW s, NEW m,
         Len(Phases(p, h, st)) \in Nat
  PROVE  NextPhase(p, h, st, i, w, s, m) \in 0..Len(Phases(p, h, st))
<1> DEFINE ph == Phases(p, h, st)
           following == i + 1..Len(ph)
           Ready(j) == Opening(p, ph[j], w, s, m) # {}
           First(j) == Ready(j) /\ \A k \in i + 1..j - 1 : ~Ready(k)
           next == CHOOSE j \in following : First(j)
<1>1. NextPhase(p, h, st, i, w, s, m) = IF \E j \in following : Ready(j) THEN next ELSE 0
  BY DEF NextPhase
<1>2. following \subseteq Nat /\ following \subseteq 0..Len(ph) /\ 0 \in 0..Len(ph)
  OBVIOUS
<1>3. \A j \in following : \A k \in i + 1..j - 1 : k \in following /\ ~(j <= k)
  OBVIOUS
<1> HIDE DEF following, ph, Ready
<1>4. ASSUME \E j \in following : Ready(j)
      PROVE  next \in following
  <2> DEFINE ready == {j \in following : Ready(j)}
  <2>1. ready \subseteq Nat /\ ready # {}
    BY <1>2, <1>4
  <2>2. PICK j \in ready : \A k \in ready : j <= k
    <3> HIDE DEF ready
    <3> QED BY <2>1, LeastNumber
  <2>3. First(j)
    BY <1>3, <2>2
  <2> QED BY <2>2, <2>3
<1>5. NextPhase(p, h, st, i, w, s, m) \in 0..Len(ph)
  BY <1>1, <1>2, <1>4
<1> QED BY <1>5 DEF ph

-----------------------------------------------------------------------------
(* What is true of every state.                                            *)

\* A late request is among those its plugin sends for the request of the
\* console that has left it, with that payload.
SentLate(l) == Sent(l[1][1], l[4], l[2], l[1])

\* The requests a plugin has sent are among those it sends for the request
\* of the console in progress.
Dutiful ==
  /\ scenario \in Scenarios
  /\ \A f \in facts : ~Foreign(f)
  /\ at \in [Focus -> Nat]
  /\ \A p \in Focus : at[p] \in 0..Len(Phases(p, Hook, step))
  /\ \A c \in calls : c[1] \in Focus /\ Sent(c[1], Hook, Wish, c)
  /\ \A l \in late : SentLate(l)

LEMMA FocusIsPlugins ==
  ASSUME scenario \in Scenarios
  PROVE  Focus \subseteq Plugins
BY ScenariosAssumption DEF Focus

LEMMA OpeningSends ==
  ASSUME NEW p \in Plugins, NEW h, NEW st, NEW w, NEW s, NEW m,
         NEW i \in 0..Len(Phases(p, h, st))
  PROVE  Sends(p, h, w, OpeningAt(p, h, st, i, w, s, m))
<1>1. CASE i = 0
  BY <1>1 DEF OpeningAt, Sends
<1>2. CASE i # 0
  <2>1. i \in 1..Len(Phases(p, h, st))
    BY <1>2, PhasesAreCounted
  <2> QED BY <1>2, <2>1, PluginSends DEF OpeningAt
<1> QED BY <1>1, <1>2

\* A plugin goes to its next phase, or waits for its other requests.
LEMMA ResumeIsDutiful ==
  ASSUME Dutiful, NEW p \in Focus, NEW ongoing, Resume(p, ongoing),
         \A c \in ongoing : c[1] \in Focus /\ Sent(c[1], Hook, Wish, c)
  PROVE  /\ at' \in [Focus -> Nat]
         /\ \A q \in Focus : at'[q] \in 0..Len(Phases(q, Hook, step))
         /\ \A c \in calls' : c[1] \in Focus /\ Sent(c[1], Hook, Wish, c)
<1> DEFINE i == NextPhase(p, Hook, step, at[p], Wish, facts', memory')
           opened == OpeningAt(p, Hook, step, i, Wish, facts', memory')
<1>1. CASE Of(p, ongoing) # {}
  BY <1>1 DEF Resume, Dutiful
<1>2. CASE Of(p, ongoing) = {}
  <2>1. p \in Plugins /\ at[p] \in Nat
    BY FocusIsPlugins DEF Dutiful
  <2>2. i \in 0..Len(Phases(p, Hook, step)) /\ Len(Phases(p, Hook, step)) \in Nat
    BY <2>1, PhasesAreCounted, NextPhaseIsOne
  <2>3. Sends(p, Hook, Wish, opened)
    BY <2>1, <2>2, OpeningSends
  <2>4. at' = [at EXCEPT ![p] = i] /\ calls' = ongoing \cup opened
    BY <1>2 DEF Resume
  <2>5. i \in Nat
    BY <2>2
  <2> HIDE DEF i, opened
  <2>6. at' \in [Focus -> Nat]
    BY <2>4, <2>5 DEF Dutiful
  <2>7. \A q \in Focus : at'[q] \in 0..Len(Phases(q, Hook, step))
    BY <2>2, <2>4 DEF Dutiful
  <2>8. \A c \in calls' : c[1] \in Focus /\ Sent(c[1], Hook, Wish, c)
    BY <2>3, <2>4 DEF Sends, Sent
  <2> QED BY <2>6, <2>7, <2>8
<1> QED BY <1>1, <1>2

LEMMA StartIsDutiful ==
  ASSUME scenario \in Scenarios, NEW h, NEW st, NEW w, NEW s, NEW m, Start(h, st, w, s, m)
  PROVE  /\ at' \in [Focus -> Nat]
         /\ \A p \in Focus : at'[p] \in 0..Len(Phases(p, h, step'))
         /\ \A c \in calls' : c[1] \in Focus /\ Sent(c[1], h, w, c)
<1>1. \A p \in Focus : NextPhase(p, h, st, 0, w, s, m) \in 0..Len(Phases(p, h, st))
  BY FocusIsPlugins, PhasesAreCounted, NextPhaseIsOne
<1>2. \A p \in Focus : 0..Len(Phases(p, h, st)) \subseteq Nat
  OBVIOUS
<1>3. /\ at' = [p \in Focus |-> NextPhase(p, h, st, 0, w, s, m)]
      /\ step' = st
      /\ calls' = UNION {OpeningAt(p, h, st, at'[p], w, s, m) : p \in Focus}
  BY DEF Start
<1>4. \A p \in Focus : at'[p] \in 0..Len(Phases(p, h, st))
  BY <1>1, <1>3
<1>5. ASSUME NEW c \in calls'
      PROVE  c[1] \in Focus /\ Sent(c[1], h, w, c)
  <2>1. PICK p \in Focus : c \in OpeningAt(p, h, st, at'[p], w, s, m)
    BY <1>3
  <2>2. Sends(p, h, w, OpeningAt(p, h, st, at'[p], w, s, m))
    BY <1>4, FocusIsPlugins, OpeningSends
  <2> QED BY <2>1, <2>2 DEF Sends, Sent
<1>6. at' \in [Focus -> Nat]
  BY <1>1, <1>2, <1>3
<1> QED BY <1>3, <1>4, <1>5, <1>6

LEMMA LeaveIsDutiful ==
  ASSUME Dutiful, NEW cs, Leave(cs), \A c \in cs : Sent(c[1], Hook, Wish, c)
  PROVE  \A l \in late' : SentLate(l)
<1>1. PICK some \in SUBSET cs : late' = late \cup {<<c, Wish, memory, Hook>> : c \in some}
  BY DEF Leave
<1>2. \A c \in some : Sent(c[1], Hook, Wish, c)
  OBVIOUS
<1>3. ASSUME NEW l \in late', l \notin late
      PROVE  SentLate(l)
  <2>1. PICK c \in some : l = <<c, Wish, memory, Hook>>
    BY <1>1, <1>3
  <2>2. l[1] = c /\ l[2] = Wish /\ l[4] = Hook
    BY <2>1
  <2> QED BY <1>2, <2>2 DEF SentLate
<1> QED BY <1>3 DEF Dutiful

\* The effect of a request spares what the payload keeps.
LEMMA EffectIsSparing ==
  ASSUME Dutiful, NEW c, NEW h, NEW w, NEW m, Sent(c[1], h, w, c),
         facts' = facts \/ facts' = Effect(c, w, facts, m)
  PROVE  /\ \A f \in facts' : ~Foreign(f)
         /\ h = "upsertProject" => Keeps(w, facts, facts')
<1>1. AddsNone(facts, facts') /\ (h = "upsertProject" => Keeps(w, facts, facts'))
  BY PluginActs, SameKeeps DEF Sent, Keeps
<1> QED BY <1>1 DEF AddsNone, Dutiful

LEMMA SparingKeepsVital ==
  ASSUME \A f \in facts : ~Foreign(f), NEW w, NEW t, Keeps(w, facts, t)
  PROVE  Things(Vital(w, facts)) \subseteq Things(t)
<1> SUFFICES ASSUME NEW x \in Things(Vital(w, facts))
             PROVE  x \in Things(t)
  OBVIOUS
<1>1. PICK f \in Vital(w, facts) : x = <<f[1], f[2], f[3]>>
  BY DEF Things
<1>2. f \in facts /\ IsVital(w, f)
  BY DEF Vital, IsVital, Foreign, Kubernetes!Reached
<1>3. PICK g \in t : Same(f, g)
  BY <1>2 DEF Keeps, Spares
<1>4. x = <<g[1], g[2], g[3]>>
  BY <1>1, <1>3 DEF Same
<1> QED BY <1>4 DEF Things

-----------------------------------------------------------------------------
(* Every step.                                                             *)

\* Of a step within a request of the console.
Sparing == Hook = "upsertProject" => Keeps(Wish, facts, facts')

LEMMA InitIsDutiful == Init => Dutiful
<1> SUFFICES ASSUME Init PROVE Dutiful
  OBVIOUS
<1>1. scenario \in Scenarios /\ calls = {} /\ late = {} /\ at = [p \in Focus |-> 0]
  BY DEF Init, Focus
<1>2. \A f \in facts : ~Foreign(f)
  BY ScenariosAssumption DEF Init, Foreign
<1>3. \A p \in Focus : 0 \in 0..Len(Phases(p, Hook, step))
  BY <1>1, FocusIsPlugins, PhasesAreCounted
<1> QED BY <1>1, <1>2, <1>3 DEF Dutiful

LEMMA FollowersAreSent ==
  ASSUME NEW h, NEW w, NEW c, NEW s, NEW m, Sent(c[1], h, w, c)
  PROVE  /\ \A d \in Then(c, w, s, m) : d[1] = c[1] /\ Sent(d[1], h, w, d)
         /\ \A d \in Rescue(c) : d[1] = c[1] /\ Sent(d[1], h, w, d)
<1>1. Sends(c[1], h, w, Then(c, w, s, m)) /\ Sends(c[1], h, w, Rescue(c))
  BY PluginContinues
<1>2. \A d : Sent(c[1], h, w, d) => d[1] = c[1]
  BY DEF Sent
<1> QED BY <1>1, <1>2 DEF Sends

LEMMA AskIsDutiful ==
  ASSUME Dutiful, Ask
  PROVE  Dutiful'
<1>1. scenario \in Scenarios /\ UNCHANGED <<scenario, facts, late, Focus>>
  BY DEF Dutiful, Ask, Focus
<1>2. Start(Hook', "pre", Wish', facts, {})
  BY <1>1 DEF Ask, Execute, Hook, Wish, Request
<1>3. /\ at' \in [Focus -> Nat]
      /\ \A p \in Focus : at'[p] \in 0..Len(Phases(p, Hook', step'))
      /\ \A c \in calls' : c[1] \in Focus /\ Sent(c[1], Hook', Wish', c)
  BY <1>1, <1>2, StartIsDutiful
<1> QED BY <1>1, <1>3 DEF Dutiful

LEMMA SucceedIsDutiful ==
  ASSUME Dutiful, NEW c \in calls, Succeed(c)
  PROVE  Dutiful' /\ Sparing
<1> DEFINE next == Then(c, Wish, facts', memory')
           ongoing == (calls \ {c}) \cup (next \ Unawaited(next))
<1>1. /\ c[1] \in Focus /\ Sent(c[1], Hook, Wish, c)
      /\ \A d \in next : d[1] = c[1] /\ Sent(d[1], Hook, Wish, d)
  <2>1. c[1] \in Focus /\ Sent(c[1], Hook, Wish, c)
    BY DEF Dutiful
  <2> QED BY <2>1, FollowersAreSent
<1>2. UNCHANGED <<scenario, turn, step>> /\ Resume(c[1], ongoing) /\ Leave(Unawaited(next))
  BY DEF Succeed
<1>3. UNCHANGED <<Focus, Hook, Wish>>
  BY <1>2 DEF Focus, Hook, Wish, Request
<1>4. /\ \A f \in facts' : ~Foreign(f)
      /\ Sparing
  BY <1>1, EffectIsSparing DEF Succeed, Sparing
<1>5. Unawaited(next) \subseteq next
  BY DEF Unawaited
<1>6. \A d \in ongoing : d[1] \in Focus /\ Sent(d[1], Hook, Wish, d)
  BY <1>1 DEF Dutiful
<1> HIDE DEF next, ongoing
<1>7. /\ at' \in [Focus -> Nat]
      /\ \A q \in Focus : at'[q] \in 0..Len(Phases(q, Hook, step))
      /\ \A d \in calls' : d[1] \in Focus /\ Sent(d[1], Hook, Wish, d)
  BY <1>1, <1>2, <1>6, ResumeIsDutiful
<1>8. \A l \in late' : SentLate(l)
  BY <1>1, <1>2, <1>5, LeaveIsDutiful
<1> QED BY <1>2, <1>3, <1>4, <1>7, <1>8 DEF Dutiful

\* Whatever became of the request, its rejection leaves the others as they are.
LEMMA RejectedIsDutiful ==
  ASSUME Dutiful, NEW c \in calls, Rejected(c) \/ Unanswered(c),
         UNCHANGED <<scenario, turn, step>>, \A f \in facts' : ~Foreign(f)
  PROVE  Dutiful'
<1>1. c[1] \in Focus /\ Sent(c[1], Hook, Wish, c)
  BY DEF Dutiful
<1>2. UNCHANGED <<scenario, turn, step>>
  OBVIOUS
<1>3. UNCHANGED <<Focus, Hook, Wish>>
  BY <1>2 DEF Focus, Hook, Wish, Request
<1>4. /\ at' \in [Focus -> Nat]
      /\ \A q \in Focus : at'[q] \in 0..Len(Phases(q, Hook, step))
      /\ \A d \in calls' : d[1] \in Focus /\ Sent(d[1], Hook, Wish, d)
      /\ \A l \in late' : SentLate(l)
  <2>1. CASE Handled(c)
    <3> DEFINE ongoing == (calls \ {c}) \cup Rescue(c)
    <3>1. \A d \in Rescue(c) : d[1] = c[1] /\ Sent(d[1], Hook, Wish, d)
      BY <1>1, FollowersAreSent
    <3>2. \A d \in ongoing : d[1] \in Focus /\ Sent(d[1], Hook, Wish, d)
      BY <1>1, <3>1 DEF Dutiful
    <3>3. Resume(c[1], ongoing) /\ late' = late
      BY <2>1 DEF Handled
    <3> HIDE DEF ongoing
    <3>4. /\ at' \in [Focus -> Nat]
          /\ \A q \in Focus : at'[q] \in 0..Len(Phases(q, Hook, step))
          /\ \A d \in calls' : d[1] \in Focus /\ Sent(d[1], Hook, Wish, d)
      BY <1>1, <3>2, <3>3, ResumeIsDutiful
    <3> QED BY <3>3, <3>4 DEF Dutiful
  <2>2. \A d \in Of(c[1], calls) \ {c} : Sent(d[1], Hook, Wish, d)
    BY DEF Of, Dutiful
  <2>3. CASE EndsPhase(c)
    <3> DEFINE ongoing == calls \ Of(c[1], calls)
    <3>1. \A d \in ongoing : d[1] \in Focus /\ Sent(d[1], Hook, Wish, d)
      BY DEF Dutiful
    <3>2. Resume(c[1], ongoing) /\ Leave(Of(c[1], calls) \ {c})
      BY <2>3 DEF EndsPhase
    <3> HIDE DEF ongoing
    <3>3. /\ at' \in [Focus -> Nat]
          /\ \A q \in Focus : at'[q] \in 0..Len(Phases(q, Hook, step))
          /\ \A d \in calls' : d[1] \in Focus /\ Sent(d[1], Hook, Wish, d)
      BY <1>1, <3>1, <3>2, ResumeIsDutiful
    <3>4. \A l \in late' : SentLate(l)
      BY <2>2, <3>2, LeaveIsDutiful
    <3> QED BY <3>3, <3>4
  <2>4. ASSUME NEW r, EndWith(c, r)
        PROVE  /\ at' \in [Focus -> Nat]
               /\ \A q \in Focus : at'[q] \in 0..Len(Phases(q, Hook, step))
               /\ \A d \in calls' : d[1] \in Focus /\ Sent(d[1], Hook, Wish, d)
               /\ \A l \in late' : SentLate(l)
    <3>1. /\ at' = [at EXCEPT ![c[1]] = 0]
          /\ calls' = calls \ Of(c[1], calls)
          /\ Leave(Of(c[1], calls) \ {c})
      BY <2>4 DEF EndWith
    <3>2. at' \in [Focus -> Nat] /\ \A d \in calls' : d[1] \in Focus /\ Sent(d[1], Hook, Wish, d)
      BY <3>1 DEF Dutiful
    <3>3. \A q \in Focus : 0 \in 0..Len(Phases(q, Hook, step))
      BY FocusIsPlugins, PhasesAreCounted DEF Dutiful
    <3>4. \A q \in Focus : at'[q] \in 0..Len(Phases(q, Hook, step))
      BY <3>1, <3>3 DEF Dutiful
    <3>5. \A l \in late' : SentLate(l)
      BY <2>2, <3>1, LeaveIsDutiful
    <3> QED BY <3>2, <3>4, <3>5
  <2>5. Handled(c) \/ EndsPhase(c) \/ (\E r : EndWith(c, r))
    BY DEF Rejected, EndsFunction, Unanswered
  <2> QED BY <2>1, <2>3, <2>4, <2>5
<1> QED BY <1>2, <1>3, <1>4 DEF Dutiful

LEMMA FailureIsDutiful ==
  ASSUME Dutiful, NEW c \in calls, Refuse(c) \/ Fail(c)
  PROVE  Dutiful' /\ Sparing
<1>1. Sent(c[1], Hook, Wish, c)
  BY DEF Dutiful
<1>2. /\ Rejected(c) \/ Unanswered(c)
      /\ UNCHANGED <<scenario, turn, step>>
      /\ facts' = facts \/ facts' = Effect(c, Wish, facts, memory)
  BY DEF Refuse, Fail, Rejected
<1>3. (\A f \in facts' : ~Foreign(f)) /\ Sparing
  BY <1>1, <1>2, EffectIsSparing DEF Sparing
<1> QED BY <1>2, <1>3, RejectedIsDutiful

LEMMA LateRequestIsDutiful ==
  ASSUME Dutiful, NEW l \in late, LateRequest(l)
  PROVE  Dutiful' /\ (l[4] = "upsertProject" => Keeps(l[2], facts, facts'))
<1> DEFINE c == l[1]
           w == l[2]
           h == l[4]
           next == Then(c, w, facts', l[3])
<1>1. Sent(c[1], h, w, c)
  BY DEF Dutiful, SentLate
<1>2. /\ UNCHANGED <<scenario, turn, step, at, calls>>
      /\ facts' = facts \/ facts' = Effect(c, w, facts, l[3])
      /\ \/ late' = late \ {l}
         \/ late' = (late \ {l}) \cup {<<d, w, l[3], h>> : d \in next}
  BY DEF LateRequest
<1>3. (\A f \in facts' : ~Foreign(f)) /\ (h = "upsertProject" => Keeps(w, facts, facts'))
  BY <1>1, <1>2, EffectIsSparing
<1>4. \A d \in next : d[1] = c[1] /\ Sent(d[1], h, w, d)
  BY <1>1, FollowersAreSent
<1>5. ASSUME NEW k \in late'
      PROVE  SentLate(k)
  <2> HIDE DEF next
  <2>1. CASE k \in late
    BY <2>1 DEF Dutiful
  <2>2. CASE k \notin late
    <3>1. PICK d \in next : k = <<d, w, l[3], h>>
      BY <1>2, <1>5, <2>2
    <3>2. k[1] = d /\ k[2] = w /\ k[4] = h
      BY <3>1
    <3> QED BY <1>4, <3>2 DEF SentLate
  <2> QED BY <2>1, <2>2
<1>6. UNCHANGED <<Focus, Hook, Wish>>
  BY <1>2 DEF Focus, Hook, Wish, Request
<1> QED BY <1>2, <1>3, <1>5, <1>6 DEF Dutiful

LEMMA StartedIsDutiful ==
  ASSUME Dutiful, NEW st, NEW m, Start(Hook, st, Wish, facts, m),
         UNCHANGED <<scenario, turn, late, facts>>
  PROVE  Dutiful' /\ Sparing
<1>1. UNCHANGED <<Focus, Hook, Wish>>
  BY DEF Focus, Hook, Wish, Request
<1>2. /\ at' \in [Focus -> Nat]
      /\ \A p \in Focus : at'[p] \in 0..Len(Phases(p, Hook, step'))
      /\ \A c \in calls' : c[1] \in Focus /\ Sent(c[1], Hook, Wish, c)
  BY StartIsDutiful DEF Dutiful
<1> QED BY <1>1, <1>2, SameKeeps DEF Dutiful, Sparing

LEMMA StopIsDutiful ==
  ASSUME Dutiful,
         \/ UNCHANGED <<at, calls, late>>
         \/ at' = [p \in Focus |-> 0] /\ calls' = {} /\ late' = {},
         UNCHANGED <<scenario, turn, step, facts>>
  PROVE  Dutiful' /\ Sparing
<1>1. UNCHANGED <<Focus, Hook, Wish>>
  BY DEF Focus, Hook, Wish, Request
<1>2. \A p \in Focus : 0 \in 0..Len(Phases(p, Hook, step))
  BY FocusIsPlugins, PhasesAreCounted DEF Dutiful
<1>3. /\ at' \in [Focus -> Nat]
      /\ \A p \in Focus : at'[p] \in 0..Len(Phases(p, Hook, step))
      /\ \A c \in calls' : c[1] \in Focus /\ Sent(c[1], Hook, Wish, c)
      /\ \A l \in late' : SentLate(l)
  BY <1>2 DEF Dutiful
<1> QED BY <1>1, <1>3, SameKeeps DEF Dutiful, Sparing

LEMMA StepIsDutiful ==
  ASSUME Dutiful, [Next]_vars
  PROVE  /\ Dutiful'
         /\ outcome = "pending" /\ ~(\E l \in late : LateRequest(l)) => Sparing
<1>1. CASE Ask
  <2>1. outcome # "pending"
    BY <1>1 DEF Ask
  <2> QED BY <1>1, <2>1, AskIsDutiful
<1>2. ASSUME NEW c \in calls, Succeed(c) \/ Refuse(c) \/ Fail(c)
      PROVE  Dutiful' /\ Sparing
  BY <1>2, SucceedIsDutiful, FailureIsDutiful
<1>3. ASSUME NEW l \in late, LateRequest(l)
      PROVE  Dutiful'
  BY <1>3, LateRequestIsDutiful
<1>4. CASE NextStep
  BY <1>4, StartedIsDutiful DEF NextStep
<1>5. CASE Retry
  BY <1>5, StartedIsDutiful DEF Retry, Execute
<1>6. CASE Answer \/ Crash \/ UNCHANGED vars
  BY <1>6, StopIsDutiful DEF Answer, Crash, vars
<1> QED BY <1>1, <1>2, <1>3, <1>4, <1>5, <1>6 DEF Next

LEMMA DutifulAlways == Spec => []Dutiful
<1>1. Dutiful /\ [Next]_vars => Dutiful'
  BY StepIsDutiful
<1> QED BY <1>1, InitIsDutiful, PTL DEF Spec

\* Provisioning a project again, whatever fails and whatever comes late, never
\* takes away what its payload keeps, neither while it lasts nor by its requests
\* that end during later ones: for any plugins, requests and facts.
\* (The deletions of the plugins, in the loops of upsertProject.)
THEOREM VitalIsSpared == Spec => VitalStays
<1> DEFINE InTime == outcome = "pending" /\ outcome' = "pending" /\ Hook = "upsertProject"
                       /\ ~(\E l \in late : LateRequest(l)) => Spared(Wish)
           Late == \A l \in late : LateRequest(l) /\ l[4] = "upsertProject" => Spared(l[2])
<1>1. Dutiful /\ [Next]_vars => InTime
  BY StepIsDutiful, SparingKeepsVital DEF Dutiful, Sparing, Spared
<1>2. Dutiful => Late
  <2> SUFFICES ASSUME Dutiful, NEW l \in late, LateRequest(l), l[4] = "upsertProject"
               PROVE  Spared(l[2])
    OBVIOUS
  <2>1. Keeps(l[2], facts, facts')
    BY LateRequestIsDutiful
  <2> QED BY <2>1, SparingKeepsVital DEF Dutiful, Spared
<1>3. Dutiful /\ [Next]_vars => [InTime /\ Late]_vars
  BY <1>1, <1>2
<1>4. Spec => []Dutiful
  BY DutifulAlways
<1> QED BY <1>3, <1>4, PTL DEF Spec, VitalStays
=============================================================================
