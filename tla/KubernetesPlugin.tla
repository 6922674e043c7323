-------------------------- MODULE KubernetesPlugin --------------------------
(***************************************************************************)
(* The kubernetes plugin (plugins/kubernetes/src): a namespace and a quota *)
(* for each environment of the project, on the cluster the console         *)
(* reaches, and no other namespace of the project there.                   *)
(*                                                                         *)
(* Facts: namespace (its labels current or old), quota (its size), and     *)
(* resource (environment and name), what other plugins put in a namespace. *)
(***************************************************************************)
EXTENDS Services

Kc(o, n, d) == <<"kubernetes", o, n, d>>

\* A cluster the console does not reach has no API object: nothing is sent.
Reached(w) == w.envs \ ExternalEnvs

HasNamespace(s, e) == Has(s, "kubernetes", "namespace", e)

Namespaces(s) == Names(s, "kubernetes", "namespace")

\* Deleting a namespace deletes what is in it.
WithoutNamespace(s, e) ==
  {f \in s : ~(/\ f[1] = "kubernetes"
               /\ IF f[2] = "resource" THEN f[3][1] = e ELSE f[3] = e)}

QuotaOf(w) == IF "large" \in w.opts THEN "large" ELSE "small"

Phases(h, step) ==
  CASE h = "upsertProject" /\ step = "pre"  -> <<"ensure", "list", "remove">>
    [] h = "deleteProject" /\ step = "post" -> <<"list", "removeAll">>
    [] OTHER                                -> <<>>

\* What a phase begins with.  The namespaces to remove are those of the list
\* read when the loop begins.
Opening(phase, w, s, m) ==
  CASE phase = "ensure"    -> {Kc("readNamespace", e, "") : e \in Reached(w)}
    [] phase = "list"      -> {Kc("list", "", "")}
    [] phase = "remove"    -> OneByOne("kubernetes", "deleteNamespace",
                                       Namespaces(s) \ Reached(w))
    [] phase = "removeAll" -> OneByOne("kubernetes", "deleteNamespace",
                                       Namespaces(s))

\* getFromClusterOrCreate: labels that differ are patched.
EnsureNamespace(c, s) ==
  CASE c[2] = "readNamespace" ->
         IF ~HasNamespace(s, c[3])
           THEN {Kc("createNamespace", c[3], "")}
         ELSE IF Detail(s, "kubernetes", "namespace", c[3]) # "current"
           THEN {Kc("patchNamespace", c[3], "")}
         ELSE {Kc("readQuota", c[3], "")}
    [] c[2] \in {"createNamespace", "patchNamespace"} ->
         {Kc("readQuota", c[3], "")}
    [] OTHER -> {}

\* setQuota: the creation stands in a catch, so it also follows a read or a
\* replacement that failed.
SetQuota(c, s) ==
  IF c[2] = "readQuota"
    THEN {Kc(IF Has(s, "kubernetes", "quota", c[3]) THEN "replaceQuota"
                                                    ELSE "createQuota",
             c[3], "")}
    ELSE {}

Then(c, w, s, m) ==
  EnsureNamespace(c, s) \cup SetQuota(c, s)
    \cup IF c[2] = "deleteNamespace"
           THEN OneByOne("kubernetes", "deleteNamespace", c[4]) ELSE {}

Effect(c, w, s, m) ==
  CASE c[2] \in {"createNamespace", "patchNamespace"} ->
         Put(s, "kubernetes", "namespace", c[3], "current")
    [] c[2] \in {"createQuota", "replaceQuota"} ->
         Put(s, "kubernetes", "quota", c[3], QuotaOf(w))
    [] c[2] = "deleteNamespace" -> WithoutNamespace(s, c[3])
    [] OTHER -> s

\* The API server refuses to create what exists, and anything in a namespace
\* that does not exist.
Refused(c, w, s, m) ==
  \/ c[2] \in {"createNamespace", "createQuota"}
       /\ Has(s, "kubernetes",
              IF c[2] = "createQuota" THEN "quota" ELSE "namespace", c[3])
  \/ c[2] \in {"patchNamespace", "deleteNamespace", "createQuota"}
       /\ ~HasNamespace(s, c[3])

Rescue(c) ==
  IF c[2] \in {"readQuota", "replaceQuota"}
    THEN {Kc("createQuota", c[3], "")} ELSE {}

OnError(c) == IF Rescue(c) # {} THEN "caught" ELSE "KO"

-----------------------------------------------------------------------------
(* createOrPatchRessource and deleteResource, the promise chains of other  *)
(* plugins in the namespace of an environment.  Their calls keep the name  *)
(* of the plugin and what it has to do next; n is <<environment, name>>.   *)

HasResource(s, n) == Has(s, "kubernetes", "resource", n)

CreateOrPatch(p, n, next) == {<<p, "findResource", n, next>>}

DeleteResource(p, n, next) == {<<p, "findUnwanted", n, next>>}

ResourceCalls(c, s) ==
  CASE c[2] = "findResource" ->
         {<<c[1], IF HasResource(s, c[3]) THEN "patchResource"
                                          ELSE "createResource", c[3], c[4]>>}
    [] c[2] = "findUnwanted" /\ HasResource(s, c[3]) ->
         {<<c[1], "deleteResource", c[3], c[4]>>}
    [] OTHER -> {}

\* The chain has done with the resource.
ResourceDone(c, s) ==
  \/ c[2] \in {"patchResource", "createResource", "deleteResource"}
  \/ c[2] = "findUnwanted" /\ ~HasResource(s, c[3])

\* A read that fails is taken for a resource that is missing.
ResourceRescue(c) ==
  IF c[2] = "findResource" THEN {<<c[1], "createResource", c[3], c[4]>>} ELSE {}

\* The custom objects API: what the requests of AnyObjectsApi do.
PatchObject(s, n, d) == Put(s, "kubernetes", "resource", n, d)

CreateObject(s, n, d) == Put(s, "kubernetes", "resource", n, d)

DeleteObject(s, n) == Drop(s, "kubernetes", "resource", n)

ResourceRefused(c, s) ==
  \/ c[2] = "createResource" /\ (HasResource(s, c[3]) \/ ~HasNamespace(s, c[3][1]))
  \/ c[2] \in {"patchResource", "deleteResource"} /\ ~HasResource(s, c[3])

-----------------------------------------------------------------------------
(* What the plugin promises once it has replied OK.                        *)

Provided(w, s) ==
  \A e \in Reached(w) :
    /\ <<"kubernetes", "namespace", e, "current">> \in s
    /\ <<"kubernetes", "quota", e, QuotaOf(w)>> \in s

Synced(w, s) == Provided(w, s) /\ Namespaces(s) = Reached(w)

Gone(w, s) == Namespaces(s) = {}
=============================================================================
