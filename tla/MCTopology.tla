----------------------------- MODULE MCTopology -----------------------------
(***************************************************************************)
(* Two requests at a time over a small platform: c1 is dedicated to the    *)
(* project p1 and in use, c2 is public and free, the zone z2 is empty, and *)
(* z3, c3, s3 and q3 are still to be created.                              *)
(***************************************************************************)
EXTENDS Topology, TLC

Rows ==
  [zones |-> {"z1", "z2"},
   clusters |-> [c \in {"c1", "c2"} |->
                   [zone |-> "z1", privacy |-> IF c = "c1" THEN "dedicated" ELSE "public"]],
   stages |-> [s \in {"s1", "s2"} |-> IF s = "s1" THEN "dev" ELSE "prod"],
   quotas |-> [q \in {"q1", "q2"} |-> q = "q2"],
   envs |-> [e \in {<<"p1", "e1">>} |->
               [cluster |-> "c1", stage |-> "s1", quota |-> "q1"]],
   links |-> {{"c1", "p1"}, {"c1", "s1"}, {"c2", "s1"}, {"c2", "s2"}, {"s1", "q1"}}]

Body(kind, id) ==
  [kind |-> kind, id |-> id] @@
  [f \in {"zone", "privacy", "projects", "stages", "clusters", "quotas", "name",
          "private", "more", "force", "admin", "cluster", "stage", "quota"} |-> Absent]

ZoneAsks ==
  {[Body("createZone", "z3") EXCEPT !.clusters = {"c2"}],
   Body("createZone", "z3"), Body("updateZone", "z1"),
   Body("deleteZone", "z2"), Body("deleteZone", "z3")}

ClusterAsks ==
  {[Body("createCluster", "c3") EXCEPT
      !.zone = z, !.privacy = "dedicated", !.projects = {"p1", "p2"}, !.stages = {"s1"}]
     : z \in {"z1", "z2"}}
  \cup {[Body("updateCluster", "c1") EXCEPT !.privacy = v, !.projects = ps, !.zone = z] :
          v \in {"dedicated", "public"}, ps \in {{"p2"}, {"p1"}}, z \in {"z2", Absent}}
  \cup {[Body("updateCluster", "c1") EXCEPT !.projects = ps] : ps \in {{"p2"}, {"p1"}, Absent}}
  \cup {[Body("updateCluster", "c2") EXCEPT !.privacy = v, !.projects = {"p1"}] :
          v \in {"dedicated", Absent}}
  \cup {[Body("updateCluster", "c2") EXCEPT !.stages = ss, !.zone = z] :
          ss \in {{"s1", "s3"}, {}, Absent}, z \in {"z2", Absent}}
  \cup {[Body("deleteCluster", c) EXCEPT !.force = f] :
          c \in {"c1", "c2"}, f \in BOOLEAN}

StageAsks ==
  {[Body("createStage", "s3") EXCEPT
      !.name = n, !.clusters = {"c1", "c2"}, !.quotas = {"q1", "q3"}] : n \in {"dev", "test"}}
  \cup {[Body("updateStage", s) EXCEPT !.name = n, !.clusters = cs, !.quotas = qs] :
          s \in {"s1", "s2"}, n \in {"dev", Absent}, cs \in {{"c1"}, Absent}, qs \in {{"q2"}, Absent}}
  \cup {Body("deleteStage", s) : s \in {"s1", "s2"}}

QuotaAsks ==
  {[Body("createQuota", "q3") EXCEPT !.private = FALSE, !.stages = {"s1", "s2"}]}
  \cup {[Body("updateQuota", q) EXCEPT !.private = p, !.more = FALSE, !.stages = ss] :
          q \in {"q1", "q2"}, p \in BOOLEAN, ss \in {{"s2"}, Absent}}
  \cup {Body("deleteQuota", q) : q \in {"q1", "q2"}}

EnvironmentAsks ==
  {[Body("createEnvironment", <<"p1", "e2">>) EXCEPT
      !.cluster = c, !.stage = "s1", !.quota = q, !.admin = a] :
     c \in {"c1", "c2"}, q \in {"q1", "q2"}, a \in BOOLEAN}
  \cup {[Body("updateEnvironment", <<"p1", "e1">>) EXCEPT !.quota = "q2", !.admin = a] :
          a \in BOOLEAN}
  \cup {Body("deleteEnvironment", <<"p1", "e1">>)}

Alike == Permutations(Requests)

Every == ZoneAsks \cup ClusterAsks \cup StageAsks \cup QuotaAsks \cup EnvironmentAsks
=============================================================================
