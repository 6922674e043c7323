---------------------------- MODULE TopologyProofs ----------------------------
(***************************************************************************)
(* Proofs about the rows the environments need (Topology), for any number  *)
(* of requests at a time, of clusters, zones, stages and quotas, whatever  *)
(* the requests ask for and however their awaits interleave.               *)
(***************************************************************************)
EXTENDS Topology, SequenceTheorems, TLAPS

\* The steps a handler may go through, by what it is asked.
Only(b, step) == IF b THEN {step} ELSE {}

Vocabulary(a) ==
  CASE a.kind = "createZone" ->
         {"findZone", "insertZone", "hook", "executing"} \cup Only(Given(a, "clusters"), "linkZone")
    [] a.kind = "updateZone" -> {"writeZone", "hook", "executing"}
    [] a.kind = "deleteZone" -> {"findAttached", "hook", "executing", "deleteZone"}
    [] a.kind = "createCluster" ->
         {"findLabel", "insertCluster", "hook", "executing", "details"}
           \cup Only(Given(a, "projects") /\ a.privacy = "dedicated", "linkProjects")
           \cup Only(Given(a, "stages"), "linkStages")
    [] a.kind = "updateCluster" ->
         {"findCluster", "writeCluster", "readProjects", "linkProjects", "unlinkProjects",
          "hook", "executing", "details"}
           \cup Only(Given(a, "zone"), "moveCluster")
           \cup IF Given(a, "stages") THEN {"linkStages", "readStages", "unlinkStages"} ELSE {}
    [] a.kind = "deleteCluster" ->
         {"deleteEnvironments", "findEnvironment", "hook", "executing", "deleteCluster"}
    [] a.kind = "createStage" ->
         {"findName", "insertStage"} \cup Only(Given(a, "quotas"), "linkQuotas")
           \cup Only(Given(a, "clusters"), "linkClusters")
    [] a.kind = "updateStage" ->
         {"findStage"} \cup Only(Given(a, "name"), "rename")
           \cup (IF Given(a, "clusters") THEN {"unlinkClusters", "linkClusters"} ELSE {})
           \cup (IF Given(a, "quotas") THEN {"unlinkQuotas", "linkQuotas"} ELSE {})
    [] a.kind \in {"deleteStage", "deleteQuota"} -> {"findUse", "deleteRow"}
    [] a.kind = "createQuota" ->
         {"findQuotaName", "insertQuota"} \cup Only(Given(a, "stages"), "linkStages")
    [] a.kind = "updateQuota" ->
         {"findQuota", "writeQuota"}
           \cup IF Given(a, "stages") THEN {"unlinkStages", "linkStages"} ELSE {}
    [] a.kind = "createEnvironment" -> {"checkEnvironment", "insertEnvironment"}
    [] a.kind = "updateEnvironment" -> {"checkQuota", "writeEnvironment"}
    [] a.kind = "deleteEnvironment" -> {"deleteEnvironment"}

LEMMA WhenSeq ==
  ASSUME NEW V, NEW b, NEW steps, b => steps \in Seq(V)
  PROVE  When(b, steps) \in Seq(V)
BY DEF When

LEMMA ConcatSeq ==
  ASSUME NEW V, NEW s \in Seq(V), NEW t \in Seq(V)
  PROVE  s \o t \in Seq(V) /\ (Len(s) > 0 => Len(s \o t) > 0)
OBVIOUS

\* A handler goes through the steps of its vocabulary.
LEMMA StepsTyped ==
  ASSUME NEW a \in Asks
  PROVE  Steps(a) \in Seq(Vocabulary(a)) /\ Len(Steps(a)) > 0
<1> DEFINE V == Vocabulary(a)
<1>0. Accepted(a)
  BY TopologyAssumption
<1>1. CASE a.kind = "createZone"
  <2>1. /\ {"findZone", "insertZone", "hook", "executing"} \subseteq V
        /\ Given(a, "clusters") => "linkZone" \in V
    BY <1>1 DEF Vocabulary, Only
  <2> HIDE DEF V
  <2>2. /\ <<"findZone", "insertZone">> \in Seq(V) /\ <<"hook", "executing">> \in Seq(V)
        /\ Given(a, "clusters") => <<"linkZone">> \in Seq(V)
    BY <2>1
  <2>3. When(Given(a, "clusters"), <<"linkZone">>) \in Seq(V)
    BY <2>2, WhenSeq
  <2>4. QED BY <1>1, <2>2, <2>3, ConcatSeq DEF Steps, V
<1>2. CASE a.kind \in {"updateZone", "deleteZone", "createEnvironment", "updateEnvironment",
                       "deleteEnvironment", "deleteStage", "deleteQuota"}
  <2>1. CASE a.kind = "updateZone"
    <3>1. Steps(a) = <<"writeZone", "hook", "executing">> /\ V = {"writeZone", "hook", "executing"}
      BY <2>1 DEF Steps, Vocabulary
    <3>2. QED BY <3>1
  <2>2. CASE a.kind = "deleteZone"
    <3>1. /\ Steps(a) = <<"findAttached", "hook", "executing", "deleteZone">>
          /\ V = {"findAttached", "hook", "executing", "deleteZone"}
      BY <2>2 DEF Steps, Vocabulary
    <3>2. QED BY <3>1
  <2>3. CASE a.kind = "createEnvironment"
    <3>1. /\ Steps(a) = <<"checkEnvironment", "insertEnvironment">>
          /\ V = {"checkEnvironment", "insertEnvironment"}
      BY <2>3 DEF Steps, Vocabulary
    <3>2. QED BY <3>1
  <2>4. CASE a.kind = "updateEnvironment"
    <3>1. Steps(a) = <<"checkQuota", "writeEnvironment">> /\ V = {"checkQuota", "writeEnvironment"}
      BY <2>4 DEF Steps, Vocabulary
    <3>2. QED BY <3>1
  <2>5. CASE a.kind = "deleteEnvironment"
    <3>1. Steps(a) = <<"deleteEnvironment">> /\ V = {"deleteEnvironment"}
      BY <2>5 DEF Steps, Vocabulary
    <3>2. QED BY <3>1
  <2>6. CASE a.kind \in {"deleteStage", "deleteQuota"}
    <3>1. Steps(a) = <<"findUse", "deleteRow">> /\ V = {"findUse", "deleteRow"}
      BY <2>6 DEF Steps, Vocabulary
    <3>2. QED BY <3>1
  <2>7. QED BY <1>2, <2>1, <2>2, <2>3, <2>4, <2>5, <2>6
<1>3. CASE a.kind = "createCluster"
  <2> DEFINE link == a.privacy = "dedicated" /\ Filled(a, "projects")
  <2>1. /\ {"findLabel", "insertCluster", "hook", "executing", "details"} \subseteq V
        /\ link => "linkProjects" \in V
        /\ Filled(a, "stages") => "linkStages" \in V
    BY <1>3 DEF Vocabulary, Only, Filled
  <2> HIDE DEF V, link
  <2>2. /\ <<"findLabel", "insertCluster">> \in Seq(V)
        /\ <<"hook", "executing", "details">> \in Seq(V)
        /\ link => <<"linkProjects">> \in Seq(V)
        /\ Filled(a, "stages") => <<"linkStages">> \in Seq(V)
    BY <2>1
  <2>3. /\ When(link, <<"linkProjects">>) \in Seq(V)
        /\ When(Filled(a, "stages"), <<"linkStages">>) \in Seq(V)
    BY <2>2, WhenSeq
  <2>4. QED BY <1>3, <2>2, <2>3, ConcatSeq DEF Steps, V, link
<1>4. CASE a.kind = "updateCluster"
  <2>1. /\ {"findCluster", "writeCluster", "readProjects", "linkProjects", "unlinkProjects",
            "hook", "executing", "details"} \subseteq V
        /\ Given(a, "zone") => "moveCluster" \in V
        /\ Given(a, "stages") => {"linkStages", "readStages", "unlinkStages"} \subseteq V
    BY <1>4 DEF Vocabulary, Only
  <2> HIDE DEF V
  <2>2. /\ <<"findCluster", "writeCluster">> \in Seq(V)
        /\ <<"readProjects", "linkProjects", "unlinkProjects">> \in Seq(V)
        /\ <<"hook", "executing", "details">> \in Seq(V)
        /\ Given(a, "zone") => <<"moveCluster">> \in Seq(V)
        /\ Given(a, "stages") => <<"linkStages", "readStages", "unlinkStages">> \in Seq(V)
    BY <2>1
  <2>3. /\ When(Given(a, "zone"), <<"moveCluster">>) \in Seq(V)
        /\ When(Given(a, "stages"), <<"linkStages", "readStages", "unlinkStages">>) \in Seq(V)
    BY <2>2, WhenSeq
  <2>4. UpdateClusterSteps(a) \in Seq(V) /\ Len(UpdateClusterSteps(a)) > 0
    BY <2>2, <2>3, ConcatSeq DEF UpdateClusterSteps
  <2>5. QED BY <1>4, <2>4 DEF Steps, V
<1>5. CASE a.kind = "deleteCluster"
  <2>1. V = {"deleteEnvironments", "findEnvironment", "hook", "executing", "deleteCluster"}
    BY <1>5 DEF Vocabulary
  <2> HIDE DEF V
  <2>2. /\ <<"deleteEnvironments">> \in Seq(V) /\ <<"findEnvironment">> \in Seq(V)
        /\ <<"hook", "executing", "deleteCluster">> \in Seq(V)
    BY <2>1
  <2>3. QED BY <1>5, <2>2, ConcatSeq DEF Steps, V
<1>6. CASE a.kind = "createStage"
  <2>1. /\ {"findName", "insertStage"} \subseteq V
        /\ Filled(a, "quotas") => "linkQuotas" \in V
        /\ Filled(a, "clusters") => "linkClusters" \in V
    BY <1>6 DEF Vocabulary, Only, Filled
  <2> HIDE DEF V
  <2>2. /\ <<"findName", "insertStage">> \in Seq(V)
        /\ Filled(a, "quotas") => <<"linkQuotas">> \in Seq(V)
        /\ Filled(a, "clusters") => <<"linkClusters">> \in Seq(V)
    BY <2>1
  <2>3. /\ When(Filled(a, "quotas"), <<"linkQuotas">>) \in Seq(V)
        /\ When(Filled(a, "clusters"), <<"linkClusters">>) \in Seq(V)
    BY <2>2, WhenSeq
  <2>4. QED BY <1>6, <2>2, <2>3, ConcatSeq DEF Steps, V
<1>7. CASE a.kind = "updateStage"
  <2>1. /\ "findStage" \in V
        /\ Given(a, "name") => "rename" \in V
        /\ Given(a, "clusters") => {"unlinkClusters", "linkClusters"} \subseteq V
        /\ Given(a, "quotas") => {"unlinkQuotas", "linkQuotas"} \subseteq V
    BY <1>7 DEF Vocabulary, Only
  <2> HIDE DEF V
  <2>2. /\ <<"findStage">> \in Seq(V)
        /\ Given(a, "name") => <<"rename">> \in Seq(V)
        /\ Given(a, "clusters") => <<"unlinkClusters", "linkClusters">> \in Seq(V)
        /\ Given(a, "quotas") => <<"unlinkQuotas", "linkQuotas">> \in Seq(V)
    BY <2>1
  <2>3. /\ When(Given(a, "name"), <<"rename">>) \in Seq(V)
        /\ When(Given(a, "clusters"), <<"unlinkClusters", "linkClusters">>) \in Seq(V)
        /\ When(Given(a, "quotas"), <<"unlinkQuotas", "linkQuotas">>) \in Seq(V)
    BY <2>2, WhenSeq
  <2>4. QED BY <1>7, <2>2, <2>3, ConcatSeq DEF Steps, V
<1>8. CASE a.kind = "createQuota"
  <2>1. /\ {"findQuotaName", "insertQuota"} \subseteq V
        /\ Filled(a, "stages") => "linkStages" \in V
    BY <1>8 DEF Vocabulary, Only, Filled
  <2> HIDE DEF V
  <2>2. /\ <<"findQuotaName", "insertQuota">> \in Seq(V)
        /\ Filled(a, "stages") => <<"linkStages">> \in Seq(V)
    BY <2>1
  <2>3. When(Filled(a, "stages"), <<"linkStages">>) \in Seq(V)
    BY <2>2, WhenSeq
  <2>4. QED BY <1>8, <2>2, <2>3, ConcatSeq DEF Steps, V
<1>9. CASE a.kind = "updateQuota"
  <2> DEFINE write == a.private = TRUE \/ a.more
  <2>1. /\ {"findQuota", "writeQuota"} \subseteq V
        /\ Given(a, "stages") => {"unlinkStages", "linkStages"} \subseteq V
    BY <1>9 DEF Vocabulary, Only
  <2> HIDE DEF V, write
  <2>2. /\ <<"findQuota">> \in Seq(V) /\ (write => <<"writeQuota">> \in Seq(V))
        /\ Given(a, "stages") => <<"unlinkStages", "linkStages">> \in Seq(V)
    BY <2>1
  <2>3. /\ When(write, <<"writeQuota">>) \in Seq(V)
        /\ When(Given(a, "stages"), <<"unlinkStages", "linkStages">>) \in Seq(V)
    BY <2>2, WhenSeq
  <2>4. QED BY <1>9, <2>2, <2>3, ConcatSeq DEF Steps, V, write
<1>10. QED BY <1>0, <1>1, <1>2, <1>3, <1>4, <1>5, <1>6, <1>7, <1>8, <1>9 DEF Accepted

-----------------------------------------------------------------------------
(* The requests.                                                           *)

Answered == {"none", "ok", "refused", "failed", "threw"}

\* A request in progress is at one of its steps.
RequestOK(r) ==
  /\ DOMAIN requests[r] = {"ask", "at", "read", "met", "answer"}
  /\ requests[r].met \subseteq Requests
  /\ requests[r].answer \in Answered
  /\ requests[r].at # 0 =>
       /\ requests[r].ask \in Asks
       /\ requests[r].at \in 1..Len(Steps(requests[r].ask))

RequestsOK ==
  /\ DOMAIN requests = Requests
  /\ \A r \in Requests : RequestOK(r)

\* What a step of a request leaves as it is, and where it may lead.
Moved(r) ==
  /\ DOMAIN requests' = Requests
  /\ \A q \in Requests \ {r} : requests'[q] = requests[q]
  /\ DOMAIN requests'[r] = DOMAIN requests[r]
  /\ requests'[r].ask = requests[r].ask
  /\ requests'[r].met = requests[r].met
  /\ \/ requests'[r].at = 0
     \/ /\ requests'[r].at \in {requests[r].at, requests[r].at + 1}
        /\ requests'[r].at \in 1..Len(Steps(requests[r].ask))
  /\ requests'[r].answer \in Answered
  /\ requests'[r].at = 0 => requests'[r].answer # "none"

LEMMA AtStep ==
  ASSUME RequestsOK, NEW r \in Requests, NEW step, At(r, step)
  PROVE  /\ Ask(r) \in Asks /\ Accepted(Ask(r))
         /\ step \in Vocabulary(Ask(r))
         /\ r \in Busy
<1>1. /\ Ask(r) \in Asks
      /\ requests[r].at \in 1..Len(Steps(Ask(r)))
  BY DEF At, Ask, RequestsOK, RequestOK
<1>2. Steps(Ask(r)) \in Seq(Vocabulary(Ask(r)))
  BY <1>1, StepsTyped
<1>3. Steps(Ask(r))[requests[r].at] \in Vocabulary(Ask(r))
  BY <1>1, <1>2
<1>4. QED BY <1>1, <1>3, TopologyAssumption DEF At, Busy

LEMMA EndMoves ==
  ASSUME RequestsOK, NEW r \in Requests, NEW answer \in Answered \ {"none"}, End(r, answer)
  PROVE  Moved(r) /\ requests'[r].at = 0 /\ requests'[r].answer = answer
BY DEF RequestsOK, RequestOK, End, Moved

LEMMA GoMoves ==
  ASSUME RequestsOK, NEW r \in Requests, requests[r].at # 0, NEW read, Go(r, read)
  PROVE  /\ Moved(r)
         /\ requests'[r].at # 0 => requests'[r].at = requests[r].at + 1 /\ requests'[r].read = read
         /\ requests'[r].at = 0 => requests[r].at = Len(Steps(Ask(r)))
<1>0. "ok" \in Answered \ {"none"}
  BY DEF Answered
<1>1. CASE requests[r].at = Len(Steps(Ask(r)))
  BY <1>0, <1>1, EndMoves DEF Go
<1>2. CASE requests[r].at # Len(Steps(Ask(r)))
  <2>1. requests' = [requests EXCEPT ![r].at = @ + 1, ![r].read = read]
    BY <1>2 DEF Go
  <2>2. /\ requests[r].at \in 1..Len(Steps(Ask(r)))
        /\ Steps(Ask(r)) \in Seq(Vocabulary(Ask(r)))
    BY StepsTyped DEF RequestsOK, RequestOK, Ask
  <2>3. requests[r].at + 1 \in 1..Len(Steps(Ask(r)))
    BY <1>2, <2>2
  <2>4. QED BY <2>1, <2>3 DEF Moved, RequestsOK, RequestOK, Ask
<1>3. QED BY <1>1, <1>2

\* A loop reads again where it is.
LEMMA LoopMoves ==
  ASSUME RequestsOK, NEW r \in Requests, requests[r].at # 0, NEW read,
         requests' = [requests EXCEPT ![r].read = read]
  PROVE  Moved(r) /\ requests'[r].at = requests[r].at
BY DEF Moved, RequestsOK, RequestOK

\* A step of a handler ends its request, goes on, or reads again.
LEMMA HandleForms ==
  ASSUME NEW r \in Requests, Handle(r)
  PROVE  /\ r \in Busy
         /\ \/ \E answer \in {"refused", "failed", "threw"} : End(r, answer)
            \/ \E read : Go(r, read) \/ requests' = [requests EXCEPT ![r].read = read]
<1>1. requests[r].at # 0
  BY DEF Handle, CallHook, RunHook, ZoneStep, CreateCluster, UpdateCluster, LinkProjects,
     DeleteCluster, StageStep, UnlinkClusters, QuotaStep, DeleteRow, EnvironmentStep, At
<1>2. CASE CallHook(r) \/ RunHook(r)
  BY <1>1, <1>2 DEF CallHook, RunHook, Busy
<1>3. CASE ZoneStep(r) \/ CreateCluster(r) \/ LinkProjects(r) \/ DeleteCluster(r)
  BY <1>1, <1>3 DEF ZoneStep, CreateCluster, LinkProjects, DeleteCluster, Check, Write, Busy
<1>4. CASE UpdateCluster(r)
  BY <1>1, <1>4 DEF UpdateCluster, WritePrivacy, Check, Write, DisconnectEach, Busy
<1>5. CASE StageStep(r) \/ QuotaStep(r) \/ DeleteRow(r) \/ EnvironmentStep(r)
  BY <1>1, <1>5 DEF StageStep, QuotaStep, DeleteRow, EnvironmentStep, Check, Write, Connect,
     ConnectEach, Disconnect, DisconnectEach, Busy
<1>6. CASE UnlinkClusters(r)
  BY <1>1, <1>6 DEF UnlinkClusters, Check, Busy
<1>7. QED BY <1>2, <1>3, <1>4, <1>5, <1>6 DEF Handle

\* Every step of a handler moves its request, and no other; a success comes
\* at its last step.
LEMMA HandleMoves ==
  ASSUME RequestsOK, NEW r \in Requests, Handle(r)
  PROVE  /\ Moved(r)
         /\ requests'[r].at = 0 /\ requests'[r].answer = "ok" =>
              requests[r].at = Len(Steps(Ask(r)))
<1>1. requests[r].at # 0
  BY HandleForms DEF Busy
<1>2. CASE \E answer \in {"refused", "failed", "threw"} : End(r, answer)
  BY <1>2, EndMoves DEF Answered
<1>3. CASE \E read : Go(r, read)
  BY <1>1, <1>3, GoMoves
<1>4. CASE \E read : requests' = [requests EXCEPT ![r].read = read]
  <2>1. PICK read : requests' = [requests EXCEPT ![r].read = read]
    BY <1>4
  <2>2. Moved(r) /\ requests'[r].at = requests[r].at
    BY <1>1, <2>1, LoopMoves
  <2>3. QED BY <1>1, <2>2
<1>5. QED BY <1>2, <1>3, <1>4, HandleForms

LEMMA NextRequests ==
  ASSUME RequestsOK, [Next]_vars
  PROVE  RequestsOK'
<1>1. ASSUME NEW r \in Requests, Receive(r)
      PROVE  RequestsOK'
  <2>1. PICK a \in Asks :
          requests' = [q \in Requests |->
            IF q = r THEN [Unborn EXCEPT !.ask = a, !.at = 1, !.met = Busy]
            ELSE IF q \in Busy THEN [requests[q] EXCEPT !.met = @ \cup {r}]
            ELSE requests[q]]
    BY <1>1 DEF Receive
  <2>2. Busy \subseteq Requests
    BY DEF Busy
  <2>3. Len(Steps(a)) \in Nat /\ Len(Steps(a)) > 0
    BY StepsTyped
  <2>4. DOMAIN requests' = Requests
    BY <2>1
  <2>5. RequestOK(r)'
    <3>1. requests'[r] = [ask |-> a, at |-> 1, read |-> Absent, met |-> Busy, answer |-> "none"]
      BY <2>1 DEF Unborn
    <3>2. 1 \in 1..Len(Steps(a))
      BY <2>3
    <3>3. /\ DOMAIN requests'[r] = {"ask", "at", "read", "met", "answer"}
          /\ requests'[r].ask = a /\ requests'[r].at = 1 /\ requests'[r].met = Busy
          /\ requests'[r].answer = "none"
      BY <3>1
    <3>4. QED BY <2>2, <3>2, <3>3 DEF RequestOK, Answered
  <2>6. ASSUME NEW q \in Requests, q # r PROVE RequestOK(q)'
    <3>1. CASE q \in Busy
      <4>1. requests'[q] = [requests[q] EXCEPT !.met = @ \cup {r}]
        BY <2>1, <2>6, <3>1
      <4>2. QED BY <4>1 DEF RequestsOK, RequestOK
    <3>2. CASE q \notin Busy
      BY <2>1, <2>6, <3>2 DEF RequestsOK, RequestOK
    <3>3. QED BY <3>1, <3>2
  <2>7. QED BY <2>4, <2>5, <2>6 DEF RequestsOK
<1>2. ASSUME NEW r \in Requests, Handle(r)
      PROVE  RequestsOK'
  <2>1. Moved(r)
    BY <1>2, HandleMoves
  <2>2. requests[r].at # 0
    BY <1>2, HandleForms DEF Busy
  <2>3. RequestOK(r)'
    BY <2>1, <2>2 DEF Moved, RequestsOK, RequestOK
  <2>4. ASSUME NEW q \in Requests, q # r PROVE RequestOK(q)'
    BY <2>1, <2>4 DEF Moved, RequestsOK, RequestOK
  <2>5. QED BY <2>1, <2>3, <2>4 DEF Moved, RequestsOK
<1>3. CASE UNCHANGED vars
  BY <1>3 DEF vars, RequestsOK, RequestOK
<1>4. QED BY <1>1, <1>2, <1>3 DEF Next

-----------------------------------------------------------------------------
(* What a request at a step asked for.                                     *)

LEMMA ZoneAsked ==
  ASSUME RequestsOK, NEW r \in Requests, NEW step, At(r, step)
  PROVE  /\ step \in {"findZone", "insertZone", "linkZone"} => Kind(r) = "createZone"
         /\ step \in {"findAttached", "deleteZone"} => Kind(r) = "deleteZone"
         /\ step \in {"insertZone", "linkZone", "deleteZone"} => Ask(r).id \in Zones
         /\ step = "linkZone" => Ask(r).clusters \subseteq Clusters
<1>1. Accepted(Ask(r)) /\ step \in Vocabulary(Ask(r))
  BY AtStep
<1>2. QED BY <1>1 DEF Accepted, Vocabulary, Only, Kind, Given

LEMMA ClusterAsked ==
  ASSUME RequestsOK, NEW r \in Requests, NEW step, At(r, step)
  PROVE  /\ step \in {"findLabel", "insertCluster"} =>
              /\ Kind(r) = "createCluster" /\ Ask(r).zone \in Zones
              /\ Ask(r).privacy \in {"public", "dedicated"}
         /\ step \in {"findCluster", "writeCluster", "moveCluster", "readProjects",
                      "unlinkProjects", "readStages"} => Kind(r) = "updateCluster"
         /\ step = "linkProjects" => Kind(r) \in {"createCluster", "updateCluster"}
         /\ step = "linkProjects" /\ Kind(r) = "createCluster" =>
              Ask(r).projects # Absent /\ Ask(r).privacy = "dedicated"
         /\ step = "details" => Kind(r) \in {"createCluster", "updateCluster"}
         /\ step \in {"deleteEnvironments", "findEnvironment", "deleteCluster"} =>
              Kind(r) = "deleteCluster"
         /\ step = "moveCluster" => Ask(r).zone \in Zones
<1>1. Accepted(Ask(r)) /\ step \in Vocabulary(Ask(r))
  BY AtStep
<1>2. QED BY <1>1 DEF Accepted, Vocabulary, Only, Kind, Given

LEMMA StageAsked ==
  ASSUME RequestsOK, NEW r \in Requests, NEW step, At(r, step)
  PROVE  /\ step = "insertStage" => Kind(r) = "createStage" /\ Ask(r).name \in Names
         /\ step = "rename" => Kind(r) = "updateStage" /\ Ask(r).name \in Names
         /\ step \in {"linkQuotas", "linkClusters"} => Kind(r) \in {"createStage", "updateStage"}
         /\ step = "linkQuotas" => Ask(r).quotas \subseteq Quotas
         /\ step = "linkClusters" => Ask(r).clusters \subseteq Clusters
         /\ step \in {"findStage", "unlinkQuotas", "unlinkClusters"} => Kind(r) = "updateStage"
<1>1. Accepted(Ask(r)) /\ step \in Vocabulary(Ask(r))
  BY AtStep
<1>2. QED BY <1>1 DEF Accepted, Vocabulary, Only, Kind, Given

LEMMA QuotaAsked ==
  ASSUME RequestsOK, NEW r \in Requests, NEW step, At(r, step)
  PROVE  /\ step = "insertQuota" => Kind(r) = "createQuota" /\ Ask(r).private \in BOOLEAN
         /\ step \in {"findQuota", "writeQuota"} => Kind(r) = "updateQuota"
         /\ step = "linkStages" =>
              /\ Kind(r) \in {"createCluster", "updateCluster", "createQuota", "updateQuota"}
              /\ Ask(r).stages \subseteq Stages
         /\ step = "unlinkStages" => Kind(r) \in {"updateCluster", "updateQuota"}
         /\ step = "deleteRow" => Kind(r) \in {"deleteStage", "deleteQuota"}
         /\ step = "insertEnvironment" => Kind(r) = "createEnvironment"
         /\ step \in {"checkQuota", "writeEnvironment"} => Kind(r) = "updateEnvironment"
<1>1. Accepted(Ask(r)) /\ step \in Vocabulary(Ask(r))
  BY AtStep
<1>2. QED BY <1>1 DEF Accepted, Vocabulary, Only, Kind, Given

\* The identifier of a body is that of a row of its kind.
LEMMA IdAsked ==
  ASSUME RequestsOK, NEW r \in Requests, NEW step, At(r, step)
  PROVE  /\ Kind(r) \in {"createZone", "updateZone", "deleteZone"} => Ask(r).id \in Zones
         /\ Kind(r) \in {"createCluster", "updateCluster", "deleteCluster"} => Ask(r).id \in Clusters
         /\ Kind(r) \in {"createStage", "updateStage", "deleteStage"} => Ask(r).id \in Stages
         /\ Kind(r) \in {"createQuota", "updateQuota", "deleteQuota"} => Ask(r).id \in Quotas
         /\ Kind(r) = "createEnvironment" =>
              /\ Ask(r).cluster \in Clusters /\ Ask(r).stage \in Stages
              /\ Ask(r).quota \in Quotas
         /\ Kind(r) = "updateEnvironment" => Ask(r).quota \in Quotas
BY AtStep DEF Accepted, Kind

-----------------------------------------------------------------------------
(* The rows stay intact.                                                   *)

\* Links that are removed, or written between rows that are there.
LEMMA LinksIntact ==
  ASSUME Intact(db), NEW links, \A l \in links : l \subseteq Linkable(db),
         db' = [db EXCEPT !.links = links]
  PROVE  Intact(db')
<1>1. /\ DOMAIN db' = DOMAIN db /\ db'.links = links
      /\ db'.zones = db.zones /\ db'.clusters = db.clusters /\ db'.stages = db.stages
      /\ db'.quotas = db.quotas /\ db'.envs = db.envs
  BY DEF Intact
<1>2. QED BY <1>1 DEF Intact, Linkable

LEMMA MoreLinks ==
  ASSUME Intact(db), NEW new, \A l \in new : l \subseteq Linkable(db),
         db' = [db EXCEPT !.links = @ \cup new]
  PROVE  Intact(db')
<1> DEFINE links == db.links \cup new
<1>1. \A l \in links : l \subseteq Linkable(db)
  BY DEF Intact
<1>2. db' = [db EXCEPT !.links = links]
  OBVIOUS
<1> HIDE DEF links
<1>3. QED BY <1>1, <1>2, LinksIntact

LEMMA FewerLinks ==
  ASSUME Intact(db), NEW old, db' = [db EXCEPT !.links = @ \ old]
  PROVE  Intact(db')
<1> DEFINE links == db.links \ old
<1>1. \A l \in links : l \subseteq Linkable(db)
  BY DEF Intact
<1>2. db' = [db EXCEPT !.links = links]
  OBVIOUS
<1> HIDE DEF links
<1>3. QED BY <1>1, <1>2, LinksIntact

LEMMA PairsLinkable ==
  ASSUME Intact(db), NEW x, NEW ys, x \in Linkable(db), ys \subseteq Linkable(db)
  PROVE  \A l \in Pairs(x, ys) : l \subseteq Linkable(db)
BY DEF Pairs

\* Rows of the kinds that have links, when they exist, are not zones.
LEMMA ExistingLinkable ==
  ASSUME Intact(db), NEW x \in Existing, x \in Clusters \cup Stages \cup Quotas \cup Projects
  PROVE  x \in Linkable(db)
BY TopologyAssumption DEF Existing, Intact

\* Moving clusters to a zone changes nothing else of their rows.
InZoneOK(z, cs) ==
  /\ DOMAIN InZone(z, cs) = DOMAIN db.clusters
  /\ InZone(z, cs) \in
       [DOMAIN db.clusters -> [zone : db.zones, privacy : {"public", "dedicated"}]]

LEMMA InZoneType ==
  ASSUME Intact(db), NEW z \in db.zones, NEW cs
  PROVE  InZoneOK(z, cs)
<1> DEFINE Row == [zone : db.zones, privacy : {"public", "dedicated"}]
<1>1. \A c \in DOMAIN db.clusters : /\ db.clusters[c] \in Row
                                    /\ [db.clusters[c] EXCEPT !.zone = z] \in Row
  BY DEF Intact
<1>2. QED BY <1>1 DEF InZoneOK, InZone

\* A row of a cluster that is written.
LEMMA ClusterIntact ==
  ASSUME Intact(db), NEW c \in Clusters,
         NEW row \in [zone : db.zones, privacy : {"public", "dedicated"}],
         db' = [db EXCEPT !.clusters = Assign(db.clusters, c, row)]
  PROVE  Intact(db')
<1>1. /\ DOMAIN db' = DOMAIN db /\ db'.zones = db.zones /\ db'.links = db.links
      /\ db'.clusters = Assign(db.clusters, c, row) /\ db'.stages = db.stages
      /\ db'.quotas = db.quotas /\ db'.envs = db.envs
  BY DEF Intact
<1>2. /\ DOMAIN db'.clusters = DOMAIN db.clusters \cup {c}
      /\ db'.clusters \in [DOMAIN db'.clusters ->
                             [zone : db.zones, privacy : {"public", "dedicated"}]]
  BY <1>1 DEF Assign, Intact
<1>3. db.envs \in [DOMAIN db.envs -> [cluster : DOMAIN db'.clusters, stage : DOMAIN db.stages,
                                      quota : DOMAIN db.quotas]]
  BY <1>2 DEF Intact
<1>4. \A l \in db'.links : l \subseteq Linkable(db')
  BY <1>1, <1>2 DEF Intact, Linkable
<1>5. QED BY <1>1, <1>2, <1>3, <1>4 DEF Intact

\* Links between a stage and quotas, one by one.
LEMMA ConnectEachIntact ==
  ASSUME Intact(db), NEW r \in Requests, NEW ys, ConnectEach(r, ys),
         {Ask(r).id} \cup ys \subseteq Stages \cup Quotas
  PROVE  Intact(db')
<1> DEFINE both == IF Ask(r).id \in Existing THEN ys \cap Existing ELSE {}
<1>1. db' = [db EXCEPT !.links = @ \cup Pairs(Ask(r).id, both)]
  BY DEF ConnectEach
<1>2. \A l \in Pairs(Ask(r).id, both) : l \subseteq Linkable(db)
  <2>1. CASE Ask(r).id \in Existing
    <3>1. Ask(r).id \in Linkable(db) /\ both \subseteq Linkable(db)
      BY <2>1, ExistingLinkable
    <3>2. QED BY <3>1, PairsLinkable
  <2>2. CASE Ask(r).id \notin Existing
    BY <2>2 DEF Pairs
  <2>3. QED BY <2>1, <2>2
<1> HIDE DEF both
<1>3. QED BY <1>1, <1>2, MoreLinks

LEMMA ZoneIntact ==
  ASSUME Intact(db), RequestsOK, NEW r \in Requests, ZoneStep(r)
  PROVE  Intact(db')
<1> DEFINE z == Ask(r).id
<1>1. CASE db' = db
  BY <1>1
<1>2. CASE At(r, "insertZone") /\ db' = [db EXCEPT !.zones = @ \cup {z}]
  <2>1. z \in Zones
    BY <1>2, ZoneAsked
  <2>2. /\ DOMAIN db' = DOMAIN db /\ db'.zones = db.zones \cup {z} /\ db'.links = db.links
        /\ db'.clusters = db.clusters /\ db'.stages = db.stages
        /\ db'.quotas = db.quotas /\ db'.envs = db.envs
    BY <1>2 DEF Intact
  <2>3. db.clusters \in [DOMAIN db.clusters ->
                          [zone : db.zones \cup {z}, privacy : {"public", "dedicated"}]]
    BY DEF Intact
  <2>4. QED BY <2>1, <2>2, <2>3 DEF Intact, Linkable
<1>3. CASE /\ At(r, "linkZone") /\ {z} \cup Ask(r).clusters \subseteq Existing
           /\ db' = [db EXCEPT !.clusters = InZone(z, Ask(r).clusters)]
  <2>1. z \in db.zones
    BY <1>3, ZoneAsked, TopologyAssumption DEF Existing, Linkable, Intact
  <2>2. /\ DOMAIN db' = DOMAIN db /\ db'.zones = db.zones /\ db'.links = db.links
        /\ db'.clusters = InZone(z, Ask(r).clusters) /\ db'.stages = db.stages
        /\ db'.quotas = db.quotas /\ db'.envs = db.envs
    BY <1>3 DEF Intact
  <2>3. InZoneOK(z, Ask(r).clusters)
    BY <2>1, InZoneType
  <2>4. QED BY <2>2, <2>3 DEF Intact, Linkable, InZoneOK
<1>4. CASE /\ At(r, "deleteZone") /\ \A c \in DOMAIN db.clusters : db.clusters[c].zone # z
           /\ db' = [db EXCEPT !.zones = @ \ {z}]
  <2>1. /\ DOMAIN db' = DOMAIN db /\ db'.zones = db.zones \ {z} /\ db'.links = db.links
        /\ db'.clusters = db.clusters /\ db'.stages = db.stages
        /\ db'.quotas = db.quotas /\ db'.envs = db.envs
    BY <1>4 DEF Intact
  <2>2. db.clusters \in [DOMAIN db.clusters ->
                          [zone : db.zones \ {z}, privacy : {"public", "dedicated"}]]
    BY <1>4 DEF Intact
  <2>3. QED BY <2>1, <2>2 DEF Intact, Linkable
<1>5. QED BY <1>1, <1>2, <1>3, <1>4 DEF ZoneStep, Write, Check

LEMMA CreateClusterIntact ==
  ASSUME Intact(db), RequestsOK, NEW r \in Requests, CreateCluster(r)
  PROVE  Intact(db')
<1> DEFINE a == Ask(r)
           row == [zone |-> a.zone, privacy |-> a.privacy]
<1>1. CASE db' = db
  BY <1>1
<1>2. CASE /\ At(r, "insertCluster") /\ a.zone \in db.zones
           /\ db' = [db EXCEPT !.clusters = Assign(@, a.id, row)]
  <2>1. a.id \in Clusters /\ row \in [zone : db.zones, privacy : {"public", "dedicated"}]
    BY <1>2, ClusterAsked, IdAsked
  <2> HIDE DEF row
  <2>2. db' = [db EXCEPT !.clusters = Assign(db.clusters, a.id, row)]
    BY <1>2
  <2>3. QED BY <2>1, <2>2, ClusterIntact
<1>3. QED BY <1>1, <1>2 DEF CreateCluster, Write, Check

LEMMA UpdateClusterIntact ==
  ASSUME Intact(db), RequestsOK, NEW r \in Requests, UpdateCluster(r)
  PROVE  Intact(db')
<1> DEFINE a == Ask(r)
<1>1. CASE db' = db
  BY <1>1
<1>2. CASE At(r, "writeCluster") /\ WritePrivacy(r) /\ a.id \in DOMAIN db.clusters
  <2> DEFINE row == [db.clusters[a.id] EXCEPT
                       !.privacy = IF Given(a, "privacy") THEN a.privacy ELSE @]
  <2>1. a.id \in Clusters /\ a.privacy \in {"public", "dedicated", Absent}
    BY <1>2, AtStep, ClusterAsked, IdAsked DEF Accepted
  <2>2. db.clusters[a.id] \in [zone : db.zones, privacy : {"public", "dedicated"}]
    BY <1>2 DEF Intact
  <2>3. row \in [zone : db.zones, privacy : {"public", "dedicated"}]
    BY <2>1, <2>2 DEF Given
  <2>4. db' = [db EXCEPT !.clusters = Assign(db.clusters, a.id, row)]
    BY <1>2 DEF WritePrivacy
  <2> HIDE DEF row
  <2>5. QED BY <2>1, <2>3, <2>4, ClusterIntact
<1>3. CASE /\ At(r, "moveCluster") /\ {a.zone, a.id} \subseteq Existing
           /\ db' = [db EXCEPT !.clusters = InZone(a.zone, {a.id})]
  <2>1. a.zone \in db.zones
    BY <1>3, ClusterAsked, TopologyAssumption DEF Existing, Linkable, Intact
  <2>2. /\ DOMAIN db' = DOMAIN db /\ db'.zones = db.zones /\ db'.links = db.links
        /\ db'.clusters = InZone(a.zone, {a.id}) /\ db'.stages = db.stages
        /\ db'.quotas = db.quotas /\ db'.envs = db.envs
    BY <1>3 DEF Intact
  <2>3. InZoneOK(a.zone, {a.id})
    BY <2>1, InZoneType
  <2>4. QED BY <2>2, <2>3 DEF Intact, Linkable, InZoneOK
<1>4. CASE At(r, "unlinkProjects") /\ \E y : db' = [db EXCEPT !.links = @ \ {{a.id, y}}]
  BY <1>4, FewerLinks
<1>5. QED BY <1>1, <1>2, <1>3, <1>4 DEF UpdateCluster, WritePrivacy, Write, Check, DisconnectEach

LEMMA LinkProjectsIntact ==
  ASSUME Intact(db), RequestsOK, NEW r \in Requests, LinkProjects(r)
  PROVE  Intact(db')
<1> DEFINE ps == ProjectsToLink(r)
<1>1. CASE db' = db
  BY <1>1
<1>2. CASE /\ Ask(r).id \in Existing \/ ps = {}
           /\ db' = [db EXCEPT !.links = @ \cup Pairs(Ask(r).id, ps)]
  <2>1. ps \subseteq Projects /\ Ask(r).id \in Clusters
    BY AtStep, ClusterAsked, IdAsked
       DEF LinkProjects, ProjectsToLink, ProjectsAsked, Accepted
  <2>2. \A l \in Pairs(Ask(r).id, ps) : l \subseteq Linkable(db)
    <3>1. ps \subseteq Linkable(db)
      BY <2>1 DEF Linkable
    <3>2. CASE Ask(r).id \in Existing
      BY <2>1, <3>1, <3>2, ExistingLinkable, PairsLinkable
    <3>3. CASE ps = {}
      BY <3>3 DEF Pairs
    <3>4. QED BY <1>2, <3>2, <3>3
  <2> HIDE DEF ps
  <2>3. QED BY <1>2, <2>2, MoreLinks
<1>3. QED BY <1>1, <1>2 DEF LinkProjects

LEMMA DeleteClusterIntact ==
  ASSUME Intact(db), RequestsOK, NEW r \in Requests, DeleteCluster(r)
  PROVE  Intact(db')
<1> DEFINE c == Ask(r).id
<1>1. CASE db' = db
  BY <1>1
<1>2. CASE db' = [db EXCEPT !.envs = Without(@, OnCluster(c))]
  <2>1. /\ DOMAIN db' = DOMAIN db /\ db'.zones = db.zones /\ db'.links = db.links
        /\ db'.clusters = db.clusters /\ db'.stages = db.stages
        /\ db'.quotas = db.quotas /\ db'.envs = Without(db.envs, OnCluster(c))
    BY <1>2 DEF Intact
  <2>2. QED BY <2>1 DEF Intact, Linkable, Without
<1>3. CASE /\ At(r, "deleteCluster") /\ OnCluster(c) = {}
           /\ db' = [db EXCEPT !.clusters = Without(@, {c}), !.links = Unlinked(c)]
  <2>1. /\ DOMAIN db' = DOMAIN db /\ db'.zones = db.zones /\ db'.links = Unlinked(c)
        /\ db'.clusters = Without(db.clusters, {c}) /\ db'.stages = db.stages
        /\ db'.quotas = db.quotas /\ db'.envs = db.envs
    BY <1>3 DEF Intact
  <2>2. c \in Clusters
    BY <1>3, ClusterAsked, IdAsked
  <2>3. /\ DOMAIN db'.clusters = DOMAIN db.clusters \ {c}
        /\ db'.clusters \in [DOMAIN db'.clusters -> [zone : db.zones, privacy : {"public", "dedicated"}]]
    BY <2>1 DEF Without, Intact
  <2>4. db.envs \in [DOMAIN db.envs -> [cluster : DOMAIN db'.clusters, stage : DOMAIN db.stages,
                                        quota : DOMAIN db.quotas]]
    BY <1>3, <2>3 DEF Intact, OnCluster, EnvironmentsOf
  <2>5. \A l \in db'.links : l \subseteq Linkable(db')
    BY <2>1, <2>3 DEF Intact, Linkable, Unlinked
  <2>6. QED BY <2>1, <2>3, <2>4, <2>5 DEF Intact
<1>4. QED BY <1>1, <1>2, <1>3 DEF DeleteCluster, Write, Check

LEMMA StageIntact ==
  ASSUME Intact(db), RequestsOK, NEW r \in Requests, StageStep(r)
  PROVE  Intact(db')
<1> DEFINE a == Ask(r)
<1>1. CASE db' = db
  BY <1>1
<1>2. CASE /\ At(r, "insertStage") \/ At(r, "rename")
           /\ \A s \in DOMAIN db.stages \ {a.id} : db.stages[s] # a.name
           /\ db' = [db EXCEPT !.stages = Assign(@, a.id, a.name)]
  <2>1. a.id \in Stages /\ a.name \in Names
    BY <1>2, StageAsked, IdAsked
  <2>2. /\ DOMAIN db' = DOMAIN db /\ db'.zones = db.zones /\ db'.links = db.links
        /\ db'.clusters = db.clusters /\ db'.stages = Assign(db.stages, a.id, a.name)
        /\ db'.quotas = db.quotas /\ db'.envs = db.envs
    BY <1>2 DEF Intact
  <2>3. /\ DOMAIN db'.stages = DOMAIN db.stages \cup {a.id}
        /\ db'.stages[a.id] = a.name
        /\ \A s \in DOMAIN db.stages \ {a.id} : db'.stages[s] = db.stages[s]
        /\ db'.stages \in [DOMAIN db'.stages -> Names]
    BY <2>1, <2>2 DEF Assign, Intact
  <2>4. \A s, t \in DOMAIN db'.stages : db'.stages[s] = db'.stages[t] => s = t
    BY <1>2, <2>3 DEF Intact
  <2>5. QED BY <2>1, <2>2, <2>3, <2>4 DEF Intact, Linkable
<1>3. CASE db' = [db EXCEPT !.links = @ \ Pairs(a.id, Read(r).quotas \ a.quotas)]
  BY <1>3, FewerLinks
<1>4. CASE At(r, "linkQuotas") /\ \E ys : ConnectEach(r, ys) /\ ys \subseteq a.quotas
  <2>1. PICK ys : ConnectEach(r, ys) /\ ys \subseteq a.quotas
    BY <1>4
  <2>2. a.id \in Stages /\ ys \subseteq Quotas
    BY <1>4, <2>1, StageAsked, IdAsked
  <2>3. QED BY <2>1, <2>2, ConnectEachIntact
<1>5. CASE /\ At(r, "linkClusters") /\ {a.id} \cup a.clusters \subseteq Existing
           /\ db' = [db EXCEPT !.links = @ \cup Pairs(a.id, a.clusters)]
  <2>1. a.id \in Stages /\ a.clusters \subseteq Clusters
    BY <1>5, StageAsked, IdAsked
  <2>2. a.id \in Linkable(db) /\ a.clusters \subseteq Linkable(db)
    BY <1>5, <2>1, ExistingLinkable
  <2>3. QED BY <1>5, <2>2, PairsLinkable, MoreLinks
<1>6. QED
  BY <1>1, <1>2, <1>3, <1>4, <1>5
     DEF StageStep, Write, Check, NameTaken, Connect, Disconnect

LEMMA UnlinkClustersIntact ==
  ASSUME Intact(db), NEW r \in Requests, UnlinkClusters(r)
  PROVE  Intact(db')
<1>1. CASE db' = db
  BY <1>1
<1>2. CASE \E c : db' = [db EXCEPT !.links = @ \ {{Ask(r).id, c}}]
  BY <1>2, FewerLinks
<1>3. QED BY <1>1, <1>2 DEF UnlinkClusters, Check

\* A row of a quota that is written.
LEMMA QuotaRowIntact ==
  ASSUME Intact(db), NEW q \in Quotas, NEW private \in BOOLEAN,
         db' = [db EXCEPT !.quotas = Assign(db.quotas, q, private)]
  PROVE  Intact(db')
<1>1. /\ DOMAIN db' = DOMAIN db /\ db'.zones = db.zones /\ db'.links = db.links
      /\ db'.clusters = db.clusters /\ db'.stages = db.stages
      /\ db'.quotas = Assign(db.quotas, q, private) /\ db'.envs = db.envs
  BY DEF Intact
<1>2. /\ DOMAIN db'.quotas = DOMAIN db.quotas \cup {q}
      /\ db'.quotas \in [DOMAIN db'.quotas -> BOOLEAN]
  BY <1>1 DEF Assign, Intact
<1>3. db.envs \in [DOMAIN db.envs -> [cluster : DOMAIN db.clusters, stage : DOMAIN db.stages,
                                      quota : DOMAIN db'.quotas]]
  BY <1>2 DEF Intact
<1>4. \A l \in db'.links : l \subseteq Linkable(db')
  BY <1>1, <1>2 DEF Intact, Linkable
<1>5. QED BY <1>1, <1>2, <1>3, <1>4 DEF Intact

LEMMA QuotaIntact ==
  ASSUME Intact(db), RequestsOK, NEW r \in Requests, QuotaStep(r)
  PROVE  Intact(db')
<1> DEFINE a == Ask(r)
<1>1. CASE db' = db
  BY <1>1
<1>2. CASE At(r, "insertQuota") /\ db' = [db EXCEPT !.quotas = Assign(@, a.id, a.private)]
  BY <1>2, QuotaAsked, IdAsked, QuotaRowIntact
<1>3. CASE /\ At(r, "writeQuota") /\ a.id \in DOMAIN db.quotas
           /\ db' = [db EXCEPT !.quotas =
                       Assign(@, a.id, IF Given(a, "private") THEN a.private ELSE @[a.id])]
  <2> DEFINE private == IF Given(a, "private") THEN a.private ELSE db.quotas[a.id]
  <2>1. a.private \in BOOLEAN \cup {Absent} /\ a.id \in Quotas
    BY <1>3, AtStep, QuotaAsked, IdAsked DEF Accepted
  <2>2. db.quotas[a.id] \in BOOLEAN
    BY <1>3 DEF Intact
  <2>3. private \in BOOLEAN
    BY <2>1, <2>2, Zenon DEF Given
  <2>4. db' = [db EXCEPT !.quotas = Assign(db.quotas, a.id, private)]
    BY <1>3
  <2> HIDE DEF private
  <2>5. QED BY <2>1, <2>3, <2>4, QuotaRowIntact
<1>4. CASE /\ At(r, "linkStages") /\ {a.id} \cup a.stages \subseteq Existing
           /\ db' = [db EXCEPT !.links = @ \cup Pairs(a.id, a.stages)]
  <2>1. a.id \in Clusters \cup Quotas /\ a.stages \subseteq Stages
    BY <1>4, QuotaAsked, IdAsked
  <2>2. a.id \in Linkable(db) /\ a.stages \subseteq Linkable(db)
    BY <1>4, <2>1, ExistingLinkable
  <2>3. QED BY <1>4, <2>2, PairsLinkable, MoreLinks
<1>5. CASE At(r, "linkStages") /\ a.id \notin Clusters /\ ConnectEach(r, a.stages)
  BY <1>5, QuotaAsked, IdAsked, ConnectEachIntact
<1>6. CASE \E ls : db' = [db EXCEPT !.links = @ \ ls]
  BY <1>6, FewerLinks
<1>7. QED
  BY <1>1, <1>2, <1>3, <1>4, <1>5, <1>6
     DEF QuotaStep, Write, Check, Connect, Disconnect, DisconnectEach

LEMMA DeleteRowIntact ==
  ASSUME Intact(db), RequestsOK, NEW r \in Requests, DeleteRow(r)
  PROVE  Intact(db')
<1> DEFINE x == Ask(r).id
<1>1. CASE db' = db
  BY <1>1
<1>2. CASE /\ At(r, "deleteRow") /\ ~InUse(x)
           /\ db' = [db EXCEPT !.stages = Without(@, {x}), !.quotas = Without(@, {x}),
                               !.links = Unlinked(x)]
  <2>1. /\ DOMAIN db' = DOMAIN db /\ db'.zones = db.zones /\ db'.links = Unlinked(x)
        /\ db'.clusters = db.clusters /\ db'.stages = Without(db.stages, {x})
        /\ db'.quotas = Without(db.quotas, {x}) /\ db'.envs = db.envs
    BY <1>2 DEF Intact
  <2>2. x \in Stages \cup Quotas
    BY <1>2, QuotaAsked, IdAsked
  <2>3. /\ DOMAIN db'.stages = DOMAIN db.stages \ {x}
        /\ db'.stages \in [DOMAIN db'.stages -> Names]
        /\ \A s \in DOMAIN db'.stages : db'.stages[s] = db.stages[s]
        /\ DOMAIN db'.quotas = DOMAIN db.quotas \ {x}
        /\ db'.quotas \in [DOMAIN db'.quotas -> BOOLEAN]
    BY <2>1 DEF Without, Intact
  <2>4. \A e \in DOMAIN db.envs : db.envs[e].stage # x /\ db.envs[e].quota # x
    BY <1>2 DEF InUse
  <2>5. db.envs \in [DOMAIN db.envs -> [cluster : DOMAIN db.clusters, stage : DOMAIN db'.stages,
                                        quota : DOMAIN db'.quotas]]
    BY <2>3, <2>4 DEF Intact
  <2>6. \A l \in db'.links : l \subseteq Linkable(db')
    BY <2>1, <2>2, <2>3 DEF Intact, Linkable, Unlinked
  <2>7. \A s, t \in DOMAIN db'.stages : db'.stages[s] = db'.stages[t] => s = t
    BY <2>3 DEF Intact
  <2>8. QED BY <2>1, <2>3, <2>5, <2>6, <2>7 DEF Intact
<1>3. QED BY <1>1, <1>2 DEF DeleteRow, Write, Check

LEMMA EnvironmentIntact ==
  ASSUME Intact(db), RequestsOK, NEW r \in Requests, EnvironmentStep(r)
  PROVE  Intact(db')
<1> DEFINE a == Ask(r)
           Env == [cluster : DOMAIN db.clusters, stage : DOMAIN db.stages,
                   quota : DOMAIN db.quotas]
<1>1. CASE db' = db
  BY <1>1
<1>2. ASSUME NEW envs, envs \in [DOMAIN envs -> Env], db' = [db EXCEPT !.envs = envs]
      PROVE  Intact(db')
  <2>1. /\ DOMAIN db' = DOMAIN db /\ db'.zones = db.zones /\ db'.links = db.links
        /\ db'.clusters = db.clusters /\ db'.stages = db.stages
        /\ db'.quotas = db.quotas /\ db'.envs = envs
    BY <1>2 DEF Intact
  <2>2. QED BY <1>2, <2>1 DEF Intact, Linkable
<1>3. CASE /\ At(r, "insertEnvironment") /\ {a.cluster, a.stage, a.quota} \subseteq Existing
           /\ db' = [db EXCEPT !.envs = Assign(@, a.id,
                       [cluster |-> a.cluster, stage |-> a.stage, quota |-> a.quota])]
  <2> DEFINE env == [cluster |-> a.cluster, stage |-> a.stage, quota |-> a.quota]
             envs == Assign(db.envs, a.id, env)
  <2>1. a.cluster \in Clusters /\ a.stage \in Stages /\ a.quota \in Quotas
    BY <1>3, QuotaAsked, IdAsked
  <2>2. /\ a.cluster \in DOMAIN db.clusters /\ a.stage \in DOMAIN db.stages
        /\ a.quota \in DOMAIN db.quotas
    BY <1>3, <2>1, TopologyAssumption DEF Existing, Linkable, Intact
  <2>3. env \in Env
    BY <2>2
  <2> HIDE DEF env
  <2>4. envs \in [DOMAIN envs -> Env]
    BY <2>3 DEF Assign, Intact
  <2>5. db' = [db EXCEPT !.envs = envs]
    BY <1>3 DEF env
  <2> HIDE DEF envs
  <2>6. QED BY <1>2, <2>4, <2>5
<1>4. CASE /\ At(r, "writeEnvironment") /\ a.id \in DOMAIN db.envs /\ a.quota \in DOMAIN db.quotas
           /\ db' = [db EXCEPT !.envs[a.id].quota = a.quota]
  <2> DEFINE envs == [db.envs EXCEPT ![a.id].quota = a.quota]
  <2>1. envs \in [DOMAIN envs -> Env]
    BY <1>4 DEF Intact
  <2>2. db' = [db EXCEPT !.envs = envs]
    BY <1>4
  <2> HIDE DEF envs
  <2>3. QED BY <1>2, <2>1, <2>2
<1>5. CASE db' = [db EXCEPT !.envs = Without(@, {a.id})]
  <2> DEFINE envs == Without(db.envs, {a.id})
  <2>1. envs \in [DOMAIN envs -> Env]
    BY DEF Without, Intact
  <2>2. db' = [db EXCEPT !.envs = envs]
    BY <1>5
  <2> HIDE DEF envs
  <2>3. QED BY <1>2, <2>1, <2>2
<1>6. QED BY <1>1, <1>3, <1>4, <1>5 DEF EnvironmentStep, Write, Check

LEMMA NextIntact ==
  ASSUME Intact(db), RequestsOK, [Next]_vars
  PROVE  Intact(db')
<1>1. ASSUME NEW r \in Requests, Handle(r)
      PROVE  Intact(db')
  <2>1. CASE CallHook(r) \/ RunHook(r)
    BY <2>1 DEF CallHook, RunHook
  <2>2. QED BY <1>1, <2>1, ZoneIntact, CreateClusterIntact, UpdateClusterIntact,
            LinkProjectsIntact, DeleteClusterIntact, StageIntact, UnlinkClustersIntact,
            QuotaIntact, DeleteRowIntact, EnvironmentIntact DEF Handle
<1>2. ASSUME NEW r \in Requests, Receive(r)
      PROVE  Intact(db')
  BY <1>2 DEF Receive
<1>3. CASE UNCHANGED vars
  BY <1>3 DEF vars
<1>4. QED BY <1>1, <1>2, <1>3 DEF Next

TInv == Intact(db) /\ RequestsOK

LEMMA TInvInit ==
  ASSUME Init
  PROVE  TInv
<1>1. db = FirstRows /\ requests = [r \in Requests |-> Unborn]
  BY DEF Init
<1>2. Intact(db)
  BY <1>1, TopologyAssumption, Zenon
<1>3. \A r \in Requests : requests[r] = [ask |-> Absent, at |-> 0, read |-> Absent,
                                        met |-> {}, answer |-> "none"]
  BY <1>1 DEF Unborn
<1>4. \A r \in Requests : RequestOK(r)
  BY <1>3 DEF RequestOK, Answered
<1>5. QED BY <1>1, <1>2, <1>4 DEF TInv, RequestsOK

LEMMA TInvNext ==
  ASSUME TInv, [Next]_vars
  PROVE  TInv'
BY NextIntact, NextRequests DEF TInv, Intact, Linkable

LEMMA TInvHolds == Spec => []TInv
<1>1. Init => TInv
  BY TInvInit
<1>2. TInv /\ [Next]_vars => TInv'
  BY TInvNext
<1>3. QED BY <1>1, <1>2, PTL DEF Spec

\* The rows never refer to a row that is gone, whatever requests overlap: a
\* cluster is in a zone there is, an environment on a cluster, a stage and a
\* quota there are, no link outlives its rows, no two stages share a name.  The
\* handlers look before they write, several awaits earlier; what is proved is
\* that the conditions of the writes themselves are enough.
THEOREM RowsAreIntact == Spec => []TypeOK
<1>1. TInv => TypeOK
  BY DEF TInv, TypeOK, RequestsOK, RequestOK, Answered
<1>2. QED BY <1>1, TInvHolds, PTL

-----------------------------------------------------------------------------
(* What the services keep.                                                 *)

Born(r) == requests[r].at # 0 \/ requests[r].answer # "none"

\* A request has met every request in progress while it is.
MetOK ==
  \A r \in Requests :
    /\ \A q \in requests[r].met : Born(q)
    /\ \A q \in Requests \ {r} : r \in Busy /\ q \in Busy => q \in requests[r].met

PairsOnly == \A s \in services : s = <<s[1], s[2]>>

\* The zone a cluster is in, if the cluster is there.
Home(c) == IF c \in DOMAIN db.clusters THEN {db.clusters[c].zone} ELSE {}

Inside(z) == {c \in DOMAIN db.clusters : db.clusters[c].zone = z}

\* The excuses of the properties.
Moving(r) == \E b \in Met(r) : Moves(b, Ask(r).id)

Settling(r) == \E b \in Met(r) : b.kind = "createEnvironment" /\ b.cluster = Ask(r).id

Shaping(r) ==
  \E b \in Met(r) : b.id = Ask(r).id \/ b.kind \in {"createCluster", "updateCluster",
                                                    "deleteCluster", "createZone"}

Rivalled(r) == \E b \in Met(r) : b.id = Ask(r).id

OfCluster(r) == Kind(r) \in {"createCluster", "updateCluster"}

\* What each handler with a hook counts on, at its steps from the hook on.
DeletedIsUnused(r) ==
  \A step \in {"hook", "executing", "deleteCluster"} :
    At(r, step) /\ Kind(r) = "deleteCluster" => OnCluster(Ask(r).id) = {} \/ Settling(r)

AddressIsHome(r) ==
  At(r, "executing") /\ OfCluster(r) => Home(Ask(r).id) = {Read(r)} \/ Moving(r)

SecretIsHome(r) ==
  At(r, "details") =>
    \/ \E z \in Home(Ask(r).id) : <<Ask(r).id, z>> \in services
    \/ Moving(r)

ListIsInside(r) ==
  At(r, "executing") /\ Kind(r) = "createZone" => Read(r) = Inside(Ask(r).id) \/ Shaping(r)

DeletedIsEmptied(r) ==
  At(r, "deleteZone") => (\A s \in services : s[1] # Ask(r).id) \/ Rivalled(r)

Settled(r) ==
  DeletedIsUnused(r) /\ AddressIsHome(r) /\ SecretIsHome(r) /\ ListIsInside(r)
    /\ DeletedIsEmptied(r)

SInv == TInv /\ MetOK /\ PairsOnly /\ \A r \in Requests : Settled(r)

-----------------------------------------------------------------------------
(* The hook and what surrounds it, in the order of the steps.              *)

Ordered(s) ==
  \A i \in 1..Len(s) :
    /\ s[i] = "executing" => i > 1 /\ s[i - 1] = "hook"
    /\ s[i] \in {"details", "deleteZone", "deleteCluster"} => i > 1 /\ s[i - 1] = "executing"

\* Steps that come before a hook.
Plain == {"findZone", "insertZone", "linkZone", "findLabel", "insertCluster", "linkProjects",
          "linkStages", "findCluster", "writeCluster", "moveCluster", "readProjects",
          "unlinkProjects", "readStages", "unlinkStages"}

LEMMA TailOrdered ==
  ASSUME NEW front \in Seq(Plain),
         NEW tail \in {<<"hook", "executing">>, <<"hook", "executing", "details">>}
  PROVE  /\ Ordered(front \o tail)
         /\ (front \o tail)[Len(front \o tail)] = tail[Len(tail)]
<1> DEFINE s == front \o tail
           n == Len(front)
<1>1. /\ n \in Nat /\ Len(s) = n + Len(tail)
      /\ \A i \in 1..n : s[i] \in Plain
      /\ \A i \in 1..Len(s) : i > n => s[i] = tail[i - n]
  OBVIOUS
<1>2. \A i \in 1..n : s[i] \notin {"hook", "executing", "details", "deleteZone", "deleteCluster"}
  BY <1>1 DEF Plain
<1>3. CASE tail = <<"hook", "executing">>
  <2>1. Len(s) = n + 2 /\ s[n + 1] = "hook" /\ s[n + 2] = "executing"
    BY <1>1, <1>3
  <2> HIDE DEF s, n
  <2>2. \A i \in 1..Len(s) : i \in 1..n \/ i = n + 1 \/ i = n + 2
    BY <1>1, <2>1
  <2>3. Ordered(s)
    BY <1>1, <1>2, <2>1, <2>2 DEF Ordered
  <2>4. QED BY <1>3, <2>1, <2>3 DEF s
<1>4. CASE tail = <<"hook", "executing", "details">>
  <2>1. Len(s) = n + 3 /\ s[n + 1] = "hook" /\ s[n + 2] = "executing" /\ s[n + 3] = "details"
    BY <1>1, <1>4
  <2> HIDE DEF s, n
  <2>2. \A i \in 1..Len(s) : i \in 1..n \/ i = n + 1 \/ i = n + 2 \/ i = n + 3
    BY <1>1, <2>1
  <2>3. Ordered(s)
    BY <1>1, <1>2, <2>1, <2>2 DEF Ordered
  <2>4. QED BY <1>4, <2>1, <2>3 DEF s
<1>5. QED BY <1>3, <1>4

LEMMA StepsOrdered ==
  ASSUME NEW a \in Asks
  PROVE  /\ Ordered(Steps(a))
         /\ a.kind = "deleteCluster" =>
              \A i \in 1..Len(Steps(a)) : Steps(a)[i] = "hook" =>
                i > 1 /\ Steps(a)[i - 1] \in {"deleteEnvironments", "findEnvironment"}
         /\ LET last == Steps(a)[Len(Steps(a))] IN
              /\ a.kind \in {"createCluster", "updateCluster"} => last = "details"
              /\ a.kind = "createZone" => last = "executing"
              /\ a.kind = "deleteZone" => last = "deleteZone"
<1>0. Accepted(a)
  BY TopologyAssumption
<1>1. CASE a.kind = "createZone"
  <2> DEFINE front == <<"findZone", "insertZone">> \o When(Given(a, "clusters"), <<"linkZone">>)
  <2>0. <<"findZone", "insertZone">> \in Seq(Plain) /\ <<"linkZone">> \in Seq(Plain)
    BY DEF Plain
  <2>1. When(Given(a, "clusters"), <<"linkZone">>) \in Seq(Plain)
    BY <2>0, WhenSeq
  <2>2. front \in Seq(Plain)
    BY <2>0, <2>1, ConcatSeq
  <2>3. Steps(a) = front \o <<"hook", "executing">>
    BY <1>1 DEF Steps
  <2> HIDE DEF front
  <2>4. QED BY <1>1, <2>2, <2>3, TailOrdered
<1>2. CASE a.kind = "createCluster"
  <2> DEFINE link == a.privacy = "dedicated" /\ Filled(a, "projects")
             front == <<"findLabel", "insertCluster">> \o When(link, <<"linkProjects">>)
                        \o When(Filled(a, "stages"), <<"linkStages">>)
  <2>0. /\ <<"findLabel", "insertCluster">> \in Seq(Plain)
        /\ <<"linkProjects">> \in Seq(Plain) /\ <<"linkStages">> \in Seq(Plain)
    BY DEF Plain
  <2>1. /\ When(link, <<"linkProjects">>) \in Seq(Plain)
        /\ When(Filled(a, "stages"), <<"linkStages">>) \in Seq(Plain)
    BY <2>0, WhenSeq
  <2>2. front \in Seq(Plain)
    BY <2>0, <2>1, ConcatSeq
  <2>3. Steps(a) = front \o <<"hook", "executing", "details">>
    BY <1>2 DEF Steps
  <2> HIDE DEF front
  <2>4. QED BY <1>2, <2>2, <2>3, TailOrdered
<1>3. CASE a.kind = "updateCluster"
  <2> DEFINE move == When(Given(a, "zone"), <<"moveCluster">>)
             links == When(Given(a, "stages"), <<"linkStages", "readStages", "unlinkStages">>)
             front == <<"findCluster", "writeCluster">> \o move
                        \o <<"readProjects", "linkProjects", "unlinkProjects">> \o links
  <2>0. /\ <<"findCluster", "writeCluster">> \in Seq(Plain)
        /\ <<"readProjects", "linkProjects", "unlinkProjects">> \in Seq(Plain)
        /\ <<"moveCluster">> \in Seq(Plain)
        /\ <<"linkStages", "readStages", "unlinkStages">> \in Seq(Plain)
    BY DEF Plain
  <2>1. move \in Seq(Plain) /\ links \in Seq(Plain)
    BY <2>0, WhenSeq
  <2>2. front \in Seq(Plain)
    BY <2>0, <2>1, ConcatSeq
  <2>3. Steps(a) = front \o <<"hook", "executing", "details">>
    BY <1>3 DEF Steps, UpdateClusterSteps
  <2> HIDE DEF front
  <2>4. QED BY <1>3, <2>2, <2>3, TailOrdered
<1>4. CASE a.kind = "deleteZone"
  <2>1. Steps(a) = <<"findAttached", "hook", "executing", "deleteZone">>
    BY <1>4 DEF Steps
  <2>2. QED BY <1>4, <2>1 DEF Ordered
<1>5. CASE a.kind = "deleteCluster"
  <2> DEFINE first == IF a.force THEN "deleteEnvironments" ELSE "findEnvironment"
  <2>1. Steps(a) = <<first>> \o <<"hook", "executing", "deleteCluster">>
    <3>1. Steps(a) = (IF a.force THEN <<"deleteEnvironments">> ELSE <<"findEnvironment">>)
                       \o <<"hook", "executing", "deleteCluster">>
      BY <1>5 DEF Steps
    <3>2. (IF a.force THEN <<"deleteEnvironments">> ELSE <<"findEnvironment">>) = <<first>>
      BY Zenon
    <3>3. QED BY <3>1, <3>2, Zenon
  <2>2. first \in {"deleteEnvironments", "findEnvironment"}
    OBVIOUS
  <2> HIDE DEF first
  <2> DEFINE s == Steps(a)
  <2>3. /\ Len(s) = 4 /\ s[1] = first /\ s[2] = "hook" /\ s[3] = "executing"
        /\ s[4] = "deleteCluster"
    BY <2>1
  <2> HIDE DEF s
  <2>4. \A i \in 1..Len(s) : i \in {1, 2, 3, 4}
    BY <2>3
  <2>5. Ordered(s)
    BY <2>2, <2>3, <2>4 DEF Ordered
  <2>6. QED BY <1>5, <2>2, <2>3, <2>4, <2>5 DEF s
<1>6. CASE a.kind = "updateZone"
  <2>1. Steps(a) = <<"writeZone", "hook", "executing">>
    BY <1>6 DEF Steps
  <2>2. QED BY <1>6, <2>1 DEF Ordered
<1>7. CASE a.kind \notin {"createZone", "createCluster", "updateCluster", "deleteZone",
                          "deleteCluster", "updateZone"}
  <2>1. Vocabulary(a)
          \cap {"hook", "executing", "details", "deleteZone", "deleteCluster"} = {}
    BY <1>0, <1>7 DEF Accepted, Vocabulary, Only
  <2>2. \A i \in 1..Len(Steps(a)) : Steps(a)[i] \in Vocabulary(a)
    BY StepsTyped
  <2>3. QED BY <1>7, <2>1, <2>2 DEF Ordered
<1>8. QED BY <1>1, <1>2, <1>3, <1>4, <1>5, <1>6, <1>7

-----------------------------------------------------------------------------
(* Who has met whom.                                                       *)

LEMMA NextMet ==
  ASSUME RequestsOK, MetOK, [Next]_vars
  PROVE  MetOK'
<1>1. ASSUME NEW r \in Requests, Receive(r)
      PROVE  MetOK'
  <2>1. PICK a \in Asks :
          requests' = [q \in Requests |->
            IF q = r THEN [Unborn EXCEPT !.ask = a, !.at = 1, !.met = Busy]
            ELSE IF q \in Busy THEN [requests[q] EXCEPT !.met = @ \cup {r}]
            ELSE requests[q]]
    BY <1>1 DEF Receive
  <2>2. requests[r].at = 0 /\ requests[r].answer = "none"
    BY <1>1 DEF Receive, Unborn
  <2>3. requests'[r].at = 1 /\ requests'[r].met = Busy
    BY <2>1 DEF Unborn
  <2>4. \A q \in Requests \ {r} :
          /\ requests'[q].at = requests[q].at /\ requests'[q].answer = requests[q].answer
          /\ requests'[q].met = IF q \in Busy THEN requests[q].met \cup {r} ELSE requests[q].met
    <3>1. SUFFICES ASSUME NEW q \in Requests \ {r}
                   PROVE  /\ requests'[q].at = requests[q].at
                          /\ requests'[q].answer = requests[q].answer
                          /\ requests'[q].met = IF q \in Busy THEN requests[q].met \cup {r}
                                                              ELSE requests[q].met
      OBVIOUS
    <3>2. CASE q \in Busy
      <4>1. requests'[q] = [requests[q] EXCEPT !.met = @ \cup {r}]
        BY <2>1, <3>2
      <4>2. QED BY <3>2, <4>1 DEF RequestsOK, RequestOK
    <3>3. CASE q \notin Busy
      BY <2>1, <3>3
    <3>4. QED BY <3>2, <3>3
  <2>5. \A q \in Requests : q \in Busy' <=> q \in Busy \/ q = r
    <3>1. \A q \in Requests : (q \in Busy <=> requests[q].at # 0)
                              /\ (q \in Busy' <=> requests'[q].at # 0)
      BY DEF Busy
    <3>2. \A q \in Requests \ {r} : requests'[q].at = requests[q].at
      BY <2>4
    <3>3. \A q \in Requests : q # r => (q \in Busy' <=> q \in Busy)
      BY <3>1, <3>2
    <3>4. r \in Busy'
      BY <2>3, <3>1
    <3>5. QED BY <3>3, <3>4
  <2>6. \A q \in Requests \ {r} : Born(q)' = Born(q)
    BY <2>4 DEF Born
  <2>7. Born(r)' /\ ~Born(r)
    BY <2>2, <2>3 DEF Born
  <2>8. ASSUME NEW q \in Requests
        PROVE  /\ \A p \in requests'[q].met : Born(p)'
               /\ \A p \in Requests \ {q} : q \in Busy' /\ p \in Busy' => p \in requests'[q].met
    <3>1. CASE q = r
      <4>1. \A p \in Busy : Born(p)' /\ p # r
        BY <2>2, <2>6 DEF Busy, Born
      <4>2. QED BY <2>3, <2>5, <3>1, <4>1
    <3>2. CASE q # r
      <4>1. requests'[q].met \subseteq requests[q].met \cup {r}
        BY <2>4, <3>2
      <4>2. requests[q].met \subseteq Requests
        BY DEF RequestsOK, RequestOK
      <4>3. \A p \in requests'[q].met : Born(p)'
        BY <2>6, <2>7, <4>1, <4>2 DEF MetOK
      <4>4. \A p \in Requests \ {q} : q \in Busy' /\ p \in Busy' => p \in requests'[q].met
        BY <2>4, <2>5, <3>2 DEF MetOK
      <4>5. QED BY <4>3, <4>4
    <3>3. QED BY <3>1, <3>2
  <2>9. QED BY <2>8 DEF MetOK
<1>2. ASSUME NEW r \in Requests, Handle(r)
      PROVE  MetOK'
  <2>1. Moved(r) /\ r \in Busy
    BY <1>2, HandleMoves, HandleForms
  <2>2. /\ \A q \in Requests : Born(q) => Born(q)'
        /\ \A q \in Requests : requests'[q].met = requests[q].met
        /\ Busy' \subseteq Busy
    BY <2>1 DEF Moved, Born, Busy
  <2>3. \A q \in Requests : requests[q].met \subseteq Requests
    BY DEF RequestsOK, RequestOK
  <2>4. QED BY <2>2, <2>3 DEF MetOK
<1>3. CASE UNCHANGED vars
  BY <1>3 DEF vars, MetOK, Born, Busy
<1>4. QED BY <1>1, <1>2, <1>3 DEF Next

\* What a request asked for stays, and so do those it has met.
LEMMA MetStays ==
  ASSUME RequestsOK, NEW q \in Requests, Handle(q), NEW r \in Requests
  PROVE  Ask(r)' = Ask(r) /\ Kind(r)' = Kind(r) /\ Met(r)' = Met(r)
<1>1. Moved(q)
  BY HandleMoves
<1>2. \A p \in Requests : Ask(p)' = Ask(p) /\ requests'[p].met = requests[p].met
  BY <1>1 DEF Moved, Ask
<1>3. requests[r].met \subseteq Requests
  BY DEF RequestsOK, RequestOK
<1>4. QED BY <1>2, <1>3 DEF Met, Kind

LEMMA OthersMet ==
  ASSUME RequestsOK, MetOK, NEW q \in Requests, Handle(q), NEW r \in Requests \ {q}, r \in Busy
  PROVE  requests'[r] = requests[r] /\ Ask(q) \in Met(r)
<1>1. Moved(q) /\ q \in Busy
  BY HandleMoves, HandleForms
<1>2. QED BY <1>1 DEF Moved, MetOK, Met

LEMMA ReceiveKeeps ==
  ASSUME RequestsOK, MetOK, NEW q \in Requests, Receive(q), NEW r \in Busy
  PROVE  /\ r # q /\ requests'[r].at = requests[r].at /\ requests'[r].read = requests[r].read
         /\ Ask(r)' = Ask(r) /\ Met(r) \subseteq Met(r)'
<1>1. PICK a \in Asks :
        requests' = [p \in Requests |->
          IF p = q THEN [Unborn EXCEPT !.ask = a, !.at = 1, !.met = Busy]
          ELSE IF p \in Busy THEN [requests[p] EXCEPT !.met = @ \cup {q}]
          ELSE requests[p]]
  BY DEF Receive
<1>2. requests[q].at = 0 /\ requests[q].answer = "none" /\ r \in Requests
  <2>1. r \in Requests
    BY DEF Busy
  <2>2. requests[q] = Unborn
    BY DEF Receive
  <2>3. QED BY <2>1, <2>2 DEF Unborn
<1>3. r # q
  BY <1>2 DEF Busy
<1>4. requests'[r] = [requests[r] EXCEPT !.met = @ \cup {q}]
  BY <1>1, <1>2, <1>3
<1>5. /\ requests'[r].at = requests[r].at /\ requests'[r].read = requests[r].read
      /\ requests'[r].ask = requests[r].ask /\ requests'[r].met = requests[r].met \cup {q}
  BY <1>2, <1>4 DEF RequestsOK, RequestOK
<1>6. \A p \in requests[r].met : Ask(p)' = Ask(p)
  <2>1. SUFFICES ASSUME NEW p \in requests[r].met
                 PROVE  Ask(p)' = Ask(p)
    OBVIOUS
  <2>2. p \in Requests /\ p # q
    BY <1>2 DEF RequestsOK, RequestOK, MetOK, Born
  <2>3. CASE p \in Busy
    <3>1. requests'[p] = [requests[p] EXCEPT !.met = @ \cup {q}]
      BY <1>1, <2>2, <2>3
    <3>2. QED BY <2>2, <3>1 DEF Ask, RequestsOK, RequestOK
  <2>4. CASE p \notin Busy
    BY <1>1, <2>2, <2>4 DEF Ask
  <2>5. QED BY <2>3, <2>4
<1>7. QED BY <1>3, <1>5, <1>6 DEF Ask, Met

-----------------------------------------------------------------------------
(* What a step may change of the clusters, the environments, the services. *)

\* The steps that leave the clusters and the environments alone.
LEMMA OtherRows ==
  ASSUME Intact(db), NEW r \in Requests,
         CallHook(r) \/ RunHook(r) \/ LinkProjects(r) \/ StageStep(r) \/ UnlinkClusters(r)
           \/ QuotaStep(r) \/ DeleteRow(r)
  PROVE  db'.clusters = db.clusters /\ db'.envs = db.envs
<1>1. CASE CallHook(r) \/ RunHook(r)
  BY <1>1 DEF CallHook, RunHook
<1>2. CASE LinkProjects(r) \/ UnlinkClusters(r) \/ DeleteRow(r)
  BY <1>2 DEF LinkProjects, UnlinkClusters, DeleteRow, Check, Write, Intact
<1>3. CASE StageStep(r)
  BY <1>3 DEF StageStep, Check, Write, Connect, ConnectEach, Disconnect, Intact
<1>4. CASE QuotaStep(r)
  BY <1>4 DEF QuotaStep, Check, Write, Connect, ConnectEach, Disconnect, DisconnectEach, Intact
<1>5. QED BY <1>1, <1>2, <1>3, <1>4

\* A step of a handler changes the zone of a cluster only if its request moves
\* the cluster.
LEMMA HomesKept ==
  ASSUME Intact(db), RequestsOK, NEW r \in Requests, Handle(r)
  PROVE  /\ \A c : Home(c)' = Home(c) \/ Moves(Ask(r), c)
         /\ \/ \A c : Home(c)' = Home(c)
            \/ Kind(r) \in {"createCluster", "updateCluster", "deleteCluster", "createZone"}
<1> DEFINE a == Ask(r)
<1>1. CASE db'.clusters = db.clusters
  BY <1>1 DEF Home
<1>2. CASE At(r, "linkZone") /\ db' = [db EXCEPT !.clusters = InZone(a.id, a.clusters)]
  <2>1. db'.clusters = InZone(a.id, a.clusters)
    BY <1>2 DEF Intact
  <2>2. Kind(r) = "createZone" /\ Given(a, "clusters")
    <3>1. Accepted(a) /\ "linkZone" \in Vocabulary(a)
      BY <1>2, AtStep
    <3>2. QED BY <3>1 DEF Accepted, Vocabulary, Only, Kind
  <2>3. \A c : c \notin a.clusters => Home(c)' = Home(c)
    BY <2>1 DEF Home, InZone
  <2>4. QED BY <2>2, <2>3 DEF Moves, Kind
<1>3. CASE /\ \E step \in {"insertCluster", "writeCluster"} : At(r, step)
           /\ \E row : db' = [db EXCEPT !.clusters = Assign(@, a.id, row)]
  <2>1. PICK row : db' = [db EXCEPT !.clusters = Assign(@, a.id, row)]
    BY <1>3
  <2>2. db'.clusters = Assign(db.clusters, a.id, row)
    BY <2>1 DEF Intact
  <2>3. \A c : c # a.id => Home(c)' = Home(c)
    BY <2>2 DEF Home, Assign
  <2>4. QED BY <1>3, <2>3, ClusterAsked DEF Moves
<1>4. CASE At(r, "moveCluster") /\ db' = [db EXCEPT !.clusters = InZone(a.zone, {a.id})]
  <2>1. db'.clusters = InZone(a.zone, {a.id})
    BY <1>4 DEF Intact
  <2>2. \A c : c # a.id => Home(c)' = Home(c)
    BY <2>1 DEF Home, InZone
  <2>3. QED BY <1>4, <2>2, ClusterAsked DEF Moves
<1>5. CASE /\ At(r, "deleteCluster")
           /\ db' = [db EXCEPT !.clusters = Without(@, {a.id}), !.links = Unlinked(a.id)]
  <2>1. db'.clusters = Without(db.clusters, {a.id})
    BY <1>5 DEF Intact
  <2>2. \A c : c # a.id => Home(c)' = Home(c)
    BY <2>1 DEF Home, Without
  <2>3. QED BY <1>5, <2>2, ClusterAsked DEF Moves
<1>6. CASE CallHook(r) \/ RunHook(r) \/ LinkProjects(r) \/ StageStep(r) \/ UnlinkClusters(r)
             \/ QuotaStep(r) \/ DeleteRow(r)
  BY <1>1, <1>6, OtherRows
<1>7. CASE ZoneStep(r)
  BY <1>1, <1>2, <1>7 DEF ZoneStep, Check, Write, Intact
<1>8. CASE CreateCluster(r)
  BY <1>1, <1>3, <1>8 DEF CreateCluster, Check, Write
<1>9. CASE UpdateCluster(r)
  BY <1>1, <1>3, <1>4, <1>9 DEF UpdateCluster, WritePrivacy, Check, Write, DisconnectEach, Intact
<1>10. CASE DeleteCluster(r)
  BY <1>1, <1>5, <1>10 DEF DeleteCluster, Check, Write, Intact
<1>11. CASE EnvironmentStep(r)
  BY <1>1, <1>11 DEF EnvironmentStep, Check, Write, Intact
<1>12. QED BY <1>6, <1>7, <1>8, <1>9, <1>10, <1>11 DEF Handle

\* Only the creation of an environment there makes a free cluster used.
LEMMA FreeKept ==
  ASSUME Intact(db), RequestsOK, NEW r \in Requests, Handle(r),
         NEW c, OnCluster(c) = {}
  PROVE  OnCluster(c)' = {} \/ (Kind(r) = "createEnvironment" /\ Ask(r).cluster = c)
<1> DEFINE a == Ask(r)
<1>0. \A e \in DOMAIN db.envs : db.envs[e].cluster # c
  BY DEF OnCluster, EnvironmentsOf
<1>1. CASE db'.envs = db.envs
  BY <1>1 DEF OnCluster, EnvironmentsOf
<1>2. CASE \E es : db' = [db EXCEPT !.envs = Without(@, es)]
  <2>1. PICK es : db' = [db EXCEPT !.envs = Without(@, es)]
    BY <1>2
  <2>2. db'.envs = Without(db.envs, es)
    BY <2>1 DEF Intact
  <2>3. \A e \in DOMAIN db'.envs : db'.envs[e].cluster # c
    BY <1>0, <2>2 DEF Without
  <2>4. QED BY <2>3 DEF OnCluster, EnvironmentsOf
<1>3. CASE /\ At(r, "insertEnvironment")
           /\ db' = [db EXCEPT !.envs = Assign(@, a.id,
                       [cluster |-> a.cluster, stage |-> a.stage, quota |-> a.quota])]
  <2> DEFINE env == [cluster |-> a.cluster, stage |-> a.stage, quota |-> a.quota]
  <2>1. env.cluster = a.cluster
    OBVIOUS
  <2> HIDE DEF env
  <2>2. db' = [db EXCEPT !.envs = Assign(@, a.id, env)]
    BY <1>3 DEF env
  <2>3. db'.envs = Assign(db.envs, a.id, env)
    BY <2>2 DEF Intact
  <2>4. a.cluster # c => \A e \in DOMAIN db'.envs : db'.envs[e].cluster # c
    BY <1>0, <2>1, <2>3 DEF Assign
  <2>5. QED BY <1>3, <2>4, QuotaAsked DEF OnCluster, EnvironmentsOf
<1>4. CASE /\ At(r, "writeEnvironment") /\ db' = [db EXCEPT !.envs[a.id].quota = a.quota]
           /\ a.id \in DOMAIN db.envs
  <2>1. db'.envs = [db.envs EXCEPT ![a.id].quota = a.quota]
    BY <1>4 DEF Intact
  <2>2. \A e \in DOMAIN db.envs :
          db.envs[e] \in [cluster : DOMAIN db.clusters, stage : DOMAIN db.stages,
                          quota : DOMAIN db.quotas]
    BY DEF Intact
  <2>3. \A e \in DOMAIN db'.envs : db'.envs[e].cluster # c
    BY <1>0, <2>1, <2>2
  <2>4. QED BY <2>3 DEF OnCluster, EnvironmentsOf
<1>5. CASE CallHook(r) \/ RunHook(r) \/ LinkProjects(r) \/ StageStep(r) \/ UnlinkClusters(r)
             \/ QuotaStep(r) \/ DeleteRow(r)
  BY <1>1, <1>5, OtherRows
<1>6. CASE ZoneStep(r) \/ CreateCluster(r)
  BY <1>1, <1>6 DEF ZoneStep, CreateCluster, Check, Write, Intact
<1>7. CASE UpdateCluster(r)
  BY <1>1, <1>7 DEF UpdateCluster, WritePrivacy, Check, Write, DisconnectEach, Intact
<1>8. CASE DeleteCluster(r)
  BY <1>1, <1>2, <1>8 DEF DeleteCluster, Check, Write, Intact
<1>9. CASE EnvironmentStep(r)
  BY <1>1, <1>2, <1>3, <1>4, <1>9 DEF EnvironmentStep, Check, Write
<1>10. QED BY <1>5, <1>6, <1>7, <1>8, <1>9 DEF Handle

\* Only the hook of a row changes what the services keep, and of that row.
LEMMA ServicesKept ==
  ASSUME PairsOnly, NEW r \in Requests, Handle(r)
  PROVE  /\ \A s : s[1] # Ask(r).id => (s \in services <=> s \in services')
         /\ PairsOnly'
         /\ services' = services \/ RunHook(r)
<1>1. services' = services \/ RunHook(r)
  <2>1. CASE CallHook(r) \/ LinkProjects(r) \/ UnlinkClusters(r)
    BY <2>1 DEF CallHook, LinkProjects, UnlinkClusters, Check
  <2>2. CASE ZoneStep(r) \/ CreateCluster(r) \/ DeleteCluster(r) \/ DeleteRow(r)
               \/ EnvironmentStep(r)
    BY <2>2 DEF ZoneStep, CreateCluster, DeleteCluster, DeleteRow, EnvironmentStep, Check, Write
  <2>3. CASE UpdateCluster(r)
    BY <2>3 DEF UpdateCluster, WritePrivacy, Check, Write, DisconnectEach
  <2>4. CASE StageStep(r) \/ QuotaStep(r)
    BY <2>4 DEF StageStep, QuotaStep, Check, Write, Connect, ConnectEach, Disconnect,
       DisconnectEach
  <2>5. QED BY <2>1, <2>2, <2>3, <2>4 DEF Handle
<1>2. CASE services' = services
  BY <1>2 DEF PairsOnly
<1>3. CASE services' = Done(r)
  <2> DEFINE new == <<Ask(r).id, Read(r)>>
  <2>1. \A s \in Done(r) : s \in services \/ s = new
    BY DEF Done
  <2>2. \A s \in services : s[1] # Ask(r).id => s \in Done(r)
    BY DEF Done
  <2>3. new[1] = Ask(r).id /\ new = <<new[1], new[2]>>
    OBVIOUS
  <2> HIDE DEF new
  <2>4. QED BY <1>1, <1>3, <2>1, <2>2, <2>3 DEF PairsOnly
<1>4. QED BY <1>1, <1>2, <1>3 DEF RunHook

-----------------------------------------------------------------------------
(* The step a request was at before it came to a step.                     *)

Marks == {"hook", "executing", "details", "deleteZone", "deleteCluster"}

\* Which handler takes a step around a hook.
LEMMA HandleAt ==
  ASSUME NEW r \in Requests, Handle(r), NEW step, At(r, step)
  PROVE  /\ step = "hook" => CallHook(r)
         /\ step = "executing" => RunHook(r)
         /\ step = "details" => UpdateCluster(r)
         /\ step = "deleteZone" => ZoneStep(r)
         /\ step \in {"deleteEnvironments", "findEnvironment", "deleteCluster"} =>
              DeleteCluster(r)
BY DEF Handle, CallHook, RunHook, ZoneStep, CreateCluster, UpdateCluster, LinkProjects,
   DeleteCluster, StageStep, UnlinkClusters, QuotaStep, DeleteRow, EnvironmentStep, At

\* Such a step is not a loop.
LEMMA MarksPass ==
  ASSUME RequestsOK, NEW r \in Requests, Handle(r), NEW step \in Marks, At(r, step)
  PROVE  requests'[r].at \in {0, requests[r].at + 1}
<1>1. r \in Busy
  BY HandleForms
<1>2. \/ \E answer \in {"refused", "failed", "threw"} : End(r, answer)
      \/ \E read : Go(r, read)
  <2>1. CASE step = "hook"
    BY <2>1, HandleAt DEF CallHook
  <2>2. CASE step = "executing"
    BY <2>2, HandleAt DEF RunHook
  <2>3. CASE step = "details"
    <3>1. UpdateCluster(r)
      BY <2>3, HandleAt
    <3>2. QED BY <2>3, <3>1 DEF UpdateCluster, Check, At
  <2>4. CASE step = "deleteZone"
    BY <2>4, HandleAt DEF ZoneStep, Check, Write
  <2>5. CASE step = "deleteCluster"
    BY <2>5, HandleAt DEF DeleteCluster, Check, Write
  <2>6. QED BY <2>1, <2>2, <2>3, <2>4, <2>5 DEF Marks
<1>3. CASE \E answer \in {"refused", "failed", "threw"} : End(r, answer)
  BY <1>3, EndMoves DEF Answered
<1>4. CASE \E read : Go(r, read)
  BY <1>1, <1>4, GoMoves DEF Busy
<1>5. QED BY <1>2, <1>3, <1>4

\* It comes after the one the order of the steps says.
LEMMA MarksAfter ==
  ASSUME RequestsOK, NEW r \in Requests, Handle(r), NEW step \in Marks, At(r, step)'
  PROVE  /\ step = "executing" => At(r, "hook")
         /\ step \in {"details", "deleteZone", "deleteCluster"} => At(r, "executing")
         /\ step = "hook" /\ Kind(r) = "deleteCluster" =>
              At(r, "deleteEnvironments") \/ At(r, "findEnvironment")
         /\ requests'[r].at # 0
<1> DEFINE i == requests'[r].at
           steps == Steps(Ask(r))
<1>1. Moved(r) /\ r \in Busy
  BY HandleMoves, HandleForms
<1>2. Ask(r)' = Ask(r) /\ Kind(r)' = Kind(r)
  BY MetStays
<1>3. /\ i # 0 /\ i \in 1..Len(steps) /\ i \in {requests[r].at, requests[r].at + 1}
      /\ steps[i] = step
  BY <1>1, <1>2 DEF At, Moved, Ask
<1>4. Ask(r) \in Asks /\ requests[r].at \in Nat
  BY <1>1 DEF RequestsOK, RequestOK, Busy, Ask
<1>5. i = requests[r].at + 1
  <2>1. CASE i = requests[r].at
    <3>1. At(r, step)
      BY <1>3, <2>1 DEF At
    <3>2. QED BY <1>3, <1>4, <2>1, <3>1, MarksPass
  <2>2. QED BY <1>3, <2>1
<1>6. Ordered(steps)
      /\ (Kind(r) = "deleteCluster" =>
            \A j \in 1..Len(steps) : steps[j] = "hook" =>
              j > 1 /\ steps[j - 1] \in {"deleteEnvironments", "findEnvironment"})
  BY <1>4, StepsOrdered DEF Kind
<1>7. i - 1 = requests[r].at
  BY <1>4, <1>5
<1> HIDE DEF i, steps
<1>8. /\ step = "executing" => steps[requests[r].at] = "hook"
      /\ step \in {"details", "deleteZone", "deleteCluster"} => steps[requests[r].at] = "executing"
      /\ step = "hook" /\ Kind(r) = "deleteCluster" =>
           steps[requests[r].at] \in {"deleteEnvironments", "findEnvironment"}
  BY <1>3, <1>6, <1>7 DEF Ordered
<1>9. QED BY <1>1, <1>3, <1>8 DEF At, Busy, i, steps

\* A request that comes is not yet at such a step.
LEMMA NotAtOnce ==
  ASSUME RequestsOK, NEW r \in Requests, Receive(r), NEW step \in Marks, At(r, step)'
  PROVE  step = "hook" /\ Kind(r)' # "deleteCluster"
<1>1. PICK a \in Asks :
        requests' = [q \in Requests |->
          IF q = r THEN [Unborn EXCEPT !.ask = a, !.at = 1, !.met = Busy]
          ELSE IF q \in Busy THEN [requests[q] EXCEPT !.met = @ \cup {r}]
          ELSE requests[q]]
  BY DEF Receive
<1>2. requests'[r].ask = a /\ requests'[r].at = 1
  BY <1>1 DEF Unborn
<1>3. Steps(a)[1] = step /\ Len(Steps(a)) > 0 /\ Len(Steps(a)) \in Nat
  BY <1>2, StepsTyped DEF At, Ask
<1>4. 1 \in 1..Len(Steps(a))
  BY <1>3
<1>5. /\ Ordered(Steps(a))
      /\ a.kind = "deleteCluster" =>
           \A i \in 1..Len(Steps(a)) : Steps(a)[i] = "hook" =>
             i > 1 /\ Steps(a)[i - 1] \in {"deleteEnvironments", "findEnvironment"}
  BY StepsOrdered
<1>6. QED BY <1>2, <1>3, <1>4, <1>5 DEF Ordered, Marks, Kind, Ask

\* Who comes to the last steps.
LEMMA ClusterAskedNext ==
  ASSUME RequestsOK', NEW r \in Requests
  PROVE  /\ At(r, "details")' => Kind(r)' \in {"createCluster", "updateCluster"}
         /\ At(r, "deleteZone")' => Kind(r)' = "deleteZone"
<1> DEFINE a == requests'[r].ask
           i == requests'[r].at
<1>1. SUFFICES ASSUME i # 0
               PROVE  /\ Steps(a)[i] = "details" => a.kind \in {"createCluster", "updateCluster"}
                      /\ Steps(a)[i] = "deleteZone" => a.kind = "deleteZone"
  BY DEF At, Kind, Ask
<1>2. a \in Asks /\ i \in 1..Len(Steps(a))
  BY <1>1 DEF RequestsOK, RequestOK
<1>3. Steps(a)[i] \in Vocabulary(a) /\ Accepted(a)
  BY <1>2, StepsTyped, TopologyAssumption
<1> HIDE DEF a, i
<1>4. QED BY <1>3 DEF Accepted, Vocabulary, Only

\* A hook that is called reads the row, and one that goes on has done its work.
LEMMA HookReads ==
  ASSUME RequestsOK, NEW r \in Requests, Handle(r), requests'[r].at # 0
  PROVE  /\ At(r, "hook") => /\ Ask(r).id \in Existing /\ Read(r)' = Payload(Ask(r).id)
                             /\ UNCHANGED <<db, services>>
         /\ At(r, "executing") => services' = Done(r) /\ UNCHANGED db
<1>1. r \in Busy
  BY HandleForms
<1>2. CASE At(r, "hook")
  <2>1. CallHook(r)
    BY <1>2, HandleAt
  <2>2. ~ \E answer \in {"threw"} : End(r, answer)
    BY EndMoves DEF Answered
  <2>3. Go(r, Payload(Ask(r).id)) /\ Ask(r).id \in Existing /\ UNCHANGED <<db, services>>
    BY <2>1, <2>2 DEF CallHook
  <2>4. QED BY <1>1, <1>2, <2>3, GoMoves DEF Busy, Read, At
<1>3. CASE At(r, "executing")
  <2>1. RunHook(r)
    BY <1>3, HandleAt
  <2>2. ~ \E answer \in {"failed"} : End(r, answer)
    BY EndMoves DEF Answered
  <2>3. QED BY <1>3, <2>1, <2>2 DEF RunHook, At
<1>4. QED BY <1>2, <1>3

-----------------------------------------------------------------------------
(* The invariant holds: a request makes what it counts on true, and those  *)
(* that disturb it are among those it has met.                             *)

LEMMA ReceiveSettled ==
  ASSUME RequestsOK, MetOK, NEW q \in Requests, Receive(q), NEW r \in Requests, Settled(r)
  PROVE  Settled(r)'
<1>1. CASE r \in Busy
  <2>1. /\ requests'[r].at = requests[r].at /\ Read(r)' = Read(r)
        /\ Ask(r)' = Ask(r) /\ Met(r) \subseteq Met(r)'
    BY <1>1, ReceiveKeeps DEF Read
  <2>2. db' = db /\ services' = services
    BY DEF Receive
  <2>3. /\ Kind(r)' = Kind(r) /\ OfCluster(r)' = OfCluster(r)
        /\ \A step : At(r, step)' => At(r, step)
    BY <2>1 DEF Kind, OfCluster, At
  <2>4. /\ Moving(r) => Moving(r)'
        /\ Settling(r) => Settling(r)'
        /\ Shaping(r) => Shaping(r)'
        /\ Rivalled(r) => Rivalled(r)'
    BY <2>1 DEF Moving, Settling, Shaping, Rivalled
  <2>5. /\ Home(Ask(r).id)' = Home(Ask(r).id) /\ Inside(Ask(r).id)' = Inside(Ask(r).id)
        /\ OnCluster(Ask(r).id)' = OnCluster(Ask(r).id)
    BY <2>1, <2>2 DEF Home, Inside, OnCluster, EnvironmentsOf
  <2>6. DeletedIsUnused(r)'
    BY <2>3, <2>4, <2>5 DEF Settled, DeletedIsUnused
  <2>7. AddressIsHome(r)'
    BY <2>1, <2>3, <2>4, <2>5 DEF Settled, AddressIsHome
  <2>8. SecretIsHome(r)'
    BY <2>1, <2>2, <2>3, <2>4, <2>5 DEF Settled, SecretIsHome
  <2>9. ListIsInside(r)'
    BY <2>1, <2>3, <2>4, <2>5 DEF Settled, ListIsInside
  <2>10. DeletedIsEmptied(r)'
    BY <2>1, <2>2, <2>3, <2>4 DEF Settled, DeletedIsEmptied
  <2>11. QED BY <2>6, <2>7, <2>8, <2>9, <2>10 DEF Settled
<1>2. CASE r \notin Busy
  <2>1. \A step \in Marks : At(r, step)' => step = "hook" /\ Kind(r)' # "deleteCluster"
    <3>1. CASE r = q
      BY <3>1, NotAtOnce
    <3>2. CASE r # q
      BY <1>2, <3>2 DEF Receive, At, Busy
    <3>3. QED BY <3>1, <3>2
  <2>2. QED
    BY <2>1 DEF Settled, DeletedIsUnused, AddressIsHome, SecretIsHome, ListIsInside,
       DeletedIsEmptied, Marks
<1>3. QED BY <1>1, <1>2

\* A step of its own handler.
LEMMA OwnSettled ==
  ASSUME TInv, MetOK, PairsOnly, NEW r \in Requests, Handle(r), Settled(r)
  PROVE  Settled(r)'
<1> DEFINE x == Ask(r).id
<1>0. RequestsOK /\ RequestsOK' /\ Intact(db)
  BY NextRequests DEF TInv, Next
<1>1. /\ Ask(r)' = Ask(r) /\ Kind(r)' = Kind(r) /\ Met(r)' = Met(r)
      /\ OfCluster(r)' = OfCluster(r)
  BY <1>0, MetStays DEF OfCluster
<1>2. /\ Moving(r)' = Moving(r) /\ Settling(r)' = Settling(r)
      /\ Shaping(r)' = Shaping(r) /\ Rivalled(r)' = Rivalled(r)
  BY <1>1 DEF Moving, Settling, Shaping, Rivalled
<1>3. ASSUME NEW step \in {"hook", "executing", "deleteCluster"}, At(r, step)',
             Kind(r)' = "deleteCluster"
      PROVE  OnCluster(x)' = {} \/ Settling(r)'
  <2>1. CASE step = "hook"
    <3>1. /\ At(r, "deleteEnvironments") \/ At(r, "findEnvironment")
          /\ requests'[r].at # 0
      BY <1>0, <1>1, <1>3, <2>1, MarksAfter DEF Marks
    <3>2. DeleteCluster(r)
      BY <3>1, HandleAt
    <3>3. ~ \E answer \in {"refused", "threw"} : End(r, answer)
      BY <1>0, <3>1, EndMoves DEF Answered
    <3>4. CASE At(r, "deleteEnvironments")
      <4>1. db' = [db EXCEPT !.envs = Without(@, OnCluster(x))]
        BY <3>2, <3>3, <3>4 DEF DeleteCluster, Write, At
      <4>2. db'.envs = Without(db.envs, OnCluster(x))
        BY <1>0, <4>1 DEF Intact
      <4>3. \A e \in DOMAIN db'.envs : db'.envs[e].cluster # x
        BY <4>2 DEF Without, OnCluster, EnvironmentsOf
      <4>4. QED BY <1>1, <4>3 DEF OnCluster, EnvironmentsOf
    <3>5. CASE At(r, "findEnvironment")
      <4>1. OnCluster(x) = {} /\ db' = db
        BY <3>2, <3>3, <3>5 DEF DeleteCluster, Check, At
      <4>2. QED BY <1>1, <4>1 DEF OnCluster, EnvironmentsOf
    <3>6. QED BY <3>1, <3>4, <3>5
  <2>2. CASE step # "hook"
    <3>1. /\ At(r, "hook") \/ At(r, "executing")
          /\ requests'[r].at # 0
      BY <1>0, <1>3, <2>2, MarksAfter DEF Marks
    <3>2. db' = db
      BY <1>0, <3>1, HookReads
    <3>3. OnCluster(x) = {} \/ Settling(r)
      BY <1>1, <1>3, <3>1 DEF Settled, DeletedIsUnused
    <3>4. QED BY <1>1, <1>2, <3>2, <3>3 DEF OnCluster, EnvironmentsOf
  <2>3. QED BY <2>1, <2>2
<1>4. ASSUME At(r, "executing")'
      PROVE  /\ OfCluster(r) => Home(x)' = {Read(r)'}
             /\ Kind(r) = "createZone" => Read(r)' = Inside(x)'
  <2>1. At(r, "hook") /\ requests'[r].at # 0
    BY <1>0, <1>4, MarksAfter DEF Marks
  <2>2. x \in Existing /\ Read(r)' = Payload(x) /\ db' = db
    BY <1>0, <2>1, HookReads
  <2>3. CASE OfCluster(r)
    <3>1. x \in Clusters
      BY <1>0, <2>1, <2>3, IdAsked DEF OfCluster
    <3>2. x \in DOMAIN db.clusters
      BY <1>0, <2>2, <3>1, TopologyAssumption DEF Existing, Linkable, Intact
    <3>3. QED BY <1>1, <2>2, <2>3, <3>1, <3>2 DEF Home, Payload, OfCluster
  <2>4. CASE Kind(r) = "createZone"
    <3>1. x \notin Clusters
      BY <1>0, <2>1, <2>4, IdAsked, TopologyAssumption
    <3>2. QED BY <1>1, <2>2, <2>4, <3>1 DEF Inside, Payload, OfCluster
  <2>5. QED BY <2>3, <2>4
<1>5. ASSUME At(r, "details")'
      PROVE  (\E z \in Home(x)' : <<x, z>> \in services') \/ Moving(r)
  <2>1. At(r, "executing") /\ requests'[r].at # 0
    BY <1>0, <1>5, MarksAfter DEF Marks
  <2>2. services' = Done(r) /\ db' = db
    BY <1>0, <2>1, HookReads
  <2>3. OfCluster(r)
    BY <1>0, <1>1, <1>5, ClusterAskedNext DEF OfCluster
  <2>4. ~Deletes(r) /\ <<x, Read(r)>> \in Done(r)
    BY <2>3 DEF OfCluster, Deletes, Done
  <2>5. Home(x) = {Read(r)} \/ Moving(r)
    BY <2>1, <2>3 DEF Settled, AddressIsHome
  <2>6. Home(x)' = Home(x)
    BY <1>1, <2>2 DEF Home
  <2>7. QED BY <2>2, <2>4, <2>5, <2>6
<1>6. ASSUME At(r, "deleteZone")'
      PROVE  \A s \in services' : s[1] # x
  <2>1. At(r, "executing") /\ requests'[r].at # 0
    BY <1>0, <1>6, MarksAfter DEF Marks
  <2>2. services' = Done(r)
    BY <1>0, <2>1, HookReads
  <2>3. Kind(r) = "deleteZone"
    BY <1>0, <1>1, <1>6, ClusterAskedNext
  <2>4. x \in Zones
    BY <1>0, <2>1, <2>3, IdAsked
  <2>5. QED BY <2>2, <2>3, <2>4 DEF Done, Deletes
<1>7. DeletedIsUnused(r)'
  BY <1>1, <1>3 DEF DeletedIsUnused
<1>8. AddressIsHome(r)' /\ ListIsInside(r)'
  BY <1>1, <1>4 DEF AddressIsHome, ListIsInside
<1>9. SecretIsHome(r)'
  BY <1>1, <1>2, <1>5 DEF SecretIsHome
<1>10. DeletedIsEmptied(r)'
  BY <1>1, <1>6 DEF DeletedIsEmptied
<1>11. QED BY <1>7, <1>8, <1>9, <1>10 DEF Settled

\* A step of another handler.
LEMMA OthersSettled ==
  ASSUME TInv, MetOK, PairsOnly, NEW q \in Requests, Handle(q), NEW r \in Requests \ {q},
         Settled(r)
  PROVE  Settled(r)'
<1> DEFINE x == Ask(r).id
<1>0. RequestsOK /\ Intact(db)
  BY DEF TInv
<1>1. CASE r \notin Busy
  <2>1. requests'[r] = requests[r]
    BY <1>0, HandleMoves DEF Moved
  <2>2. \A step : ~At(r, step)'
    BY <1>1, <2>1 DEF At, Busy
  <2>3. QED BY <2>2 DEF Settled, DeletedIsUnused, AddressIsHome, SecretIsHome, ListIsInside,
            DeletedIsEmptied
<1>2. CASE r \in Busy
  <2>1. requests'[r] = requests[r] /\ Ask(q) \in Met(r)
    BY <1>0, <1>2, OthersMet
  <2>2. /\ Ask(r)' = Ask(r) /\ Kind(r)' = Kind(r) /\ Met(r)' = Met(r)
        /\ OfCluster(r)' = OfCluster(r) /\ Read(r)' = Read(r)
        /\ \A step : At(r, step)' => At(r, step)
    BY <1>0, <2>1, MetStays DEF OfCluster, Read, At, Ask
  <2>3. /\ Moving(r)' = Moving(r) /\ Settling(r)' = Settling(r)
        /\ Shaping(r)' = Shaping(r) /\ Rivalled(r)' = Rivalled(r)
    BY <2>2 DEF Moving, Settling, Shaping, Rivalled
  <2>4. DeletedIsUnused(r)'
    <3>1. PICK c : c = x
      OBVIOUS
    <3>2. OnCluster(c) = {} => OnCluster(c)' = {} \/ Settling(r)
      BY <1>0, <2>1, <3>1, FreeKept DEF Settling, Kind
    <3>3. OnCluster(x) = OnCluster(c) /\ OnCluster(x)' = OnCluster(c)'
      BY <2>2, <3>1 DEF OnCluster, EnvironmentsOf
    <3>4. QED BY <2>2, <2>3, <3>2, <3>3 DEF Settled, DeletedIsUnused
  <2>5. Home(x)' = Home(x) \/ Moving(r)
    <3>1. PICK c : c = x
      OBVIOUS
    <3>2. Home(c)' = Home(c) \/ Moving(r)
      BY <1>0, <2>1, <3>1, HomesKept DEF Moving
    <3>3. Home(x) = Home(c) /\ Home(x)' = Home(c)'
      BY <2>2, <3>1 DEF Home
    <3>4. QED BY <3>2, <3>3
  <2>6. AddressIsHome(r)'
    BY <2>2, <2>3, <2>5 DEF Settled, AddressIsHome
  <2>7. (\A s : s[1] = x => (s \in services <=> s \in services')) \/ Ask(q).id = x
    BY ServicesKept
  <2>8. SecretIsHome(r)'
    <3>1. CASE Ask(q).id = x
      <4>1. Moving(r)
        BY <2>1, <3>1 DEF Moving, Moves
      <4>2. QED BY <2>3, <4>1 DEF SecretIsHome
    <3>2. CASE \A s : s[1] = x => (s \in services <=> s \in services')
      <4>1. \A z : <<x, z>> \in services => <<x, z>> \in services'
        BY <3>2
      <4>2. QED BY <2>2, <2>3, <2>5, <4>1 DEF Settled, SecretIsHome
    <3>3. QED BY <2>7, <3>1, <3>2
  <2>9. ListIsInside(r)'
    <3>1. CASE \A c : Home(c)' = Home(c)
      <4>1. \A c : (c \in Inside(x) <=> Home(c) = {x}) /\ (c \in Inside(x)' <=> Home(c)' = {x})
        BY <2>2 DEF Home, Inside
      <4>2. Inside(x)' = Inside(x)
        BY <3>1, <4>1
      <4>3. QED BY <2>2, <2>3, <4>2 DEF Settled, ListIsInside
    <3>2. CASE Kind(q) \in {"createCluster", "updateCluster", "deleteCluster", "createZone"}
      <4>1. Shaping(r)
        BY <2>1, <3>2 DEF Shaping, Kind
      <4>2. QED BY <2>3, <4>1 DEF ListIsInside
    <3>3. QED BY <1>0, <3>1, <3>2, HomesKept
  <2>10. DeletedIsEmptied(r)'
    <3>1. CASE Ask(q).id = x
      <4>1. Rivalled(r)
        BY <2>1, <3>1 DEF Rivalled
      <4>2. QED BY <2>3, <4>1 DEF DeletedIsEmptied
    <3>2. CASE \A s : s[1] = x => (s \in services <=> s \in services')
      BY <2>2, <2>3, <3>2 DEF Settled, DeletedIsEmptied
    <3>3. QED BY <2>7, <3>1, <3>2
  <2>11. QED BY <2>4, <2>6, <2>8, <2>9, <2>10 DEF Settled
<1>3. QED BY <1>1, <1>2

LEMMA SInvHolds == Spec => []SInv
<1>1. Init => SInv
  <2> SUFFICES ASSUME Init
               PROVE  SInv
    OBVIOUS
  <2>1. TInv
    BY TInvInit
  <2>2. \A r \in Requests : requests[r].at = 0 /\ requests[r].met = {}
    <3>1. requests = [r \in Requests |-> Unborn]
      BY DEF Init
    <3>2. \A r \in Requests : requests[r] = Unborn
      BY <3>1
    <3>3. QED BY <3>2 DEF Unborn
  <2>3. MetOK
    BY <2>2 DEF MetOK, Busy
  <2>4. PairsOnly
    <3>1. \A s \in services : \E u, v : s = <<u, v>>
      BY DEF Init
    <3>2. QED BY <3>1 DEF PairsOnly
  <2>5. \A r \in Requests : Settled(r)
    BY <2>2 DEF Settled, DeletedIsUnused, AddressIsHome, SecretIsHome, ListIsInside,
       DeletedIsEmptied, At
  <2>6. QED BY <2>1, <2>3, <2>4, <2>5 DEF SInv
<1>2. SInv /\ [Next]_vars => SInv'
  <2> SUFFICES ASSUME SInv, [Next]_vars
               PROVE  SInv'
    OBVIOUS
  <2>1. TInv'
    BY TInvNext DEF SInv
  <2>2. MetOK'
    BY NextMet DEF SInv, TInv
  <2>3. ASSUME NEW q \in Requests, Handle(q)
        PROVE  PairsOnly' /\ \A r \in Requests : Settled(r)'
    <3>1. PairsOnly'
      BY <2>3, ServicesKept DEF SInv
    <3>2. ASSUME NEW r \in Requests
          PROVE  Settled(r)'
      <4>1. CASE r = q
        BY <2>3, <4>1, OwnSettled DEF SInv
      <4>2. CASE r # q
        BY <2>3, <4>2, OthersSettled DEF SInv
      <4>3. QED BY <4>1, <4>2
    <3>3. QED BY <3>1, <3>2
  <2>4. ASSUME NEW q \in Requests, Receive(q)
        PROVE  PairsOnly' /\ \A r \in Requests : Settled(r)'
    <3>1. PairsOnly'
      BY <2>4 DEF SInv, Receive, PairsOnly
    <3>2. \A r \in Requests : Settled(r)'
      BY <2>4, ReceiveSettled DEF SInv, TInv
    <3>3. QED BY <3>1, <3>2
  <2>5. ASSUME UNCHANGED vars
        PROVE  PairsOnly' /\ \A r \in Requests : Settled(r)'
    <3>1. db' = db /\ services' = services /\ requests' = requests
      BY <2>5 DEF vars
    <3>2. ASSUME NEW r \in Requests
          PROVE  Settled(r)'
      <4>1. Settled(r)
        BY DEF SInv
      <4>2. /\ Ask(r)' = Ask(r) /\ Kind(r)' = Kind(r) /\ Met(r)' = Met(r) /\ Read(r)' = Read(r)
            /\ OfCluster(r)' = OfCluster(r) /\ \A step : At(r, step)' = At(r, step)
        BY <3>1 DEF Ask, Kind, Met, Read, OfCluster, At
      <4>3. /\ Moving(r)' = Moving(r) /\ Settling(r)' = Settling(r)
            /\ Shaping(r)' = Shaping(r) /\ Rivalled(r)' = Rivalled(r)
        BY <4>2 DEF Moving, Settling, Shaping, Rivalled
      <4>4. /\ Home(Ask(r).id)' = Home(Ask(r).id) /\ Inside(Ask(r).id)' = Inside(Ask(r).id)
            /\ OnCluster(Ask(r).id)' = OnCluster(Ask(r).id)
        BY <3>1, <4>2 DEF Home, Inside, OnCluster, EnvironmentsOf
      <4>5. DeletedIsUnused(r)' /\ AddressIsHome(r)' /\ ListIsInside(r)'
        BY <4>1, <4>2, <4>3, <4>4 DEF Settled, DeletedIsUnused, AddressIsHome, ListIsInside
      <4>6. SecretIsHome(r)' /\ DeletedIsEmptied(r)'
        BY <3>1, <4>1, <4>2, <4>3, <4>4 DEF Settled, SecretIsHome, DeletedIsEmptied
      <4>7. QED BY <4>5, <4>6 DEF Settled
    <3>3. QED BY <3>1, <3>2 DEF SInv, PairsOnly
  <2>6. PairsOnly' /\ \A r \in Requests : Settled(r)'
    <3>1. CASE Next
      <4>1. PICK q \in Requests : Receive(q) \/ Handle(q)
        BY <3>1 DEF Next
      <4>2. QED BY <4>1, <2>3, <2>4
    <3>2. QED BY <2>5, <3>1
  <2>7. QED BY <2>1, <2>2, <2>6 DEF SInv
<1>3. QED BY <1>1, <1>2, PTL DEF Spec

-----------------------------------------------------------------------------
(* What administrators and users are promised.                             *)

\* A cluster in use keeps its secret, unless the environment came while the
\* cluster was being deleted: the environments are looked for before the hook,
\* and the row deleted after it, two awaits between which any request may run
\* (deleteCluster of resources/cluster/business.ts).
THEOREM UseIsSpared == Spec => DeletionSparesUse
<1>1. SInv /\ [Next]_vars =>
        [\A s \in services \ services' :
           s[1] \in Clusters /\ OnCluster(s[1]) # {} =>
             \E r \in Requests :
               /\ At(r, "executing") /\ Kind(r) = "deleteCluster" /\ Ask(r).id = s[1]
               /\ \E b \in Met(r) : b.kind = "createEnvironment" /\ b.cluster = s[1]]_vars
  <2> SUFFICES ASSUME SInv, Next, NEW s \in services \ services',
                      s[1] \in Clusters, OnCluster(s[1]) # {}
               PROVE  \E r \in Requests :
                        /\ At(r, "executing") /\ Kind(r) = "deleteCluster" /\ Ask(r).id = s[1]
                        /\ \E b \in Met(r) : b.kind = "createEnvironment" /\ b.cluster = s[1]
    OBVIOUS
  <2>1. PICK r \in Requests : Handle(r)
    BY DEF Next, Receive
  <2>2. RunHook(r) /\ Ask(r).id = s[1]
    BY <2>1, ServicesKept DEF SInv
  <2>3. At(r, "executing") /\ services' = Done(r)
    BY <2>2 DEF RunHook
  <2>4. s[1] \notin Zones
    BY TopologyAssumption
  <2>5. s[2] = Read(r)
    BY <2>2, <2>3, <2>4 DEF Done
  <2>6. s = <<Ask(r).id, Read(r)>>
    BY <2>2, <2>5 DEF SInv, PairsOnly
  <2>7. Deletes(r)
    BY <2>3, <2>6 DEF Done
  <2>8. Kind(r) = "deleteCluster"
    BY <2>2, <2>3, <2>4, <2>7, IdAsked DEF SInv, TInv, Deletes
  <2>9. Settling(r)
    BY <2>2, <2>3, <2>8 DEF SInv, Settled, DeletedIsUnused
  <2>10. QED BY <2>2, <2>3, <2>8, <2>9 DEF Settling
<1>2. QED BY <1>1, SInvHolds, PTL DEF Spec, DeletionSparesUse

\* What a request that succeeds leaves, by its kind.
Followed(r) ==
  LET x == Ask(r).id
      inside == {c \in DOMAIN db'.clusters : db'.clusters[c].zone = x}
  IN CASE Kind(r) \in {"createCluster", "updateCluster"} ->
            \/ x \in DOMAIN db'.clusters /\ <<x, db'.clusters[x].zone>> \in services'
            \/ \E b \in Met(r) : Moves(b, x)
       [] Kind(r) = "createZone" ->
            \/ <<x, inside>> \in services'
            \/ \E b \in Met(r) : b.id = x \/ b.kind \in {"createCluster", "updateCluster",
                                                      "deleteCluster", "createZone"}
       [] Kind(r) = "deleteZone" ->
            \/ x \notin db'.zones /\ \A s \in services' : s[1] # x
            \/ \E b \in Met(r) : b.id = x
       [] OTHER -> TRUE

LEMMA SuccessFollowed ==
  ASSUME SInv, NEW r \in Requests, Handle(r), Answers(r, "ok")
  PROVE  Followed(r)
<1> DEFINE x == Ask(r).id
           last == Steps(Ask(r))[Len(Steps(Ask(r)))]
<1>0. RequestsOK /\ Intact(db) /\ Settled(r)
  BY DEF SInv, TInv
<1>1. At(r, last)
  BY <1>0, HandleMoves DEF Answers, At
<1>2. Ask(r) \in Asks
  BY <1>0 DEF RequestsOK, RequestOK, Answers, Ask
<1>3. /\ OfCluster(r) => last = "details"
      /\ Kind(r) = "createZone" => last = "executing"
      /\ Kind(r) = "deleteZone" => last = "deleteZone"
  BY <1>2, StepsOrdered DEF OfCluster, Kind
<1>4. ~ \E answer \in {"refused", "failed", "threw"} : End(r, answer)
  BY <1>0, EndMoves DEF Answers, Answered
<1>5. CASE OfCluster(r)
  <2>1. At(r, "details")
    BY <1>1, <1>3, <1>5
  <2>2. UpdateCluster(r)
    BY <2>1, HandleAt
  <2>3. x \in DOMAIN db.clusters /\ db' = db /\ services' = services
    BY <1>4, <2>1, <2>2 DEF UpdateCluster, Check, At
  <2>4. (\E z \in Home(x) : <<x, z>> \in services) \/ Moving(r)
    BY <1>0, <2>1 DEF Settled, SecretIsHome
  <2>5. QED BY <1>5, <2>3, <2>4 DEF Followed, Home, Moving, OfCluster
<1>6. CASE Kind(r) = "createZone"
  <2>1. At(r, "executing")
    BY <1>1, <1>3, <1>6
  <2>2. RunHook(r)
    BY <2>1, HandleAt
  <2>3. services' = Done(r) /\ db' = db
    BY <1>4, <2>2 DEF RunHook
  <2>4. <<x, Read(r)>> \in services'
    BY <1>6, <2>3 DEF Done, Deletes
  <2>5. Read(r) = Inside(x) \/ Shaping(r)
    BY <1>0, <1>6, <2>1 DEF Settled, ListIsInside
  <2>6. QED BY <1>6, <2>3, <2>4, <2>5 DEF Followed, Inside, Shaping
<1>7. CASE Kind(r) = "deleteZone"
  <2>1. At(r, "deleteZone")
    BY <1>1, <1>3, <1>7
  <2>2. ZoneStep(r)
    BY <2>1, HandleAt
  <2>3. db' = [db EXCEPT !.zones = @ \ {x}] /\ services' = services
    BY <1>4, <2>1, <2>2 DEF ZoneStep, Check, Write, At
  <2>4. x \notin db'.zones
    BY <1>0, <2>3 DEF Intact
  <2>5. (\A s \in services : s[1] # x) \/ Rivalled(r)
    BY <1>0, <2>1 DEF Settled, DeletedIsEmptied
  <2>6. QED BY <1>7, <2>3, <2>4, <2>5 DEF Followed, Rivalled
<1>8. CASE Kind(r) \notin {"createCluster", "updateCluster", "createZone", "deleteZone"}
  BY <1>8 DEF Followed
<1>9. QED BY <1>5, <1>6, <1>7, <1>8 DEF OfCluster

\* What a success leaves in the services is what the rows say: the secret of a
\* cluster is in the zone it is in, the values of a new zone list its clusters,
\* a deleted zone has neither row nor values; only a request met meanwhile is
\* an excuse.  It holds because no handler writes a row it sends after its hook
\* has read it (resources/cluster/business.ts, resources/zone/business.ts).
THEOREM HooksComeLast == Spec => ServicesFollowRows
<1>1. SInv /\ [Next]_vars => [\A r \in Requests : Answers(r, "ok") => Followed(r)]_vars
  <2> SUFFICES ASSUME SInv, Next, NEW r \in Requests, Answers(r, "ok")
               PROVE  Followed(r)
    OBVIOUS
  <2>1. PICK q \in Requests : Receive(q) \/ Handle(q)
    BY DEF Next
  <2>2. CASE Receive(q)
    <3>1. r \in Busy
      BY DEF Answers, Busy
    <3>2. requests'[r].at = requests[r].at
      BY <2>2, <3>1, ReceiveKeeps DEF SInv, TInv
    <3>3. QED BY <3>2 DEF Answers
  <2>3. CASE Handle(q)
    <3>1. r = q
      BY <2>3, HandleMoves DEF SInv, TInv, Moved, Answers
    <3>2. QED BY <2>3, <3>1, SuccessFollowed
  <2>4. QED BY <2>1, <2>2, <2>3
<1>2. QED BY <1>1, SInvHolds, PTL DEF Spec, ServicesFollowRows, Followed

-----------------------------------------------------------------------------
(* The links.  A request adds the links its body may add and removes those *)
(* it may remove, so that what one has written lasts until another that it *)
(* has met does the opposite; what it has still to remove is in a list it  *)
(* has read.                                                               *)

Linkables == Projects \cup Clusters \cup Stages \cup Quotas

Link(r, x) == {Ask(r).id, x}

\* The excuses of LinksAreAsked.
Removable(r, l) == \E b \in Met(r) : b.id \in l /\ Removes(b, Other(b, l))

Addable(r, l) == \E b \in Met(r) : b.id \in l /\ Adds(b, Other(b, l))

\* The step that links a row with x, and the one after which only the links
\* that were asked for are left.
LinkStep(x) ==
  CASE x \in Projects -> "linkProjects" [] x \in Clusters -> "linkClusters"
    [] x \in Stages -> "linkStages"     [] x \in Quotas -> "linkQuotas"

CutStep(a, x) ==
  CASE a.kind = "createCluster" -> "insertCluster"
    [] a.kind = "createStage" -> "insertStage"
    [] a.kind = "createQuota" -> "insertQuota"
    [] a.kind = "updateQuota" -> "unlinkStages"
    [] a.kind = "updateStage" -> IF x \in Clusters THEN "unlinkClusters" ELSE "unlinkQuotas"
    [] a.kind = "updateCluster" -> IF x \in Projects THEN "unlinkProjects" ELSE "unlinkStages"

\* The step is one of the n first of the request.
Passed(r, n, step) == \E i \in 1..n : Steps(Ask(r))[i] = step

\* What the n first steps of the request have left.
LinksLeft(r, n) ==
  \A x \in Linkables \ {Ask(r).id} :
    /\ Wants(Ask(r), x) /\ Passed(r, n, LinkStep(x)) =>
         Link(r, x) \in db.links \/ Removable(r, Link(r, x))
    /\ Rejects(Ask(r), x) /\ Passed(r, n, CutStep(Ask(r), x)) =>
         Link(r, x) \notin db.links \/ Addable(r, Link(r, x))

\* An update that has read its row.
HasRead(r, kind) == Kind(r) = kind /\ requests[r].at > 1

\* The lists a request holds are of what its body may remove.
ListsOK(r) ==
  /\ HasRead(r, "updateStage") =>
       /\ DOMAIN Read(r) = {"name", "clusters", "quotas"}
       /\ Read(r).clusters \subseteq Clusters /\ Read(r).quotas \subseteq Quotas
  /\ HasRead(r, "updateQuota") => Read(r) \subseteq Stages
  /\ (At(r, "moveCluster") \/ At(r, "readProjects")) /\ Given(Ask(r), "privacy") =>
       Read(r) = Ask(r).privacy
  /\ At(r, "linkProjects") /\ Kind(r) = "updateCluster" =>
       /\ Given(Ask(r), "privacy") => Read(r)[1] = Ask(r).privacy
       /\ \A y \in Read(r)[2] : y \in Projects /\ Removes(Ask(r), y)
  /\ At(r, "unlinkProjects") => \A y \in Read(r) : y \in Projects /\ Removes(Ask(r), y)
  /\ At(r, "unlinkStages") /\ Kind(r) = "updateCluster" =>
       Read(r) \subseteq Stages \ Ask(r).stages

\* What the request has found linked, of what it has to look at.
Found(r, x) ==
  CASE Kind(r) = "updateStage" -> x \in Read(r).clusters \cup Read(r).quotas
    [] At(r, "linkProjects") -> x \in Read(r)[2]
    [] OTHER -> x \in Read(r)

Holds(r, x) ==
  \/ HasRead(r, "updateStage") \/ HasRead(r, "updateQuota")
  \/ At(r, "linkProjects") /\ Kind(r) = "updateCluster" /\ x \in Projects
  \/ At(r, "unlinkProjects") /\ x \in Projects
  \/ At(r, "unlinkStages") /\ Kind(r) = "updateCluster" /\ x \in Stages

\* A link the body rejects is in the list the request holds, a quota it found
\* linked to the stage is linked, or a request it has met is to blame.
ListsFollow(r) ==
  \A x \in Linkables \ {Ask(r).id} :
    /\ Holds(r, x) /\ Rejects(Ask(r), x) /\ Link(r, x) \in db.links =>
         Found(r, x) \/ Addable(r, Link(r, x))
    /\ HasRead(r, "updateStage") /\ Wants(Ask(r), x) /\ x \in Read(r).quotas =>
         Link(r, x) \in db.links \/ Removable(r, Link(r, x))

LinkOK(r) ==
  requests[r].at # 0 => LinksLeft(r, requests[r].at - 1) /\ ListsOK(r) /\ ListsFollow(r)

LinkInv == \A r \in Requests : LinkOK(r)

-----------------------------------------------------------------------------
(* What a step does to the links.                                          *)

LEMMA Fields ==
  ASSUME NEW y \in Linkables
  PROVE  /\ y \in Projects => FieldOf(y) = "projects" /\ LinkStep(y) = "linkProjects"
         /\ y \in Clusters => FieldOf(y) = "clusters" /\ LinkStep(y) = "linkClusters"
         /\ y \in Stages => FieldOf(y) = "stages" /\ LinkStep(y) = "linkStages"
         /\ y \in Quotas => FieldOf(y) = "quotas" /\ LinkStep(y) = "linkQuotas"
BY TopologyAssumption DEF FieldOf, LinkStep, Linkables

LEMMA OtherEnd ==
  ASSUME NEW a, NEW y, y # a.id
  PROVE  Other(a, {a.id, y}) = y
BY DEF Other

\* The rows of a body have a kind each.
LEMMA Disjoint ==
  /\ Projects \cap (Clusters \cup Zones \cup Stages \cup Quotas) = {}
  /\ Clusters \cap (Zones \cup Stages \cup Quotas) = {}
  /\ Zones \cap (Stages \cup Quotas) = {} /\ Stages \cap Quotas = {}
BY TopologyAssumption

\* A body adds a link, or removes it, by naming the other end.
LEMMA NamesOther ==
  ASSUME NEW a, NEW y, y # a.id
  PROVE  /\ Adds(a, y) => Adds(a, Other(a, {a.id, y}))
         /\ Removes(a, y) => Removes(a, Other(a, {a.id, y}))
BY OtherEnd

\* The step a handler takes, where it writes links or reads them.
LEMMA LinkSteps ==
  ASSUME NEW r \in Requests, Handle(r)
  PROVE  /\ At(r, "linkProjects") => LinkProjects(r)
         /\ At(r, "linkClusters") => Connect(r, Ask(r).clusters)
         /\ At(r, "linkStages") => IF Ask(r).id \in Clusters THEN Connect(r, Ask(r).stages)
                                                           ELSE ConnectEach(r, Ask(r).stages)
         /\ At(r, "linkQuotas") =>
              ConnectEach(r, IF Kind(r) = "createStage" THEN Ask(r).quotas
                             ELSE Ask(r).quotas \ Read(r).quotas)
         /\ At(r, "unlinkProjects") => DisconnectEach(r, Read(r))
         /\ At(r, "unlinkClusters") => UnlinkClusters(r)
         /\ At(r, "unlinkQuotas") => Disconnect(r, Read(r).quotas \ Ask(r).quotas)
         /\ At(r, "unlinkStages") =>
              IF Kind(r) = "updateQuota" THEN Disconnect(r, Read(r) \ Ask(r).stages)
                                         ELSE DisconnectEach(r, Read(r))
BY DEF Handle, CallHook, RunHook, ZoneStep, CreateCluster, UpdateCluster, LinkProjects,
   DeleteCluster, StageStep, UnlinkClusters, QuotaStep, DeleteRow, EnvironmentStep, At

Linking ==
  {"linkProjects", "linkClusters", "linkStages", "linkQuotas",
   "unlinkProjects", "unlinkClusters", "unlinkStages", "unlinkQuotas"}

\* The other steps leave the links alone, or delete a row.
LEMMA LinksKept ==
  ASSUME TInv, NEW r \in Requests, Handle(r), db'.links # db.links
  PROVE  \/ \E step \in Linking : At(r, step)
         \/ /\ At(r, "deleteCluster") \/ At(r, "deleteRow")
            /\ db'.links = Unlinked(Ask(r).id)
<1>0. DOMAIN db = {"zones", "clusters", "stages", "quotas", "envs", "links"}
  BY DEF TInv, Intact
<1>1. CASE CallHook(r) \/ RunHook(r)
  BY <1>1 DEF CallHook, RunHook
<1>2. CASE ZoneStep(r)
  BY <1>0, <1>2 DEF ZoneStep, Check, Write
<1>3. CASE CreateCluster(r)
  BY <1>0, <1>3 DEF CreateCluster, Check, Write
<1>4. CASE UpdateCluster(r)
  <2>1. CASE At(r, "unlinkProjects")
    BY <2>1 DEF Linking
  <2>2. CASE At(r, "writeCluster") /\ WritePrivacy(r)
    BY <1>0, <2>2 DEF WritePrivacy
  <2>3. QED BY <1>0, <1>4, <2>1, <2>2 DEF UpdateCluster, Check, Write
<1>5. CASE LinkProjects(r)
  BY <1>5 DEF LinkProjects, Linking
<1>6. CASE DeleteCluster(r)
  BY <1>0, <1>6 DEF DeleteCluster, Check, Write
<1>7. CASE StageStep(r)
  <2>1. CASE \E step \in Linking : At(r, step)
    BY <2>1
  <2>2. CASE ~\E step \in Linking : At(r, step)
    BY <1>0, <1>7, <2>2 DEF StageStep, Check, Write, Linking
  <2>3. QED BY <2>1, <2>2
<1>8. CASE UnlinkClusters(r)
  BY <1>8 DEF UnlinkClusters, Linking
<1>9. CASE QuotaStep(r)
  <2>1. CASE \E step \in Linking : At(r, step)
    BY <2>1
  <2>2. CASE ~\E step \in Linking : At(r, step)
    BY <1>0, <1>9, <2>2 DEF QuotaStep, Check, Write, Linking
  <2>3. QED BY <2>1, <2>2
<1>10. CASE DeleteRow(r)
  BY <1>0, <1>10 DEF DeleteRow, Check, Write
<1>11. CASE EnvironmentStep(r)
  BY <1>0, <1>11 DEF EnvironmentStep, Check, Write
<1>12. QED BY <1>1, <1>2, <1>3, <1>4, <1>5, <1>6, <1>7, <1>8, <1>9, <1>10, <1>11 DEF Handle

\* What the queries do to the links, whether they throw or not.
LEMMA QueriesLink ==
  ASSUME TInv, NEW r \in Requests, NEW ys, NEW l
  PROVE  /\ Connect(r, ys) \/ ConnectEach(r, ys) =>
              /\ l \in db'.links /\ l \notin db.links => \E y \in ys : l = Link(r, y)
              /\ l \in db.links => l \in db'.links
         /\ Disconnect(r, ys) \/ DisconnectEach(r, ys) =>
              /\ l \in db.links /\ l \notin db'.links => \E y \in ys : l = Link(r, y)
              /\ l \in db'.links => l \in db.links
<1>0. DOMAIN db = {"zones", "clusters", "stages", "quotas", "envs", "links"}
  BY DEF TInv, Intact
<1>1. QED BY <1>0 DEF Connect, ConnectEach, Disconnect, DisconnectEach, Write, Pairs, Link

\* The body of a request, by the step it is at.
LEMMA LinkAsked ==
  ASSUME RequestsOK, NEW r \in Requests, NEW step, At(r, step)
  PROVE  /\ step \in {"linkProjects", "unlinkProjects"} =>
              /\ Kind(r) \in {"createCluster", "updateCluster"} /\ Ask(r).id \in Clusters
              /\ Given(Ask(r), "projects") => Ask(r).projects \subseteq Projects
         /\ step = "unlinkProjects" => Kind(r) = "updateCluster"
         /\ step \in {"linkStages", "unlinkStages"} =>
              /\ Kind(r) \in {"createCluster", "updateCluster", "createQuota", "updateQuota"}
              /\ Ask(r).id \in Clusters \cup Quotas
              /\ Kind(r) \in {"createCluster", "updateCluster"} <=> Ask(r).id \in Clusters
              /\ Given(Ask(r), "stages") /\ Ask(r).stages \subseteq Stages
         /\ step = "unlinkStages" => Kind(r) \in {"updateCluster", "updateQuota"}
         /\ step \in {"linkQuotas", "unlinkQuotas"} =>
              /\ Kind(r) \in {"createStage", "updateStage"} /\ Ask(r).id \in Stages
              /\ Given(Ask(r), "quotas") /\ Ask(r).quotas \subseteq Quotas
         /\ step \in {"linkClusters", "unlinkClusters"} =>
              /\ Kind(r) \in {"createStage", "updateStage"} /\ Ask(r).id \in Stages
              /\ Given(Ask(r), "clusters") /\ Ask(r).clusters \subseteq Clusters
         /\ step \in {"unlinkClusters", "unlinkQuotas"} => Kind(r) = "updateStage"
         /\ step = "deleteCluster" => Kind(r) = "deleteCluster"
         /\ step = "deleteRow" => Kind(r) \in {"deleteStage", "deleteQuota"}
         /\ step = "linkProjects" /\ Kind(r) = "createCluster" =>
              Given(Ask(r), "projects") /\ Ask(r).privacy = "dedicated"
<1>0. Kind(r) = Ask(r).kind
  BY DEF Kind
<1>1. Accepted(Ask(r)) /\ step \in Vocabulary(Ask(r))
  BY AtStep
<1>2. /\ Ask(r).kind \in {"createZone", "updateZone", "deleteZone", "createCluster",
          "updateCluster", "deleteCluster", "createStage", "updateStage", "deleteStage",
          "createQuota", "updateQuota", "deleteQuota", "createEnvironment",
          "updateEnvironment", "deleteEnvironment"}
      /\ Ask(r).kind \in {"createCluster", "updateCluster"} => Ask(r).id \in Clusters
      /\ Ask(r).kind \in {"createStage", "updateStage"} => Ask(r).id \in Stages
      /\ Ask(r).kind \in {"createQuota", "updateQuota"} => Ask(r).id \in Quotas
      /\ Given(Ask(r), "projects") => Ask(r).projects \subseteq Projects
      /\ Given(Ask(r), "stages") => Ask(r).stages \subseteq Stages
      /\ Given(Ask(r), "quotas") => Ask(r).quotas \subseteq Quotas
      /\ Given(Ask(r), "clusters") => Ask(r).clusters \subseteq Clusters
  BY <1>1 DEF Accepted, Given
<1>3. /\ step \in {"linkProjects", "unlinkProjects", "linkStages", "unlinkStages",
                    "deleteCluster"} /\ Ask(r).kind \in {"createCluster", "updateCluster",
                    "deleteCluster"} =>
           /\ step \in {"linkStages", "unlinkStages"} => Given(Ask(r), "stages")
           /\ step \in {"unlinkProjects", "unlinkStages"} => Ask(r).kind = "updateCluster"
           /\ step = "deleteCluster" <=> Ask(r).kind = "deleteCluster"
           /\ step = "linkProjects" /\ Ask(r).kind = "createCluster" =>
                Given(Ask(r), "projects") /\ Ask(r).privacy = "dedicated"
  BY <1>1 DEF Vocabulary, Only
<1>4. QED BY <1>0, <1>1, <1>2, <1>3, Disjoint DEF Vocabulary, Only

-----------------------------------------------------------------------------
(* The order of the steps that read, link and unlink.                      *)

\* In the sequence, the step comes only right after one of those.
Comes(s, step, after) ==
  \A i \in 1..Len(s) : s[i] = step => i > 1 /\ s[i - 1] \in after

Member(s, step) == \E i \in 1..Len(s) : s[i] = step

LEMMA ConcatMember ==
  ASSUME NEW V, NEW s \in Seq(V), NEW t \in Seq(V), NEW step,
         Member(s, step) \/ Member(t, step)
  PROVE  Member(s \o t, step)
<1>1. CASE Member(s, step)
  <2>1. PICK i \in 1..Len(s) : s[i] = step
    BY <1>1 DEF Member
  <2>2. i \in 1..Len(s \o t) /\ (s \o t)[i] = step
    BY <2>1
  <2>3. QED BY <2>2 DEF Member
<1>2. CASE Member(t, step)
  <2>1. PICK i \in 1..Len(t) : t[i] = step
    BY <1>2 DEF Member
  <2>2. Len(s) + i \in 1..Len(s \o t) /\ (s \o t)[Len(s) + i] = step
    BY <2>1
  <2>3. QED BY <2>2 DEF Member
<1>3. QED BY <1>1, <1>2

LEMMA ConcatComes ==
  ASSUME NEW V, NEW s \in Seq(V), NEW t \in Seq(V), NEW step, NEW after,
         Comes(s, step, after), Comes(t, step, after)
  PROVE  Comes(s \o t, step, after)
<1> DEFINE n == Len(s)
<1>1. /\ n \in Nat /\ Len(t) \in Nat /\ Len(s \o t) = n + Len(t)
      /\ \A i \in 1..n : (s \o t)[i] = s[i]
      /\ \A i \in 1..Len(s \o t) : i > n => (s \o t)[i] = t[i - n]
  OBVIOUS
<1> SUFFICES ASSUME NEW i \in 1..Len(s \o t), (s \o t)[i] = step
             PROVE  i > 1 /\ (s \o t)[i - 1] \in after
  BY DEF Comes
<1>2. CASE i \in 1..n
  <2>1. i > 1 /\ s[i - 1] \in after
    BY <1>1, <1>2 DEF Comes
  <2>2. i - 1 \in 1..n
    BY <1>1, <1>2, <2>1
  <2>3. QED BY <1>1, <2>1, <2>2
<1>3. CASE i \notin 1..n
  <2>1. i > n /\ i - n \in 1..Len(t) /\ t[i - n] = step
    BY <1>1, <1>3
  <2>2. i - n > 1 /\ t[(i - n) - 1] \in after
    BY <2>1 DEF Comes
  <2>3. i - 1 > n /\ i - 1 \in 1..Len(s \o t) /\ (i - 1) - n = (i - n) - 1
    BY <1>1, <2>1, <2>2
  <2>4. (s \o t)[i - 1] = t[(i - n) - 1]
    BY <1>1, <2>3
  <2>5. QED BY <1>1, <2>2, <2>3, <2>4
<1>4. QED BY <1>2, <1>3

LEMMA WhenComes ==
  ASSUME NEW b, NEW s, NEW step, NEW after, b => Comes(s, step, after)
  PROVE  Comes(When(b, s), step, after)
BY DEF When, Comes

\* An update of a cluster reads before it unlinks.
LEMMA ClusterOrder ==
  ASSUME NEW a \in Asks, a.kind = "updateCluster"
  PROVE  /\ Comes(Steps(a), "moveCluster", {"writeCluster"})
         /\ Comes(Steps(a), "readProjects", {"writeCluster", "moveCluster"})
         /\ Comes(Steps(a), "linkProjects", {"readProjects"})
         /\ Comes(Steps(a), "unlinkProjects", {"linkProjects"})
         /\ Comes(Steps(a), "unlinkStages", {"readStages"})
         /\ Member(Steps(a), "linkProjects") /\ Member(Steps(a), "unlinkProjects")
         /\ Given(a, "stages") => Member(Steps(a), "linkStages") /\ Member(Steps(a), "unlinkStages")
<1> DEFINE move == When(Given(a, "zone"), <<"moveCluster">>)
           first == <<"findCluster", "writeCluster">> \o move
           front == first \o <<"readProjects", "linkProjects", "unlinkProjects">>
           loop == <<"linkStages", "readStages", "unlinkStages">>
           links == When(Given(a, "stages"), loop)
           tail == <<"hook", "executing", "details">>
           V == Plain \cup {"hook", "executing", "details"}
<1>1. Steps(a) = front \o links \o tail
  BY DEF Steps, UpdateClusterSteps
<1>0. /\ "findCluster" \in V /\ "writeCluster" \in V /\ "moveCluster" \in V
      /\ "readProjects" \in V /\ "linkProjects" \in V /\ "unlinkProjects" \in V
      /\ "linkStages" \in V /\ "readStages" \in V /\ "unlinkStages" \in V
      /\ "hook" \in V /\ "executing" \in V /\ "details" \in V
  BY DEF Plain
<1>2. front \in Seq(V) /\ loop \in Seq(V) /\ tail \in Seq(V)
  <2> HIDE DEF V
  <2>1. /\ <<"findCluster", "writeCluster">> \in Seq(V) /\ <<"moveCluster">> \in Seq(V)
        /\ <<"readProjects", "linkProjects", "unlinkProjects">> \in Seq(V)
        /\ loop \in Seq(V) /\ tail \in Seq(V)
    BY <1>0
  <2>2. move \in Seq(V)
    BY <2>1, WhenSeq
  <2> HIDE DEF move
  <2>3. first \in Seq(V)
    BY <2>1, <2>2
  <2> HIDE DEF first
  <2>4. QED BY <2>1, <2>3
<1>3. links \in Seq(V)
  <2> HIDE DEF loop, V
  <2>1. QED BY <1>2, WhenSeq
<1>4. front \o links \in Seq(V)
  <2> HIDE DEF front, links, V
  <2>1. QED BY <1>2, <1>3
<1>5. /\ Comes(front, "moveCluster", {"writeCluster"})
      /\ Comes(front, "readProjects", {"writeCluster", "moveCluster"})
      /\ Comes(front, "linkProjects", {"readProjects"})
      /\ Comes(front, "unlinkProjects", {"linkProjects"})
      /\ Comes(front, "unlinkStages", {"readStages"})
      /\ Member(front, "linkProjects") /\ Member(front, "unlinkProjects")
  <2>1. /\ first[1] = "findCluster" /\ first[2] = "writeCluster"
        /\ Len(first) = 2 \/ (Len(first) = 3 /\ first[3] = "moveCluster")
    <3>1. CASE Given(a, "zone")
      <4>1. first = <<"findCluster", "writeCluster">> \o <<"moveCluster">>
        BY <3>1 DEF When
      <4> HIDE DEF first
      <4>2. Len(first) = 3
        BY <4>1
      <4>3. first[1] = "findCluster" /\ first[2] = "writeCluster"
        BY <4>1
      <4>4. first[3] = "moveCluster"
        BY <4>1
      <4>5. QED BY <4>2, <4>3, <4>4
    <3>2. CASE ~Given(a, "zone")
      <4>1. first = <<"findCluster", "writeCluster">> \o <<>>
        BY <3>2 DEF When
      <4> HIDE DEF first
      <4>2. Len(first) = 2
        BY <4>1
      <4>3. first[1] = "findCluster" /\ first[2] = "writeCluster"
        BY <4>1
      <4>4. QED BY <4>2, <4>3
    <3>3. QED BY <3>1, <3>2
  <2>2. first \in Seq(V)
    <3>1. move \in Seq(V)
      <4> HIDE DEF V
      <4>1. <<"moveCluster">> \in Seq(V)
        BY <1>0
      <4>2. QED BY <4>1, WhenSeq
    <3> HIDE DEF V, move
    <3>2. <<"findCluster", "writeCluster">> \in Seq(V)
      BY <1>0
    <3>3. QED BY <3>1, <3>2
  <2> DEFINE then == <<"readProjects", "linkProjects", "unlinkProjects">>
  <2>3. then \in Seq(V)
    BY DEF Plain
  <2>4. /\ Len(then) = 3 /\ then[1] = "readProjects" /\ then[2] = "linkProjects"
        /\ then[3] = "unlinkProjects"
    OBVIOUS
  <2>5. front = first \o then
    OBVIOUS
  <2> HIDE DEF first, then, front, V
  <2>6. /\ Len(front) = Len(first) + 3
        /\ \A i \in 1..Len(first) : front[i] = first[i]
        /\ \A i \in 1..3 : front[Len(first) + i] = then[i]
    <3>1. Len(first) \in Nat
      BY <2>2
    <3>2. Len(front) = Len(first) + 3
      <4>1. Len(first \o then) = Len(first) + Len(then)
        BY <2>2, <2>3
      <4>2. QED BY <4>1, <2>4, <2>5
    <3>3. \A i \in 1..Len(first) : front[i] = first[i]
      BY <2>2, <2>3, <2>5
    <3>4. \A i \in 1..Len(first) + Len(then) : i > Len(first) => front[i] = then[i - Len(first)]
      BY <2>2, <2>3, <2>5
    <3>5. \A i \in 1..3 : front[Len(first) + i] = then[i]
      BY <2>4, <3>1, <3>4
    <3>6. QED BY <3>2, <3>3, <3>5
  <2>7. CASE Len(first) = 2
    <3>1. /\ Len(front) = 5 /\ front[1] = "findCluster" /\ front[2] = "writeCluster"
          /\ front[3] = "readProjects" /\ front[4] = "linkProjects" /\ front[5] = "unlinkProjects"
      BY <2>1, <2>7, <2>4, <2>6
    <3>2. \A i \in 1..Len(front) : i \in {1, 2, 3, 4, 5}
      BY <3>1
    <3>3. 4 \in 1..Len(front) /\ 5 \in 1..Len(front)
      BY <3>1
    <3>4. QED BY <3>1, <3>2, <3>3 DEF Comes, Member
  <2>8. CASE Len(first) = 3
    <3>1. /\ Len(front) = 6 /\ front[1] = "findCluster" /\ front[2] = "writeCluster"
          /\ front[3] = "moveCluster" /\ front[4] = "readProjects"
          /\ front[5] = "linkProjects" /\ front[6] = "unlinkProjects"
      BY <2>1, <2>8, <2>4, <2>6
    <3>2. \A i \in 1..Len(front) : i \in {1, 2, 3, 4, 5, 6}
      BY <3>1
    <3>3. 5 \in 1..Len(front) /\ 6 \in 1..Len(front)
      BY <3>1
    <3>4. QED BY <3>1, <3>2, <3>3 DEF Comes, Member
  <2>9. QED BY <2>1, <2>7, <2>8
<1>6. \A step \in {"moveCluster", "readProjects", "linkProjects", "unlinkProjects"} :
        \A after : Comes(loop, step, after) /\ Comes(tail, step, after)
  BY DEF Comes
<1>7. /\ Comes(loop, "unlinkStages", {"readStages"}) /\ Comes(tail, "unlinkStages", {"readStages"})
      /\ Member(loop, "linkStages") /\ Member(loop, "unlinkStages")
  BY DEF Comes, Member
<1> HIDE DEF front, loop, tail, V
<1>8. \A step, after : Comes(front, step, after) /\ Comes(loop, step, after)
                         /\ Comes(tail, step, after) => Comes(Steps(a), step, after)
  <2> SUFFICES ASSUME NEW step, NEW after, Comes(front, step, after), Comes(loop, step, after),
                      Comes(tail, step, after)
               PROVE  Comes(Steps(a), step, after)
    OBVIOUS
  <2>1. Comes(links, step, after)
    BY WhenComes
  <2> HIDE DEF links
  <2>2. Comes(front \o links, step, after)
    BY <1>2, <1>3, <2>1, ConcatComes
  <2>3. QED BY <1>1, <1>2, <1>4, <2>2, ConcatComes
<1>9. \A step : Member(front, step) \/ (Given(a, "stages") /\ Member(loop, step))
                  => Member(Steps(a), step)
  <2> SUFFICES ASSUME NEW step, Member(front, step) \/ (Given(a, "stages") /\ Member(loop, step))
               PROVE  Member(Steps(a), step)
    OBVIOUS
  <2>1. Member(front, step) \/ Member(links, step)
    BY DEF When
  <2> HIDE DEF links
  <2>2. Member(front \o links, step)
    BY <1>2, <1>3, <2>1, ConcatMember
  <2>3. Member((front \o links) \o tail, step)
    BY <1>2, <1>4, <2>2, ConcatMember
  <2>4. QED BY <1>1, <2>3
<1>10. QED BY <1>5, <1>6, <1>7, <1>8, <1>9

-----------------------------------------------------------------------------
(* The steps every handler that links has.                                 *)

LEMMA ConcatFirst ==
  ASSUME NEW V, NEW s \in Seq(V), NEW t \in Seq(V), Len(s) > 0
  PROVE  (s \o t)[1] = s[1]
OBVIOUS

\* One step, or two, that come under a condition.
LEMMA WhenMember ==
  ASSUME NEW b, NEW s, NEW step, b, Member(s, step)
  PROVE  Member(When(b, s), step)
BY DEF When

LEMMA PairMember ==
  ASSUME NEW x, NEW y
  PROVE  /\ Member(<<x>>, x)
         /\ Member(<<x, y>>, x) /\ Member(<<x, y>>, y)
<1>1. 1 \in 1..Len(<<x>>) /\ <<x>>[1] = x
  OBVIOUS
<1>2. 1 \in 1..Len(<<x, y>>) /\ <<x, y>>[1] = x /\ 2 \in 1..Len(<<x, y>>) /\ <<x, y>>[2] = y
  OBVIOUS
<1>3. QED BY <1>1, <1>2 DEF Member

\* A link the body asks for has its step, and so has one it rejects.
LEMMA CreateSteps ==
  ASSUME NEW a \in Asks
  PROVE  /\ a.kind = "createCluster" =>
              /\ Member(Steps(a), "insertCluster")
              /\ a.privacy = "dedicated" /\ Filled(a, "projects") => Member(Steps(a), "linkProjects")
              /\ Filled(a, "stages") => Member(Steps(a), "linkStages")
         /\ a.kind = "createStage" =>
              /\ Member(Steps(a), "insertStage")
              /\ Filled(a, "quotas") => Member(Steps(a), "linkQuotas")
              /\ Filled(a, "clusters") => Member(Steps(a), "linkClusters")
         /\ a.kind = "createQuota" =>
              /\ Member(Steps(a), "insertQuota")
              /\ Filled(a, "stages") => Member(Steps(a), "linkStages")
<1>1. CASE a.kind = "createCluster"
  <2> DEFINE ded == a.privacy = "dedicated" /\ Filled(a, "projects")
             A == <<"findLabel", "insertCluster">>
             B == When(ded, <<"linkProjects">>)
             C == When(Filled(a, "stages"), <<"linkStages">>)
             D == <<"hook", "executing", "details">>
             V == {"findLabel", "insertCluster", "linkProjects", "linkStages",
                   "hook", "executing", "details"}
  <2>1. Steps(a) = ((A \o B) \o C) \o D
    BY <1>1 DEF Steps
  <2>2. A \in Seq(V) /\ B \in Seq(V) /\ C \in Seq(V) /\ D \in Seq(V)
    <3>1. /\ "findLabel" \in V /\ "insertCluster" \in V /\ "linkProjects" \in V
          /\ "linkStages" \in V /\ "hook" \in V /\ "executing" \in V
          /\ "details" \in V
      OBVIOUS
    <3> HIDE DEF V
    <3>2. /\ <<"findLabel", "insertCluster">> \in Seq(V)
          /\ <<"linkProjects">> \in Seq(V)
          /\ <<"linkStages">> \in Seq(V)
          /\ <<"hook", "executing", "details">> \in Seq(V)
      BY <3>1
    <3>3. QED BY <3>2, WhenSeq
  <2>3. /\ Member(A, "insertCluster")
        /\ ded => Member(B, "linkProjects")
        /\ Filled(a, "stages") => Member(C, "linkStages")
    BY WhenMember, PairMember
  <2> HIDE DEF V, A, B, C, D, ded
  <2>4. A \o B \in Seq(V) /\ (A \o B) \o C \in Seq(V)
    BY <2>2
  <2>5. \A step : Member(A, step) \/ Member(B, step) \/ Member(C, step) => Member(Steps(a), step)
    <3> SUFFICES ASSUME NEW step, Member(A, step) \/ Member(B, step) \/ Member(C, step)
                 PROVE  Member(Steps(a), step)
      OBVIOUS
    <3>1. Member(A \o B, step) \/ Member(C, step)
      BY <2>2, ConcatMember
    <3>2. Member((A \o B) \o C, step)
      BY <2>2, <2>4, <3>1, ConcatMember
    <3>3. QED BY <2>1, <2>2, <2>4, <3>2, ConcatMember
  <2>6. QED BY <1>1, <2>3, <2>5 DEF ded
<1>2. CASE a.kind = "createStage"
  <2> DEFINE A == <<"findName", "insertStage">>
             B == When(Filled(a, "quotas"), <<"linkQuotas">>)
             C == When(Filled(a, "clusters"), <<"linkClusters">>)
             V == {"findName", "insertStage", "linkQuotas", "linkClusters"}
  <2>1. Steps(a) = (A \o B) \o C
    BY <1>2 DEF Steps
  <2>2. A \in Seq(V) /\ B \in Seq(V) /\ C \in Seq(V)
    <3>1. "findName" \in V /\ "insertStage" \in V /\ "linkQuotas" \in V /\ "linkClusters" \in V
      OBVIOUS
    <3> HIDE DEF V
    <3>2. /\ <<"findName", "insertStage">> \in Seq(V)
          /\ <<"linkQuotas">> \in Seq(V)
          /\ <<"linkClusters">> \in Seq(V)
      BY <3>1
    <3>3. QED BY <3>2, WhenSeq
  <2>3. /\ Member(A, "insertStage")
        /\ Filled(a, "quotas") => Member(B, "linkQuotas")
        /\ Filled(a, "clusters") => Member(C, "linkClusters")
    BY WhenMember, PairMember
  <2> HIDE DEF V, A, B, C
  <2>4. A \o B \in Seq(V)
    BY <2>2
  <2>5. \A step : Member(A, step) \/ Member(B, step) \/ Member(C, step) => Member(Steps(a), step)
    <3> SUFFICES ASSUME NEW step, Member(A, step) \/ Member(B, step) \/ Member(C, step)
                 PROVE  Member(Steps(a), step)
      OBVIOUS
    <3>1. Member(A \o B, step) \/ Member(C, step)
      BY <2>2, ConcatMember
    <3>2. Member((A \o B) \o C, step)
      BY <2>2, <2>4, <3>1, ConcatMember
    <3>3. QED BY <2>1, <3>2
  <2>6. QED BY <1>2, <2>3, <2>5
<1>3. CASE a.kind = "createQuota"
  <2> DEFINE A == <<"findQuotaName", "insertQuota">>
             B == When(Filled(a, "stages"), <<"linkStages">>)
             V == {"findQuotaName", "insertQuota", "linkStages"}
  <2>1. Steps(a) = A \o B
    BY <1>3 DEF Steps
  <2>2. A \in Seq(V) /\ B \in Seq(V)
    <3>1. "findQuotaName" \in V /\ "insertQuota" \in V /\ "linkStages" \in V
      OBVIOUS
    <3> HIDE DEF V
    <3>2. /\ <<"findQuotaName", "insertQuota">> \in Seq(V)
          /\ <<"linkStages">> \in Seq(V)
      BY <3>1
    <3>3. QED BY <3>2, WhenSeq
  <2>3. /\ Member(A, "insertQuota")
        /\ Filled(a, "stages") => Member(B, "linkStages")
    BY WhenMember, PairMember
  <2> HIDE DEF V, A, B
  <2>4. QED BY <1>3, <2>1, <2>2, <2>3, ConcatMember
<1>4. QED BY <1>1, <1>2, <1>3

LEMMA UpdateSteps ==
  ASSUME NEW a \in Asks
  PROVE  /\ a.kind = "updateStage" =>
              /\ Steps(a)[1] = "findStage"
              /\ Given(a, "clusters") => /\ Member(Steps(a), "unlinkClusters")
                                         /\ Member(Steps(a), "linkClusters")
              /\ Given(a, "quotas") => /\ Member(Steps(a), "unlinkQuotas")
                                       /\ Member(Steps(a), "linkQuotas")
         /\ a.kind = "updateQuota" =>
              /\ Steps(a)[1] = "findQuota"
              /\ Given(a, "stages") => /\ Member(Steps(a), "unlinkStages")
                                       /\ Member(Steps(a), "linkStages")
<1>1. CASE a.kind = "updateStage"
  <2> DEFINE A == <<"findStage">>
             B == When(Given(a, "name"), <<"rename">>)
             C == When(Given(a, "clusters"), <<"unlinkClusters", "linkClusters">>)
             D == When(Given(a, "quotas"), <<"unlinkQuotas", "linkQuotas">>)
             V == {"findStage", "rename", "unlinkClusters",
                   "linkClusters", "unlinkQuotas", "linkQuotas"}
  <2>1. Steps(a) = ((A \o B) \o C) \o D
    BY <1>1 DEF Steps
  <2>2. A \in Seq(V) /\ B \in Seq(V) /\ C \in Seq(V) /\ D \in Seq(V)
    <3>1. /\ "findStage" \in V /\ "rename" \in V /\ "unlinkClusters" \in V
          /\ "linkClusters" \in V /\ "unlinkQuotas" \in V /\ "linkQuotas" \in V
      OBVIOUS
    <3> HIDE DEF V
    <3>2. /\ <<"findStage">> \in Seq(V)
          /\ <<"rename">> \in Seq(V)
          /\ <<"unlinkClusters", "linkClusters">> \in Seq(V)
          /\ <<"unlinkQuotas", "linkQuotas">> \in Seq(V)
      BY <3>1
    <3>3. QED BY <3>2, WhenSeq
  <2>3. /\ Given(a, "clusters") => Member(C, "unlinkClusters") /\ Member(C, "linkClusters")
        /\ Given(a, "quotas") => Member(D, "unlinkQuotas") /\ Member(D, "linkQuotas")
        /\ Len(A) > 0 /\ A[1] = "findStage"
    <3>1. Given(a, "clusters") => Member(C, "unlinkClusters") /\ Member(C, "linkClusters")
      BY PairMember DEF When
    <3>2. Given(a, "quotas") => Member(D, "unlinkQuotas") /\ Member(D, "linkQuotas")
      BY PairMember DEF When
    <3>3. Len(A) > 0 /\ A[1] = "findStage"
      OBVIOUS
    <3>4. QED BY <3>1, <3>2, <3>3
  <2> HIDE DEF V, A, B, C, D
  <2>4. A \o B \in Seq(V) /\ (A \o B) \o C \in Seq(V)
    BY <2>2
  <2>5. \A step : Member(C, step) \/ Member(D, step) => Member(Steps(a), step)
    <3> SUFFICES ASSUME NEW step, Member(C, step) \/ Member(D, step)
                 PROVE  Member(Steps(a), step)
      OBVIOUS
    <3>1. Member((A \o B) \o C, step) \/ Member(D, step)
      BY <2>2, <2>4, ConcatMember
    <3>2. Member(((A \o B) \o C) \o D, step)
      BY <2>2, <2>4, <3>1, ConcatMember
    <3>3. QED BY <2>1, <3>2
  <2>6. Steps(a)[1] = "findStage"
    <3>1. (A \o B)[1] = "findStage" /\ Len(A \o B) > 0
      BY <2>2, <2>3, ConcatFirst
    <3>2. ((A \o B) \o C)[1] = "findStage" /\ Len((A \o B) \o C) > 0
      BY <2>2, <2>4, <3>1, ConcatFirst
    <3>3. QED BY <2>1, <2>2, <2>4, <3>2, ConcatFirst
  <2>7. QED BY <1>1, <2>3, <2>5, <2>6
<1>2. CASE a.kind = "updateQuota"
  <2> DEFINE A == <<"findQuota">>
             B == When(a.private = TRUE \/ a.more, <<"writeQuota">>)
             C == When(Given(a, "stages"), <<"unlinkStages", "linkStages">>)
             V == {"findQuota", "writeQuota", "unlinkStages", "linkStages"}
  <2>1. Steps(a) = (A \o B) \o C
    BY <1>2 DEF Steps
  <2>2. A \in Seq(V) /\ B \in Seq(V) /\ C \in Seq(V)
    <3>1. "findQuota" \in V /\ "writeQuota" \in V /\ "unlinkStages" \in V /\ "linkStages" \in V
      OBVIOUS
    <3> HIDE DEF V
    <3>2. /\ <<"findQuota">> \in Seq(V)
          /\ <<"writeQuota">> \in Seq(V)
          /\ <<"unlinkStages", "linkStages">> \in Seq(V)
      BY <3>1
    <3>3. QED BY <3>2, WhenSeq
  <2>3. /\ Given(a, "stages") => Member(C, "unlinkStages") /\ Member(C, "linkStages")
        /\ Len(A) > 0 /\ A[1] = "findQuota"
    <3>1. Given(a, "stages") => Member(C, "unlinkStages") /\ Member(C, "linkStages")
      BY PairMember DEF When
    <3>2. Len(A) > 0 /\ A[1] = "findQuota"
      OBVIOUS
    <3>3. QED BY <3>1, <3>2
  <2> HIDE DEF V, A, B, C
  <2>4. A \o B \in Seq(V)
    BY <2>2
  <2>5. \A step : Member(C, step) => Member((A \o B) \o C, step)
    BY <2>2, <2>4, ConcatMember
  <2>6. Steps(a)[1] = "findQuota"
    <3>1. (A \o B)[1] = "findQuota" /\ Len(A \o B) > 0
      BY <2>2, <2>3, ConcatFirst
    <3>2. QED BY <2>1, <2>2, <2>4, <3>1, ConcatFirst
  <2>7. QED BY <1>2, <2>1, <2>3, <2>5, <2>6
<1>3. QED BY <1>1, <1>2

LEMMA AfterFirst ==
  ASSUME RequestsOK, NEW r \in Requests, NEW step, At(r, step)
  PROVE  /\ Kind(r) = "updateStage" /\ step # "findStage" => requests[r].at > 1
         /\ Kind(r) = "updateQuota" /\ step # "findQuota" => requests[r].at > 1
<1>1. /\ Ask(r) \in Asks /\ requests[r].at \in 1..Len(Steps(Ask(r)))
      /\ Steps(Ask(r))[requests[r].at] = step
  BY DEF At, RequestsOK, RequestOK, Ask
<1>2. QED BY <1>1, UpdateSteps, StepsTyped DEF Kind

\* A step adds no link but those its body may add.
LEMMA LinksAdded ==
  ASSUME TInv, NEW r \in Requests, Handle(r), NEW l, l \in db'.links, l \notin db.links
  PROVE  Ask(r).id \in l /\ Adds(Ask(r), Other(Ask(r), l))
<1> USE DEF TInv
<1>0. Kind(r) = Ask(r).kind
  BY DEF Kind
<1> SUFFICES \E y \in Linkables \ {Ask(r).id} : l = Link(r, y) /\ Adds(Ask(r), y)
  BY NamesOther DEF Link
<1>1. CASE At(r, "linkProjects")
  <2>1. /\ Kind(r) \in {"createCluster", "updateCluster"} /\ Ask(r).id \in Clusters
        /\ Given(Ask(r), "projects") => Ask(r).projects \subseteq Projects
        /\ Kind(r) = "createCluster" => Given(Ask(r), "projects") /\ Ask(r).privacy = "dedicated"
    BY <1>1, LinkAsked
  <2>2. PICK y \in ProjectsToLink(r) : l = Link(r, y)
    <3>1. DOMAIN db = {"zones", "clusters", "stages", "quotas", "envs", "links"}
      BY DEF Intact
    <3>2. LinkProjects(r)
      BY <1>1, LinkSteps
    <3>3. db' = db \/ db' = [db EXCEPT !.links = @ \cup Pairs(Ask(r).id, ProjectsToLink(r))]
      BY <3>2 DEF LinkProjects
    <3>4. QED BY <3>1, <3>3 DEF Pairs, Link
  <2>3. Given(Ask(r), "projects") /\ y \in Ask(r).projects /\ Ask(r).privacy # "public"
    BY <2>1, <2>2 DEF ProjectsToLink, ProjectsAsked, Given
  <2>4. y \in Projects /\ y # Ask(r).id
    BY <2>1, <2>3, Disjoint
  <2>5. FieldOf(y) = "projects"
    BY <2>4, Fields DEF Linkables
  <2>6. QED BY <1>0, <2>1, <2>2, <2>3, <2>4, <2>5 DEF Adds, Shapes, Linkables
<1>2. CASE At(r, "linkClusters")
  <2>1. /\ Kind(r) \in {"createStage", "updateStage"} /\ Ask(r).id \in Stages
        /\ Given(Ask(r), "clusters") /\ Ask(r).clusters \subseteq Clusters
    BY <1>2, LinkAsked
  <2>2. PICK y \in Ask(r).clusters : l = Link(r, y)
    BY <1>2, LinkSteps, QueriesLink
  <2>3. y \in Clusters /\ y # Ask(r).id /\ y \notin Projects
    BY <2>1, Disjoint
  <2>4. FieldOf(y) = "clusters"
    BY <2>3, Fields DEF Linkables
  <2>5. QED BY <1>0, <2>1, <2>2, <2>3, <2>4 DEF Adds, Shapes, Linkables
<1>3. CASE At(r, "linkStages")
  <2>1. /\ Kind(r) \in {"createCluster", "updateCluster", "createQuota", "updateQuota"}
        /\ Ask(r).id \in Clusters \cup Quotas
        /\ Given(Ask(r), "stages") /\ Ask(r).stages \subseteq Stages
    BY <1>3, LinkAsked
  <2>2. PICK y \in Ask(r).stages : l = Link(r, y)
    BY <1>3, LinkSteps, QueriesLink
  <2>3. y \in Stages /\ y # Ask(r).id /\ y \notin Projects
    BY <2>1, Disjoint
  <2>4. FieldOf(y) = "stages"
    BY <2>3, Fields DEF Linkables
  <2>5. QED BY <1>0, <2>1, <2>2, <2>3, <2>4 DEF Adds, Shapes, Linkables
<1>4. CASE At(r, "linkQuotas")
  <2>1. /\ Kind(r) \in {"createStage", "updateStage"} /\ Ask(r).id \in Stages
        /\ Given(Ask(r), "quotas") /\ Ask(r).quotas \subseteq Quotas
    BY <1>4, LinkAsked
  <2>2. PICK y \in Ask(r).quotas : l = Link(r, y)
    <3> DEFINE ys == IF Kind(r) = "createStage" THEN Ask(r).quotas
                                                ELSE Ask(r).quotas \ Read(r).quotas
    <3>1. ConnectEach(r, ys) /\ ys \subseteq Ask(r).quotas
      BY <1>4, LinkSteps
    <3> HIDE DEF ys
    <3>2. QED BY <3>1, QueriesLink
  <2>3. y \in Quotas /\ y # Ask(r).id /\ y \notin Projects
    BY <2>1, Disjoint
  <2>4. FieldOf(y) = "quotas"
    BY <2>3, Fields DEF Linkables
  <2>5. QED BY <1>0, <2>1, <2>2, <2>3, <2>4 DEF Adds, Shapes, Linkables
<1>5. CASE At(r, "unlinkProjects") \/ At(r, "unlinkQuotas") \/ At(r, "unlinkStages")
  BY <1>5, LinkSteps, QueriesLink
<1>6. CASE At(r, "unlinkClusters")
  <2>1. DOMAIN db = {"zones", "clusters", "stages", "quotas", "envs", "links"}
    BY DEF Intact
  <2>2. QED BY <1>6, <2>1, LinkSteps DEF UnlinkClusters, Check
<1>7. CASE db'.links = Unlinked(Ask(r).id)
  BY <1>7 DEF Unlinked
<1>8. QED BY <1>1, <1>2, <1>3, <1>4, <1>5, <1>6, <1>7, LinksKept DEF Linking

\* Nor does it remove any but those it may remove.
LEMMA LinksRemoved ==
  ASSUME TInv, NEW r \in Requests, ListsOK(r), Handle(r), NEW l, l \in db.links, l \notin db'.links
  PROVE  Ask(r).id \in l /\ Removes(Ask(r), Other(Ask(r), l))
<1> USE DEF TInv
<1>0. Kind(r) = Ask(r).kind
  BY DEF Kind
<1>1. CASE db'.links = Unlinked(Ask(r).id) /\ (At(r, "deleteCluster") \/ At(r, "deleteRow"))
  <2>1. Kind(r) \in {"deleteCluster", "deleteStage", "deleteQuota"}
    BY <1>1, LinkAsked
  <2>2. QED BY <1>0, <1>1, <2>1 DEF Unlinked, Removes
<1>2. CASE \E step \in Linking : At(r, step)
  <2> SUFFICES \E y \in Linkables \ {Ask(r).id} : l = Link(r, y) /\ Removes(Ask(r), y)
    BY NamesOther DEF Link
  <2>1. CASE At(r, "unlinkProjects")
    <3>1. Kind(r) = "updateCluster" /\ Ask(r).id \in Clusters
      BY <2>1, LinkAsked
    <3>2. PICK y \in Read(r) : l = Link(r, y)
      BY <2>1, LinkSteps, QueriesLink
    <3>3. y \in Projects /\ Removes(Ask(r), y)
      BY <2>1 DEF ListsOK
    <3>4. QED BY <3>1, <3>2, <3>3, Disjoint DEF Linkables
  <2>2. CASE At(r, "unlinkQuotas")
    <3>1. /\ Kind(r) = "updateStage" /\ Ask(r).id \in Stages
          /\ Given(Ask(r), "quotas") /\ Ask(r).quotas \subseteq Quotas
      BY <2>2, LinkAsked
    <3>2. PICK y \in Read(r).quotas \ Ask(r).quotas : l = Link(r, y)
      BY <2>2, LinkSteps, QueriesLink
    <3>3. requests[r].at > 1
      BY <2>2, <3>1, AfterFirst
    <3>4. y \in Quotas /\ y # Ask(r).id
      BY <3>1, <3>3, Disjoint DEF ListsOK, HasRead
    <3>5. FieldOf(y) = "quotas"
      BY <3>4, Fields DEF Linkables
    <3>6. QED BY <1>0, <3>1, <3>2, <3>4, <3>5 DEF Removes, Shapes, Linkables
  <2>3. CASE At(r, "unlinkClusters")
    <3>1. /\ Kind(r) = "updateStage" /\ Ask(r).id \in Stages
          /\ Given(Ask(r), "clusters") /\ Ask(r).clusters \subseteq Clusters
      BY <2>3, LinkAsked
    <3>2. PICK y \in Read(r).clusters \ Ask(r).clusters : l = Link(r, y)
      <4>1. DOMAIN db = {"zones", "clusters", "stages", "quotas", "envs", "links"}
        BY DEF Intact
      <4>2. UnlinkClusters(r)
        BY <2>3, LinkSteps
      <4>3. db' = db \/ \E y \in Read(r).clusters \ Ask(r).clusters :
                          db' = [db EXCEPT !.links = @ \ {{Ask(r).id, y}}]
        BY <4>2 DEF UnlinkClusters, Check
      <4>4. QED BY <4>1, <4>3 DEF Link
    <3>3. requests[r].at > 1
      BY <2>3, <3>1, AfterFirst
    <3>4. y \in Clusters /\ y # Ask(r).id
      BY <3>1, <3>3, Disjoint DEF ListsOK, HasRead
    <3>5. FieldOf(y) = "clusters"
      BY <3>4, Fields DEF Linkables
    <3>6. QED BY <1>0, <3>1, <3>2, <3>4, <3>5 DEF Removes, Shapes, Linkables
  <2>4. CASE At(r, "unlinkStages")
    <3>1. /\ Kind(r) \in {"updateCluster", "updateQuota"}
          /\ Ask(r).id \in Clusters \cup Quotas
          /\ Given(Ask(r), "stages") /\ Ask(r).stages \subseteq Stages
      BY <2>4, LinkAsked
    <3>2. \E y \in Stages : y \notin Ask(r).stages /\ l = Link(r, y)
      <4>1. CASE Kind(r) = "updateCluster"
        <5>1. PICK y \in Read(r) : l = Link(r, y)
          BY <2>4, <4>1, LinkSteps, QueriesLink
        <5>2. QED BY <2>4, <4>1, <5>1 DEF ListsOK
      <4>2. CASE Kind(r) = "updateQuota"
        <5>1. PICK y \in Read(r) \ Ask(r).stages : l = Link(r, y)
          BY <2>4, <4>2, LinkSteps, QueriesLink
        <5>2. requests[r].at > 1
          BY <2>4, <4>2, AfterFirst
        <5>3. QED BY <4>2, <5>1, <5>2 DEF ListsOK, HasRead
      <4>3. QED BY <3>1, <4>1, <4>2
    <3>3. PICK y \in Stages : y \notin Ask(r).stages /\ l = Link(r, y)
      BY <3>2
    <3>4. y # Ask(r).id /\ FieldOf(y) = "stages"
      BY <3>1, Fields, Disjoint DEF Linkables
    <3>5. QED BY <1>0, <3>1, <3>3, <3>4 DEF Removes, Shapes, Linkables
  <2>5. CASE At(r, "linkProjects")
    <3>1. DOMAIN db = {"zones", "clusters", "stages", "quotas", "envs", "links"}
      BY DEF Intact
    <3>2. QED BY <2>5, <3>1, LinkSteps DEF LinkProjects
  <2>6. CASE At(r, "linkClusters") \/ At(r, "linkQuotas") \/ At(r, "linkStages")
    BY <2>6, LinkSteps, QueriesLink
  <2>7. QED BY <1>2, <2>1, <2>2, <2>3, <2>4, <2>5, <2>6 DEF Linking
<1>3. QED BY <1>1, <1>2, LinksKept

\* A body does not ask for what it may undo, and has a step for what it asks.
LEMMA AskedFields ==
  ASSUME NEW a \in Asks, NEW x \in Linkables
  PROVE  /\ a.kind \in {"createCluster", "updateCluster"} =>
              a.id \in Clusters /\ (Given(a, FieldOf(x)) => x \in Projects \cup Stages)
         /\ a.kind \in {"createStage", "updateStage"} =>
              a.id \in Stages /\ (Given(a, FieldOf(x)) => x \in Clusters \cup Quotas)
         /\ a.kind \in {"createQuota", "updateQuota"} =>
              a.id \in Quotas /\ (Given(a, FieldOf(x)) => x \in Stages)
         /\ a.kind \notin {"createCluster", "updateCluster"} => a.privacy = Absent
<1>1. Accepted(a)
  BY TopologyAssumption
<1>2. /\ x \in Projects => FieldOf(x) = "projects"
      /\ x \in Clusters => FieldOf(x) = "clusters"
      /\ x \in Stages => FieldOf(x) = "stages"
      /\ x \in Quotas => FieldOf(x) = "quotas"
  BY Fields
<1>3. QED BY <1>1, <1>2 DEF Accepted, Given, Linkables

LEMMA AskedOnce ==
  ASSUME NEW a \in Asks, NEW x \in Linkables \ {a.id}
  PROVE  /\ Wants(a, x) => ~Removes(a, x)
         /\ Rejects(a, x) => ~Adds(a, x)
BY DEF Wants, Rejects, Adds, Removes, Shapes

LEMMA AskedSteps ==
  ASSUME NEW a \in Asks, NEW x \in Linkables \ {a.id}
  PROVE  /\ Wants(a, x) => Member(Steps(a), LinkStep(x))
         /\ Rejects(a, x) => Member(Steps(a), CutStep(a, x))
<1>1. /\ x \in Projects => FieldOf(x) = "projects" /\ LinkStep(x) = "linkProjects"
      /\ x \in Clusters => FieldOf(x) = "clusters" /\ LinkStep(x) = "linkClusters"
      /\ x \in Stages => FieldOf(x) = "stages" /\ LinkStep(x) = "linkStages"
      /\ x \in Quotas => FieldOf(x) = "quotas" /\ LinkStep(x) = "linkQuotas"
  BY Fields
<1>2. ASSUME Wants(a, x)
      PROVE  Member(Steps(a), LinkStep(x))
  <2>1. /\ a.kind \in Shapes /\ Given(a, FieldOf(x)) /\ x \in a[FieldOf(x)]
        /\ x \in Projects => a.privacy = "dedicated"
    BY <1>2 DEF Wants, Adds
  <2>2. CASE a.kind = "createCluster"
    BY <1>1, <2>1, <2>2, AskedFields, CreateSteps DEF Filled, Given
  <2>3. CASE a.kind = "updateCluster"
    BY <1>1, <2>1, <2>3, AskedFields, ClusterOrder
  <2>4. CASE a.kind = "createStage"
    BY <1>1, <2>1, <2>4, AskedFields, CreateSteps DEF Filled, Given
  <2>5. CASE a.kind = "updateStage"
    BY <1>1, <2>1, <2>5, AskedFields, UpdateSteps
  <2>6. CASE a.kind = "createQuota"
    BY <1>1, <2>1, <2>6, AskedFields, CreateSteps DEF Filled, Given
  <2>7. CASE a.kind = "updateQuota"
    BY <1>1, <2>1, <2>7, AskedFields, UpdateSteps
  <2>8. QED BY <2>1, <2>2, <2>3, <2>4, <2>5, <2>6, <2>7 DEF Shapes
<1>3. ASSUME Rejects(a, x)
      PROVE  Member(Steps(a), CutStep(a, x))
  <2>1. /\ a.kind \in Shapes
        /\ Given(a, FieldOf(x)) \/ (x \in Projects /\ a.privacy = "public")
    BY <1>3 DEF Rejects
  <2>2. CASE a.kind = "createCluster"
    BY <2>2, CreateSteps DEF CutStep
  <2>3. CASE a.kind = "updateCluster"
    <3>1. x \in Projects \/ (x \in Stages /\ Given(a, "stages"))
      BY <1>1, <2>1, <2>3, AskedFields
    <3>2. CutStep(a, x) = IF x \in Projects THEN "unlinkProjects" ELSE "unlinkStages"
      BY <2>3 DEF CutStep
    <3>3. QED BY <2>3, <3>1, <3>2, ClusterOrder, Disjoint
  <2>4. CASE a.kind = "createStage"
    BY <2>4, CreateSteps DEF CutStep
  <2>5. CASE a.kind = "updateStage"
    <3>1. (x \in Clusters /\ Given(a, "clusters")) \/ (x \in Quotas /\ Given(a, "quotas"))
      BY <1>1, <2>1, <2>5, AskedFields, TopologyAssumption
    <3>2. CutStep(a, x) = IF x \in Clusters THEN "unlinkClusters" ELSE "unlinkQuotas"
      BY <2>5 DEF CutStep
    <3>3. QED BY <2>5, <3>1, <3>2, UpdateSteps, Disjoint
  <2>6. CASE a.kind = "createQuota"
    BY <2>6, CreateSteps DEF CutStep
  <2>7. CASE a.kind = "updateQuota"
    <3>1. Given(a, "stages")
      BY <1>1, <2>1, <2>7, AskedFields, TopologyAssumption
    <3>2. QED BY <2>7, <3>1, UpdateSteps DEF CutStep
  <2>8. QED BY <2>1, <2>2, <2>3, <2>4, <2>5, <2>6, <2>7 DEF Shapes
<1>4. QED BY <1>2, <1>3

-----------------------------------------------------------------------------
(* What the steps of the others leave of it.                               *)

\* A request that another's step leaves where it is.
LEMMA LinksStay ==
  ASSUME NEW r \in Requests, LinkOK(r),
         requests'[r].ask = requests[r].ask, requests'[r].at = requests[r].at,
         requests'[r].read = requests[r].read, Met(r) \subseteq Met(r)',
         \A l : l \in db'.links /\ l \notin db.links => Addable(r, l)',
         \A l : l \in db.links /\ l \notin db'.links => Removable(r, l)'
  PROVE  LinkOK(r)'
<1>1. CASE requests[r].at = 0
  BY <1>1 DEF LinkOK
<1>2. CASE requests[r].at # 0
  <2>1. Ask(r)' = Ask(r) /\ Kind(r)' = Kind(r) /\ Read(r)' = Read(r)
    BY DEF Ask, Kind, Read
  <2>2. /\ \A step : At(r, step)' <=> At(r, step)
        /\ \A kind : HasRead(r, kind)' <=> HasRead(r, kind)
        /\ \A n, step : Passed(r, n, step)' <=> Passed(r, n, step)
        /\ \A x : Link(r, x)' = Link(r, x)
    BY <2>1 DEF At, HasRead, Passed, Link
  <2>3. \A x : (Holds(r, x)' <=> Holds(r, x)) /\ (Found(r, x)' <=> Found(r, x))
    BY <2>1, <2>2 DEF Holds, Found
  <2>4. /\ \A l : Addable(r, l) => Addable(r, l)'
        /\ \A l : Removable(r, l) => Removable(r, l)'
    BY DEF Addable, Removable
  <2>5. LinksLeft(r, requests[r].at - 1)'
    BY <1>2, <2>1, <2>2, <2>4 DEF LinkOK, LinksLeft
  <2>6. ListsOK(r)'
    BY <1>2, <2>1, <2>2 DEF LinkOK, ListsOK
  <2>7. ListsFollow(r)'
    BY <1>2, <2>1, <2>2, <2>3, <2>4 DEF LinkOK, ListsFollow
  <2>8. QED BY <2>5, <2>6, <2>7 DEF LinkOK
<1>3. QED BY <1>1, <1>2

LEMMA OthersLinked ==
  ASSUME TInv, MetOK, NEW q \in Requests, Handle(q), ListsOK(q),
         NEW r \in Requests \ {q}, LinkOK(r)
  PROVE  LinkOK(r)'
<1>0. RequestsOK
  BY DEF TInv
<1>1. CASE r \notin Busy
  <2>1. requests'[r] = requests[r]
    BY <1>0, HandleMoves DEF Moved
  <2>2. QED BY <1>1, <2>1 DEF LinkOK, Busy
<1>2. CASE r \in Busy
  <2>1. requests'[r] = requests[r] /\ Ask(q) \in Met(r) /\ Met(r)' = Met(r)
    BY <1>0, <1>2, OthersMet, MetStays
  <2>2. ASSUME NEW l, l \in db'.links, l \notin db.links
        PROVE  Addable(r, l)'
    <3>1. Ask(q).id \in l /\ Adds(Ask(q), Other(Ask(q), l))
      BY <2>2, LinksAdded
    <3>2. QED BY <2>1, <3>1 DEF Addable
  <2>3. ASSUME NEW l, l \in db.links, l \notin db'.links
        PROVE  Removable(r, l)'
    <3>1. Ask(q).id \in l /\ Removes(Ask(q), Other(Ask(q), l))
      BY <2>3, LinksRemoved
    <3>2. QED BY <2>1, <3>1 DEF Removable
  <2>4. QED BY <2>1, <2>2, <2>3, LinksStay
<1>3. QED BY <1>1, <1>2

\* A request that comes has done nothing, and holds nothing.
LEMMA ReceiveLinked ==
  ASSUME RequestsOK, MetOK, NEW q \in Requests, Receive(q), NEW r \in Requests, LinkOK(r)
  PROVE  LinkOK(r)'
<1>1. db' = db
  BY DEF Receive
<1>2. CASE r \in Busy
  <2>1. /\ requests'[r].at = requests[r].at /\ requests'[r].read = requests[r].read
        /\ Ask(r)' = Ask(r) /\ Met(r) \subseteq Met(r)'
    BY <1>2, ReceiveKeeps
  <2>2. QED BY <1>1, <2>1, LinksStay DEF Ask
<1>3. CASE r \notin Busy /\ r # q
  <2>1. requests'[r] = requests[r]
    BY <1>3 DEF Receive
  <2>2. QED BY <1>3, <2>1 DEF LinkOK, Busy
<1>4. CASE r = q
  <2>1. PICK a \in Asks : requests'[r].ask = a /\ requests'[r].at = 1
    BY <1>4 DEF Receive, Unborn
  <2>2. Steps(a) \in Seq(Vocabulary(a)) /\ Len(Steps(a)) > 0 /\ 1 \in 1..Len(Steps(a))
    BY StepsTyped
  <2>3. Accepted(a) /\ Steps(a)[1] \in Vocabulary(a)
    BY <2>2, TopologyAssumption
  <2>4. /\ \A step : At(r, step)' <=> Steps(a)[1] = step
        /\ \A kind : ~HasRead(r, kind)'
        /\ Kind(r)' = a.kind
    BY <2>1 DEF At, HasRead, Kind, Ask
  <2>5. Steps(a)[1] \notin {"moveCluster", "readProjects", "unlinkProjects"}
    <3>1. CASE a.kind = "updateCluster"
      BY <2>2, <3>1, ClusterOrder DEF Comes
    <3>2. CASE a.kind # "updateCluster"
      BY <2>3, <3>2 DEF Accepted, Vocabulary, Only
    <3>3. QED BY <3>1, <3>2
  <2>6. a.kind = "updateCluster" => Steps(a)[1] \notin {"linkProjects", "unlinkStages"}
    BY <2>2, ClusterOrder DEF Comes
  <2>7. LinksLeft(r, 0)'
    <3>1. \A step : ~Passed(r, 0, step)'
      BY DEF Passed
    <3>2. QED BY <3>1 DEF LinksLeft
  <2>8. ListsOK(r)'
    BY <2>4, <2>5, <2>6 DEF ListsOK
  <2>9. ListsFollow(r)'
    BY <2>4, <2>5, <2>6 DEF ListsFollow, Holds
  <2>10. QED BY <2>1, <2>7, <2>8, <2>9 DEF LinkOK
<1>5. QED BY <1>2, <1>3, <1>4

-----------------------------------------------------------------------------
(* What the request's own steps leave of it.                               *)

\* The step is done: the request goes on, or answers with success.
Goes(r) ==
  \/ requests'[r].at = requests[r].at + 1
  \/ requests'[r].at = 0 /\ requests'[r].answer = "ok"

LEMMA Going ==
  ASSUME RequestsOK, NEW r \in Requests, r \in Busy, Goes(r)
  PROVE  /\ \A answer \in {"refused", "failed", "threw"} : ~End(r, answer)
         /\ \A read : requests' # [requests EXCEPT ![r].read = read]
<1>1. requests[r].at \in Nat /\ requests[r].at # 0 /\ DOMAIN requests = Requests
  BY DEF RequestsOK, RequestOK, Busy
<1>2. \A answer \in {"refused", "failed", "threw"} : ~End(r, answer)
  BY <1>1, EndMoves DEF Goes, Answered
<1>3. ASSUME NEW read, requests' = [requests EXCEPT ![r].read = read]
      PROVE  FALSE
  <2>1. requests'[r].at = requests[r].at
    BY <1>1, <1>3, LoopMoves
  <2>2. QED BY <1>1, <2>1 DEF Goes
<1>4. QED BY <1>2, <1>3

\* It keeps the links it asks for, and adds none that it rejects.
LEMMA OwnLinks ==
  ASSUME TInv, NEW r \in Requests, Handle(r), ListsOK(r), NEW x \in Linkables \ {Ask(r).id}
  PROVE  /\ Ask(r) \in Asks
         /\ Wants(Ask(r), x) /\ Link(r, x) \in db.links => Link(r, x) \in db'.links
         /\ Rejects(Ask(r), x) /\ Link(r, x) \in db'.links => Link(r, x) \in db.links
<1>1. Ask(r) \in Asks
  BY HandleForms DEF TInv, RequestsOK, RequestOK, Ask, Busy
<1>2. Other(Ask(r), Link(r, x)) = x
  BY OtherEnd DEF Link
<1>3. /\ Wants(Ask(r), x) => ~Removes(Ask(r), x)
      /\ Rejects(Ask(r), x) => ~Adds(Ask(r), x)
  BY <1>1, AskedOnce
<1>4. QED BY <1>1, <1>2, <1>3, LinksAdded, LinksRemoved

\* The step that links has linked, unless the link was found, and removed.
LEMMA LinkStepLinks ==
  ASSUME TInv, NEW r \in Requests, Handle(r), ListsOK(r), ListsFollow(r), Goes(r),
         NEW x \in Linkables \ {Ask(r).id}, Wants(Ask(r), x), At(r, LinkStep(x))
  PROVE  Link(r, x) \in db'.links \/ Removable(r, Link(r, x))
<1> DEFINE a == Ask(r)
<1>0. /\ RequestsOK /\ r \in Busy
      /\ DOMAIN db = {"zones", "clusters", "stages", "quotas", "envs", "links"}
  BY HandleForms DEF TInv, Intact
<1>1. \A answer \in {"refused", "failed", "threw"} : ~End(r, answer)
  BY <1>0, Going
<1>2. /\ x \in Projects => FieldOf(x) = "projects" /\ LinkStep(x) = "linkProjects"
      /\ x \in Clusters => FieldOf(x) = "clusters" /\ LinkStep(x) = "linkClusters"
      /\ x \in Stages => FieldOf(x) = "stages" /\ LinkStep(x) = "linkStages"
      /\ x \in Quotas => FieldOf(x) = "quotas" /\ LinkStep(x) = "linkQuotas"
  BY Fields
<1>3. Given(a, FieldOf(x)) /\ x \in a[FieldOf(x)] /\ (x \in Projects => a.privacy = "dedicated")
  BY DEF Wants, Adds
<1>4. CASE x \in Projects
  <2>1. LinkProjects(r) /\ At(r, "linkProjects") /\ Kind(r) \in {"createCluster", "updateCluster"}
    BY <1>0, <1>2, <1>4, LinkSteps, LinkAsked
  <2>2. db' = [db EXCEPT !.links = @ \cup Pairs(a.id, ProjectsToLink(r))]
    BY <1>1, <2>1 DEF LinkProjects
  <2>3. Given(a, "privacy") /\ a.privacy = "dedicated"
    BY <1>3, <1>4, TopologyAssumption DEF Given
  <2>4. ProjectsAsked(a) = a.projects /\ a.projects # Absent
    BY <1>2, <1>3, <1>4, <2>3 DEF ProjectsAsked, Given
  <2>5. Kind(r) = "updateCluster" => Read(r)[1] = "dedicated"
    BY <2>1, <2>3 DEF ListsOK
  <2>6. ProjectsToLink(r) = a.projects
    BY <2>1, <2>4, <2>5 DEF ProjectsToLink
  <2>7. x \in ProjectsToLink(r)
    BY <1>2, <1>3, <1>4, <2>6
  <2>8. QED BY <1>0, <2>2, <2>7 DEF Pairs, Link
<1>5. CASE x \in Clusters
  <2>1. Connect(r, a.clusters) /\ x \in a.clusters
    BY <1>2, <1>3, <1>5, LinkSteps
  <2>2. db' = [db EXCEPT !.links = @ \cup Pairs(a.id, a.clusters)]
    BY <1>1, <2>1 DEF Connect, Write
  <2>3. QED BY <1>0, <2>1, <2>2 DEF Pairs, Link
<1>6. CASE x \in Stages
  <2>1. x \in a.stages /\ (Connect(r, a.stages) \/ ConnectEach(r, a.stages))
    BY <1>2, <1>3, <1>6, LinkSteps
  <2>2. db' = [db EXCEPT !.links = @ \cup Pairs(a.id, a.stages)]
    BY <1>1, <2>1 DEF Connect, ConnectEach, Write
  <2>3. QED BY <1>0, <2>1, <2>2 DEF Pairs, Link
<1>7. CASE x \in Quotas
  <2> DEFINE ys == IF Kind(r) = "createStage" THEN a.quotas ELSE a.quotas \ Read(r).quotas
  <2>1. x \in a.quotas /\ ConnectEach(r, ys)
    BY <1>2, <1>3, <1>7, LinkSteps
  <2>2. db' = [db EXCEPT !.links = @ \cup Pairs(a.id, ys)]
    <3> HIDE DEF ys
    <3>1. QED BY <1>1, <2>1 DEF ConnectEach
  <2>3. x \in ys => Link(r, x) \in db'.links
    <3> HIDE DEF ys
    <3>1. QED BY <1>0, <2>2 DEF Pairs, Link
  <2>4. CASE x \notin ys
    <3>1. Kind(r) = "updateStage" /\ x \in Read(r).quotas
      BY <1>0, <1>2, <1>7, <2>1, <2>4, LinkAsked
    <3>2. HasRead(r, "updateStage")
      BY <1>0, <1>2, <1>7, <3>1, AfterFirst DEF HasRead
    <3>3. Link(r, x) \in db.links \/ Removable(r, Link(r, x))
      BY <3>1, <3>2 DEF ListsFollow
    <3>4. QED BY <3>3, OwnLinks
  <2>5. QED BY <2>3, <2>4
<1>8. QED BY <1>4, <1>5, <1>6, <1>7 DEF Linkables

\* A row that is not there has no link.
LEMMA NewUnlinked ==
  ASSUME Intact(db), NEW r \in Requests, NEW x,
         \/ Ask(r).id \in Clusters \ DOMAIN db.clusters
         \/ Ask(r).id \in Stages \ DOMAIN db.stages
         \/ Ask(r).id \in Quotas \ DOMAIN db.quotas
  PROVE  Link(r, x) \notin db.links
<1>1. Ask(r).id \notin Linkable(db)
  BY Disjoint DEF Intact, Linkable
<1>2. QED BY <1>1 DEF Intact, Link

LEMMA InsertsUnlinked ==
  ASSUME TInv, NEW r \in Requests, Handle(r), Goes(r), NEW x,
         At(r, "insertCluster") \/ At(r, "insertStage") \/ At(r, "insertQuota")
  PROVE  Link(r, x) \notin db'.links
<1>0. /\ RequestsOK /\ Intact(db) /\ r \in Busy
      /\ DOMAIN db = {"zones", "clusters", "stages", "quotas", "envs", "links"}
  BY HandleForms DEF TInv, Intact
<1>1. \A answer \in {"refused", "failed", "threw"} : ~End(r, answer)
  BY <1>0, Going
<1>2. CreateCluster(r) \/ StageStep(r) \/ QuotaStep(r)
  BY DEF Handle, CallHook, RunHook, ZoneStep, CreateCluster, UpdateCluster, LinkProjects,
     DeleteCluster, StageStep, UnlinkClusters, QuotaStep, DeleteRow, EnvironmentStep, At
<1>3. CASE At(r, "insertCluster")
  <2>1. CreateCluster(r)
    BY <1>2, <1>3 DEF CreateCluster, StageStep, QuotaStep, At
  <2>2. Ask(r).id \notin DOMAIN db.clusters /\ db'.links = db.links
    BY <1>0, <1>1, <1>3, <2>1 DEF CreateCluster, Write, At
  <2>3. Ask(r).id \in Clusters
    BY <1>0, <1>3, ClusterAsked, IdAsked
  <2>4. QED BY <1>0, <2>2, <2>3, NewUnlinked
<1>4. CASE At(r, "insertStage")
  <2>1. StageStep(r)
    BY <1>2, <1>4 DEF CreateCluster, StageStep, QuotaStep, At
  <2>2. Ask(r).id \notin DOMAIN db.stages /\ db'.links = db.links
    BY <1>0, <1>1, <1>4, <2>1 DEF StageStep, Write, At
  <2>3. Ask(r).id \in Stages
    BY <1>0, <1>4, StageAsked, IdAsked
  <2>4. QED BY <1>0, <2>2, <2>3, NewUnlinked
<1>5. CASE At(r, "insertQuota")
  <2>1. QuotaStep(r)
    BY <1>2, <1>5 DEF CreateCluster, StageStep, QuotaStep, At
  <2>2. Ask(r).id \notin DOMAIN db.quotas /\ db'.links = db.links
    BY <1>0, <1>1, <1>5, <2>1 DEF QuotaStep, Write, At
  <2>3. Ask(r).id \in Quotas
    BY <1>0, <1>5, QuotaAsked, IdAsked
  <2>4. QED BY <1>0, <2>2, <2>3, NewUnlinked
<1>6. QED BY <1>3, <1>4, <1>5

\* The step that cuts has cut, unless the link came after the list was read.
LEMMA CutStepCuts ==
  ASSUME TInv, NEW r \in Requests, Handle(r), ListsOK(r), ListsFollow(r), Goes(r),
         NEW x \in Linkables \ {Ask(r).id}, Rejects(Ask(r), x), At(r, CutStep(Ask(r), x))
  PROVE  Link(r, x) \notin db'.links \/ Addable(r, Link(r, x))
<1> DEFINE a == Ask(r)
<1>0. /\ RequestsOK /\ r \in Busy /\ a \in Asks /\ Kind(r) = a.kind
      /\ DOMAIN db = {"zones", "clusters", "stages", "quotas", "envs", "links"}
  BY HandleForms, AtStep DEF TInv, Intact, Kind
<1>1. /\ \A answer \in {"refused", "failed", "threw"} : ~End(r, answer)
      /\ \A read : requests' # [requests EXCEPT ![r].read = read]
  BY <1>0, Going
<1>2. /\ a.kind \in Shapes
      /\ Given(a, FieldOf(x)) \/ (x \in Projects /\ a.privacy = "public")
      /\ x \in Projects \/ (Given(a, FieldOf(x)) /\ x \notin a[FieldOf(x)])
  BY DEF Rejects
<1>3. /\ x \in Projects => FieldOf(x) = "projects"
      /\ x \in Clusters => FieldOf(x) = "clusters"
      /\ x \in Stages => FieldOf(x) = "stages"
      /\ x \in Quotas => FieldOf(x) = "quotas"
  BY Fields
<1> SUFFICES ASSUME Link(r, x) \in db'.links, ~Addable(r, Link(r, x))
             PROVE  FALSE
  OBVIOUS
<1>4. Link(r, x) \in db.links
  BY OwnLinks
<1>5. Holds(r, x) => Found(r, x)
  BY <1>4 DEF ListsFollow
<1>6. CASE a.kind \in {"createCluster", "createStage", "createQuota"}
  BY <1>6, InsertsUnlinked DEF CutStep
<1>7. CASE a.kind = "updateQuota"
  <2>1. At(r, "unlinkStages")
    BY <1>7 DEF CutStep
  <2>2. Disconnect(r, Read(r) \ a.stages)
    BY <1>0, <1>7, <2>1, LinkSteps
  <2>3. x \in Stages /\ x \notin a.stages
    BY <1>0, <1>2, <1>3, <1>7, AskedFields, TopologyAssumption
  <2>4. HasRead(r, "updateQuota")
    BY <1>0, <1>7, <2>1, AfterFirst DEF HasRead
  <2>5. x \in Read(r)
    BY <1>0, <1>5, <1>7, <2>1, <2>4 DEF Holds, Found, At
  <2>6. db' = [db EXCEPT !.links = @ \ Pairs(a.id, Read(r) \ a.stages)]
    BY <1>1, <2>2 DEF Disconnect, Write
  <2>7. QED BY <1>0, <2>3, <2>5, <2>6 DEF Pairs, Link
<1>8. CASE a.kind = "updateStage"
  <2>1. (x \in Clusters /\ x \notin a.clusters) \/ (x \in Quotas /\ x \notin a.quotas)
    BY <1>0, <1>2, <1>3, <1>8, AskedFields, TopologyAssumption
  <2>2. At(r, "unlinkClusters") \/ At(r, "unlinkQuotas")
    BY <1>8 DEF CutStep
  <2>3. HasRead(r, "updateStage")
    BY <1>0, <1>8, <2>2, AfterFirst DEF HasRead
  <2>4. /\ x \in Read(r).clusters \cup Read(r).quotas
        /\ Read(r).clusters \subseteq Clusters /\ Read(r).quotas \subseteq Quotas
    <3>1. Found(r, x)
      BY <1>5, <2>3 DEF Holds
    <3>2. x \in Read(r).clusters \cup Read(r).quotas
      BY <1>0, <1>8, <3>1, LinkAsked DEF Found
    <3>3. QED BY <2>3, <3>2 DEF ListsOK
  <2>5. CASE x \in Clusters
    <3>1. UnlinkClusters(r)
      BY <1>8, <2>5, LinkSteps DEF CutStep
    <3>2. x \in Read(r).clusters \ a.clusters
      BY <2>1, <2>4, <2>5, Disjoint
    <3>3. \E read : requests' = [requests EXCEPT ![r].read = read]
      <4>1. PICK c \in Read(r).clusters \ a.clusters :
              requests' = [requests EXCEPT ![r].read.clusters = @ \ {c}]
        BY <1>1, <3>1, <3>2 DEF UnlinkClusters
      <4>2. QED BY <4>1
    <3>4. QED BY <1>1, <3>3
  <2>6. CASE x \notin Clusters
    <3>1. Disconnect(r, Read(r).quotas \ a.quotas)
      BY <1>8, <2>6, LinkSteps DEF CutStep
    <3>2. x \in Read(r).quotas \ a.quotas
      BY <2>1, <2>4, <2>6
    <3>3. db' = [db EXCEPT !.links = @ \ Pairs(a.id, Read(r).quotas \ a.quotas)]
      BY <1>1, <3>1 DEF Disconnect, Write
    <3>4. QED BY <1>0, <3>2, <3>3 DEF Pairs, Link
  <2>7. QED BY <2>5, <2>6
<1>9. CASE a.kind = "updateCluster"
  <2>1. x \in Projects \/ x \in Stages
    BY <1>0, <1>2, <1>9, AskedFields
  <2>2. IF x \in Projects THEN At(r, "unlinkProjects") ELSE At(r, "unlinkStages")
    BY <1>9 DEF CutStep
  <2>3. DisconnectEach(r, Read(r))
    BY <1>0, <1>9, <2>2, LinkSteps
  <2>4. Read(r) = {}
    BY <1>1, <2>3 DEF DisconnectEach
  <2>5. Holds(r, x) /\ (Found(r, x) <=> x \in Read(r))
    BY <1>0, <1>9, <2>1, <2>2 DEF Holds, Found, At
  <2>6. QED BY <1>5, <2>4, <2>5
<1>10. QED BY <1>2, <1>6, <1>7, <1>8, <1>9 DEF Shapes

\* What is passed, one step further.
LEMMA PassedNext ==
  ASSUME RequestsOK, NEW r \in Requests, r \in Busy, NEW step,
         NEW n, n = requests[r].at, Passed(r, n, step)
  PROVE  Passed(r, n - 1, step) \/ At(r, step)
<1>1. n \in Nat /\ n # 0
  BY DEF RequestsOK, RequestOK, Busy
<1>2. PICK i \in 1..n : Steps(Ask(r))[i] = step
  BY DEF Passed
<1>3. i = n \/ i \in 1..(n - 1)
  BY <1>1, <1>2
<1>4. QED BY <1>1, <1>2, <1>3 DEF Passed, At

LEMMA OwnLeft ==
  ASSUME TInv, NEW r \in Requests, Handle(r), ListsOK(r), NEW n, LinksLeft(r, n)
  PROVE  LinksLeft(r, n)'
<1>1. Ask(r)' = Ask(r) /\ Met(r)' = Met(r)
  BY MetStays DEF TInv
<1>2. /\ \A x : Link(r, x)' = Link(r, x)
      /\ \A step : Passed(r, n, step)' <=> Passed(r, n, step)
      /\ \A l : (Addable(r, l)' <=> Addable(r, l)) /\ (Removable(r, l)' <=> Removable(r, l))
  BY <1>1 DEF Link, Passed, Addable, Removable
<1>3. QED BY <1>1, <1>2, OwnLinks DEF LinksLeft

\* Going on, it has left what its body asks for.
LEMMA OwnGone ==
  ASSUME TInv, NEW r \in Requests, Handle(r), LinkOK(r), Goes(r), NEW n, n = requests[r].at
  PROVE  LinksLeft(r, n)'
<1>0. RequestsOK /\ r \in Busy
  BY HandleForms DEF TInv
<1>1. Ask(r)' = Ask(r) /\ Met(r)' = Met(r)
  BY <1>0, MetStays
<1>2. /\ \A x : Link(r, x)' = Link(r, x)
      /\ \A step : Passed(r, n, step)' <=> Passed(r, n, step)
      /\ \A l : (Addable(r, l)' <=> Addable(r, l)) /\ (Removable(r, l)' <=> Removable(r, l))
  BY <1>1 DEF Link, Passed, Addable, Removable
<1>3. LinksLeft(r, n - 1) /\ ListsOK(r) /\ ListsFollow(r)
  BY <1>0 DEF LinkOK, Busy
<1>4. ASSUME NEW x \in Linkables \ {Ask(r).id}, Wants(Ask(r), x), Passed(r, n, LinkStep(x))
      PROVE  Link(r, x) \in db'.links \/ Removable(r, Link(r, x))
  <2>1. Passed(r, n - 1, LinkStep(x)) \/ At(r, LinkStep(x))
    BY <1>0, <1>4, PassedNext
  <2>2. CASE Passed(r, n - 1, LinkStep(x))
    BY <1>3, <1>4, <2>2, OwnLinks DEF LinksLeft
  <2>3. CASE At(r, LinkStep(x))
    BY <1>3, <1>4, <2>3, LinkStepLinks
  <2>4. QED BY <2>1, <2>2, <2>3
<1>5. ASSUME NEW x \in Linkables \ {Ask(r).id}, Rejects(Ask(r), x),
             Passed(r, n, CutStep(Ask(r), x))
      PROVE  Link(r, x) \notin db'.links \/ Addable(r, Link(r, x))
  <2>1. Passed(r, n - 1, CutStep(Ask(r), x)) \/ At(r, CutStep(Ask(r), x))
    BY <1>0, <1>5, PassedNext
  <2>2. CASE Passed(r, n - 1, CutStep(Ask(r), x))
    BY <1>3, <1>5, <2>2, OwnLinks DEF LinksLeft
  <2>3. CASE At(r, CutStep(Ask(r), x))
    BY <1>3, <1>5, <2>3, CutStepCuts
  <2>4. QED BY <2>1, <2>2, <2>3
<1>6. QED BY <1>1, <1>2, <1>4, <1>5 DEF LinksLeft

-----------------------------------------------------------------------------
(* The lists a request holds after its own step.                           *)

\* Where a request is after its step, and the step it comes from.
LEMMA OwnPlace ==
  ASSUME RequestsOK, NEW r \in Requests, Handle(r), requests'[r].at # 0
  PROVE  /\ Ask(r) \in Asks /\ Ask(r)' = Ask(r) /\ Kind(r)' = Kind(r) /\ Kind(r) = Ask(r).kind
         /\ requests[r].at \in 1..Len(Steps(Ask(r))) /\ requests'[r].at \in 1..Len(Steps(Ask(r)))
         /\ \/ requests'[r].at = requests[r].at /\ \A step : At(r, step)' <=> At(r, step)
            \/ /\ Goes(r) /\ requests'[r].at = requests[r].at + 1
               /\ At(r, Steps(Ask(r))[requests'[r].at - 1])
<1>1. Moved(r) /\ r \in Busy
  BY HandleMoves, HandleForms
<1>2. Ask(r)' = Ask(r) /\ Kind(r)' = Kind(r) /\ Kind(r) = Ask(r).kind
  BY <1>1 DEF Moved, Ask, Kind
<1>3. Ask(r) \in Asks /\ requests[r].at \in 1..Len(Steps(Ask(r))) /\ requests[r].at # 0
  BY <1>1 DEF RequestsOK, RequestOK, Busy, Ask
<1>4. /\ requests'[r].at \in {requests[r].at, requests[r].at + 1}
      /\ requests'[r].at \in 1..Len(Steps(Ask(r)))
  BY <1>1 DEF Moved, Ask
<1>5. CASE requests'[r].at = requests[r].at
  BY <1>2, <1>3, <1>4, <1>5 DEF At
<1>6. CASE requests'[r].at = requests[r].at + 1
  <2>1. requests'[r].at - 1 = requests[r].at
    BY <1>3, <1>6
  <2>2. QED BY <1>2, <1>3, <1>4, <1>6, <2>1 DEF At, Goes
<1>7. QED BY <1>4, <1>5, <1>6

\* Lists that are good, and follow the links, stay so when the links that are
\* left out of them are removed.
LEMMA StageLists ==
  ASSUME TInv, NEW r \in Requests, Handle(r), LinkOK(r), requests'[r].at # 0,
         Kind(r) = "updateStage"
  PROVE  /\ DOMAIN Read(r)' = {"name", "clusters", "quotas"}
         /\ Read(r)'.clusters \subseteq Clusters /\ Read(r)'.quotas \subseteq Quotas
         /\ \A x \in Linkables \ {Ask(r).id} :
              /\ Rejects(Ask(r), x) /\ Link(r, x) \in db'.links =>
                   x \in Read(r)'.clusters \cup Read(r)'.quotas \/ Addable(r, Link(r, x))
              /\ Wants(Ask(r), x) /\ x \in Read(r)'.quotas =>
                   Link(r, x) \in db'.links \/ Removable(r, Link(r, x))
<1> DEFINE a == Ask(r)
<1>0. /\ RequestsOK /\ r \in Busy /\ Ask(r) \in Asks /\ a.kind = "updateStage"
      /\ DOMAIN db = {"zones", "clusters", "stages", "quotas", "envs", "links"}
      /\ requests[r].at \in 1..Len(Steps(a)) /\ ListsOK(r) /\ ListsFollow(r)
  BY HandleForms, OwnPlace DEF TInv, Intact, Kind, LinkOK, Busy
<1>1. At(r, Steps(a)[requests[r].at]) /\ Steps(a)[requests[r].at] \in Vocabulary(a)
  BY <1>0, AtStep DEF At, Busy
<1>2. CASE At(r, "findStage")
  <2>1. StageStep(r)
    BY <1>2 DEF Handle, CallHook, RunHook, ZoneStep, CreateCluster, UpdateCluster, LinkProjects,
       DeleteCluster, StageStep, UnlinkClusters, QuotaStep, DeleteRow, EnvironmentStep, At
  <2>2. a.id \in DOMAIN db.stages /\ db' = db
    BY <1>0, <1>2, <2>1, EndMoves DEF StageStep, Check, At, Answered
  <2>3. Go(r, [name |-> db.stages[a.id], clusters |-> Linked(a.id, Clusters),
               quotas |-> Linked(a.id, Quotas)])
    BY <1>0, <1>2, <2>1, <2>2, EndMoves DEF StageStep, Check, At, Answered
  <2>4. Read(r)' = [name |-> db.stages[a.id], clusters |-> Linked(a.id, Clusters),
                    quotas |-> Linked(a.id, Quotas)]
    BY <1>0, <2>3, GoMoves DEF Read, Busy
  <2>5. ASSUME NEW x \in Linkables \ {a.id}, Rejects(a, x), Link(r, x) \in db'.links
        PROVE  x \in Read(r)'.clusters \cup Read(r)'.quotas
    <3>1. x \in Clusters \cup Quotas
      BY <1>0, <2>5, AskedFields, TopologyAssumption DEF Rejects
    <3>2. QED BY <2>2, <2>4, <2>5, <3>1 DEF Linked, Link
  <2>6. QED BY <2>2, <2>4, <2>5 DEF Linked, Link
<1>3. CASE ~At(r, "findStage")
  <2>1. HasRead(r, "updateStage")
    BY <1>0, <1>1, <1>3, AfterFirst DEF HasRead
  <2>2. \/ Read(r)' = Read(r)
        \/ \E c : Read(r)' = [Read(r) EXCEPT !.clusters = @ \ {c}] /\ Link(r, c) \notin db'.links
    <3>1. CASE At(r, "unlinkClusters")
      <4>1. UnlinkClusters(r)
        BY <3>1, LinkSteps
      <4>2. CASE Go(r, Read(r))
        BY <1>0, <4>2, GoMoves DEF Read, Busy
      <4>3. CASE \E c \in Read(r).clusters \ a.clusters :
                   /\ db' = [db EXCEPT !.links = @ \ {{a.id, c}}]
                   /\ requests' = [requests EXCEPT ![r].read.clusters = @ \ {c}]
        BY <1>0, <4>3 DEF Read, Link, RequestsOK, RequestOK
      <4>4. QED BY <1>0, <4>1, <4>2, <4>3, EndMoves DEF UnlinkClusters, Check, Answered
    <3>2. CASE ~At(r, "unlinkClusters")
      <4>1. Steps(a)[requests[r].at] \in {"rename", "linkClusters", "unlinkQuotas", "linkQuotas"}
        BY <1>0, <1>1, <1>3, <3>2 DEF Vocabulary, Only
      <4>2. StageStep(r)
        BY <1>1, <4>1 DEF Handle, CallHook, RunHook, ZoneStep, CreateCluster, UpdateCluster,
           LinkProjects, DeleteCluster, StageStep, UnlinkClusters, QuotaStep, DeleteRow,
           EnvironmentStep, At
      <4>3. Go(r, Read(r)) \/ \E answer \in {"refused", "threw"} : End(r, answer)
        BY <1>1, <4>1, <4>2 DEF StageStep, Check, Write, Connect, ConnectEach, Disconnect, At
      <4>4. QED BY <1>0, <4>3, GoMoves, EndMoves DEF Read, Busy, Answered
    <3>3. QED BY <3>1, <3>2
  <2>3. /\ DOMAIN Read(r) = {"name", "clusters", "quotas"}
        /\ Read(r).clusters \subseteq Clusters /\ Read(r).quotas \subseteq Quotas
    BY <1>0, <2>1 DEF ListsOK
  <2>4. /\ DOMAIN Read(r)' = DOMAIN Read(r)
        /\ Read(r)'.clusters \subseteq Read(r).clusters /\ Read(r)'.quotas = Read(r).quotas
        /\ \A x : x \in Read(r).clusters /\ Link(r, x) \in db'.links => x \in Read(r)'.clusters
    BY <2>2, <2>3
  <2>5. ASSUME NEW x \in Linkables \ {a.id}, Rejects(a, x), Link(r, x) \in db'.links
        PROVE  x \in Read(r)'.clusters \cup Read(r)'.quotas \/ Addable(r, Link(r, x))
    <3>1. Link(r, x) \in db.links
      BY <1>0, <2>5, OwnLinks
    <3>2. Found(r, x) \/ Addable(r, Link(r, x))
      BY <1>0, <2>1, <2>5, <3>1 DEF ListsFollow, Holds
    <3>3. ~At(r, "linkProjects")
      BY <1>0, LinkAsked DEF Kind
    <3>4. x \in Read(r).clusters \cup Read(r).quotas \/ Addable(r, Link(r, x))
      BY <3>2, <3>3 DEF Found
    <3>5. QED BY <2>4, <2>5, <3>4
  <2>6. ASSUME NEW x \in Linkables \ {a.id}, Wants(a, x), x \in Read(r)'.quotas
        PROVE  Link(r, x) \in db'.links \/ Removable(r, Link(r, x))
    <3>1. Link(r, x) \in db.links \/ Removable(r, Link(r, x))
      BY <1>0, <2>1, <2>4, <2>6 DEF ListsFollow
    <3>2. QED BY <1>0, <2>6, <3>1, OwnLinks
  <2>7. QED BY <2>3, <2>4, <2>5, <2>6
<1>4. QED BY <1>2, <1>3

LEMMA QuotaLists ==
  ASSUME TInv, NEW r \in Requests, Handle(r), LinkOK(r), requests'[r].at # 0,
         Kind(r) = "updateQuota"
  PROVE  /\ Read(r)' \subseteq Stages
         /\ \A x \in Linkables \ {Ask(r).id} :
              Rejects(Ask(r), x) /\ Link(r, x) \in db'.links =>
                x \in Read(r)' \/ Addable(r, Link(r, x))
<1> DEFINE a == Ask(r)
<1>0. /\ RequestsOK /\ r \in Busy /\ Ask(r) \in Asks /\ a.kind = "updateQuota"
      /\ DOMAIN db = {"zones", "clusters", "stages", "quotas", "envs", "links"}
      /\ requests[r].at \in 1..Len(Steps(a)) /\ ListsOK(r) /\ ListsFollow(r)
  BY HandleForms, OwnPlace DEF TInv, Intact, Kind, LinkOK, Busy
<1>1. At(r, Steps(a)[requests[r].at]) /\ Steps(a)[requests[r].at] \in Vocabulary(a)
  BY <1>0, AtStep DEF At, Busy
<1>2. Steps(a)[requests[r].at] \in {"findQuota", "writeQuota", "unlinkStages", "linkStages"}
  BY <1>0, <1>1 DEF Vocabulary
<1>3. QuotaStep(r)
  BY <1>1, <1>2 DEF Handle, CallHook, RunHook, ZoneStep, CreateCluster, UpdateCluster,
     LinkProjects, DeleteCluster, StageStep, UnlinkClusters, QuotaStep, DeleteRow,
     EnvironmentStep, At
<1>4. CASE At(r, "findQuota")
  <2>1. Go(r, Linked(a.id, Stages)) /\ db' = db
    BY <1>0, <1>3, <1>4, EndMoves DEF QuotaStep, Check, At, Answered
  <2>2. Read(r)' = Linked(a.id, Stages)
    BY <1>0, <2>1, GoMoves DEF Read, Busy
  <2>3. ASSUME NEW x \in Linkables \ {a.id}, Rejects(a, x), Link(r, x) \in db'.links
        PROVE  x \in Read(r)'
    <3>1. x \in Stages
      BY <1>0, <2>3, AskedFields, TopologyAssumption DEF Rejects
    <3>2. QED BY <2>1, <2>2, <2>3, <3>1 DEF Linked, Link
  <2>4. QED BY <2>2, <2>3 DEF Linked
<1>5. CASE ~At(r, "findQuota")
  <2>1. HasRead(r, "updateQuota")
    BY <1>0, <1>1, <1>5, AfterFirst DEF HasRead
  <2>2. Read(r)' = Read(r)
    <3>1. a.id \in Quotas
      BY <1>0, <1>1, IdAsked
    <3>2. a.id \notin Clusters
      BY <3>1, Disjoint
    <3>3. Go(r, Read(r)) \/ \E answer \in {"refused", "threw"} : End(r, answer)
      BY <1>1, <1>2, <1>3, <1>5, <3>2 DEF QuotaStep, Write, ConnectEach, Disconnect, At
    <3>4. QED BY <1>0, <3>3, GoMoves, EndMoves DEF Read, Busy, Answered
  <2>3. Read(r) \subseteq Stages
    BY <1>0, <2>1 DEF ListsOK
  <2>4. ASSUME NEW x \in Linkables \ {a.id}, Rejects(a, x), Link(r, x) \in db'.links
        PROVE  x \in Read(r)' \/ Addable(r, Link(r, x))
    <3>1. Link(r, x) \in db.links
      BY <1>0, <2>4, OwnLinks
    <3>2. Found(r, x) \/ Addable(r, Link(r, x))
      BY <1>0, <2>1, <2>4, <3>1 DEF ListsFollow, Holds
    <3>3. ~At(r, "linkProjects")
      BY <1>1, <1>2 DEF At
    <3>4. QED BY <2>2, <3>2, <3>3 DEF Found
  <2>5. QED BY <2>2, <2>3, <2>4
<1>6. QED BY <1>4, <1>5

\* The loops that unlink one row at a time.
LEMMA LoopLists ==
  ASSUME TInv, NEW r \in Requests, Handle(r), requests'[r].at = requests[r].at,
         DisconnectEach(r, Read(r))
  PROVE  /\ Read(r)' \subseteq Read(r)
         /\ \A x : x \in Read(r) /\ Link(r, x) \in db'.links => x \in Read(r)'
<1>0. /\ RequestsOK /\ r \in Busy /\ requests[r].at \in Nat /\ requests[r].at # 0
      /\ DOMAIN db = {"zones", "clusters", "stages", "quotas", "envs", "links"}
  BY HandleForms DEF TInv, Intact, RequestsOK, RequestOK, Busy
<1>1. \A read : ~Go(r, read)
  BY <1>0, GoMoves
<1>2. \A answer \in {"refused", "threw"} : ~End(r, answer)
  BY <1>0, EndMoves DEF Answered
<1>3. PICK y \in Read(r) : /\ db' = [db EXCEPT !.links = @ \ {{Ask(r).id, y}}]
                           /\ requests' = [requests EXCEPT ![r].read = Read(r) \ {y}]
  BY <1>1, <1>2 DEF DisconnectEach
<1>4. Read(r)' = Read(r) \ {y}
  BY <1>0, <1>3 DEF Read, RequestsOK, RequestOK
<1>5. Link(r, y) \notin db'.links
  BY <1>0, <1>3 DEF Link
<1>6. QED BY <1>4, <1>5

\* A step of the update of a cluster that reads goes on with what it reads.
LEMMA ClusterReads ==
  ASSUME TInv, NEW r \in Requests, Handle(r), Goes(r), requests'[r].at # 0,
         Kind(r) = "updateCluster"
  PROVE  /\ At(r, "writeCluster") /\ Given(Ask(r), "privacy") => Read(r)' = Ask(r).privacy
         /\ At(r, "moveCluster") => Read(r)' = Read(r)
         /\ At(r, "readProjects") => Read(r)' = <<Read(r), ProjectsToRemove(r)>> /\ db' = db
         /\ At(r, "linkProjects") => Read(r)' = Read(r)[2]
         /\ At(r, "readStages") => Read(r)' = Linked(Ask(r).id, Stages) \ Ask(r).stages /\ db' = db
<1>0. /\ RequestsOK /\ r \in Busy /\ requests[r].at # 0 /\ Intact(db)
      /\ DOMAIN db = {"zones", "clusters", "stages", "quotas", "envs", "links"}
  BY HandleForms DEF TInv, Intact, Busy
<1>1. \A answer \in {"refused", "failed", "threw"} : ~End(r, answer)
  BY <1>0, Going
<1>2. \A read : Go(r, read) => Read(r)' = read
  BY <1>0, GoMoves DEF Read
<1>3. ASSUME NEW step \in {"writeCluster", "moveCluster", "readProjects", "readStages"}, At(r, step)
      PROVE  UpdateCluster(r)
  BY <1>3 DEF Handle, CallHook, RunHook, ZoneStep, CreateCluster, UpdateCluster, LinkProjects,
     DeleteCluster, StageStep, UnlinkClusters, QuotaStep, DeleteRow, EnvironmentStep, At
<1>4. CASE At(r, "writeCluster")
  <2>1. WritePrivacy(r)
    BY <1>3, <1>4 DEF UpdateCluster, At
  <2>2. Go(r, [db.clusters[Ask(r).id] EXCEPT
                 !.privacy = IF Given(Ask(r), "privacy") THEN Ask(r).privacy ELSE @].privacy)
    BY <1>1, <2>1 DEF WritePrivacy
  <2>3. Ask(r).id \in DOMAIN db.clusters
    BY <1>1, <2>1 DEF WritePrivacy
  <2>4. DOMAIN db.clusters[Ask(r).id] = {"zone", "privacy"}
    BY <1>0, <2>3 DEF Intact
  <2>5. QED BY <1>2, <1>4, <2>2, <2>4 DEF At
<1>5. CASE At(r, "moveCluster")
  <2>1. Go(r, Read(r))
    BY <1>1, <1>3, <1>5 DEF UpdateCluster, Write, At
  <2>2. QED BY <1>2, <1>5, <2>1 DEF At
<1>6. CASE At(r, "readProjects")
  <2>1. Go(r, <<Read(r), ProjectsToRemove(r)>>) /\ db' = db
    BY <1>1, <1>3, <1>6 DEF UpdateCluster, Check, At
  <2>2. QED BY <1>2, <1>6, <2>1 DEF At
<1>7. CASE At(r, "linkProjects")
  <2>1. Go(r, Read(r)[2])
    BY <1>1, <1>7, LinkSteps DEF LinkProjects
  <2>2. QED BY <1>2, <1>7, <2>1 DEF At
<1>8. CASE At(r, "readStages")
  <2>1. Go(r, Linked(Ask(r).id, Stages) \ Ask(r).stages) /\ db' = db
    BY <1>1, <1>3, <1>8 DEF UpdateCluster, Check, At
  <2>2. QED BY <1>2, <1>8, <2>1 DEF At
<1>9. QED BY <1>4, <1>5, <1>6, <1>7, <1>8

\* The projects to remove are those the body rejects.
LEMMA RemovedProjects ==
  ASSUME NEW r \in Requests, Ask(r).kind = "updateCluster",
         Given(Ask(r), "privacy") => Read(r) = Ask(r).privacy
  PROVE  /\ \A y \in ProjectsToRemove(r) : y \in Projects /\ Removes(Ask(r), y)
         /\ \A x \in Projects : Rejects(Ask(r), x) /\ Link(r, x) \in db.links =>
              x \in ProjectsToRemove(r)
<1> DEFINE a == Ask(r)
           asked == ProjectsAsked(a)
           linked == Linked(a.id, Projects)
<1>1. \A x \in Projects : FieldOf(x) = "projects"
  BY Fields DEF Linkables
<1>2. \A x \in Projects : Link(r, x) \in db.links <=> x \in linked
  BY DEF Linked, Link
<1>3. CASE Read(r) = "public"
  <2>1. ProjectsToRemove(r) = linked
    BY <1>3 DEF ProjectsToRemove
  <2>2. a.privacy # "dedicated"
    BY <1>3, TopologyAssumption DEF Given
  <2>3. \A y \in linked : y \in Projects /\ Removes(a, y)
    BY <2>2 DEF Linked, Removes
  <2>4. QED BY <1>2, <2>1, <2>3
<1>4. CASE Read(r) = "dedicated" /\ asked # Absent
  <2>1. ProjectsToRemove(r) = linked \ asked
    BY <1>4 DEF ProjectsToRemove
  <2>2. asked = a.projects /\ Given(a, "projects") /\ a.privacy # "public"
    BY <1>4 DEF ProjectsAsked, Given
  <2>3. \A y \in linked \ asked : y \in Projects /\ Removes(a, y)
    BY <1>1, <2>2 DEF Linked, Removes, Shapes
  <2>4. \A x \in Projects : Rejects(a, x) => x \notin asked
    BY <1>1, <2>2 DEF Rejects
  <2>5. QED BY <1>2, <2>1, <2>3, <2>4
<1>5. CASE Read(r) # "public" /\ ~(Read(r) = "dedicated" /\ asked # Absent)
  <2>1. ProjectsToRemove(r) = {}
    BY <1>5 DEF ProjectsToRemove
  <2>2. a.privacy # "public"
    BY <1>5, TopologyAssumption DEF Given
  <2>3. \A x \in Projects : ~Rejects(a, x)
    <3>1. ASSUME NEW x \in Projects, Rejects(a, x)
          PROVE  FALSE
      <4>1. a.privacy = "dedicated" /\ Given(a, "projects")
        BY <1>1, <2>2, <3>1 DEF Rejects
      <4>2. Read(r) = "dedicated"
        BY <4>1, TopologyAssumption DEF Given
      <4>3. asked # Absent
        BY <4>1 DEF ProjectsAsked, Given
      <4>4. QED BY <1>5, <4>2, <4>3
    <3>2. QED BY <3>1
  <2>4. QED BY <2>1, <2>3
<1>6. QED BY <1>3, <1>4, <1>5

LEMMA ClusterLists ==
  ASSUME TInv, NEW r \in Requests, Handle(r), LinkOK(r), requests'[r].at # 0,
         Kind(r) = "updateCluster"
  PROVE  /\ (At(r, "moveCluster")' \/ At(r, "readProjects")') /\ Given(Ask(r), "privacy") =>
              Read(r)' = Ask(r).privacy
         /\ At(r, "linkProjects")' =>
              /\ Given(Ask(r), "privacy") => Read(r)'[1] = Ask(r).privacy
              /\ \A y \in Read(r)'[2] : y \in Projects /\ Removes(Ask(r), y)
              /\ \A x \in Projects : Rejects(Ask(r), x) /\ Link(r, x) \in db'.links =>
                   x \in Read(r)'[2] \/ Addable(r, Link(r, x))
         /\ At(r, "unlinkProjects")' =>
              /\ \A y \in Read(r)' : y \in Projects /\ Removes(Ask(r), y)
              /\ \A x \in Projects : Rejects(Ask(r), x) /\ Link(r, x) \in db'.links =>
                   x \in Read(r)' \/ Addable(r, Link(r, x))
         /\ At(r, "unlinkStages")' =>
              /\ Read(r)' \subseteq Stages \ Ask(r).stages
              /\ \A x \in Stages : Rejects(Ask(r), x) /\ Link(r, x) \in db'.links =>
                   x \in Read(r)' \/ Addable(r, Link(r, x))
<1> DEFINE a == Ask(r)
           i == requests'[r].at
<1>0. /\ RequestsOK /\ r \in Busy /\ a \in Asks /\ a.kind = "updateCluster"
      /\ ListsOK(r) /\ ListsFollow(r) /\ i \in 1..Len(Steps(a)) /\ Ask(r)' = a
  BY HandleForms, OwnPlace DEF TInv, Kind, LinkOK, Busy
<1>1. a.id \in Clusters
  BY <1>0, TopologyAssumption DEF Accepted
<1>2. \A x \in Projects \cup Stages : x \in Linkables \ {a.id}
  BY <1>1, Disjoint DEF Linkables
<1>3. \A x \in Projects \cup Stages :
        Rejects(a, x) /\ Link(r, x) \in db'.links => Link(r, x) \in db.links
  BY <1>0, <1>2, OwnLinks
<1>4. CASE requests'[r].at = requests[r].at
  <2>1. \A step : At(r, step)' <=> At(r, step)
    BY <1>0, <1>4, OwnPlace
  <2>2. \A read : ~Go(r, read)
    BY <1>0, <1>4, GoMoves DEF RequestsOK, RequestOK, Busy
  <2>3. \A answer \in {"refused", "failed", "threw"} : ~End(r, answer)
    BY <1>0, EndMoves DEF Answered
  <2>4. ~At(r, "moveCluster") /\ ~At(r, "readProjects")
    <3>1. ASSUME At(r, "moveCluster") \/ At(r, "readProjects")
          PROVE  FALSE
      <4>1. UpdateCluster(r)
        BY <3>1 DEF Handle, CallHook, RunHook, ZoneStep, CreateCluster, UpdateCluster,
           LinkProjects, DeleteCluster, StageStep, UnlinkClusters, QuotaStep, DeleteRow,
           EnvironmentStep, At
      <4>2. QED BY <2>2, <2>3, <3>1, <4>1 DEF UpdateCluster, Check, Write, At
    <3>2. QED BY <3>1
  <2>5. ~At(r, "linkProjects")
    BY <2>2, <2>3, LinkSteps DEF LinkProjects
  <2>6. ASSUME At(r, "unlinkProjects")
        PROVE  /\ \A y \in Read(r)' : y \in Projects /\ Removes(a, y)
               /\ \A x \in Projects : Rejects(a, x) /\ Link(r, x) \in db'.links =>
                    x \in Read(r)' \/ Addable(r, Link(r, x))
    <3>1. /\ Read(r)' \subseteq Read(r)
          /\ \A x : x \in Read(r) /\ Link(r, x) \in db'.links => x \in Read(r)'
      BY <1>4, <2>6, LinkSteps, LoopLists
    <3>2. \A y \in Read(r) : y \in Projects /\ Removes(a, y)
      BY <1>0, <2>6 DEF ListsOK
    <3>3. \A x \in Projects : Found(r, x) <=> x \in Read(r)
      BY <1>0, <2>6 DEF Found, Kind, At
    <3>4. \A x \in Projects : Rejects(a, x) /\ Link(r, x) \in db.links =>
            x \in Read(r) \/ Addable(r, Link(r, x))
      BY <1>0, <1>2, <2>6, <3>3 DEF ListsFollow, Holds
    <3>5. QED BY <1>3, <3>1, <3>2, <3>4
  <2>7. ASSUME At(r, "unlinkStages")
        PROVE  /\ Read(r)' \subseteq Stages \ a.stages
               /\ \A x \in Stages : Rejects(a, x) /\ Link(r, x) \in db'.links =>
                    x \in Read(r)' \/ Addable(r, Link(r, x))
    <3>1. /\ Read(r)' \subseteq Read(r)
          /\ \A x : x \in Read(r) /\ Link(r, x) \in db'.links => x \in Read(r)'
      BY <1>0, <1>4, <2>7, LinkSteps, LoopLists
    <3>2. Read(r) \subseteq Stages \ a.stages
      BY <1>0, <2>7 DEF ListsOK
    <3>3. \A x \in Stages : Found(r, x) <=> x \in Read(r)
      BY <1>0, <2>7 DEF Found, Kind, At
    <3>4. \A x \in Stages : Rejects(a, x) /\ Link(r, x) \in db.links =>
            x \in Read(r) \/ Addable(r, Link(r, x))
      BY <1>0, <1>2, <2>7, <3>3 DEF ListsFollow, Holds
    <3>5. QED BY <1>3, <3>1, <3>2, <3>4
  <2>8. QED BY <2>1, <2>4, <2>5, <2>6, <2>7
<1>5. CASE requests'[r].at # requests[r].at
  <2>1. Goes(r) /\ At(r, Steps(a)[i - 1])
    BY <1>0, <1>5, OwnPlace
  <2>2. \A step : At(r, step)' => Steps(a)[i] = step
    BY <1>0 DEF At
  <2>3. /\ At(r, "writeCluster") /\ Given(a, "privacy") => Read(r)' = a.privacy
        /\ At(r, "moveCluster") => Read(r)' = Read(r)
        /\ At(r, "readProjects") => Read(r)' = <<Read(r), ProjectsToRemove(r)>> /\ db' = db
        /\ At(r, "linkProjects") => Read(r)' = Read(r)[2]
        /\ At(r, "readStages") => Read(r)' = Linked(a.id, Stages) \ a.stages /\ db' = db
    BY <2>1, ClusterReads
  <2>4. /\ At(r, "moveCluster")' \/ At(r, "readProjects")' =>
             At(r, "writeCluster") \/ At(r, "moveCluster")
        /\ At(r, "linkProjects")' => At(r, "readProjects")
        /\ At(r, "unlinkProjects")' => At(r, "linkProjects")
        /\ At(r, "unlinkStages")' => At(r, "readStages")
    BY <1>0, <2>1, <2>2, ClusterOrder DEF Comes
  <2>5. (At(r, "moveCluster")' \/ At(r, "readProjects")') /\ Given(a, "privacy") =>
          Read(r)' = a.privacy
    BY <1>0, <2>3, <2>4 DEF ListsOK
  <2>6. ASSUME At(r, "linkProjects")'
        PROVE  /\ Given(a, "privacy") => Read(r)'[1] = a.privacy
               /\ \A y \in Read(r)'[2] : y \in Projects /\ Removes(a, y)
               /\ \A x \in Projects : Rejects(a, x) /\ Link(r, x) \in db'.links =>
                    x \in Read(r)'[2] \/ Addable(r, Link(r, x))
    <3>1. Read(r)'[1] = Read(r) /\ Read(r)'[2] = ProjectsToRemove(r) /\ db' = db
      BY <2>3, <2>4, <2>6
    <3>2. Given(a, "privacy") => Read(r) = a.privacy
      BY <1>0, <2>4, <2>6 DEF ListsOK
    <3>3. QED BY <1>0, <3>1, <3>2, RemovedProjects
  <2>7. ASSUME At(r, "unlinkProjects")'
        PROVE  /\ \A y \in Read(r)' : y \in Projects /\ Removes(a, y)
               /\ \A x \in Projects : Rejects(a, x) /\ Link(r, x) \in db'.links =>
                    x \in Read(r)' \/ Addable(r, Link(r, x))
    <3>1. Read(r)' = Read(r)[2] /\ At(r, "linkProjects")
      BY <2>3, <2>4, <2>7
    <3>2. \A y \in Read(r)[2] : y \in Projects /\ Removes(a, y)
      BY <1>0, <3>1 DEF ListsOK, Kind
    <3>3. \A x : Found(r, x) <=> x \in Read(r)[2]
      BY <1>0, <3>1 DEF Found, Kind
    <3>4. \A x \in Projects : Rejects(a, x) /\ Link(r, x) \in db.links =>
            x \in Read(r)[2] \/ Addable(r, Link(r, x))
      BY <1>0, <1>2, <3>1, <3>3 DEF ListsFollow, Holds
    <3>5. QED BY <1>3, <3>1, <3>2, <3>4
  <2>8. ASSUME At(r, "unlinkStages")'
        PROVE  /\ Read(r)' \subseteq Stages \ a.stages
               /\ \A x \in Stages : Rejects(a, x) /\ Link(r, x) \in db'.links =>
                    x \in Read(r)' \/ Addable(r, Link(r, x))
    <3>1. Read(r)' = Linked(a.id, Stages) \ a.stages /\ db' = db
      BY <2>3, <2>4, <2>8
    <3>2. \A x \in Stages : Rejects(a, x) => x \notin a.stages
      <4>1. \A x \in Stages : FieldOf(x) = "stages" /\ x \notin Projects
        BY Fields, Disjoint DEF Linkables
      <4>2. QED BY <4>1 DEF Rejects
    <3>3. QED BY <3>1, <3>2 DEF Linked, Link
  <2>9. QED BY <2>5, <2>6, <2>7, <2>8
<1>6. QED BY <1>4, <1>5

\* The lists of a request, after its own step.
LEMMA OwnLists ==
  ASSUME TInv, NEW r \in Requests, Handle(r), LinkOK(r), requests'[r].at # 0
  PROVE  ListsOK(r)' /\ ListsFollow(r)'
<1> DEFINE a == Ask(r)
           i == requests'[r].at
<1>0. /\ RequestsOK /\ a \in Asks /\ Kind(r) = a.kind /\ Ask(r)' = a /\ Kind(r)' = Kind(r)
      /\ i \in 1..Len(Steps(a)) /\ Met(r)' = Met(r)
  BY OwnPlace, MetStays DEF TInv
<1>1. /\ \A x : Link(r, x)' = Link(r, x)
      /\ \A l : (Addable(r, l)' <=> Addable(r, l)) /\ (Removable(r, l)' <=> Removable(r, l))
  BY <1>0 DEF Link, Addable, Removable
<1>2. \A step : At(r, step)' <=> Steps(a)[i] = step
  BY <1>0 DEF At
<1>3. Accepted(a) /\ Steps(a)[i] \in Vocabulary(a)
  BY <1>0, StepsTyped, TopologyAssumption
<1>4. /\ Steps(a)[i] \in {"moveCluster", "readProjects", "unlinkProjects"} =>
           a.kind = "updateCluster"
      /\ a.kind \in {"updateStage", "updateQuota"} => Steps(a)[i] # "linkProjects"
  BY <1>3 DEF Accepted, Vocabulary, Only
<1>5. CASE a.kind = "updateStage"
  <2>1. /\ DOMAIN Read(r)' = {"name", "clusters", "quotas"}
        /\ Read(r)'.clusters \subseteq Clusters /\ Read(r)'.quotas \subseteq Quotas
        /\ \A x \in Linkables \ {a.id} :
             /\ Rejects(a, x) /\ Link(r, x) \in db'.links =>
                  x \in Read(r)'.clusters \cup Read(r)'.quotas \/ Addable(r, Link(r, x))
             /\ Wants(a, x) /\ x \in Read(r)'.quotas =>
                  Link(r, x) \in db'.links \/ Removable(r, Link(r, x))
    BY <1>0, <1>5, StageLists
  <2>2. ListsOK(r)'
    BY <1>0, <1>2, <1>4, <1>5, <2>1 DEF ListsOK, HasRead
  <2>3. \A x : Found(r, x)' <=> x \in Read(r)'.clusters \cup Read(r)'.quotas
    BY <1>0, <1>2, <1>4, <1>5 DEF Found
  <2>4. QED BY <1>0, <1>1, <2>1, <2>2, <2>3 DEF ListsFollow
<1>6. CASE a.kind = "updateQuota"
  <2>1. /\ Read(r)' \subseteq Stages
        /\ \A x \in Linkables \ {a.id} :
             Rejects(a, x) /\ Link(r, x) \in db'.links =>
               x \in Read(r)' \/ Addable(r, Link(r, x))
    BY <1>0, <1>6, QuotaLists
  <2>2. ListsOK(r)'
    BY <1>0, <1>2, <1>4, <1>6, <2>1 DEF ListsOK, HasRead
  <2>3. \A x : Found(r, x)' <=> x \in Read(r)'
    BY <1>0, <1>2, <1>4, <1>6 DEF Found
  <2>4. ~HasRead(r, "updateStage")'
    BY <1>0, <1>6 DEF HasRead
  <2>5. QED BY <1>0, <1>1, <2>1, <2>2, <2>3, <2>4 DEF ListsFollow
<1>7. CASE a.kind = "updateCluster"
  <2>1. ~HasRead(r, "updateStage")' /\ ~HasRead(r, "updateQuota")'
    BY <1>0, <1>7 DEF HasRead
  <2>2. /\ (At(r, "moveCluster")' \/ At(r, "readProjects")') /\ Given(a, "privacy") =>
             Read(r)' = a.privacy
        /\ At(r, "linkProjects")' =>
             /\ Given(a, "privacy") => Read(r)'[1] = a.privacy
             /\ \A y \in Read(r)'[2] : y \in Projects /\ Removes(a, y)
             /\ \A x \in Projects : Rejects(a, x) /\ Link(r, x) \in db'.links =>
                  x \in Read(r)'[2] \/ Addable(r, Link(r, x))
        /\ At(r, "unlinkProjects")' =>
             /\ \A y \in Read(r)' : y \in Projects /\ Removes(a, y)
             /\ \A x \in Projects : Rejects(a, x) /\ Link(r, x) \in db'.links =>
                  x \in Read(r)' \/ Addable(r, Link(r, x))
        /\ At(r, "unlinkStages")' =>
             /\ Read(r)' \subseteq Stages \ a.stages
             /\ \A x \in Stages : Rejects(a, x) /\ Link(r, x) \in db'.links =>
                  x \in Read(r)' \/ Addable(r, Link(r, x))
    BY <1>0, <1>7, ClusterLists
  <2>3. ListsOK(r)'
    BY <1>0, <2>1, <2>2 DEF ListsOK
  <2>4. \A x : /\ At(r, "linkProjects")' => (Found(r, x)' <=> x \in Read(r)'[2])
               /\ ~At(r, "linkProjects")' => (Found(r, x)' <=> x \in Read(r)')
    BY <1>0, <1>7 DEF Found
  <2>5. /\ At(r, "unlinkProjects")' => ~At(r, "linkProjects")'
        /\ At(r, "unlinkStages")' => ~At(r, "linkProjects")'
    BY <1>2
  <2>6. QED BY <1>0, <1>1, <2>1, <2>2, <2>3, <2>4, <2>5 DEF ListsFollow, Holds
<1>8. CASE a.kind \notin {"updateStage", "updateQuota", "updateCluster"}
  <2>1. /\ ~HasRead(r, "updateStage")' /\ ~HasRead(r, "updateQuota")'
        /\ ~At(r, "moveCluster")' /\ ~At(r, "readProjects")' /\ ~At(r, "unlinkProjects")'
        /\ Kind(r)' # "updateCluster"
    BY <1>0, <1>2, <1>4, <1>8 DEF HasRead
  <2>2. QED BY <2>1 DEF ListsOK, ListsFollow, Holds
<1>9. QED BY <1>5, <1>6, <1>7, <1>8

LEMMA OwnLinked ==
  ASSUME TInv, NEW r \in Requests, Handle(r), LinkOK(r)
  PROVE  LinkOK(r)'
<1> SUFFICES ASSUME requests'[r].at # 0
             PROVE  LinkOK(r)'
  BY DEF LinkOK
<1>0. RequestsOK /\ r \in Busy
  BY HandleForms DEF TInv
<1>1. LinksLeft(r, requests[r].at - 1) /\ ListsOK(r)
  BY <1>0 DEF LinkOK, Busy
<1>2. LinksLeft(r, requests[r].at - 1)'
  <2>1. CASE requests'[r].at = requests[r].at
    <3>1. PICK n : n = requests[r].at - 1
      OBVIOUS
    <3>2. LinksLeft(r, n)'
      BY <1>1, <3>1, OwnLeft
    <3>3. requests'[r].at - 1 = n
      BY <2>1, <3>1
    <3>4. QED BY <3>2, <3>3 DEF LinksLeft, Passed
  <2>2. CASE requests'[r].at # requests[r].at
    <3>1. Goes(r) /\ requests'[r].at = requests[r].at + 1 /\ requests[r].at \in Nat
      BY <1>0, <2>2, OwnPlace
    <3>2. PICK n : n = requests[r].at
      OBVIOUS
    <3>3. LinksLeft(r, n)'
      BY <3>1, <3>2, OwnGone
    <3>4. requests'[r].at - 1 = n
      BY <3>1, <3>2
    <3>5. QED BY <3>3, <3>4 DEF LinksLeft, Passed
  <2>3. QED BY <2>1, <2>2
<1>3. QED BY <1>2, OwnLists DEF LinkOK

LEMMA LinkInvHolds == Spec => []LinkInv
<1>1. Init => LinkInv
  BY DEF Init, Unborn, LinkInv, LinkOK
<1>2. SInv /\ LinkInv /\ [Next]_vars => LinkInv'
  <2> SUFFICES ASSUME SInv, LinkInv, [Next]_vars, NEW r \in Requests
               PROVE  LinkOK(r)'
    BY DEF LinkInv
  <2>0. TInv /\ RequestsOK /\ MetOK /\ LinkOK(r)
    BY DEF SInv, TInv, LinkInv
  <2>1. ASSUME NEW q \in Requests, Receive(q)
        PROVE  LinkOK(r)'
    BY <2>0, <2>1, ReceiveLinked
  <2>2. ASSUME NEW q \in Requests, Handle(q)
        PROVE  LinkOK(r)'
    <3>1. ListsOK(q)
      BY <2>2, HandleForms DEF LinkInv, LinkOK, Busy
    <3>2. CASE q = r
      BY <2>0, <2>2, <3>2, OwnLinked
    <3>3. CASE q # r
      BY <2>0, <2>2, <3>1, <3>3, OthersLinked
    <3>4. QED BY <3>2, <3>3
  <2>3. CASE UNCHANGED vars
    <3>1. db' = db /\ requests' = requests
      BY <2>3 DEF vars
    <3>2. Met(r)' = Met(r)
      BY <3>1 DEF Met, Ask
    <3>3. QED BY <2>0, <3>1, <3>2, LinksStay
  <2>4. QED BY <2>1, <2>2, <2>3 DEF Next
<1>3. QED BY <1>1, <1>2, SInvHolds, PTL DEF Spec

\* A request that answers with success leaves the links its body asked for,
\* and none of those it left out, unless one it has met may have done the
\* opposite.  The links are written from both ends, in loops over lists read
\* several awaits before: what has still to be removed stays in the list,
\* because no one else adds a link without meeting the request (updateCluster,
\* updateStage and updateQuota of the resources of the server).
THEOREM LinksAsAsked == Spec => LinksAreAsked
<1>1. SInv /\ LinkInv /\ [Next]_vars =>
        [\A r \in Requests : Answers(r, "ok") =>
           \A x \in (Projects \cup Clusters \cup Stages \cup Quotas) \ {Ask(r).id} :
             LET l == {Ask(r).id, x} IN
               /\ Wants(Ask(r), x) =>
                    \/ l \in db'.links
                    \/ \E b \in Met(r) : b.id \in l /\ Removes(b, Other(b, l))
               /\ Rejects(Ask(r), x) =>
                    \/ l \notin db'.links
                    \/ \E b \in Met(r) : b.id \in l /\ Adds(b, Other(b, l))]_vars
  <2> SUFFICES ASSUME SInv, LinkInv, Next, NEW r \in Requests, Answers(r, "ok"),
                      NEW x \in Linkables \ {Ask(r).id}
               PROVE  /\ Wants(Ask(r), x) =>
                           Link(r, x) \in db'.links \/ Removable(r, Link(r, x))
                      /\ Rejects(Ask(r), x) =>
                           Link(r, x) \notin db'.links \/ Addable(r, Link(r, x))
    BY DEF Linkables, Link, Removable, Addable
  <2>0. TInv /\ RequestsOK /\ MetOK /\ LinkOK(r) /\ r \in Busy
    BY DEF SInv, TInv, LinkInv, Answers, Busy
  <2>1. Handle(r)
    <3>1. PICK q \in Requests : Receive(q) \/ Handle(q)
      BY DEF Next
    <3>2. ~Receive(q)
      BY <2>0, ReceiveKeeps DEF Answers
    <3>3. q = r
      BY <2>0, <3>1, <3>2, HandleMoves DEF Moved, Answers
    <3>4. QED BY <3>1, <3>2, <3>3
  <2>2. requests[r].at = Len(Steps(Ask(r))) /\ Goes(r) /\ Ask(r) \in Asks
    BY <2>0, <2>1, HandleMoves DEF Answers, Goes, RequestsOK, RequestOK, Ask
  <2>3. PICK n : n = requests[r].at
    OBVIOUS
  <2>4. LinksLeft(r, n)'
    BY <2>0, <2>1, <2>2, <2>3, OwnGone
  <2>5. Ask(r)' = Ask(r) /\ Met(r)' = Met(r)
    BY <2>0, <2>1, MetStays
  <2>6. /\ Link(r, x)' = Link(r, x)
        /\ \A step : Passed(r, n, step)' <=> Passed(r, n, step)
        /\ \A l : (Addable(r, l)' <=> Addable(r, l)) /\ (Removable(r, l)' <=> Removable(r, l))
    BY <2>5 DEF Link, Passed, Addable, Removable
  <2>7. \A step : Member(Steps(Ask(r)), step) => Passed(r, n, step)
    BY <2>2, <2>3 DEF Member, Passed
  <2>8. /\ Wants(Ask(r), x) => Member(Steps(Ask(r)), LinkStep(x))
        /\ Rejects(Ask(r), x) => Member(Steps(Ask(r)), CutStep(Ask(r), x))
    BY <2>2, AskedSteps
  <2>9. QED BY <2>4, <2>5, <2>6, <2>7, <2>8 DEF LinksLeft
<1>2. QED BY <1>1, SInvHolds, LinkInvHolds, PTL DEF Spec, LinksAreAsked

=============================================================================
