---------------------------- MODULE Provisioning ----------------------------
(***************************************************************************)
(* Requests of the console carried out by the plugins: what hook.execute   *)
(* does with the functions of the plugins (packages/hooks/src/hooks/hook.ts)*)
(* down to the requests these functions send to the services, and the      *)
(* retry of the server (hook-wrapper.ts).                                  *)
(*                                                                         *)
(* A step of this specification is one request to a service: it succeeds,  *)
(* is refused by the service, or fails with or without having been done.   *)
(* The requests of a function that has already replied go on without       *)
(* anyone waiting for them: they are late.                                 *)
(***************************************************************************)
EXTENDS Services

CONSTANTS
  Scenarios     \* of each behaviour: plugins, initial facts, requests, how many
                \* mishaps, how many requests late at once (the others stop)

ASSUME ProvisioningAssumption ==
  \A s \in Scenarios : s.mishaps \in Nat /\ s.late \in Nat

VARIABLES
  scenario,   \* chosen at the beginning
  turn,       \* the request in progress, an index in scenario.requests
  attempt,    \* the number of its execution
  step,       \* the step of the hook in progress
  at,         \* the phase each plugin function is in, 0 when it has replied
  calls,      \* requests sent to the services, awaited by a function
  late,       \* those nobody awaits, with the payload and memory they use and
              \* the hook they were sent for
  met,        \* plugins whose late requests an execution has found (history)
  reply,      \* what the functions have replied in this step, when not OK
  warned,     \* payload.warning
  outcome,    \* of the request
  facts,      \* what exists on the services
  memory,     \* what the apis of the payload remember
  okStatus,   \* the status of the object that some functions reply
  mishaps,    \* failures and restarts so far
  before      \* those before the request in progress

vars == <<scenario, turn, attempt, step, at, calls, late, met, reply, warned,
          outcome, facts, memory, okStatus, mishaps, before>>

-----------------------------------------------------------------------------
(* The plugins and their functions.                                        *)

Kubernetes == INSTANCE KubernetesPlugin
Vault      == INSTANCE VaultPlugin
GitLab     == INSTANCE GitLabPlugin
ArgoCD     == INSTANCE ArgoCDPlugin
Keycloak   == INSTANCE KeycloakPlugin
Harbor     == INSTANCE HarborPlugin
Nexus      == INSTANCE NexusPlugin
SonarQube  == INSTANCE SonarQubePlugin

Plugins == {"kubernetes", "vault", "gitlab", "argocd", "keycloak", "harbor",
            "nexus", "sonarqube"}

\* No namespace is on a cluster the console does not reach.
ASSUME ScenariosAssumption ==
  \A s \in Scenarios :
    /\ s.plugins \subseteq Plugins
    /\ \A f \in s.facts :
         ~(f[1] = "kubernetes" /\ f[2] = "namespace" /\ f[3] \in ExternalEnvs)

Phases(p, h, st) ==
  CASE p = "kubernetes" -> Kubernetes!Phases(h, st)
    [] p = "vault"      -> Vault!Phases(h, st)
    [] p = "gitlab"     -> GitLab!Phases(h, st)
    [] p = "argocd"     -> ArgoCD!Phases(h, st)
    [] p = "keycloak"   -> Keycloak!Phases(h, st)
    [] p = "harbor"     -> Harbor!Phases(h, st)
    [] p = "nexus"      -> Nexus!Phases(h, st)
    [] p = "sonarqube"  -> SonarQube!Phases(h, st)

Opening(p, phase, w, s, m) ==
  CASE p = "kubernetes" -> Kubernetes!Opening(phase, w, s, m)
    [] p = "vault"      -> Vault!Opening(phase, w, s, m)
    [] p = "gitlab"     -> GitLab!Opening(phase, w, s, m)
    [] p = "argocd"     -> ArgoCD!Opening(phase, w, s, m)
    [] p = "keycloak"   -> Keycloak!Opening(phase, w, s, m)
    [] p = "harbor"     -> Harbor!Opening(phase, w, s, m)
    [] p = "nexus"      -> Nexus!Opening(phase, w, s, m)
    [] p = "sonarqube"  -> SonarQube!Opening(phase, w, s, m)

Then(c, w, s, m) ==
  CASE c[1] = "kubernetes" -> Kubernetes!Then(c, w, s, m)
    [] c[1] = "vault"      -> Vault!Then(c, w, s, m)
    [] c[1] = "gitlab"     -> GitLab!Then(c, w, s, m)
    [] c[1] = "argocd"     -> ArgoCD!Then(c, w, s, m)
    [] c[1] = "keycloak"   -> Keycloak!Then(c, w, s, m)
    [] c[1] = "harbor"     -> Harbor!Then(c, w, s, m)
    [] c[1] = "nexus"      -> Nexus!Then(c, w, s, m)
    [] c[1] = "sonarqube"  -> SonarQube!Then(c, w, s, m)

Effect(c, w, s, m) ==
  CASE c[1] = "kubernetes" -> Kubernetes!Effect(c, w, s, m)
    [] c[1] = "vault"      -> Vault!Effect(c, w, s, m)
    [] c[1] = "gitlab"     -> GitLab!Effect(c, w, s, m)
    [] c[1] = "argocd"     -> ArgoCD!Effect(c, w, s, m)
    [] c[1] = "keycloak"   -> Keycloak!Effect(c, w, s, m)
    [] c[1] = "harbor"     -> Harbor!Effect(c, w, s, m)
    [] c[1] = "nexus"      -> Nexus!Effect(c, w, s, m)
    [] c[1] = "sonarqube"  -> SonarQube!Effect(c, w, s, m)

Learn(c, w, s, m) ==
  CASE c[1] = "gitlab"    -> GitLab!Learn(c, w, s, m)
    [] c[1] = "argocd"    -> ArgoCD!Learn(c, w, s, m)
    [] c[1] = "harbor"    -> Harbor!Learn(c, w, s, m)
    [] c[1] = "nexus"     -> Nexus!Learn(c, w, s, m)
    [] c[1] = "sonarqube" -> SonarQube!Learn(c, w, s, m)
    [] OTHER              -> m

Refused(c, w, s, m) ==
  CASE c[1] = "kubernetes" -> Kubernetes!Refused(c, w, s, m)
    [] c[1] = "vault"      -> Vault!Refused(c, w, s, m)
    [] c[1] = "gitlab"     -> GitLab!Refused(c, w, s, m)
    [] c[1] = "argocd"     -> ArgoCD!Refused(c, w, s, m)
    [] c[1] = "keycloak"   -> Keycloak!Refused(c, w, s, m)
    [] c[1] = "harbor"     -> Harbor!Refused(c, w, s, m)
    [] c[1] = "nexus"      -> Nexus!Refused(c, w, s, m)
    [] c[1] = "sonarqube"  -> SonarQube!Refused(c, w, s, m)

OnError(c) ==
  CASE c[1] = "kubernetes" -> Kubernetes!OnError(c)
    [] c[1] = "vault"      -> Vault!OnError(c)
    [] c[1] = "gitlab"     -> GitLab!OnError(c)
    [] c[1] = "harbor"     -> Harbor!OnError(c)
    [] c[1] = "nexus"      -> Nexus!OnError(c)
    [] c[1] = "sonarqube"  -> SonarQube!OnError(c)
    [] OTHER               -> "KO"

Rescue(c) ==
  CASE c[1] = "kubernetes" -> Kubernetes!Rescue(c)
    [] c[1] = "vault"      -> Vault!Rescue(c)
    [] c[1] = "harbor"     -> Harbor!Rescue(c)
    [] OTHER               -> {}

\* The functions that reply the object okStatus itself; commitFiles replies
\* what upsertZone has replied.
RepliesOkStatus(p, h, st) ==
  \/ p = "vault"  /\ <<h, st>> \in {<<"upsertProject", "post">>,
                                    <<"upsertZone", "pre">>, <<"deleteZone", "main">>}
  \/ p = "gitlab" /\ h = "upsertZone"

-----------------------------------------------------------------------------
(* Running the functions of a step.                                        *)

Focus == scenario.plugins

Request == scenario.requests[turn]

Hook == Request[1]

Wish == Request[2]

\* The first phase after i that has requests to send; 0 when the function
\* replies instead.
NextPhase(p, h, st, i, w, s, m) ==
  LET ph == Phases(p, h, st)
      Ready(j) == Opening(p, ph[j], w, s, m) # {}
  IN IF \E j \in i + 1..Len(ph) : Ready(j)
       THEN CHOOSE j \in i + 1..Len(ph) : Ready(j) /\ \A k \in i + 1..j - 1 : ~Ready(k)
       ELSE 0

OpeningAt(p, h, st, i, w, s, m) ==
  IF i = 0 THEN {} ELSE Opening(p, Phases(p, h, st)[i], w, s, m)

\* Promise.all(fns): the functions of a step begin together.
Start(h, st, w, s, m) ==
  /\ step' = st
  /\ reply' = [p \in Focus |-> "OK"]
  /\ at' = [p \in Focus |-> NextPhase(p, h, st, 0, w, s, m)]
  /\ calls' = UNION {OpeningAt(p, h, st, at'[p], w, s, m) : p \in Focus}

\* hooks.<hook>.execute: new apis, nothing warned about.
Execute(h, w) ==
  /\ Start(h, "pre", w, facts, {})
  /\ memory' = {}
  /\ warned' = {}

Init ==
  /\ scenario \in Scenarios
  /\ turn = 0
  /\ attempt = 0
  /\ step = "pre"
  /\ at = [p \in scenario.plugins |-> 0]
  /\ calls = {}
  /\ late = {}
  /\ met = {}
  /\ reply = [p \in scenario.plugins |-> "OK"]
  /\ warned = {}
  /\ outcome = "none"
  /\ facts = scenario.facts
  /\ memory = {}
  /\ okStatus = "OK"
  /\ mishaps = 0
  /\ before = 0

LatePlugins == {l[1][1] : l \in late}

\* The next request of the console, which knows nothing of what is late.
Ask ==
  /\ outcome # "pending"
  /\ turn < Len(scenario.requests)
  /\ met' = LatePlugins
  /\ turn' = turn + 1
  /\ attempt' = 1
  /\ outcome' = "pending"
  /\ before' = mishaps
  /\ Execute(scenario.requests[turn + 1][1], scenario.requests[turn + 1][2])
  /\ UNCHANGED <<scenario, late, facts, okStatus, mishaps>>

-----------------------------------------------------------------------------
(* Requests to the services.                                               *)

Of(p, cs) == {c \in cs : c[1] = p}

\* A plugin whose requests have all ended goes to its next phase.
Resume(p, ongoing) ==
  IF Of(p, ongoing) # {}
    THEN calls' = ongoing /\ at' = at
    ELSE LET i == NextPhase(p, Hook, step, at[p], Wish, facts', memory')
         IN /\ at' = [at EXCEPT ![p] = i]
            /\ calls' = ongoing \cup
                 OpeningAt(p, Hook, step, i, Wish, facts', memory')

\* The deletion of a robot is sent and not awaited (harbor/src/robot.ts).
Unawaited(cs) == {c \in cs : c[1] = "harbor" /\ c[2] \in Harbor!Unawaited}

\* What happens to requests nobody awaits any more: some go on.
Leave(cs) ==
  \E some \in SUBSET cs :
    /\ Cardinality(late) + Cardinality(some) <= scenario.late
    /\ late' = late \cup {<<c, Wish, memory, Hook>> : c \in some}

Succeed(c) ==
  /\ ~Refused(c, Wish, facts, memory)
  /\ facts' = Effect(c, Wish, facts, memory)
  /\ memory' = Learn(c, Wish, facts, memory)
  /\ LET next == Then(c, Wish, facts', memory')
     IN /\ Resume(c[1], (calls \ {c}) \cup (next \ Unawaited(next)))
        /\ Leave(Unawaited(next))
  /\ UNCHANGED <<scenario, turn, attempt, step, met, reply, warned, outcome,
                 okStatus, mishaps, before>>

Worse(p, r) == reply' = [reply EXCEPT ![p] = r]

\* The error is handled where it occurs: the chain goes on, or ends alone.
Handled(c) ==
  /\ OnError(c) \in {"caught", "settled"}
  /\ IF OnError(c) = "settled" THEN Worse(c[1], "WARNING") ELSE reply' = reply
  /\ memory' = memory \cup (CASE c[1] = "gitlab" -> {<<"rejected", "", c[3], "">>}
                               [] c[1] = "harbor" -> Harbor!Unread(c)
                               [] OTHER           -> {})
  /\ Resume(c[1], (calls \ {c}) \cup Rescue(c))
  /\ UNCHANGED <<late, okStatus>>


\* The error ends a part of the function: what went with it becomes late.
EndsPhase(c) ==
  /\ OnError(c) = "phase"
  /\ Worse(c[1], "WARNING")
  /\ memory' = memory
  /\ Leave(Of(c[1], calls) \ {c})
  /\ Resume(c[1], calls \ Of(c[1], calls))
  /\ UNCHANGED okStatus

\* The error ends the function, whose catch replies.  Those of gitlab for a
\* zone write KO in the object they share.
EndWith(c, r) ==
  /\ Worse(c[1], r)
  /\ at' = [at EXCEPT ![c[1]] = 0]
  /\ Leave(Of(c[1], calls) \ {c})
  /\ calls' = calls \ Of(c[1], calls)
  /\ okStatus' = IF c[1] = "gitlab" /\ RepliesOkStatus("gitlab", Hook, step)
                   THEN "KO" ELSE okStatus
  /\ UNCHANGED memory

EndsFunction(c) ==
  /\ OnError(c) \in {"warn", "KO"}
  /\ EndWith(c, IF OnError(c) = "warn" THEN "WARNING" ELSE "KO")

\* No answer came, of whatever status.
Unanswered(c) ==
  /\ c[1] = "harbor" /\ c[2] \in Harbor!AnyStatus
  /\ EndWith(c, "KO")

\* The promise of the request is rejected.
Rejected(c) ==
  /\ Handled(c) \/ EndsPhase(c) \/ EndsFunction(c)
  /\ UNCHANGED <<scenario, turn, attempt, step, met, warned, outcome, before>>

\* A request the service refuses, or one that fails, done or not.
Refuse(c) ==
  /\ Refused(c, Wish, facts, memory)
  /\ UNCHANGED <<facts, mishaps>>
  /\ Rejected(c)

Fail(c) ==
  /\ mishaps < scenario.mishaps
  /\ mishaps' = mishaps + 1
  /\ \/ facts' = facts
     \/ /\ ~Refused(c, Wish, facts, memory)
        /\ facts' = Effect(c, Wish, facts, memory)
  /\ \/ Rejected(c)
     \/ /\ Unanswered(c)
        /\ UNCHANGED <<scenario, turn, attempt, step, met, warned, outcome, before>>

\* A late request, and those that follow it, with no one to tell.
LateRequest(l) ==
  /\ facts' = IF Refused(l[1], l[2], facts, l[3]) THEN facts
              ELSE Effect(l[1], l[2], facts, l[3])
  /\ late' = (late \ {l}) \cup
       IF Refused(l[1], l[2], facts, l[3]) THEN {}
       ELSE {<<c, l[2], l[3], l[4]>> : c \in Then(l[1], l[2], facts', l[3])}
  /\ UNCHANGED <<scenario, turn, attempt, step, at, calls, met, reply, warned,
                 outcome, memory, okStatus, mishaps, before>>

-----------------------------------------------------------------------------
(* The end of a step, of a hook, of a request.                             *)

\* What executeStep reads when all the functions have replied.
Result(p) ==
  IF reply[p] = "OK" /\ Phases(p, Hook, step) # <<>>
       /\ RepliesOkStatus(p, Hook, step)
    THEN okStatus ELSE reply[p]

Failed == {p \in Focus : Result(p) = "KO"}

Warned == warned \cup {p \in Focus : Result(p) = "WARNING"}

Ended == outcome = "pending" /\ \A p \in Focus : at[p] = 0

NextStep ==
  /\ Ended /\ Failed = {} /\ step # "post"
  /\ warned' = Warned
  /\ Start(Hook, IF step = "pre" THEN "main" ELSE "post", Wish, facts, memory)
  /\ UNCHANGED <<scenario, turn, attempt, late, met, outcome, facts, memory,
                 okStatus, mishaps, before>>

\* hook.project.upsert executes the hook again when it has failed.  Of what the
\* first attempt has left late, only the calls of harbor may undo the second.
MayRetry == Hook = "upsertProject" /\ attempt = 1

Retry ==
  /\ Ended /\ Failed # {} /\ MayRetry
  /\ met' = met \cup (LatePlugins \cap {"harbor"})
  /\ attempt' = 2
  /\ Execute(Hook, Wish)
  /\ UNCHANGED <<scenario, turn, late, outcome, facts, okStatus, mishaps, before>>

Answer ==
  /\ Ended
  /\ \/ Failed # {} /\ ~MayRetry /\ outcome' = "KO"
     \/ Failed = {} /\ step = "post"
          /\ outcome' = IF Warned # {} THEN "WARNING" ELSE "OK"
  /\ warned' = Warned
  /\ UNCHANGED <<scenario, turn, attempt, step, at, calls, late, met, reply,
                 facts, memory, okStatus, mishaps, before>>

\* The server stops, and starts again with a new okStatus; what was sent and
\* not answered is done or is not.
Crash ==
  /\ mishaps < scenario.mishaps
  /\ outcome = "pending"
  /\ mishaps' = mishaps + 1
  /\ outcome' = "crashed"
  /\ okStatus' = "OK"
  /\ at' = [p \in Focus |-> 0]
  /\ calls' = {}
  /\ late' = {}
  /\ met' = {}
  /\ memory' = {}
  /\ warned' = {}
  /\ reply' = [p \in Focus |-> "OK"]
  /\ UNCHANGED <<scenario, turn, attempt, step, facts, before>>

Progress ==
  \/ \E c \in calls : Succeed(c) \/ Refuse(c)
  \/ \E l \in late : LateRequest(l)
  \/ NextStep \/ Retry \/ Answer

Next ==
  \/ Ask
  \/ \E c \in calls : Succeed(c) \/ Refuse(c) \/ Fail(c)
  \/ \E l \in late : LateRequest(l)
  \/ NextStep \/ Retry \/ Answer \/ Crash

Spec == Init /\ [][Next]_vars /\ WF_vars(Progress)

-----------------------------------------------------------------------------
(* What the plugins promise, by plugin and by hook.                        *)

Synced(p, w, s) ==
  CASE p = "kubernetes" -> Kubernetes!Synced(w, s)
    [] p = "vault"      -> Vault!Synced(w, s)
    [] p = "gitlab"     -> GitLab!Synced(w, s)
    [] p = "argocd"     -> ArgoCD!Synced(w, s)
    [] p = "keycloak"   -> Keycloak!Synced(w, s)
    [] p = "harbor"     -> Harbor!Synced(w, s)
    [] p = "nexus"      -> Nexus!Synced(w, s)
    [] p = "sonarqube"  -> SonarQube!Synced(w, s)

Gone(p, w, s) ==
  CASE p = "kubernetes" -> Kubernetes!Gone(w, s)
    [] p = "vault"      -> Vault!Gone(w, s)
    [] p = "gitlab"     -> GitLab!Gone(w, s)
    [] p = "argocd"     -> ArgoCD!Gone(w, s)
    [] p = "keycloak"   -> Keycloak!Gone(w, s)
    [] p = "harbor"     -> Harbor!Gone(w, s)
    [] p = "nexus"      -> Nexus!Gone(w, s)
    [] p = "sonarqube"  -> SonarQube!Gone(w, s)

ZoneSynced(p, s) ==
  CASE p = "vault"    -> Vault!ZoneProvided(s)
    [] p = "gitlab"   -> GitLab!ZoneProvided(s)
    [] p = "argocd"   -> ArgoCD!ZoneProvided(s)
    [] p = "keycloak" -> Keycloak!ZoneProvided(s)

ZoneGone(p, s) ==
  CASE p = "vault"    -> Vault!ZoneGone(s)
    [] p = "gitlab"   -> GitLab!ZoneGone(s)
    [] p = "argocd"   -> ~ArgoCD!ZoneProvided(s)
    [] p = "keycloak" -> Keycloak!ZoneGone(s)

\* What OK says of a plugin: all, or all but what it has not looked at.
Kept(p) ==
  CASE Hook = "upsertProject"  ->
         CASE p = "gitlab" -> GitLab!SyncedBut(Wish, facts, memory)
           [] p = "harbor" -> Harbor!SyncedBut(Wish, facts, memory)
           [] p = "nexus"  -> Nexus!SyncedBut(Wish, facts, memory)
           [] p = "sonarqube" -> SonarQube!SyncedBut(Wish, facts, memory)
           [] OTHER           -> Synced(p, Wish, facts)
    [] Hook = "deleteProject"  -> Gone(p, Wish, facts)
    [] Hook = "upsertZone"     -> ZoneSynced(p, facts)
    [] Hook = "deleteZone"     -> ZoneGone(p, facts)
    [] Hook = "upsertCluster"  -> ArgoCD!ClusterProvided(Wish, facts)
    [] Hook = "deleteCluster"  -> ArgoCD!ClusterGone(facts)
    [] Hook = "syncRepository" -> Wish.repos \subseteq Names(facts, "gitlab", "pipeline")

\* What a project cannot do without while it is provisioned again.
Vital(w, s) ==
  {f \in s :
     \/ f[1] = "kubernetes" /\ f[2] = "namespace" /\ f[3] \in w.envs
     \/ f[1] = "gitlab" /\ f[2] = "repository" /\ f[3] \in w.repos \cup GitLab!Special
     \/ f[1] = "keycloak" /\ f[2] = "member" /\ f[3] \in w.users
     \/ f[1] = "keycloak" /\ f[2] = "env" /\ f[3] \in w.envs
     \/ f[1] = "argocd" /\ f[2] = "appProject" /\ f[3] \in w.envs
     \/ f[1] = "harbor" /\ f[2] = "project"
     \/ f[1] = "vault" /\ f[2] = "project"
     \/ f[1] = "nexus" /\ f[2] = "repository" /\ f[3] \in Nexus!Wanted(w)
     \/ f[1] = "sonarqube" /\ f[2] = "project" /\ f[3] \in w.repos}

Things(s) == {<<f[1], f[2], f[3]>> : f \in s}

Spared(w) == Things(Vital(w, facts)) \subseteq Things(facts')

-----------------------------------------------------------------------------
(* Properties                                                              *)

TypeOK ==
  /\ turn \in 0..Len(scenario.requests)
  /\ attempt \in 0..2
  /\ step \in {"pre", "main", "post"}
  /\ \A c \in calls : c[1] \in Focus /\ at[c[1]] # 0
  /\ \A p \in Focus : at[p] # 0 => Of(p, calls) # {}
  /\ reply \in [Focus -> {"OK", "WARNING", "KO"}]
  /\ warned \subseteq Focus
  /\ outcome \in {"none", "pending", "OK", "WARNING", "KO", "crashed"}
  /\ okStatus \in {"OK", "KO"}


\* Whatever earlier requests left behind, cut short or failed, a request that
\* meets no failure of its own, and nothing late, does not fail: the state of
\* the services never stops the console from putting it in order.  (Only
\* okStatus, the object of packages/hooks/src/utils/utils.ts that an earlier
\* failure of gitlab on a zone has changed, does; a restart cures it.  A
\* synchronisation needs a repository that a request before it may have failed
\* to create.)
CleanRequestsSucceed ==
  outcome = "KO" /\ Hook # "syncRepository" =>
    mishaps # before \/ okStatus = "KO" \/ met # {}

\* Provisioning a project again, even with failures on the way, never takes
\* away what its payload keeps, and neither does a request of this provisioning
\* that comes late, even during later requests of the console.  (What that later
\* request keeps, and the earlier one did not, it may take: nothing makes the
\* console wait.  The members of its group in GitLab are not among what is
\* kept: ensureMembers removes a member whose user it failed to read.)
VitalStays ==
  [][/\ outcome = "pending" /\ outcome' = "pending" /\ Hook = "upsertProject"
         /\ ~(\E l \in late : LateRequest(l)) => Spared(Wish)
     /\ \A l \in late : LateRequest(l) /\ l[4] = "upsertProject" => Spared(l[2])]_vars

\* A project in order stays in order all along when it is provisioned again
\* with the same payload, as long as no function has anything to report and no
\* request is late: its secrets, permissions and files never lapse.
OrderStays ==
  [][\A p \in Focus :
       (outcome = "pending" /\ outcome' = "pending" /\ Hook = "upsertProject"
          /\ late = {} /\ reply[p] = "OK" /\ Synced(p, Wish, facts)) => Synced(p, Wish, facts')]_vars

\* Every request is answered, or cut by a restart.
RequestsEnd == outcome = "pending" ~> outcome # "pending"
=============================================================================
