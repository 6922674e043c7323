----------------------------- MODULE AdminPages -----------------------------
(***************************************************************************)
(* The administration pages, each read from its view, its form and its     *)
(* store.                                                                  *)
(***************************************************************************)
EXTENDS Page

-----------------------------------------------------------------------------
(* Clusters (ListClusters.vue, ClusterForm.vue, stores/cluster.ts).        *)

ClusterStore ==
  [getClusters |-> List, getClusterDetails |-> Details,
   getClusterAssociatedEnvironments |-> Related, addCluster |-> Write("create"),
   updateCluster |-> Write("update"), deleteCluster |-> Write("delete")]

SetSelectedCluster ==
  Handler(Await({ClusterStore.getClusterDetails,
                 ClusterStore.getClusterAssociatedEnvironments}) \o HideNew)

AddCluster ==
  Handler(Close \o Await({ClusterStore.addCluster}) \o Await({ClusterStore.getClusters}))

UpdateCluster ==
  Handler(Await({ClusterStore.updateCluster}) \o Await({ClusterStore.getClusters}) \o Close)

DeleteCluster ==
  Handler(Await({ClusterStore.deleteCluster}) \o Await({ClusterStore.getClusters}) \o LetGo)

MountClusters ==
  Handler(Await({Other}) \o Await({ClusterStore.getClusters}) \o Await({Other}))

\* The fields edit the details that were read, not the list; the parent
\* saves the selected cluster.
ClusterFields == {"savesPicked"}

\* A deletion is offered when the form shows no environment.
ClusterDangerZone == {"unusedOnly"}

ListClusters ==
  [NoPage EXCEPT !.mount = MountClusters, !.pick = SetSelectedCluster,
                 !.add = AddCluster, !.update = UpdateCluster, !.remove = DeleteCluster,
                 !.traits = ClusterFields \cup ClusterDangerZone \cup {"creationForm", "hidesList"}]
-----------------------------------------------------------------------------
(* Zones (ListZones.vue, ZoneForm.vue, stores/zone.ts).                    *)

ZoneStore ==
  [getAllZones |-> List, createZone |-> Write("create"), updateZone |-> Write("update"),
   deleteZone |-> Write("delete")]

SetSelectedZone == Handler(Pick \o HideNew)

\* The zones are read again with the clusters.
ZonesThen(steps) == Await({ZoneStore.getAllZones, Other}) \o steps

CreateZone == Handler(Wait \o Await({ZoneStore.createZone}) \o ZonesThen(Close \o Rest))

UpdateZone == Handler(Wait \o Await({ZoneStore.updateZone}) \o ZonesThen(Close \o Rest))

DeleteZone == Handler(Wait \o Await({ZoneStore.deleteZone}) \o ZonesThen(Close \o Rest))

MountZones == Handler(ZonesThen(<< >>))

ZoneForm == {"alias", "overlay", "unusedListed"}

ListZones ==
  [NoPage EXCEPT !.mount = MountZones, !.pick = SetSelectedZone, !.add = CreateZone,
                 !.update = UpdateZone, !.remove = DeleteZone,
                 !.traits = ZoneForm \cup {"creationForm", "oneForm"}]
-----------------------------------------------------------------------------
(* Stages (ListStages.vue, StageForm.vue, stores/stage.ts).                *)

StageStore ==
  [getAllStages |-> List, getStageAssociatedEnvironments |-> Related,
   addStage |-> Write("create"), updateStage |-> Write("update"),
   deleteStage |-> Write("delete")]

GetStageAssociatedEnvironments ==
  Wait \o Await({StageStore.getStageAssociatedEnvironments}) \o Rest

SetSelectedStage == Handler(Pick \o HideNew \o GetStageAssociatedEnvironments)

AddStage ==
  Handler(Wait \o Close \o Await({StageStore.addStage})
            \o Await({StageStore.getAllStages}) \o Rest)

UpdateStage ==
  Handler(Wait \o Await({StageStore.updateStage})
            \o Await({StageStore.getAllStages}) \o Close \o Rest)

DeleteStage ==
  Handler(Wait \o Close \o Await({StageStore.deleteStage})
            \o Await({StageStore.getAllStages}) \o Rest)

MountStages ==
  Handler(Await({Other}) \o Await({Other}) \o Await({StageStore.getAllStages}))

StageForm == {"alias", "overlay", "unusedOnly"}

ListStages ==
  [NoPage EXCEPT !.mount = MountStages, !.pick = SetSelectedStage, !.add = AddStage,
                 !.update = UpdateStage, !.remove = DeleteStage,
                 !.traits = StageForm \cup {"creationForm", "oneForm"}]
-----------------------------------------------------------------------------
(* Quotas (ListQuotas.vue, QuotaForm.vue, stores/quota.ts).                *)

QuotaStore ==
  [getAllQuotas |-> List, getQuotaAssociatedEnvironments |-> Related,
   addQuota |-> Write("create"), updateQuota |-> Write("update"),
   deleteQuota |-> Write("delete")]

GetQuotaAssociatedEnvironments ==
  Wait \o Await({QuotaStore.getQuotaAssociatedEnvironments}) \o Rest

SetSelectedQuota == Handler(Pick \o HideNew \o GetQuotaAssociatedEnvironments)

\* The stages are read again before the quotas.
QuotasThen(steps) == Await({Other}) \o Await({QuotaStore.getAllQuotas}) \o steps

AddQuota == Handler(Wait \o Close \o Await({QuotaStore.addQuota}) \o QuotasThen(Rest))

UpdateQuota == Handler(Wait \o Await({QuotaStore.updateQuota}) \o QuotasThen(Close \o Rest))

DeleteQuota == Handler(Wait \o Close \o Await({QuotaStore.deleteQuota}) \o QuotasThen(Rest))

MountQuotas == Handler(QuotasThen(Await({Other})))

QuotaForm == {"alias", "overlay", "unusedOnly"}

ListQuotas ==
  [NoPage EXCEPT !.mount = MountQuotas, !.pick = SetSelectedQuota, !.add = AddQuota,
                 !.update = UpdateQuota, !.remove = DeleteQuota,
                 !.traits = QuotaForm \cup {"creationForm", "oneForm"}]
-----------------------------------------------------------------------------
(* Organizations (ListOrganizations.vue, stores/organization.ts): the      *)
(* inputs are in the table; a change hides it until it is confirmed.       *)

OrganizationStore ==
  [listOrganizations |-> List, createOrganization |-> Write("create"),
   updateOrganization |-> Write("update"), syncOrganizations |-> Other]

GetAllOrganizations == Await({OrganizationStore.listOrganizations})

CreateOrganization == Handler(Await({OrganizationStore.createOrganization}) \o GetAllOrganizations)

SyncOrganizations ==
  Handler(Load \o Await({OrganizationStore.syncOrganizations}) \o GetAllOrganizations \o Loaded)

PreUpdateOrganization == Handler(Pick)

UpdateOrganization == Await({OrganizationStore.updateOrganization}) \o GetAllOrganizations

ConfirmUpdateOrganization == Handler(LetGo \o UpdateOrganization)

CancelUpdateOrganization == Handler(LetGo \o GetAllOrganizations)

ListOrganizations ==
  [NoPage EXCEPT !.mount = Handler(GetAllOrganizations), !.pick = PreUpdateOrganization,
                 !.add = CreateOrganization, !.update = ConfirmUpdateOrganization,
                 !.cancel = CancelUpdateOrganization,
                 !.buttons = {Button(SyncOrganizations, "loading")},
                 !.traits = {"hidesList"}]
-----------------------------------------------------------------------------
(* Administration roles (AdminRoles.vue, AdminRoleForm.vue,                *)
(* stores/admin-role.ts): the answer to a creation or a change is the new  *)
(* list.                                                                   *)

\* listRoles also counts the members, for an administrator.
ListRoles == Await({List}) \o Await({Other})

CreateRole == Await({WriteThatLists("create")})

PatchRoles == Await({WriteThatLists("update")})

DeleteRole == Await({Write("delete")}) \o ListRoles

AddRole == Handler(CreateRole \o PickLast)

\* The list is read once by the store and once more by the view; the view
\* reads it when it is opened only if the store has no role.
RemoveRole == Handler(DeleteRole \o ListRoles \o LetGo)

SaveRole == Handler(PatchRoles)

AdminRoleForm == {"keyed", "lookup"}

AdminRoles ==
  [NoPage EXCEPT !.mount = Handler(ListRoles), !.again = {NoHandler},
                 !.pick = Handler(Pick), !.add = AddRole,
                 !.update = SaveRole, !.remove = RemoveRole,
                 !.traits = AdminRoleForm \cup {"savesPicked"}]
-----------------------------------------------------------------------------
(* Tokens of administrators and of users (AdminTokens.vue,                 *)
(* PersonalAccessTokens.vue, TokenForm.vue): a row is selected to be       *)
(* revoked, in a dialog; the list is read again without waiting after a    *)
(* creation or when the revoked ones are shown or hidden.                  *)

GetAllTokens == Await({List})

DeleteToken == Handler(Await({Write("delete")}) \o LetGo \o GetAllTokens)

CreateToken == Handler(Await({Write("create")}) \o Detach \o GetAllTokens)

SwitchDisplayRevoked == Handler(Detach \o GetAllTokens)

TokenForm == {"creationForm", "readOnly"}

AdminTokens ==
  [NoPage EXCEPT !.mount = Handler(GetAllTokens), !.pick = Handler(Pick),
                 !.add = CreateToken, !.remove = DeleteToken, !.traits = TokenForm,
                 !.buttons = {Button(SwitchDisplayRevoked, "")}]

DeletePersonalToken == Handler(Await({Write("delete")}) \o LetGo \o Await({List}))

CreatePersonalToken == Handler(Await({Write("create")}) \o Detach \o Await({List}))

PersonalAccessTokens ==
  [NoPage EXCEPT !.mount = Handler(Await({List})), !.pick = Handler(Pick),
                 !.add = CreatePersonalToken, !.remove = DeletePersonalToken,
                 !.traits = TokenForm]
-----------------------------------------------------------------------------
(* Users (ListUser.vue): read once.                                        *)

MountUsers == Handler(Wait \o Await({Other}) \o Await({List}) \o Rest)

ListUser == [NoPage EXCEPT !.mount = MountUsers]
-----------------------------------------------------------------------------
(* Plugins' configuration (ListPlugins.vue, stores/plugins.ts): what was   *)
(* typed is forgotten each time the values are read.                       *)

PluginsStore == [getPluginsConfig |-> List, updatePluginsConfig |-> Write("update")]

ReloadPlugins == Await({PluginsStore.getPluginsConfig}) \o Forget

SavePlugins ==
  <<Rescued(Wait \o Await({PluginsStore.updatePluginsConfig}) \o EndTry \o ReloadPlugins \o Rest,
            ReloadPlugins \o Rest, "app")>>

ListPlugins ==
  [NoPage EXCEPT !.mount = <<Thread(ReloadPlugins, "nobody")>>, !.update = SavePlugins,
                 !.buttons = {Button(Handler(ReloadPlugins), "")}, !.traits = {"settings"}]
-----------------------------------------------------------------------------
(* Settings of the console (SystemSettings.vue,                            *)
(* stores/system-settings.ts): a toggle is saved at once.                  *)

SystemSettings ==
  [NoPage EXCEPT !.mount = Handler(Await({List})),
                 !.pick = Handler(Await({WriteThatTells("update")}))]
-----------------------------------------------------------------------------
(* Projects (ListProjects.vue): a search hides the rows until its answer;  *)
(* a bulk action is accepted at once and runs later, on the server.        *)

GetProjects == <<Rescued(Load \o Await({List}) \o Loaded, Loaded \o Rest, "app")>>

ValidateBulkAction == Handler(Await({Other}) \o Forget)

GenerateProjectsDataFile == Handler(Await({Other}))

\* A click opens the project, or selects it when another one is selected.
ClickProject == Handler(Leave)

ListProjects ==
  [NoPage EXCEPT !.mount = GetProjects, !.pick = ClickProject, !.update = ValidateBulkAction,
                 !.buttons = {Button(GetProjects, ""), Button(GenerateProjectsDataFile, "waiting")},
                 !.traits = {"settings", "loadingHides"}]
-----------------------------------------------------------------------------
(* Logs of the services (ListLogs.vue, LogsViewer.vue): the button that    *)
(* reads them again is disabled while they are read.                       *)

GetAllLogs == Handler(Load \o Await({List}) \o Loaded)

\* The pages of the list can be turned meanwhile.
LogsViewer == {Button(GetAllLogs, "loading"), Button(GetAllLogs, "")}

ListLogs == [NoPage EXCEPT !.mount = GetAllLogs, !.buttons = LogsViewer]
-----------------------------------------------------------------------------
(* Health of the services (ServicesHealth.vue, stores/services-monitor.ts):*)
(* App.vue reads it too; the store rescues a failure, so that the page     *)
(* rests.                                                                  *)

CheckServicesHealth == <<Rescued(Load \o Await({List}) \o Loaded, Loaded, "app")>>

MountServicesHealth == CheckServicesHealth \o <<Thread(Await({List}), "nobody")>>

ServicesHealth ==
  [NoPage EXCEPT !.mount = MountServicesHealth,
                 !.buttons = {Button(CheckServicesHealth, "loading")}]
-----------------------------------------------------------------------------
AdminPage ==
  [clusters |-> ListClusters, zones |-> ListZones, stages |-> ListStages,
   quotas |-> ListQuotas, organizations |-> ListOrganizations, adminRoles |-> AdminRoles,
   adminTokens |-> AdminTokens, personalTokens |-> PersonalAccessTokens,
   users |-> ListUser, plugins |-> ListPlugins, systemSettings |-> SystemSettings,
   projects |-> ListProjects, logs |-> ListLogs, servicesHealth |-> ServicesHealth]
=============================================================================
