---------------------------- MODULE ProjectPages ----------------------------
(***************************************************************************)
(* The pages of a project and the operations of the class Project          *)
(* (utils/project-utils.ts) they call.  The project is not locked and the  *)
(* user manages it: the pages offer everything they have.                  *)
(***************************************************************************)
EXTENDS Page

-----------------------------------------------------------------------------
(* Operations: each is shown in progress until a finally, which comes      *)
(* before the list is read where the read is returned, and after where it  *)
(* is awaited.  A page names the reads whose answer it shows.              *)

Refresh(project, lists) == Await({project}) \o Await(lists)

UpdateProject(call) == Begin("update") \o Await({call}) \o Finish

Replay(project, lists) ==
  Begin("update") \o Await({Other}) \o Finish \o Refresh(project, lists)

\* A refused archive only reads the project again, and what follows on the
\* page is the same.
Archive(project, lists, steps) ==
  <<Rescued(Begin("delete") \o Await({Other}) \o Finish \o steps,
            Refresh(project, lists) \o Finish \o steps, "app")>>

Members(write, list) == Begin("teamManagement") \o Await({write}) \o Finish \o Await({list})

CreateEnvironment ==
  Begin("envManagement") \o Await({Write("create")}) \o Finish \o Await({List})

UpdateEnvironment ==
  Begin("envManagement") \o Await({Write("update")}) \o Await({List}) \o Finish

DeleteEnvironment ==
  Begin("envManagement") \o Await({Write("delete")}) \o Await({List}) \o Finish

Repositories(what) ==
  Begin("repoManagement") \o Await({Write(what)}) \o Finish \o Await({List})

\* The synchronization is returned, not awaited.
SyncRepositoryJob == Begin("repoManagement") \o Finish \o Await({Other})

Roles(what) == Begin("update") \o Await({WriteThatLists(what)}) \o Finish

DeleteRoleOf == Begin("update") \o Await({Write("delete")}) \o Finish \o Await({List})

UpdateServices == Begin("update") \o Await({Write("update")}) \o Finish \o Await({Other})

\* The route of a project reads it when the store does not have it yet; its
\* roles, its members and its description are fields of the project.
ReadByRoute(steps) == Handler(Await({List}) \o steps)
-----------------------------------------------------------------------------
(* Environments (ManageEnvironments.vue, EnvironmentForm.vue): the         *)
(* operation and the reads of the page are started together.               *)

ReloadEnvironments == Await({List, Other}) \o Close

AddEnvironment ==
  <<Thread(CreateEnvironment, "message"), Thread(ReloadEnvironments, "nobody")>>

PutEnvironment ==
  <<Thread(UpdateEnvironment, "message"), Thread(ReloadEnvironments, "nobody")>>

RemoveEnvironment ==
  <<Thread(DeleteEnvironment, "message"), Thread(ReloadEnvironments, "nobody")>>

\* The form reads what can be chosen in it.
SelectEnvironment == Handler(Pick \o Await({Other}))

EnvironmentForm == {"alias", "overlay"}

ManageEnvironments ==
  [NoPage EXCEPT !.mount = Handler(ReloadEnvironments), !.pick = SelectEnvironment,
                 !.add = AddEnvironment, !.update = PutEnvironment,
                 !.remove = RemoveEnvironment,
                 !.traits = EnvironmentForm \cup {"creationForm", "oneForm", "savesPicked"}]
-----------------------------------------------------------------------------
(* Repositories (DsoRepos.vue, RepoForm.vue).                              *)

ReloadRepos == Await({List}) \o Close

SaveNewRepo == <<Thread(Repositories("create"), "message"), Thread(ReloadRepos, "nobody")>>

SaveRepo == <<Thread(Repositories("update"), "message"), Thread(ReloadRepos, "nobody")>>

DeleteRepo == <<Thread(Repositories("delete"), "nobody"), Thread(ReloadRepos, "nobody")>>

SyncRepository == Handler(Wait \o SyncRepositoryJob \o Rest)

SetSelectedRepo == Handler(Pick)

\* The form has a copy, and saves what it has.
RepoForm == {"overlay"}

DsoRepos ==
  [NoPage EXCEPT !.mount = Handler(ReloadRepos), !.pick = SetSelectedRepo,
                 !.add = SaveNewRepo, !.update = SaveRepo, !.remove = DeleteRepo,
                 !.buttons = {Button(SyncRepository, "")},
                 !.traits = RepoForm \cup {"creationForm", "oneForm"}]
-----------------------------------------------------------------------------
(* Roles (DsoRoles.vue, ProjectRoleForm.vue): the page copies the roles of *)
(* the project after each operation.                                       *)

AddProjectRole == Handler(Roles("create") \o Show \o PickLast)

DeleteProjectRole == Handler(DeleteRoleOf \o Show \o LetGo)

UpdateMember == Handler(Members(Other, Other) \o Show)

SaveEveryoneRole == Handler(UpdateProject(WriteThatLists("project")) \o Show)

SaveProjectRole == Handler(Roles("update") \o Show)

ProjectRoleForm == {"keyed", "lookup"}

DsoRoles ==
  [NoPage EXCEPT !.mount = ReadByRoute(Show), !.again = {Handler(Show)},
                 !.pick = Handler(Pick),
                 !.add = AddProjectRole, !.update = SaveProjectRole,
                 !.remove = DeleteProjectRole,
                 !.buttons = {Button(UpdateMember, ""), Button(SaveEveryoneRole, "")},
                 !.traits = ProjectRoleForm \cup {"savesPicked", "copy"}]
-----------------------------------------------------------------------------
(* Members (DsoTeam.vue, TeamCt.vue): a member is removed from its row.    *)

AddUserToProject == Handler(Members(Write("create"), List))

RemoveUserFromProject == Handler(Members(Write("delete"), List))

TransferOwnerShip == Handler(UpdateProject(WriteThatLists("project")))

RetrieveUsersToAdd == Handler(Await({Other}))

TeamCt == {Button(TransferOwnerShip, ""), Button(RetrieveUsersToAdd, "")}

DsoTeam ==
  [NoPage EXCEPT !.mount = ReadByRoute(<< >>), !.again = {NoHandler}, !.add = AddUserToProject,
                 !.pick = RemoveUserFromProject, !.buttons = TeamCt]
-----------------------------------------------------------------------------
(* Services of a project (DsoServices.vue, ServicesConfig.vue): what was   *)
(* typed is forgotten when it is sent.                                     *)

ReloadServices == Await({List})

SaveServices ==
  <<Rescued(Forget \o Wait \o UpdateServices \o EndTry \o ReloadServices \o Rest,
            Finish \o ReloadServices \o Rest, "app")>>

ServicesConfig == {"settings"}

DsoServices ==
  [NoPage EXCEPT !.mount = Handler(ReloadServices), !.update = SaveServices,
                 !.buttons = {Button(Handler(ReloadServices), "")}, !.traits = ServicesConfig]
-----------------------------------------------------------------------------
(* Dashboard (DsoDashboard.vue, ProjectBanner.vue, ReplayButton.vue): its  *)
(* rows are the fields of the project, the description is typed in it.     *)

\* Nobody waits for the answer.
UpdateDescription == <<Thread(Forget \o UpdateProject(WriteThatLists("update")), "nobody")>>

\* Replaying hooks reads the project again.
ReplayButton == Handler(Replay(List, {Other}))

\* The project is dropped from the store and the page left, archived or not.
ArchiveProject == Archive(List, {Other}, Leave)

HandleSecretDisplay == Handler(Await({Other}))

ProjectBanner == {"settings", "alias", "onceAtATime"}

DsoDashboard ==
  [NoPage EXCEPT !.mount = ReadByRoute(Await({Other})), !.again = {Handler(Await({Other}))},
                 !.update = UpdateDescription,
                 !.buttons = {Button(ReplayButton, "replay"), Button(ArchiveProject, "delete"),
                              Button(HandleSecretDisplay, "searchSecret")},
                 !.traits = ProjectBanner]
-----------------------------------------------------------------------------
(* A project for an administrator (AdminProject.vue): its environments,    *)
(* copied when the details have all been read, with a quota to choose in   *)
(* each row; its members, and its services.                                *)

ShowLogs == Load \o Await({Other}) \o Loaded

GetProjectDetails ==
  <<Thread(Await({Other}) \o Await({List, Other}) \o Show, "message"),
    Thread(ShowLogs, "nobody")>>

UpdateEnvironmentQuota == Handler(Choose \o UpdateEnvironment)

HandleProjectLocking == Handler(UpdateProject(Other))

ReplayHooks == Handler(Replay(Other, {List, Other}))

ArchiveByAdmin == Archive(Other, {List, Other}, Leave)

AdminProject ==
  [NoPage EXCEPT !.mount = GetProjectDetails, !.pick = UpdateEnvironmentQuota,
                 !.buttons = {Button(GetProjectDetails, "waiting"),
                              Button(HandleProjectLocking, "lockHandling"),
                              Button(ReplayHooks, "replay"), Button(ArchiveByAdmin, "delete"),
                              Button(<<Thread(ShowLogs, "nobody")>>, "")},
                 !.traits = {"copy"}]

SaveProjectServices ==
  <<Rescued(Forget \o UpdateServices \o EndTry \o ReloadServices,
            Finish \o ReloadServices, "app")>>

AdminProjectServices ==
  [DsoServices EXCEPT !.mount = <<Thread(ReloadServices, "message")>>,
                      !.update = SaveProjectServices]
-----------------------------------------------------------------------------
(* A new project (CreateProject.vue): its rows are the organizations, its  *)
(* button is disabled while it is created.                                 *)

CreateProjectThen(steps) == Load \o Await({Other}) \o steps \o Loaded

CreateProject ==
  [NoPage EXCEPT !.mount = Handler(Await({List})),
                 !.buttons = {Button(<<Rescued(CreateProjectThen(Leave), Loaded, "app")>>, "loading")}]
-----------------------------------------------------------------------------
(* The logs of a project, beside its pages (ProjectLogsViewer.vue): they   *)
(* are read when a project or the panel is opened, an operation ends or a  *)
(* page of them is turned, whatever is being read.                         *)

GetProjectLogs == Handler(Load \o Await({List}) \o Loaded)

ProjectLogsViewer ==
  [NoPage EXCEPT !.mount = GetProjectLogs, !.buttons = {Button(GetProjectLogs, "")}]
-----------------------------------------------------------------------------
ProjectPage ==
  [environments |-> ManageEnvironments, repositories |-> DsoRepos, projectRoles |-> DsoRoles,
   team |-> DsoTeam, services |-> DsoServices, dashboard |-> DsoDashboard,
   adminProject |-> AdminProject, adminServices |-> AdminProjectServices,
   createProject |-> CreateProject, projectLogs |-> ProjectLogsViewer]
=============================================================================
