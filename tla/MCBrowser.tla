----------------------------- MODULE MCBrowser ------------------------------
(***************************************************************************)
(* Every page, two rows of which one is in use, one more that can be       *)
(* created.                                                                *)
(***************************************************************************)
EXTENDS Browser, AdminPages, ProjectPages, TLC

AllPages == AdminPage @@ ProjectPage

\* Three clicks let a second and a third handler start while a first one
\* waits; the largest page has two.
Clicks ==
  [p \in DOMAIN AllPages |->
     IF p = "adminProject" THEN 2
     ELSE IF p \in {"repositories", "services", "adminServices", "projects", "zones",
                   "systemSettings", "logs", "createProject", "organizations",
                   "stages", "quotas", "adminRoles"} THEN 4
     ELSE 3]
=============================================================================
