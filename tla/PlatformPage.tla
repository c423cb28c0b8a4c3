---------------------------- MODULE PlatformPage ----------------------------
(***************************************************************************)
(* The page of tenants, applications, environments and memberships.  Each  *)
(* panel lists its records and edits one of them in its row.  A panel      *)
(* keeps the id of the row that is edited and the fields; the version it   *)
(* sends is that of the row as it is in the list when the form is          *)
(* submitted.  Every button is disabled while anything is pending.         *)
(*                                                                         *)
(* The model opens one panel; the status of the records its own live in    *)
(* (a tenant's, an application's) is taken to be active.                   *)
(***************************************************************************)
EXTENDS Console

\* The page opens with nothing under way.
Open(p, s) == Opened(p, s) /\ pending = None

-----------------------------------------------------------------------------
\* The commands.

Row(id) == Copy(id, rows[id])

ListTenants == Displayed
CreateTenant(c, id) == Ask(c, "create", id, 0, 0)
UpdateTenant(c, tenant, form) == Ask(c, "edit", tenant.id, tenant.version, form)
ArchiveTenant(c, tenant) == Ask(c, "archive", tenant.id, tenant.version, 0)
RestoreTenant(c, tenant) == Ask(c, "restore", tenant.id, tenant.version, 0)
ListApplications == Displayed
CreateApplication(c, id) == Ask(c, "create", id, 0, 0)
UpdateApplication(c, application, form) ==
    Ask(c, "edit", application.id, application.version, form)
ArchiveApplication(c, application) ==
    Ask(c, "archive", application.id, application.version, 0)
RestoreApplication(c, application) ==
    Ask(c, "restore", application.id, application.version, 0)
ListEnvironments == Displayed
CreateEnvironment(c, id) == Ask(c, "create", id, 0, 0)
UpdateEnvironment(c, environment, form) ==
    Ask(c, "edit", environment.id, environment.version, form)
ArchiveEnvironment(c, environment) ==
    Ask(c, "archive", environment.id, environment.version, 0)
RestoreEnvironment(c, environment) ==
    Ask(c, "restore", environment.id, environment.version, 0)
ListTenantMemberships == Displayed
\* A membership is added at version 0 and reactivated at any other.
SetTenantMembership(c, id, version) ==
    Ask(c, IF version = 0 THEN "create" ELSE "restore", id, version, 0)
RemoveTenantMembership(c, membership) ==
    Ask(c, "archive", membership.id, membership.version, 0)

-----------------------------------------------------------------------------
\* Any panel.

\* Another tenant or application is selected, another search is made or the
\* page of the list turned: the row that is edited stays so.
SelectScope(s) == Select(s) /\ UNCHANGED <<copies, pending>>

\* FilterBar and Pagination.
Search(s) == SelectScope(s)
TurnPage(s) == SelectScope(s)

Fresh == {id \in Ids : ScopeOf[id] = scope}

\* The forms beside the rows, whose buttons wait as those of the rows do.
EnvironmentForm == {id \in Fresh : Idle}
MembershipForm == {id \in Fresh : Idle}

BeginEdit(id) ==
    /\ editor' = Row(id)
    /\ UNCHANGED <<page, services, scope, cache, report, pending, calls, acked, told,
                   clicks, raced>>

CancelEdit ==
    /\ editor # None
    /\ editor' = None
    /\ UNCHANGED <<page, services, scope, cache, report, pending, calls, acked, told,
                   clicks, raced>>

\* The list is asked for again, whether the command succeeded or not.
RunMutation(c) == Answered(c, Writes) /\ Refresh(c)

\* A form that was saved is closed, one that was not stays as it is.
MutationOver(c) ==
    /\ Refreshed(c)
    /\ Return(c)
    /\ pending' = None
    /\ editor' = IF calls[c].ok /\ calls[c].op = "edit" THEN None ELSE editor
    /\ UNCHANGED <<report, cache>>

\* The form of the row that is edited, when the row is on the page.
EditForm == editor # None /\ editor.id \in Displayed /\ Idle

-----------------------------------------------------------------------------
\* The panels.

TenantRows(c) ==
    \E id \in ListTenants :
        \/ BeginEdit(id)
        \/ /\ Idle
           /\ IF IsActive(id, rows[id]) THEN ArchiveTenant(c, Row(id))
                                        ELSE RestoreTenant(c, Row(id))
           /\ Busy("tenant", id)

SubmitTenantCreate(c) ==
    /\ Idle
    /\ \E id \in Fresh : CreateTenant(c, id) /\ Busy("tenant", id)

SubmitTenantEdit(c) ==
    /\ EditForm
    /\ UpdateTenant(c, Row(editor.id), editor.form)
    /\ Busy("tenant", editor.id)

TenantPanel(c) ==
    page = "tenants" /\ (TenantRows(c) \/ SubmitTenantCreate(c) \/ SubmitTenantEdit(c))

ApplicationRows(c) ==
    \E id \in ListApplications :
        \/ BeginEdit(id)
        \/ /\ Idle
           /\ IF IsActive(id, rows[id]) THEN ArchiveApplication(c, Row(id))
                                        ELSE RestoreApplication(c, Row(id))
           /\ Busy("application", id)

SubmitApplicationCreate(c) ==
    /\ Idle
    /\ \E id \in Fresh : CreateApplication(c, id) /\ Busy("application", id)

SubmitApplicationEdit(c) ==
    /\ EditForm
    /\ UpdateApplication(c, Row(editor.id), editor.form)
    /\ Busy("application", editor.id)

ApplicationPanel(c) ==
    /\ page = "applications"
    /\ ApplicationRows(c) \/ SubmitApplicationCreate(c) \/ SubmitApplicationEdit(c)

\* A protected environment cannot be archived; the model's is not protected.
EnvironmentRows(c) ==
    \E id \in ListEnvironments :
        \/ BeginEdit(id)
        \/ /\ Idle
           /\ IF IsActive(id, rows[id]) THEN ArchiveEnvironment(c, Row(id))
                                        ELSE RestoreEnvironment(c, Row(id))
           /\ Busy("environment", id)

SubmitEnvironmentCreate(c) ==
    \E id \in EnvironmentForm : CreateEnvironment(c, id) /\ Busy("environment", id)

SubmitEnvironmentEdit(c) ==
    /\ EditForm
    /\ UpdateEnvironment(c, Row(editor.id), editor.form)
    /\ Busy("environment", editor.id)

EnvironmentPanel(c) ==
    /\ page = "environments"
    /\ EnvironmentRows(c) \/ SubmitEnvironmentCreate(c) \/ SubmitEnvironmentEdit(c)

\* A membership has no fields of its own and is never edited.
MembershipRows(c) ==
    /\ Idle
    /\ \E id \in ListTenantMemberships :
          /\ IF IsActive(id, rows[id]) THEN RemoveTenantMembership(c, Row(id))
                                       ELSE SetTenantMembership(c, id, rows[id])
          /\ Busy("membership", id)

\* The version comes from the list, if the list shows the user.
SubmitMembership(c) ==
    \E id \in MembershipForm :
        /\ SetTenantMembership(c, id, IF id \in ListTenantMemberships THEN rows[id] ELSE 0)
        /\ Busy("membership", id)

MembershipPanel(c) == page = "memberships" /\ (MembershipRows(c) \/ SubmitMembership(c))

Next ==
    \/ \E s \in Scopes : SelectScope(s) \/ Search(s) \/ TurnPage(s)
    \/ CancelEdit
    \/ \E c \in Calls :
          \/ TenantPanel(c) \/ ApplicationPanel(c) \/ EnvironmentPanel(c) \/ MembershipPanel(c)
          \/ RunMutation(c) \/ MutationOver(c)
=============================================================================
