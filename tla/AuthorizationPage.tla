------------------------- MODULE AuthorizationPage -------------------------
(***************************************************************************)
(* The page of permissions, roles, role bindings and policy rules.  A      *)
(* panel lists its records and edits a copy of one of them, with the       *)
(* version it had when the edit began; the copy outlives a change of       *)
(* scope.  Every button that sends a command is disabled while anything is *)
(* pending.                                                                *)
(***************************************************************************)
EXTENDS Console

\* The page opens with nothing under way.
Open(p, s) == Opened(p, s) /\ pending = None

-----------------------------------------------------------------------------
\* The commands.

\* (As it would be if the version came from the list, not from the copy.)
UpdatePermissionOfRow(c, copy) == Ask(c, "edit", copy.id, rows[copy.id], copy.form)

ListPermissions == Displayed
CreatePermission(c, id) == Ask(c, "create", id, 0, 0)
UpdatePermission(c, copy) == Ask(c, "edit", copy.id, copy.version, copy.form)
ArchivePermission(c, copy) == Ask(c, "archive", copy.id, copy.version, 0)
RestorePermission(c, copy) == Ask(c, "restore", copy.id, copy.version, 0)
ListRoles == Displayed
CreateRole(c, id) == Ask(c, "create", id, 0, 0)
UpdateRole(c, copy) == Ask(c, "edit", copy.id, copy.version, copy.form)
ArchiveRole(c, copy) == Ask(c, "archive", copy.id, copy.version, 0)
RestoreRole(c, copy) == Ask(c, "restore", copy.id, copy.version, 0)
ListRoleBindings == Displayed
\* A binding is created at version 0, else replaced, and active in either case.
SetRoleBinding(c, id, version, form) == Ask(c, "set", id, version, form)
RemoveRoleBinding(c, copy) == Ask(c, "archive", copy.id, copy.version, 0)
ListPolicyRules == Displayed
CreatePolicyRule(c, id) == Ask(c, "create", id, 0, 0)
UpdatePolicyRule(c, copy) == Ask(c, "edit", copy.id, copy.version, copy.form)
ArchivePolicyRule(c, copy) == Ask(c, "archive", copy.id, copy.version, 0)
RestorePolicyRule(c, copy) == Ask(c, "restore", copy.id, copy.version, 0)
SimulateAuthorization(c) == Look(c)
CheckCurrentActorPermission(c) == Look(c)

-----------------------------------------------------------------------------
\* Any panel.

Row(id) == Copy(id, rows[id])

\* Another tenant or application, another search or another page of the list:
\* the copy that is edited stays.
SelectScope(s) == Select(s) /\ UNCHANGED <<copies, pending>>

Fresh == {id \in Ids : ScopeOf[id] = scope /\ Idle}
RowButtons == {id \in Displayed : Idle}

BeginEdit(id) ==
    /\ editor' = Row(id)
    /\ UNCHANGED <<page, services, scope, cache, report, pending, calls, acked, told,
                   clicks, raced>>

\* Cancel, or resetForm.
CancelEdit ==
    /\ editor # None
    /\ editor' = None
    /\ UNCHANGED <<page, services, scope, cache, report, pending, calls, acked, told,
                   clicks, raced>>

\* The list is asked for again, whether the command succeeded or not; the
\* simulator has none.
RunMutation(c) == Answered(c, Writes) /\ Refresh(c)

\* A form that was saved is closed, one that was not keeps its copy.
MutationOver(c) ==
    /\ Refreshed(c) \/ Answered(c, {"look"})
    /\ Return(c)
    /\ pending' = None
    /\ editor' = IF calls[c].ok /\ calls[c].op \in {"edit", "set"} THEN None ELSE editor
    /\ UNCHANGED <<report, cache>>

-----------------------------------------------------------------------------
\* The panels.  The form of a permission or a role is part of its row.

PermissionRows(c) ==
    \/ \E id \in ListPermissions : BeginEdit(id)
    \/ \E id \in RowButtons :
          /\ IF IsActive(id, rows[id]) THEN ArchivePermission(c, Row(id))
                                       ELSE RestorePermission(c, Row(id))
          /\ Busy("permission", id)

SubmitPermissionCreate(c) ==
    \E id \in Fresh : CreatePermission(c, id) /\ Busy("permission", id)

SubmitPermissionEdit(c) ==
    /\ editor # None
    /\ editor.id \in RowButtons
    /\ UpdatePermission(c, editor)
    /\ Busy("permission", editor.id)

PermissionsPanel(c) ==
    /\ page = "permissions"
    /\ PermissionRows(c) \/ SubmitPermissionCreate(c) \/ SubmitPermissionEdit(c)

RoleRows(c) ==
    \/ \E id \in ListRoles : BeginEdit(id)
    \/ \E id \in RowButtons :
          /\ IF IsActive(id, rows[id]) THEN ArchiveRole(c, Row(id))
                                       ELSE RestoreRole(c, Row(id))
          /\ Busy("role", id)

SubmitRoleCreate(c) == \E id \in Fresh : CreateRole(c, id) /\ Busy("role", id)

SubmitRoleEdit(c) ==
    /\ editor # None
    /\ editor.id \in RowButtons
    /\ UpdateRole(c, editor)
    /\ Busy("role", editor.id)

RolesPanel(c) == page = "roles" /\ (RoleRows(c) \/ SubmitRoleCreate(c) \/ SubmitRoleEdit(c))

BindingRows(c) ==
    \/ \E id \in ListRoleBindings : BeginEdit(id)
    \/ \E id \in RowButtons :
          IsActive(id, rows[id]) /\ RemoveRoleBinding(c, Row(id)) /\ Busy("binding", id)

\* One form creates and edits; a new binding has an id of its own.
SubmitBinding(c) ==
    \/ \E id \in Fresh :
          /\ editor = None
          /\ Version(id) = 0
          /\ SetRoleBinding(c, id, 0, 0)
          /\ Busy("binding", id)
    \/ /\ editor # None
       /\ Idle
       /\ SetRoleBinding(c, editor.id, editor.version, editor.form)
       /\ Busy("binding", editor.id)

BindingsPanel(c) == page = "bindings" /\ (BindingRows(c) \/ SubmitBinding(c))

PolicyRows(c) ==
    \/ \E id \in ListPolicyRules : BeginEdit(id)
    \/ \E id \in RowButtons :
          /\ IF IsActive(id, rows[id]) THEN ArchivePolicyRule(c, Row(id))
                                       ELSE RestorePolicyRule(c, Row(id))
          /\ Busy("policy", id)

SubmitPolicy(c) ==
    \/ \E id \in Fresh : editor = None /\ CreatePolicyRule(c, id) /\ Busy("policy", id)
    \/ editor # None /\ Idle /\ UpdatePolicyRule(c, editor) /\ Busy("policy", editor.id)

PoliciesPanel(c) == page = "policies" /\ (PolicyRows(c) \/ SubmitPolicy(c))

\* The simulator and the check of one's own permission.
SimulatorPanel(c) ==
    /\ page = "simulator"
    /\ Idle
    /\ SimulateAuthorization(c) \/ CheckCurrentActorPermission(c)
    /\ Busy("simulator", Something)

Next ==
    \/ \E s \in Scopes : SelectScope(s)
    \/ CancelEdit
    \/ \E c \in Calls :
          \/ PermissionsPanel(c) \/ RolesPanel(c) \/ BindingsPanel(c) \/ PoliciesPanel(c)
          \/ SimulatorPanel(c)
          \/ RunMutation(c) \/ MutationOver(c)
=============================================================================
