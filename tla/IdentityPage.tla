---------------------------- MODULE IdentityPage ----------------------------
(***************************************************************************)
(* The page of Passport users, application memberships, OIDC clients and   *)
(* API scopes.  The record in hand is the answer of a request of its own,  *)
(* which the page repeats whenever it sees fit, so that it is as live as   *)
(* the list.  Every button that sends a command is disabled while anything *)
(* is pending.                                                             *)
(*                                                                         *)
(* A user is active here unless archived, a client and an API scope unless *)
(* deleted.                                                                *)
(***************************************************************************)
EXTENDS Console

Row(id) == Copy(id, rows[id])

Fresh == {id \in Ids : ScopeOf[id] = scope}

\* A record that was deleted is in no list.
Kept == {id \in Displayed : IsActive(id, rows[id])}

\* The page opens with nothing under way.
Open(p, s) == Opened(p, s) /\ pending = None

-----------------------------------------------------------------------------
\* The commands.

ListUsers == Displayed
InviteUser(c, id) == Ask(c, "create", id, 0, 0)
CreateUser(c, id) == Ask(c, "create", id, 0, 0)
ResendInvitation(c, user) == Ask(c, "act", user.id, user.version, 0)
UpdateUser(c, user) == Ask(c, "edit", user.id, user.version, user.form)
SetUserRoles(c, user) == Ask(c, "edit", user.id, user.version, user.form)
ResetUserPassword(c, user) == Ask(c, "act", user.id, user.version, 0)
SuspendUser(c, user) == Ask(c, "act", user.id, user.version, 0)
ReactivateUser(c, user) == Ask(c, "act", user.id, user.version, 0)
ArchiveUser(c, user) == Ask(c, "archive", user.id, user.version, 0)
RestoreUser(c, user) == Ask(c, "restore", user.id, user.version, 0)
\* Sessions have no versions.
RevokeUserSession(c) == Look(c)
RevokeAllUserSessions(c) == Look(c)
ListApplicationMemberships == Displayed
SetApplicationMembership(c, id, version) ==
    Ask(c, IF version = 0 THEN "create" ELSE "restore", id, version, 0)
RemoveApplicationMembership(c, membership) ==
    Ask(c, "archive", membership.id, membership.version, 0)
ListClients == Kept
CreateClient(c, id) == Ask(c, "create", id, 0, 0)
UpdateClient(c, client) == Ask(c, "edit", client.id, client.version, client.form)
RotateClientSecret(c, client) == Ask(c, "act", client.id, client.version, 0)
DeleteClient(c, client) == Ask(c, "archive", client.id, client.version, 0)
ListScopes == Kept
CreateScope(c, id) == Ask(c, "create", id, 0, 0)
UpdateScope(c, apiScope) == Ask(c, "edit", apiScope.id, apiScope.version, apiScope.form)
DeleteScope(c, apiScope) == Ask(c, "archive", apiScope.id, apiScope.version, 0)

-----------------------------------------------------------------------------
\* Any panel.

\* Another search.
SelectScope(s) == Select(s) /\ UNCHANGED <<copies, pending>>

\* A row is chosen; the record itself is asked for.
SelectRecord(id) ==
    /\ ~(editor # None /\ editor.id = id)
    /\ editor' = [id |-> id, version |-> 0, form |-> 0]
    /\ UNCHANGED <<page, services, scope, cache, report, pending, calls, acked, told,
                   clicks, raced>>

\* A deleted record is not found, and the old answer stays.
Found(id) == IsActive(id, Version(id)) \/ page = "users"

\* The record arrives, at any time; its inspector is mounted anew when it
\* changed.
DetailArrives ==
    /\ editor # None
    /\ Found(editor.id)
    /\ editor.version # Version(editor.id)
    /\ editor' = Copy(editor.id, Version(editor.id))
    /\ UNCHANGED <<page, services, scope, cache, report, pending, calls, acked, told,
                   clicks, raced>>

\* The list, and with most commands the record, are asked for again, whether
\* the command succeeded or not, before the handler goes on.
RunMutation(c) == Answered(c, Writes) /\ Refresh(c)

MutationOver(c) ==
    /\ Refreshed(c)
    /\ Return(c)
    /\ pending' = None
    /\ UNCHANGED <<copies, cache>>

SessionsRevoked(c) ==
    /\ Answered(c, {"look"})
    /\ Return(c)
    /\ pending' = None
    /\ UNCHANGED <<copies, cache>>

\* The inspector: there when the record is.
Inspector == InHand /\ Idle
ActiveInspector == Inspector /\ IsActive(editor.id, editor.version)

-----------------------------------------------------------------------------
\* The panels.

UserList == page = "users" /\ \E id \in ListUsers : SelectRecord(id)

SubmitUser(c) ==
    /\ Idle
    /\ \E id \in Fresh : (CreateUser(c, id) \/ InviteUser(c, id)) /\ Busy("user", id)

UserInspector(c) ==
    /\ Inspector
    /\ Busy("user", editor.id)
    /\ \/ /\ ActiveInspector
          /\ \/ UpdateUser(c, editor) \/ SetUserRoles(c, editor) \/ ResetUserPassword(c, editor)
             \/ ResendInvitation(c, editor) \/ SuspendUser(c, editor)
             \/ ReactivateUser(c, editor) \/ ArchiveUser(c, editor)
       \/ ~ActiveInspector /\ RestoreUser(c, editor)
       \/ RevokeUserSession(c) \/ RevokeAllUserSessions(c)

UsersPanel(c) == page = "users" /\ (SubmitUser(c) \/ UserInspector(c))

\* The version of a membership is the user's to give, in a field of the form.
SubmitMembership(c) ==
    /\ Idle
    /\ \E id \in Fresh, version \in 0 .. MaxVersion :
          SetApplicationMembership(c, id, version) /\ Busy("membership", id)

MembershipRows(c) ==
    /\ Idle
    /\ \E id \in ListApplicationMemberships :
          /\ IF IsActive(id, rows[id]) THEN RemoveApplicationMembership(c, Row(id))
                                       ELSE SetApplicationMembership(c, id, rows[id])
          /\ Busy("membership", id)

MembershipsPanel(c) ==
    page = "applicationMemberships" /\ (SubmitMembership(c) \/ MembershipRows(c))

ClientList == page = "clients" /\ \E id \in ListClients : SelectRecord(id)

SubmitClient(c) == Idle /\ \E id \in Fresh : CreateClient(c, id) /\ Busy("client", id)

\* A system client has no buttons; the model's is none.
ClientInspector(c) ==
    /\ ActiveInspector
    /\ UpdateClient(c, editor) \/ RotateClientSecret(c, editor) \/ DeleteClient(c, editor)
    /\ Busy("client", editor.id)

ClientsPanel(c) == page = "clients" /\ (SubmitClient(c) \/ ClientInspector(c))

ScopeList == page = "apiScopes" /\ \E id \in ListScopes : SelectRecord(id)

SubmitScope(c) == Idle /\ \E id \in Fresh : CreateScope(c, id) /\ Busy("scope", id)

ScopeInspector(c) ==
    /\ ActiveInspector
    /\ UpdateScope(c, editor) \/ DeleteScope(c, editor)
    /\ Busy("scope", editor.id)

ScopesPanel(c) == page = "apiScopes" /\ (SubmitScope(c) \/ ScopeInspector(c))

Next ==
    \/ \E s \in Scopes : SelectScope(s)
    \/ UserList \/ ClientList \/ ScopeList
    \/ DetailArrives
    \/ \E c \in Calls :
          \/ UsersPanel(c) \/ MembershipsPanel(c) \/ ClientsPanel(c) \/ ScopesPanel(c)
          \/ RunMutation(c) \/ MutationOver(c) \/ SessionsRevoked(c)
=============================================================================
