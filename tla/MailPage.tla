------------------------------ MODULE MailPage ------------------------------
(***************************************************************************)
(* The page of SMTP accounts and of mail deliveries.  An account that was  *)
(* written is taken in hand after the list has been fetched; a message is  *)
(* composed under an idempotency key, the record's id here, that the user  *)
(* may change and that stays when no answer came.                          *)
(***************************************************************************)
EXTENDS Inspectors

\* The page opens with nothing under way.
Open(p, s) == Opened(p, s) /\ pending = NotBusy

-----------------------------------------------------------------------------
\* The commands.

ListSmtpAccounts == Listed
GetSmtpAccount(c, id) == Reading(c, id)
CreateSmtpAccount(c, id) == Ask(c, "create", id, 0, 0)
UpdateSmtpAccount(c, account) == Ask(c, "edit", account.id, account.version, account.form)
ArchiveSmtpAccount(c, account) == Ask(c, "archive", account.id, account.version, 0)
RestoreSmtpAccount(c, account) == Ask(c, "restore", account.id, account.version, 0)
TestSmtpAccount(c, account) == Ask(c, "look", account.id, account.version, 0)
ListMailDeliveries == Listed
GetMailDelivery(c, id) == Reading(c, id)
SendMail(c, id) == Ask(c, "send", id, 0, 0)

-----------------------------------------------------------------------------
\* Accounts.  A row may be fetched again before it has arrived.

LoadAccount(c) == \E id \in ListSmtpAccounts : GetSmtpAccount(c, id)

SubmitAccount(c) ==
    /\ Free(Card("create"))
    /\ \E id \in Fresh : CreateSmtpAccount(c, id) /\ Performs(c, Card("create"))

AccountDetailCard(c) ==
    /\ InHand
    /\ Free(editor)
    /\ \/ IsActive(editor.id, editor.version) /\ UpdateSmtpAccount(c, editor)
       \/ IsActive(editor.id, editor.version) /\ TestSmtpAccount(c, editor)
       \/ IsActive(editor.id, editor.version) /\ ArchiveSmtpAccount(c, editor)
       \/ ~IsActive(editor.id, editor.version) /\ RestoreSmtpAccount(c, editor)
    /\ Performs(c, editor)

\* refresh: the list, then the account.
RefreshAccounts(c) == Answered(c, Writes) /\ calls[c].ok /\ Refresh(c)

AccountRefreshed(c) ==
    /\ Refreshed(c)
    /\ Return(c)
    /\ TakeInHand(calls[c].id, calls[c].version)
    /\ pending' = [pending EXCEPT !.busy = Without(c, StillBusy(calls[c].id, calls[c].version))]
    /\ UNCHANGED cache

AccountsPanel(c) ==
    /\ page = "accounts"
    /\ \/ LoadAccount(c) \/ SubmitAccount(c) \/ AccountDetailCard(c)
       \/ RefreshAccounts(c) \/ AccountRefreshed(c)
       \/ Done(c) /\ ~calls[c].ok

-----------------------------------------------------------------------------
\* Deliveries.

LoadDelivery(c) == \E id \in ListMailDeliveries : GetMailDelivery(c, id)

SubmitMessage(c) ==
    /\ Free(Card("compose"))
    /\ \E id \in Fresh : SendMail(c, id) /\ Performs(c, Card("compose"))

DeliveriesPanel(c) ==
    /\ page = "deliveries"
    /\ \/ LoadDelivery(c) \/ SubmitMessage(c)
       \/ Changed(c, StillBusy(calls[c].id, calls[c].version))
       \/ Done(c)

Next ==
    \/ \E s \in Scopes : SelectScope(s)
    \/ \E c \in Calls :
          \/ AccountsPanel(c) \/ DeliveriesPanel(c)
          \/ ReadingOver(c, StillBusy(calls[c].id, calls[c].version))
          \/ LookOver(c)
=============================================================================
