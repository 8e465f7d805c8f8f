------------------------------ MODULE AdminPages ------------------------------
(***************************************************************************)
(* The administrator's pages of the web client: the lists of users,          *)
(* invitations, credentials and models, the details of a user and of an      *)
(* invitation, the overview and the usage page.                              *)
(*                                                                         *)
(* Every page loads what it shows, and a list or a details page changes it:  *)
(* an action posts, most load the page anew when the post has succeeded, and  *)
(* all release the page's busy slot at last.  Loads and actions overlap: a    *)
(* load is answered (Serve) before its answer takes effect.                   *)
(*                                                                         *)
(* A page shows rows; a row's value is all a property needs of it: "on" for   *)
(* an active user, a pending invitation, a verified credential, an enabled    *)
(* model, "off" for their opposites, "absent" for a row not (or no longer)    *)
(* there.  Nobody else changes the rows.  The runtime that the details of a     *)
(* user show beside the user, with a load of their own, is left out.           *)
(***************************************************************************)
EXTENDS Naturals, FiniteSets

CONSTANTS
  Items,        \* rows
  Ops,          \* actions under way at once (a bound)
  Reads,        \* loads under way at once that no action awaits (a bound)
  MaxTogether,  \* actions and loads under way together (a bound)
  Nothing,      \* null: nothing shown, no slot taken, no dialog open
  Demo          \* the figures built into the overview page

ASSUME OpsAndReads == Reads # {} /\ Ops \cap Reads = {}
ASSUME SomeTogether == MaxTogether \in Nat

VARIABLES
  page,         \* the page that is mounted
  rows,         \* API: the rows
  shown,        \* what the page shows once it is loaded
  loading,      \* the loading flag
  failed,       \* the error is set
  slot,         \* patchingUserId, actionLoading, updatingId
  dialog,       \* the open confirmation
  op,           \* actions under way
  load,         \* loads under way, by the action or the click they are for
  doubt         \* history: see Doubtful

adminVars == <<page, rows, shown, loading, failed, slot, dialog, op, load, doubt>>

Lists == {"users", "invitations", "credentials", "models"}
Details == {"user", "invitation"}
AdminPageNames == Lists \cup Details \cup {"home", "usage"}

Kinds == {"enable", "disable", "create", "revoke", "resend", "verify", "delete", "update", "setDefault"}
Values == {"on", "off", "absent"}
Todo == [item : Items, kind : Kinds]

ASSUME NothingIsNoTask == Nothing \notin Todo

NoOp == [at |-> "free", todo |-> Nothing]
NoLoad == [at |-> "idle", got |-> Nothing]
AskRows == [at |-> "asked", got |-> Nothing]

Rows == [Items -> Values]

AdminTypeOK ==
  /\ page \in AdminPageNames
  /\ rows \in Rows
  /\ shown \in Rows \cup {Nothing, Demo}
  /\ {loading, failed, doubt} \subseteq BOOLEAN
  /\ {slot, dialog} \subseteq Todo \cup {Nothing}
  /\ op \in [Ops -> [at : {"free", "posting", "reloading"}, todo : Todo \cup {Nothing}]]
  /\ load \in [Ops \cup Reads -> [at : {"idle", "asked", "served", "refused", "signedOut"},
                                  got : Rows \cup {Nothing}]]

Busy(o) == op[o].at # "free"
Loads(l) == load[l].at # "idle"

Room == Cardinality({o \in Ops : Busy(o)} \cup {l \in Reads : Loads(l)}) < MaxTogether

(* Something begins while something else, other than self, is under way.      *)
Crowded(self) == \/ \E o \in Ops \ {self} : Busy(o)
                 \/ \E l \in (Ops \cup Reads) \ {self} : Loads(l)
Doubtful(self) == doubt' = (doubt \/ Crowded(self))

AdminInit ==
  /\ page \in AdminPageNames
  /\ rows \in [Items -> CASE page \in {"users", "user", "models"} -> {"on", "off"}
                           [] page = "credentials"              -> {"off", "absent"}
                           [] OTHER                             -> {"on", "absent"}]
  /\ shown = Nothing /\ loading = TRUE /\ failed = FALSE
  /\ slot = Nothing /\ dialog = Nothing
  /\ op = [o \in Ops |-> NoOp]
  /\ \E first \in Reads :
       load = [l \in Ops \cup Reads |-> IF l = first THEN AskRows ELSE NoLoad]
  /\ doubt = FALSE

-----------------------------------------------------------------------------
(* Loads: what a page does first, by page.  Only the user's details keep an    *)
(* old error; the overview has one state for loading, error and data.         *)
LoadUsers(l)       == page = "users"       /\ load' = [load EXCEPT ![l] = AskRows] /\ failed' = FALSE
LoadUser(l)        == page = "user"        /\ load' = [load EXCEPT ![l] = AskRows] /\ UNCHANGED failed
LoadInvitations(l) == page = "invitations" /\ load' = [load EXCEPT ![l] = AskRows] /\ failed' = FALSE
LoadInvitation(l)  == page = "invitation"  /\ load' = [load EXCEPT ![l] = AskRows] /\ failed' = FALSE
LoadCredentials(l) == page = "credentials" /\ load' = [load EXCEPT ![l] = AskRows] /\ failed' = FALSE
LoadModels(l)      == page = "models"      /\ load' = [load EXCEPT ![l] = AskRows] /\ failed' = FALSE
LoadSummary(l)     == page = "usage"       /\ load' = [load EXCEPT ![l] = AskRows] /\ failed' = FALSE
LoadHome(l)        == page = "home"        /\ load' = [load EXCEPT ![l] = AskRows] /\ failed' = FALSE

Load(l) ==
  /\ loading' = TRUE
  /\ \/ LoadUsers(l) \/ LoadInvitations(l) \/ LoadCredentials(l) \/ LoadModels(l)
     \/ LoadUser(l) \/ LoadInvitation(l) \/ LoadSummary(l) \/ LoadHome(l)

(* The views of the overview and of the usage page.                           *)
HomeView ==
  IF failed THEN "error" ELSE IF loading \/ shown = Nothing THEN "loading" ELSE "figures"

UsageView ==
  IF loading THEN "loading" ELSE IF failed THEN "error" ELSE "figures"

(* The refresh button of a header, and the retry button of an error.  The       *)
(* user's details have no header button and keep an error while they load.     *)
RefreshButton == CASE page = "user"  -> FALSE
                   [] page = "home"  -> HomeView = "figures"
                   [] page = "usage" -> UsageView # "loading"
                   [] OTHER          -> ~ loading

RetryButton == CASE page = "home"    -> HomeView = "error"
                 [] page = "usage"   -> UsageView = "error"
                 [] OTHER            -> failed /\ (page = "user" \/ ~ loading)

RefreshPage(l) ==
  /\ dialog = Nothing /\ ~ Loads(l) /\ Room
  /\ RefreshButton \/ RetryButton
  /\ Load(l)
  /\ doubt' = Crowded(l)
  /\ UNCHANGED <<page, rows, shown, slot, dialog, op>>

(* The API answers.  The usage summary it cannot compute: its handler reads     *)
(* fields the service does not return (admin.py:431-435).                     *)
ServeLoad(l) ==
  /\ load[l].at = "asked"
  /\ \/ page # "usage" /\ load' = [load EXCEPT ![l] = [at |-> "served", got |-> rows]]
     \/ load' = [load EXCEPT ![l].at = "refused"]
     \/ page = "home" /\ load' = [load EXCEPT ![l].at = "signedOut"]
  /\ UNCHANGED <<page, rows, shown, loading, failed, slot, dialog, op, doubt>>

(* setXs or setError, then setLoading(false).  A signed-out administrator sees  *)
(* the figures built into the overview.                                      *)
Loaded(l) ==
  /\ load' = [load EXCEPT ![l] = NoLoad]
  /\ loading' = FALSE
  /\ CASE load[l].at = "served"    -> shown' = load[l].got /\ failed' = (failed /\ page # "home")
       [] load[l].at = "signedOut" -> shown' = Demo /\ failed' = FALSE
       [] load[l].at = "refused"   -> failed' = TRUE /\ UNCHANGED shown

Arrived(l) == load[l].at \in {"served", "refused", "signedOut"}

(* A load that no action awaits takes effect.                                *)
ApplyLoad(l) ==
  /\ l \in Reads /\ Arrived(l)
  /\ Loaded(l)
  /\ UNCHANGED <<page, rows, slot, dialog, op, doubt>>

-----------------------------------------------------------------------------
(* Buttons are rendered with the rows: not while loading, nor with an error,    *)
(* except on the user's details.  A confirmation covers them all.             *)
Rendered == /\ shown \in Rows /\ dialog = Nothing
            /\ page = "user" \/ ~ (loading \/ failed)

Toggle(i) == [item |-> i, kind |-> IF shown[i] = "on" THEN "disable" ELSE "enable"]
ToDo(i, k) == [item |-> i, kind |-> k]
Taken(i) == slot # Nothing /\ slot.item = i

(* The rows that have buttons, by page, with what their buttons wait for.        *)
UsersTable(i)       == page = "users" /\ ~ Taken(i)
UserCard(i)         == page = "user" /\ slot = Nothing
InvitationsTable(i) == page = "invitations" /\ shown[i] = "on"
InvitationCard(i)   == page = "invitation" /\ shown[i] = "on" /\ slot = Nothing
CredentialsTable(i) == page = "credentials" /\ shown[i] # "absent"
ModelsTable(i)      == page = "models" /\ ~ Taken(i)

(* The buttons that ask for a confirmation.                                   *)
AskStatus(i, t) == (UsersTable(i) \/ UserCard(i)) /\ t = Toggle(i)
AskRevoke(i, t) == /\ (InvitationsTable(i) /\ slot # ToDo(i, "revoke")) \/ InvitationCard(i)
                   /\ t = ToDo(i, "revoke")
AskDelete(i, t) == CredentialsTable(i) /\ slot # ToDo(i, "delete") /\ t = ToDo(i, "delete")

(* A details page is about one row.                                          *)
Focus(i) == page \in Details => i = CHOOSE j \in Items : TRUE

AskConfirmation(i) ==
  /\ Rendered /\ Focus(i)
  /\ \E t \in Todo : (AskStatus(i, t) \/ AskRevoke(i, t) \/ AskDelete(i, t)) /\ dialog' = t
  /\ UNCHANGED <<page, rows, shown, loading, failed, slot, op, load, doubt>>

Dismiss ==
  /\ dialog # Nothing /\ dialog' = Nothing
  /\ UNCHANGED <<page, rows, shown, loading, failed, slot, op, load, doubt>>

(* Every handler up to its await: the slot is taken and the request sent.       *)
Begin(o, todo) ==
  /\ op[o] = NoOp /\ Room
  /\ op' = [op EXCEPT ![o] = [at |-> "posting", todo |-> todo]]
  /\ Doubtful(o)
  /\ UNCHANGED <<page, rows, shown, loading, failed, load>>

(* Mutant: handleRevoke and its likes do not take the slot. *)
Confirm_NoSlot(o) ==
  /\ dialog # Nothing
  /\ Begin(o, dialog)
  /\ dialog' = Nothing
  /\ UNCHANGED slot

(* What the confirm button does.  The user's details take the new status from   *)
(* the user shown by then.                                                   *)
HandleStatusChange(t)     == page = "users" /\ t = dialog
HandleStatusToggle(t)     == page = "user" /\ t = Toggle(dialog.item)
HandleRevoke(t)           == page = "invitations" /\ t = dialog
HandleRevokeOne(t)        == page = "invitation" /\ t = dialog
HandleDeleteCredential(t) == page = "credentials" /\ t = dialog

Confirm(o) ==
  /\ dialog # Nothing
  /\ \E t \in Todo :
       /\ \/ HandleStatusChange(t) \/ HandleStatusToggle(t) \/ HandleDeleteCredential(t)
          \/ HandleRevoke(t) \/ HandleRevokeOne(t)
       /\ Begin(o, t) /\ slot' = t
  /\ dialog' = Nothing

(* The buttons that act at once.                                              *)
HandleResend(i, t)     == InvitationsTable(i) /\ slot # ToDo(i, "resend") /\ t = ToDo(i, "resend")
HandleResendOne(i, t)  == InvitationCard(i) /\ t = ToDo(i, "resend")
HandleVerify(i, t)     == CredentialsTable(i) /\ slot # ToDo(i, "verify") /\ t = ToDo(i, "verify")
HandleUpdate(i, t)     == ModelsTable(i) /\ t = ToDo(i, "update")
HandleSetDefault(i, t) == ModelsTable(i) /\ t = ToDo(i, "setDefault")

Click(o) ==
  /\ Rendered
  /\ \E i \in Items, t \in Todo :
       /\ Focus(i)
       /\ \/ HandleResend(i, t) \/ HandleResendOne(i, t) \/ HandleVerify(i, t)
          \/ HandleUpdate(i, t) \/ HandleSetDefault(i, t)
       /\ Begin(o, t) /\ slot' = t
  /\ UNCHANGED dialog

(* The create dialog has a busy flag of its own, and no part in the slot.       *)
Creating == \E o \in Ops : op[o].at = "posting" /\ op[o].todo.kind = "create"

CreateInvitation(o) ==
  /\ page = "invitations" /\ dialog = Nothing /\ ~ Creating
  /\ \E i \in Items : rows[i] = "absent" /\ Begin(o, ToDo(i, "create"))
  /\ UNCHANGED <<slot, dialog>>

(* Refused by the API whatever the form holds: the client sends apiKey, the     *)
(* API requires secret (api.ts:289-294, schemas/credentials.py:17-20).         *)
CreateCredential(o) ==
  /\ page = "credentials" /\ dialog = Nothing /\ ~ Creating
  /\ \E i \in Items : rows[i] = "absent" /\ Begin(o, ToDo(i, "create"))
  /\ UNCHANGED <<slot, dialog>>

-----------------------------------------------------------------------------
(* The API carries out a post.  PUT /admin/models fails for every body          *)
(* (admin.py:336-350 reads fields that schemas/models.py:31 does not have).     *)
Effect(t) ==
  CASE t.kind = "enable"  -> {"on"}
    [] t.kind = "disable" -> {"off"}
    [] t.kind = "create"  -> IF page = "invitations" THEN {"on"} ELSE {}
    [] t.kind = "revoke"  -> {"off"}
    [] t.kind = "resend"  -> {rows[t.item]}
    [] t.kind = "verify"  -> {"on"}
    [] t.kind = "delete"  -> {"absent"}
    [] OTHER              -> {}

(* Sending a link again leaves the page as it is; the models page takes the      *)
(* answer to an update into its row.                                          *)
Reloads(t) == t.kind \notin {"resend", "update"}
ClosesDialog(t) == t.kind \in {"enable", "disable", "revoke", "delete"}

(* finally: the slot is released, and with it the dialog, whosoever they are.   *)
Finally(t) ==
  /\ slot' = IF t.kind = "create" THEN slot ELSE Nothing
  /\ dialog' = IF ClosesDialog(t) THEN Nothing ELSE dialog

(* Mutant: a successful action leaves the page as it was loaded. *)
ActionDone_NoReload(o) ==
  /\ op[o].at = "posting"
  /\ \E v \in Effect(op[o].todo) : rows' = [rows EXCEPT ![op[o].todo.item] = v]
  /\ op' = [op EXCEPT ![o] = NoOp] /\ Finally(op[o].todo)
  /\ UNCHANGED <<page, shown, loading, failed, load, doubt>>

ActionDone(o) ==
  /\ op[o].at = "posting"
  /\ \E v \in Effect(op[o].todo) : rows' = [rows EXCEPT ![op[o].todo.item] = v]
  /\ IF Reloads(op[o].todo)
       THEN Load(o) /\ op' = [op EXCEPT ![o].at = "reloading"] /\ UNCHANGED <<slot, dialog>>
       ELSE /\ op' = [op EXCEPT ![o] = NoOp] /\ Finally(op[o].todo)
            /\ UNCHANGED <<loading, failed, load>>
  /\ UNCHANGED <<page, shown, doubt>>

(* Mutant: the slot is released on success only. *)
ActionFails_SlotKept(o) ==
  /\ op[o].at = "posting"
  /\ op' = [op EXCEPT ![o] = NoOp]
  /\ UNCHANGED <<page, rows, shown, loading, failed, slot, dialog, load, doubt>>

(* The post is refused, or fails after it has had its effect (update_user_status*)
(* commits the status before it stops the runtime).                           *)
ActionFails(o) ==
  /\ op[o].at = "posting"
  /\ \/ UNCHANGED <<rows, doubt>>
     \/ /\ \E v \in Effect(op[o].todo) : rows' = [rows EXCEPT ![op[o].todo.item] = v]
        /\ doubt' = TRUE
  /\ op' = [op EXCEPT ![o] = NoOp]
  /\ Finally(op[o].todo)
  /\ UNCHANGED <<page, shown, loading, failed, load>>

(* The awaited load takes effect and the handler ends.                        *)
ReloadDone(o) ==
  /\ op[o].at = "reloading" /\ Arrived(o)
  /\ Loaded(o)
  /\ op' = [op EXCEPT ![o] = NoOp]
  /\ Finally(op[o].todo)
  /\ UNCHANGED <<page, rows, doubt>>

AdminOpStep(o) == ActionDone(o) \/ ActionFails(o) \/ ReloadDone(o)

AdminNext ==
  \/ \E l \in Ops \cup Reads : ServeLoad(l)
  \/ \E l \in Reads : RefreshPage(l) \/ ApplyLoad(l)
  \/ \E i \in Items : AskConfirmation(i)
  \/ Dismiss
  \/ \E o \in Ops : \/ Confirm(o) \/ Click(o) \/ CreateInvitation(o) \/ CreateCredential(o)
                    \/ AdminOpStep(o)

(* Requests are answered and the answers handled; nobody need click.          *)
AdminFairness ==
  /\ \A l \in Ops \cup Reads : WF_adminVars(ServeLoad(l))
  /\ \A l \in Reads : WF_adminVars(ApplyLoad(l))
  /\ \A o \in Ops : WF_adminVars(AdminOpStep(o))

AdminSpec == AdminInit /\ [][AdminNext]_adminVars

-----------------------------------------------------------------------------
(* A page at rest shows what the API holds: nothing under way, no error, and    *)
(* nothing overlapped or failed half-way since the last refresh by itself.      *)
(* Where that is not so, rows can be stale until the next refresh; and the      *)
(* overview of a signed-out administrator shows invented figures.              *)
QuietPageIsFresh ==
  \/ doubt \/ failed \/ shown = Demo
  \/ \E o \in Ops : Busy(o)
  \/ \E l \in Ops \cup Reads : Loads(l)
  \/ shown = rows

(* No page stays busy: loading ends and the slot is released, whatever the      *)
(* requests answer and however they overlap.                                 *)
BusyEnds == (loading ~> ~ loading) /\ (slot # Nothing ~> slot = Nothing)

(* On a details page no action begins beside another, although the            *)
(* confirmation is asked for before the slot is taken.  (On a list the one      *)
(* slot is taken over by an action on another row, and the first row's buttons  *)
(* come back.)                                                               *)
OneActionOnDetails ==
  page \in Details => \A o, p \in Ops : Busy(o) /\ Busy(p) => o = p
=============================================================================
