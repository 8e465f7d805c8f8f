------------------------------ MODULE Dashboard ------------------------------
(***************************************************************************)
(* The dashboard of the web client (Dashboard.tsx): the card of the user's   *)
(* runtime, its buttons, and the polling of the task an action starts.       *)
(*                                                                         *)
(* An action posts, polls its task every few seconds for at most 90, then    *)
(* reads the status once more.  actionInProgress locks the buttons.  Reads  *)
(* of the status can be under way at once: one per refresh and one per task. *)
(* What the API answers (ServePost, ServeStatus) takes effect later, or is    *)
(* lost.                                                                   *)
(*                                                                         *)
(* The API and the runtime manager are abstracted to the status a read       *)
(* returns: RuntimeService.tla has the detail.  A post is answered when its   *)
(* task is over, so that the first poll to be answered sees the end.  The     *)
(* status also changes by itself (StatusMoves), which the page is not told.   *)
(***************************************************************************)
EXTENDS Naturals, FiniteSets

CONSTANTS
  Acts,         \* actions under way at once (a bound)
  Refreshes,    \* refreshes under way at once (a bound)
  AtOnce        \* actions and refreshes under way together (a bound)

ASSUME ActsAndRefreshes == Acts # {} /\ Refreshes # {} /\ Acts \cap Refreshes = {}
ASSUME SomeAtOnce == AtOnce \in Nat

VARIABLES
  observed,     \* API: the status a read returns now
  status,       \* runtimeStatus; "none" is null
  fetching,     \* runtimeLoading
  lock,         \* actionInProgress; "none" is null
  deleting,     \* deleteLoading
  deleteDialog, \* deleteDialogOpen
  act,          \* actions under way
  read,         \* reads of the status, by the action or the refresh they are for
  crossed,      \* history: since the page was entered, a poll timed out, or an
                \* action began beside a delete
  card          \* history: does the card show what the API answered after the
                \* last action of this page: "fresh", not yet ("owed"), or was
                \* it kept from it ("excused")

dashVars == <<observed, status, fetching, lock, deleting, deleteDialog, act,
              read, crossed, card>>

Actions == {"start", "stop", "delete"}

(* What the API says of a binding - a runtime that runs but is not ready is     *)
(* being created - or of a user without one ("missing").                      *)
Bound == {"creating", "ready", "stopped", "deleted", "error"}
Projections == Bound \cup {"missing"}
Statuses == Projections \cup {"none"}

DeriveRuntimeUIState(s) ==
  CASE s \in {"none", "missing"}     -> "runtimeUnknown"
    [] s = "creating"                -> "runtimeCreating"
    [] s = "ready"                   -> "runtimeRunning"
    [] s \in {"stopped", "deleted"}  -> "runtimeStopped"
    [] OTHER                         -> "runtimeError"

UIState == DeriveRuntimeUIState(status)

NoAct == [kind |-> "none", at |-> "free"]
NoRead == [at |-> "idle", got |-> "none", old |-> FALSE]

(* "done": the API has answered the post.                                    *)
ActRecs == [kind : Actions \cup {"none"}, at : {"free", "posting", "done", "polling", "reading"}]

(* An old answer was given before an action of this page was over.            *)
ReadRecs == [at : {"idle", "asked", "served"}, got : Statuses \cup {"failed"}, old : BOOLEAN]

DashTypeOK ==
  /\ observed \in Projections /\ status \in Statuses
  /\ lock \in Actions \cup {"none"}
  /\ {fetching, deleting, deleteDialog, crossed} \subseteq BOOLEAN
  /\ act \in [Acts -> ActRecs]
  /\ read \in [Acts \cup Refreshes -> ReadRecs]
  /\ card \in {"fresh", "owed", "excused"}

(* RuntimeCard: what the buttons need; there are none before a status is read.   *)
(* (A card that is neither loading nor in error and has no status would offer a   *)
(* start, but is never reached: the API answers RUNTIME_NOT_FOUND as a status.)   *)
CanStart  == /\ status # "none" /\ lock = "none"
             /\ UIState \in {"runtimeStopped", "runtimeUnknown", "runtimeError"}
CanStop   == lock = "none" /\ UIState = "runtimeRunning"
CanDelete == lock = "none" /\ UIState \in {"runtimeStopped", "runtimeError", "runtimeRunning"}

Acting(o) == act[o].at # "free"
Reading(r) == read[r].at # "idle"

NotTooMany == Cardinality({o \in Acts : Acting(o)} \cup {r \in Refreshes : Reading(r)}) < AtOnce

Ask == [NoRead EXCEPT !.at = "asked"]

DashInit ==
  /\ observed \in {"missing", "ready", "stopped"}
  /\ status = "none" /\ fetching = TRUE
  /\ lock = "none" /\ deleting = FALSE /\ deleteDialog = FALSE
  /\ act = [o \in Acts |-> NoAct]
  /\ \E first \in Refreshes :
       read = [r \in Acts \cup Refreshes |-> IF r = first THEN Ask ELSE NoRead]
  /\ crossed = FALSE /\ card = "fresh"

-----------------------------------------------------------------------------
(* loadRuntimeStatus, from the refresh button.                               *)
Refresh(r) ==
  /\ ~ fetching /\ ~ Reading(r) /\ NotTooMany
  /\ read' = [read EXCEPT ![r] = Ask]
  /\ UNCHANGED <<observed, status, fetching, lock,
                 deleting, deleteDialog, act, crossed, card>>

ServeStatus(r) ==
  /\ read[r].at = "asked"
  /\ \E a \in {observed, "failed"} :
       read' = [read EXCEPT ![r] = [at |-> "served", got |-> a, old |-> FALSE]]
  /\ UNCHANGED <<observed, status, fetching, lock, deleting,
                 deleteDialog, act, crossed, card>>

(* What a read leaves.                                                       *)
Apply(r) ==
  /\ read' = [read EXCEPT ![r] = NoRead]
  /\ fetching' = FALSE
  /\ status' = IF read[r].got = "failed" THEN status ELSE read[r].got
  /\ card' = CASE read[r].got # "failed" /\ ~ read[r].old -> "fresh"
               [] read[r].got # "failed" /\ read[r].old   -> IF card = "fresh" THEN "excused" ELSE card
               [] OTHER -> IF card = "owed" /\ r \in Acts THEN "excused" ELSE card

ApplyStatus(r) ==
  /\ r \in Refreshes /\ read[r].at = "served"
  /\ Apply(r)
  /\ UNCHANGED <<observed, lock, deleting, deleteDialog, act, crossed>>

-----------------------------------------------------------------------------
Post(o, kind) ==
  /\ act[o] = NoAct /\ NotTooMany
  /\ act' = [act EXCEPT ![o] = [kind |-> kind, at |-> "posting"]]

(* Mutant: the button is locked only once the task is polled. *)
HandleStart_Unlocked(o) ==
  /\ CanStart /\ ~ deleteDialog
  /\ crossed' = (crossed \/ deleting)
  /\ Post(o, "start")
  /\ UNCHANGED <<observed, status, fetching, lock,
                 deleting, deleteDialog, read, card>>

HandleStart(o) ==
  /\ CanStart /\ ~ deleteDialog
  /\ crossed' = (crossed \/ deleting)
  /\ Post(o, "start")
  /\ lock' = "start"
  /\ UNCHANGED <<observed, status, fetching,
                 deleting, deleteDialog, read, card>>

HandleStop(o) ==
  /\ CanStop /\ ~ deleteDialog
  /\ crossed' = (crossed \/ deleting)
  /\ Post(o, "stop")
  /\ lock' = "stop"
  /\ UNCHANGED <<observed, status, fetching,
                 deleting, deleteDialog, read, card>>

(* The dialog can be dismissed at any time, also while its delete is posted.   *)
DeleteDialog ==
  /\ deleteDialog' = ~ deleteDialog
  /\ deleteDialog \/ CanDelete
  /\ UNCHANGED <<observed, status, fetching, lock, deleting,
                 act, read, crossed, card>>

(* The delete does not lock the buttons before its answer.                    *)
HandleDelete(o) ==
  /\ deleteDialog /\ ~ deleting
  /\ Post(o, "delete")
  /\ deleting' = TRUE
  /\ UNCHANGED <<observed, status, fetching, lock,
                 deleteDialog, read, crossed, card>>

(* What a task leaves, when it succeeds and when it fails.                    *)
Outcome(kind) == CASE kind = "start"  -> {"ready", "creating", "error"}
                   [] kind = "stop"   -> {"stopped", "error"}
                   [] kind = "delete" -> {"deleted", "error"}
                   [] OTHER           -> {}

(* The handler of the API runs the task to its end and answers.                *)
ServePost(o) ==
  /\ act[o].at = "posting"
  /\ act' = [act EXCEPT ![o].at = "done"]
  /\ observed' \in Outcome(act[o].kind)
  /\ read' = [r \in Acts \cup Refreshes |->
                IF read[r].at = "served" THEN [read[r] EXCEPT !.old = TRUE] ELSE read[r]]
  /\ card' = "owed"
  /\ UNCHANGED <<status, fetching, lock, deleting, deleteDialog, crossed>>

(* Mutant: an error of start or stop leaves the buttons locked. *)
PostFails_StaysLocked(o) ==
  /\ act[o].at \in {"posting", "done"}
  /\ act' = [act EXCEPT ![o] = NoAct]
  /\ card' = IF act[o].at = "done" /\ card = "owed" THEN "excused" ELSE card
  /\ IF act[o].kind = "delete" THEN deleting' = FALSE ELSE UNCHANGED deleting
  /\ UNCHANGED <<observed, status, fetching, lock, deleteDialog, read, crossed>>

(* A post is refused or times out, or its answer is lost: its own flag is       *)
(* cleared, and the status not read.  (A task that the API takes up or finishes *)
(* after that is StatusMoves.)                                               *)
PostFails(o) ==
  /\ act[o].at \in {"posting", "done"}
  /\ act' = [act EXCEPT ![o] = NoAct]
  /\ card' = IF act[o].at = "done" /\ card = "owed" THEN "excused" ELSE card
  /\ IF act[o].kind = "delete" THEN deleting' = FALSE /\ UNCHANGED lock
                              ELSE lock' = "none" /\ UNCHANGED deleting
  /\ UNCHANGED <<observed, status, fetching, deleteDialog, read, crossed>>

(* The task's name is answered: startPolling sets the lock, whoever held it.    *)
PostAccepted(o) ==
  /\ act[o].at = "done"
  /\ act' = [act EXCEPT ![o].at = "polling"]
  /\ lock' = act[o].kind
  /\ IF act[o].kind = "delete" THEN deleting' = FALSE /\ deleteDialog' = FALSE
                              ELSE UNCHANGED <<deleting, deleteDialog>>
  /\ UNCHANGED <<observed, status, fetching, read, crossed, card>>

-----------------------------------------------------------------------------
(* Mutant: the status is not read again when the task has ended. *)
PollSeesEnd_NoRead(o) ==
  /\ act[o].at = "polling"
  /\ act' = [act EXCEPT ![o] = NoAct]
  /\ lock' = "none"
  /\ UNCHANGED <<observed, status, fetching, deleting,
                 deleteDialog, read, crossed, card>>

(* pollRuntimeTask gets an answer: a task that is over, or that the API has      *)
(* forgotten, which reads as failed.  An error only polls on.                 *)
PollSeesEnd(o) ==
  /\ act[o].at = "polling"
  /\ act' = [act EXCEPT ![o] = [NoAct EXCEPT !.at = "reading"]]
  /\ read' = [read EXCEPT ![o] = Ask]
  /\ UNCHANGED <<observed, status, fetching, lock,
                 deleting, deleteDialog, crossed, card>>

(* After 90 seconds of errors - at any time, as far as the page can tell -      *)
(* onTimeout unlocks; the status is read all the same.                        *)
PollTimesOut(o) ==
  /\ act[o].at = "polling"
  /\ act' = [act EXCEPT ![o] = [NoAct EXCEPT !.at = "reading"]]
  /\ lock' = "none"
  /\ read' = [read EXCEPT ![o] = Ask]
  /\ crossed' = TRUE
  /\ UNCHANGED <<observed, status, fetching, deleting, deleteDialog, card>>

(* The last lines of startPolling: the status is read, the lock cleared.       *)
PollingDone(o) ==
  /\ act[o].at = "reading" /\ read[o].at = "served"
  /\ Apply(o)
  /\ lock' = "none"
  /\ act' = [act EXCEPT ![o] = NoAct]
  /\ UNCHANGED <<observed, deleting, deleteDialog, crossed>>

(* The status changes and this page is not told: the container exits or comes    *)
(* back, an administrator disables the user, another tab acts, a post that the   *)
(* page gave up on is served.                                                *)
StatusMoves ==
  /\ \E s \in Bound \ {observed} : observed' = s
  /\ UNCHANGED <<status, fetching, lock, deleting, deleteDialog,
                 act, read, crossed, card>>

(* The page is left - by a link, or by handleOpenWorkspace, whose answer may come  *)
(* at any time - and entered again.  Nothing is cancelled, but the new page follows *)
(* none of it.                                                                *)
LeaveDashboard ==
  /\ fetching' = TRUE /\ status' = "none"
  /\ lock' = "none" /\ deleting' = FALSE /\ deleteDialog' = FALSE
  /\ act' = [o \in Acts |-> NoAct]
  /\ \E first \in Refreshes :
       read' = [r \in Acts \cup Refreshes |-> IF r = first THEN Ask ELSE NoRead]
  /\ crossed' = FALSE /\ card' = "fresh"
  /\ UNCHANGED observed

ActStep(o) == \/ ServePost(o) \/ PostFails(o) \/ PostAccepted(o)
              \/ PollSeesEnd(o) \/ PollTimesOut(o) \/ PollingDone(o)

DashNext ==
  \/ \E r \in Refreshes : Refresh(r) \/ ApplyStatus(r)
  \/ \E r \in Acts \cup Refreshes : ServeStatus(r)
  \/ \E o \in Acts : HandleStart(o) \/ HandleStop(o) \/ HandleDelete(o) \/ ActStep(o)
  \/ DeleteDialog \/ StatusMoves \/ LeaveDashboard

(* Requests are answered or fail, and polls end.                              *)
DashFairness ==
  /\ \A r \in Acts \cup Refreshes : WF_dashVars(ServeStatus(r))
  /\ \A r \in Refreshes : WF_dashVars(ApplyStatus(r))
  /\ \A o \in Acts : WF_dashVars(ActStep(o))

DashSpec == DashInit /\ [][DashNext]_dashVars

-----------------------------------------------------------------------------
(* One action at a time: while an action posts, is polled or reads the status,  *)
(* no other begins, until a poll times out or an action begins beside a delete *)
(* being posted (which does not lock the buttons once its dialog is dismissed).*)
OneActionAtATime ==
  crossed \/ \A o, p \in Acts : Acting(o) /\ Acting(p) => o = p

(* The lock is released: the buttons come back whatever an action's requests   *)
(* answer, also when no poll is ever answered.                               *)
LockIsReleased == lock # "none" ~> lock = "none"

(* An action is not forgotten: with nothing under way, the card shows what the   *)
(* API answered after the last action of this page was over ("Refresh runtime     *)
(* status after task completes", Dashboard.tsx:564), however actions, polls that  *)
(* time out and refreshes overlap.  It may show less in three cases: the answer to *)
(* the post was lost, the action's own read failed, an older answer arrived after  *)
(* a newer one.  And it says nothing of later moves: the page does not watch.      *)
SettledStatusIsFresh ==
  \/ card # "owed"
  \/ \E o \in Acts : Acting(o)
  \/ \E r \in Acts \cup Refreshes : Reading(r)
=============================================================================
