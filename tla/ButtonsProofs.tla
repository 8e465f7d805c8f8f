---------------------------- MODULE ButtonsProofs ----------------------------
(***************************************************************************)
(* Theorems about the dashboard and the administrator's pages, for any number *)
(* of actions, refreshes and rows.                                           *)
(*                                                                         *)
(* One action at a time: neither page takes its lock where it asks for a      *)
(* confirmation; what carries the theorems is that an open confirmation and   *)
(* an action under way exclude each other.                                   *)
(*                                                                         *)
(* A page at rest is current.  What carries the dashboard's theorem is that a   *)
(* card that owes something has an action under way that will still pay it; the *)
(* administrator's, that while nothing has overlapped, at most one thing is     *)
(* under way, and it is the one that still has to bring what the page shows.    *)
(***************************************************************************)
EXTENDS Dashboard, AdminPages, TLAPS

(* Dashboard: what is under way while nothing has crossed it.  A delete being    *)
(* posted has the delete flag, everything else the lock, and not both.           *)
LockedByAct ==
  \A o \in Acts : Acting(o) =>
    IF act[o].at \in {"posting", "done"} /\ act[o].kind = "delete" THEN deleting ELSE lock # "none"

PostingIsAnAction == \A o \in Acts : act[o].at \in {"posting", "done"} => act[o].kind \in Actions

Locked ==
  /\ OneActionAtATime
  /\ ~ crossed => /\ LockedByAct
                  /\ ~ (deleting /\ lock # "none")
                  /\ ~ (deleteDialog /\ lock # "none")

DashInv == act \in [Acts -> ActRecs] /\ PostingIsAnAction /\ Locked

LEMMA DashInitInv == DashInit => DashInv
BY DEF DashInit, DashInv, NoAct, ActRecs, PostingIsAnAction, Locked, OneActionAtATime, LockedByAct, Acting

(* An action begins where none is under way.                                   *)
LEMMA PostAlone ==
  ASSUME DashInv, NEW o \in Acts, NEW kind \in Actions, Post(o, kind), ~ crossed',
         ~ crossed /\ lock = "none" /\ ~ deleting,
         IF kind = "delete" THEN deleting' /\ lock' = lock ELSE lock' = kind /\ deleting' = deleting,
         kind # "delete" => ~ deleteDialog', kind = "delete" => UNCHANGED deleteDialog
  PROVE  DashInv'
<1> USE DEF DashInv
<1>1. \A p \in Acts : ~ Acting(p)
  BY DEF Locked, LockedByAct
<1>2. act' = [act EXCEPT ![o] = [kind |-> kind, at |-> "posting"]]
  BY DEF Post
<1>3. act'[o].at = "posting" /\ act'[o].kind = kind /\ \A p \in Acts \ {o} : act'[p] = act[p]
  BY <1>2 DEF NoAct
<1>4. act' \in [Acts -> ActRecs]
  BY <1>2 DEF NoAct, ActRecs
<1>5. PostingIsAnAction'
  BY <1>3 DEF PostingIsAnAction
<1>6. OneActionAtATime'
  BY <1>1, <1>3 DEF OneActionAtATime, Acting
<1>7. kind # "none"
  BY DEF Actions
<1>8. LockedByAct'
  BY <1>1, <1>3, <1>7 DEF LockedByAct, Acting
<1> QED BY <1>4, <1>5, <1>6, <1>7, <1>8 DEF Locked

LEMMA PostTypes ==
  ASSUME DashInv, NEW o \in Acts, NEW kind \in Actions, Post(o, kind)
  PROVE  act' \in [Acts -> ActRecs] /\ PostingIsAnAction'
<1>1. act' = [act EXCEPT ![o] = [kind |-> kind, at |-> "posting"]]
  BY DEF Post
<1>2. act'[o].kind = kind /\ \A p \in Acts \ {o} : act'[p] = act[p]
  BY <1>1 DEF NoAct, DashInv
<1> QED BY <1>1, <1>2 DEF NoAct, ActRecs, DashInv, PostingIsAnAction

LEMMA DashStepInv == DashInv /\ [DashNext]_dashVars => DashInv'
<1> SUFFICES ASSUME DashInv, [DashNext]_dashVars PROVE DashInv'
  OBVIOUS
<1> USE DEF DashInv
<1>1. CASE UNCHANGED <<lock, deleting, deleteDialog, act, crossed>>
  BY <1>1 DEF PostingIsAnAction, Locked, OneActionAtATime, LockedByAct, Acting
<1>2. ASSUME NEW o \in Acts, HandleStart(o) \/ HandleStop(o) PROVE DashInv'
  <2>1. PICK kind \in {"start", "stop"} :
          /\ Post(o, kind) /\ lock = "none" /\ lock' = kind /\ deleting' = deleting
          /\ ~ deleteDialog /\ deleteDialog' = deleteDialog /\ crossed' = (crossed \/ deleting)
    BY <1>2 DEF HandleStart, HandleStop, CanStart, CanStop
  <2>2. kind \in Actions /\ kind # "delete"
    BY DEF Actions
  <2>3. CASE crossed'
    BY <2>1, <2>2, <2>3, PostTypes DEF Locked, OneActionAtATime
  <2>4. CASE ~ crossed'
    BY <2>1, <2>2, <2>4, PostAlone
  <2> QED BY <2>3, <2>4
<1>3. ASSUME NEW o \in Acts, HandleDelete(o) PROVE DashInv'
  <2>1. /\ Post(o, "delete") /\ deleteDialog /\ ~ deleting /\ deleting'
        /\ lock' = lock /\ deleteDialog' = deleteDialog /\ crossed' = crossed
    BY <1>3 DEF HandleDelete
  <2>2. "delete" \in Actions
    BY DEF Actions
  <2>3. CASE crossed
    BY <2>1, <2>2, <2>3, PostTypes DEF Locked, OneActionAtATime
  <2>4. CASE ~ crossed
    BY <2>1, <2>2, <2>4, PostAlone DEF Locked
  <2> QED BY <2>3, <2>4
<1>4. CASE DeleteDialog
  BY <1>4 DEF DeleteDialog, CanDelete, PostingIsAnAction, Locked, OneActionAtATime, LockedByAct, Acting
<1>5. ASSUME NEW o \in Acts, PostFails(o) PROVE DashInv'
  <2>1. act' = [act EXCEPT ![o] = NoAct] /\ crossed' = crossed /\ deleteDialog' = deleteDialog
    BY <1>5 DEF PostFails
  <2>2. ~ crossed => \A p \in Acts : act'[p].at = "free"
    BY <1>5, <2>1 DEF PostFails, NoAct, Locked, OneActionAtATime, Acting
  <2>3. act' \in [Acts -> ActRecs] /\ PostingIsAnAction'
    BY <2>1 DEF NoAct, ActRecs, PostingIsAnAction
  <2>4. (deleting' => deleting) /\ (lock' # "none" => lock # "none")
    BY <1>5 DEF PostFails
  <2> QED BY <2>1, <2>2, <2>3, <2>4 DEF Locked, OneActionAtATime, LockedByAct, Acting
<1>6. ASSUME NEW o \in Acts, PostAccepted(o) PROVE DashInv'
  <2>1. /\ act' = [act EXCEPT ![o].at = "polling"] /\ crossed' = crossed
        /\ act[o].at = "done" /\ lock' = act[o].kind
        /\ IF act[o].kind = "delete" THEN ~ deleting' /\ ~ deleteDialog'
                                     ELSE UNCHANGED <<deleting, deleteDialog>>
    BY <1>6 DEF PostAccepted
  <2>2. lock' # "none"
    BY <2>1 DEF PostingIsAnAction, Actions
  <2>3. act' \in [Acts -> ActRecs] /\ PostingIsAnAction'
    BY <2>1 DEF ActRecs, PostingIsAnAction
  <2>4. \A p \in Acts : Acting(p)' => Acting(p)
    BY <2>1 DEF Acting, ActRecs
  <2>5. \A p \in Acts : p # o => act'[p] = act[p]
    BY <2>1
  <2>6. act'[o].at = "polling"
    BY <2>1 DEF ActRecs
  <2>7. ~ crossed /\ act[o].kind # "delete" => lock # "none"
    BY <2>1 DEF Locked, LockedByAct, Acting
  <2>8. ~ crossed => \A p \in Acts : Acting(p) => p = o
    BY <2>1 DEF Locked, OneActionAtATime, Acting
  <2> QED BY <2>1, <2>2, <2>3, <2>4, <2>6, <2>7, <2>8 DEF Locked, OneActionAtATime, LockedByAct
<1>7. ASSUME NEW o \in Acts, ServePost(o) PROVE DashInv'
  <2>1. /\ act' = [act EXCEPT ![o].at = "done"] /\ act[o].at = "posting"
        /\ UNCHANGED <<lock, deleting, deleteDialog, crossed>>
    BY <1>7 DEF ServePost
  <2>2. /\ act' \in [Acts -> ActRecs]
        /\ \A p \in Acts : act'[p].kind = act[p].kind
        /\ \A p \in Acts : act'[p].at = IF p = o THEN "done" ELSE act[p].at
    BY <2>1 DEF ActRecs
  <2> QED BY <2>1, <2>2 DEF PostingIsAnAction, Locked, OneActionAtATime, LockedByAct, Acting
<1>8. ASSUME NEW o \in Acts, PollSeesEnd(o) \/ PollTimesOut(o) PROVE DashInv'
  <2>1. /\ act[o].at = "polling" /\ act' = [act EXCEPT ![o] = [NoAct EXCEPT !.at = "reading"]]
        /\ UNCHANGED <<deleting, deleteDialog>>
        /\ crossed' \/ (crossed' = crossed /\ lock' = lock)
    BY <1>8 DEF PollSeesEnd, PollTimesOut
  <2>2. act'[o].at = "reading" /\ \A p \in Acts \ {o} : act'[p] = act[p]
    BY <2>1 DEF NoAct
  <2>3. act' \in [Acts -> ActRecs] /\ PostingIsAnAction'
    BY <2>1, <2>2 DEF ActRecs, NoAct, PostingIsAnAction
  <2> QED BY <2>1, <2>2, <2>3 DEF Locked, OneActionAtATime, LockedByAct, Acting
<1>9. ASSUME NEW o \in Acts, PollingDone(o) PROVE DashInv'
  <2>1. /\ act[o].at = "reading" /\ act' = [act EXCEPT ![o] = NoAct] /\ lock' = "none"
        /\ UNCHANGED <<deleting, deleteDialog, crossed>>
    BY <1>9 DEF PollingDone
  <2>2. ~ crossed => \A p \in Acts : act'[p].at = "free"
    BY <2>1 DEF NoAct, Locked, OneActionAtATime, Acting
  <2>3. act' \in [Acts -> ActRecs] /\ PostingIsAnAction'
    BY <2>1 DEF ActRecs, NoAct, PostingIsAnAction
  <2> QED BY <2>1, <2>2, <2>3 DEF Locked, OneActionAtATime, LockedByAct, Acting
<1>10. CASE \/ \E r \in Refreshes : Refresh(r) \/ ApplyStatus(r)
            \/ \E r \in Acts \cup Refreshes : ServeStatus(r)
            \/ StatusMoves \/ UNCHANGED dashVars
  BY <1>1, <1>10 DEF Refresh, ApplyStatus, ServeStatus, StatusMoves, dashVars
<1>11. CASE LeaveDashboard
  <2>1. act' \in [Acts -> ActRecs] /\ \A p \in Acts : act'[p].at = "free"
    BY <1>11 DEF LeaveDashboard, NoAct, ActRecs
  <2>2. lock' = "none" /\ ~ deleting'
    BY <1>11 DEF LeaveDashboard
  <2> QED BY <2>1, <2>2 DEF PostingIsAnAction, Locked, OneActionAtATime, LockedByAct, Acting
<1> QED BY <1>2, <1>3, <1>4, <1>5, <1>6, <1>7, <1>8, <1>9, <1>10, <1>11 DEF DashNext, ActStep

(* Dashboard: no action begins beside another.                                 *)
THEOREM DashboardOneAction == DashSpec => []OneActionAtATime
<1>1. DashInv => OneActionAtATime
  BY DEF DashInv, Locked
<1> QED BY <1>1, DashInitInv, DashStepInv, PTL DEF DashSpec
-----------------------------------------------------------------------------
(* The details pages: the slot is taken whenever an action is under way, and    *)
(* free whenever a confirmation is open.                                       *)
OpRecs == [at : {"free", "posting", "reloading"}, todo : Todo \cup {Nothing}]

SlotIsTaken ==
  page \in Details => /\ dialog # Nothing => slot = Nothing
                      /\ \A o \in Ops : Busy(o) => slot # Nothing

DetailsInv == op \in [Ops -> OpRecs] /\ OneActionOnDetails /\ SlotIsTaken

LEMMA DetailsInitInv == AdminInit => DetailsInv
BY DEF AdminInit, DetailsInv, OpRecs, NoOp, OneActionOnDetails, SlotIsTaken, Busy

(* An action that begins where the slot is free, and takes it.                   *)
LEMMA BeginAlone ==
  ASSUME DetailsInv, NEW o \in Ops, NEW t \in Todo, Begin(o, t),
         page \in Details => slot = Nothing /\ slot' = t /\ dialog' = Nothing
  PROVE  DetailsInv'
<1> USE DEF DetailsInv
<1>1. op' = [op EXCEPT ![o] = [at |-> "posting", todo |-> t]] /\ page' = page
  BY DEF Begin
<1>2. op' \in [Ops -> OpRecs]
  BY <1>1 DEF OpRecs
<1>3. CASE page \notin Details
  BY <1>1, <1>2, <1>3 DEF OneActionOnDetails, SlotIsTaken
<1>4. CASE page \in Details
  <2>1. \A p \in Ops : ~ Busy(p)
    BY <1>4 DEF SlotIsTaken
  <2>2. \A p \in Ops \ {o} : op'[p] = op[p]
    BY <1>1
  <2>3. \A p \in Ops : Busy(p)' => p = o
    BY <2>1, <2>2 DEF Busy
  <2>4. slot' # Nothing /\ dialog' = Nothing
    BY <1>4, NothingIsNoTask
  <2> QED BY <1>1, <1>2, <2>3, <2>4 DEF OneActionOnDetails, SlotIsTaken
<1> QED BY <1>3, <1>4

(* An action that ends leaves nothing under way on a details page.               *)
LEMMA EndAlone ==
  ASSUME DetailsInv, NEW o \in Ops, Busy(o), op' = [op EXCEPT ![o] = NoOp],
         Finally(op[o].todo), page' = page
  PROVE  DetailsInv'
<1> USE DEF DetailsInv
<1>1. op' \in [Ops -> OpRecs] /\ op'[o].at = "free" /\ \A p \in Ops \ {o} : op'[p] = op[p]
  BY DEF OpRecs, NoOp
<1>2. page \in Details => \A p \in Ops : ~ Busy(p)'
  BY <1>1 DEF OneActionOnDetails, Busy
<1>3. page \in Details => (dialog' # Nothing => slot' = Nothing)
  BY DEF SlotIsTaken, Finally
<1> QED BY <1>1, <1>2, <1>3 DEF OneActionOnDetails, SlotIsTaken

LEMMA DetailsStepInv == DetailsInv /\ [AdminNext]_adminVars => DetailsInv'
<1> SUFFICES ASSUME DetailsInv, [AdminNext]_adminVars PROVE DetailsInv'
  OBVIOUS
<1>1. ASSUME UNCHANGED <<page, slot, dialog, op>> PROVE DetailsInv'
  BY <1>1 DEF DetailsInv, OneActionOnDetails, SlotIsTaken, Busy
<1>2. ASSUME NEW i \in Items, AskConfirmation(i) PROVE DetailsInv'
  <2>1. PICK t \in Todo : AskStatus(i, t) \/ AskRevoke(i, t) \/ AskDelete(i, t)
    BY <1>2 DEF AskConfirmation
  <2>2. UNCHANGED <<page, slot, op>>
    BY <1>2 DEF AskConfirmation
  <2>3. page \in Details => slot = Nothing
    BY <2>1 DEF AskStatus, AskRevoke, AskDelete, UsersTable, UserCard, InvitationsTable,
                InvitationCard, CredentialsTable, Details
  <2> QED BY <2>2, <2>3 DEF DetailsInv, OneActionOnDetails, SlotIsTaken, Busy
<1>3. CASE Dismiss
  BY <1>3 DEF Dismiss, DetailsInv, OneActionOnDetails, SlotIsTaken, Busy
<1>4. ASSUME NEW o \in Ops, Confirm(o) PROVE DetailsInv'
  <2>1. PICK t \in Todo : Begin(o, t) /\ slot' = t
    BY <1>4 DEF Confirm
  <2>2. dialog # Nothing /\ dialog' = Nothing
    BY <1>4 DEF Confirm
  <2>3. page \in Details => slot = Nothing
    BY <2>2 DEF DetailsInv, SlotIsTaken
  <2> QED BY <2>1, <2>2, <2>3, BeginAlone
<1>5. ASSUME NEW o \in Ops, Click(o) PROVE DetailsInv'
  <2>1. PICK i \in Items, t \in Todo :
          /\ \/ HandleResend(i, t) \/ HandleResendOne(i, t) \/ HandleVerify(i, t)
             \/ HandleUpdate(i, t) \/ HandleSetDefault(i, t)
          /\ Begin(o, t) /\ slot' = t
    BY <1>5 DEF Click
  <2>2. page \in Details => slot = Nothing
    BY <2>1 DEF HandleResend, HandleResendOne, HandleVerify, HandleUpdate, HandleSetDefault,
                InvitationsTable, InvitationCard, CredentialsTable, ModelsTable, Details
  <2>3. dialog = Nothing /\ dialog' = dialog
    BY <1>5 DEF Click, Rendered
  <2> QED BY <2>1, <2>2, <2>3, BeginAlone
<1>6. ASSUME NEW o \in Ops, CreateInvitation(o) \/ CreateCredential(o) PROVE DetailsInv'
  <2>1. PICK i \in Items : Begin(o, ToDo(i, "create"))
    BY <1>6 DEF CreateInvitation, CreateCredential
  <2>2. ToDo(i, "create") \in Todo
    BY DEF ToDo, Todo, Kinds
  <2>3. page \notin Details
    BY <1>6 DEF CreateInvitation, CreateCredential, Details
  <2> QED BY <2>1, <2>2, <2>3, BeginAlone
<1>7. ASSUME NEW o \in Ops, ActionDone(o) PROVE DetailsInv'
  <2>1. CASE Reloads(op[o].todo)
    <3>1. op' = [op EXCEPT ![o].at = "reloading"] /\ UNCHANGED <<slot, dialog, page>>
      BY <1>7, <2>1 DEF ActionDone
    <3>2. op[o].at = "posting"
      BY <1>7 DEF ActionDone
    <3>3. op' \in [Ops -> OpRecs] /\ \A p \in Ops : Busy(p)' => Busy(p)
      BY <3>1, <3>2 DEF DetailsInv, OpRecs, Busy
    <3> QED BY <3>1, <3>3 DEF DetailsInv, OneActionOnDetails, SlotIsTaken
  <2>2. CASE ~ Reloads(op[o].todo)
    <3>1. op' = [op EXCEPT ![o] = NoOp] /\ Finally(op[o].todo) /\ page' = page /\ Busy(o)
      BY <1>7, <2>2 DEF ActionDone, Busy
    <3> QED BY <3>1, EndAlone
  <2> QED BY <2>1, <2>2
<1>8. ASSUME NEW o \in Ops, ActionFails(o) \/ ReloadDone(o) PROVE DetailsInv'
  <2>1. op' = [op EXCEPT ![o] = NoOp] /\ Finally(op[o].todo) /\ page' = page /\ Busy(o)
    BY <1>8 DEF ActionFails, ReloadDone, Busy
  <2> QED BY <2>1, EndAlone
<1>9. ASSUME \/ \E l \in Ops \cup Reads : ServeLoad(l)
             \/ \E l \in Reads : RefreshPage(l) \/ ApplyLoad(l)
             \/ UNCHANGED adminVars
      PROVE  DetailsInv'
  BY <1>1, <1>9 DEF ServeLoad, RefreshPage, ApplyLoad, adminVars
<1> QED BY <1>2, <1>3, <1>4, <1>5, <1>6, <1>7, <1>8, <1>9 DEF AdminNext, AdminOpStep

(* The details of a user and of an invitation: no action begins beside another,  *)
(* although the confirmation is asked for before the slot is taken.              *)
THEOREM DetailsOneAction == AdminSpec => []OneActionOnDetails
<1>1. DetailsInv => OneActionOnDetails
  BY DEF DetailsInv
<1> QED BY <1>1, DetailsInitInv, DetailsStepInv, PTL DEF AdminSpec
-----------------------------------------------------------------------------
(* Dashboard: the types, of which the reads' and the statuses' are needed below.*)
LEMMA ReadTypes == NoRead \in ReadRecs /\ Ask \in ReadRecs /\ NoAct \in ActRecs
BY DEF NoRead, Ask, ReadRecs, Statuses, NoAct, ActRecs

LEMMA OutcomeTypes == \A kind : Outcome(kind) \subseteq Projections
BY DEF Outcome, Projections, Bound

LEMMA DashTypes ==
  DashTypeOK <=> /\ observed \in Projections /\ status \in Statuses
                 /\ lock \in Actions \cup {"none"}
                 /\ fetching \in BOOLEAN /\ deleting \in BOOLEAN
                 /\ deleteDialog \in BOOLEAN /\ crossed \in BOOLEAN
                 /\ act \in [Acts -> ActRecs] /\ read \in [Acts \cup Refreshes -> ReadRecs]
                 /\ card \in {"fresh", "owed", "excused"}
BY DEF DashTypeOK

LEMMA DashInitTypes == DashInit => DashTypeOK
<1> SUFFICES ASSUME DashInit PROVE DashTypeOK
  OBVIOUS
<1>1. read \in [Acts \cup Refreshes -> ReadRecs] /\ act \in [Acts -> ActRecs]
  BY ReadTypes DEF DashInit
<1> QED BY <1>1, DashTypes DEF DashInit, Statuses, Projections, Bound

(* A read that takes effect leaves a status.                                   *)
LEMMA ApplyTypes ==
  ASSUME DashTypeOK, NEW r \in Acts \cup Refreshes, Apply(r)
  PROVE  /\ status' \in Statuses /\ fetching' \in BOOLEAN /\ card' \in {"fresh", "owed", "excused"}
         /\ read' \in [Acts \cup Refreshes -> ReadRecs]
<1>1. /\ read[r] \in ReadRecs /\ status \in Statuses /\ card \in {"fresh", "owed", "excused"}
      /\ read \in [Acts \cup Refreshes -> ReadRecs]
  BY DashTypes
<1>2. read' \in [Acts \cup Refreshes -> ReadRecs]
  BY <1>1, ReadTypes DEF Apply
<1>3. card' \in {"fresh", "owed", "excused"}
  BY <1>1 DEF Apply, ReadRecs
<1> QED BY <1>1, <1>2, <1>3 DEF Apply, ReadRecs

LEMMA DashStepTypes == DashTypeOK /\ [DashNext]_dashVars => DashTypeOK'
<1> SUFFICES ASSUME DashTypeOK, [DashNext]_dashVars PROVE DashTypeOK'
  OBVIOUS
<1>0. /\ observed \in Projections /\ status \in Statuses /\ lock \in Actions \cup {"none"}
      /\ fetching \in BOOLEAN /\ deleting \in BOOLEAN
      /\ deleteDialog \in BOOLEAN /\ crossed \in BOOLEAN
      /\ act \in [Acts -> ActRecs] /\ read \in [Acts \cup Refreshes -> ReadRecs]
      /\ card \in {"fresh", "owed", "excused"}
  BY DashTypes
<1>1. ASSUME NEW r \in Refreshes, Refresh(r) PROVE DashTypeOK'
  <2>1. read' \in [Acts \cup Refreshes -> ReadRecs]
    BY <1>1, <1>0, ReadTypes DEF Refresh
  <2> QED BY <1>1, <1>0, <2>1 DEF Refresh, DashTypeOK
<1>2. ASSUME NEW r \in Refreshes, ApplyStatus(r) PROVE DashTypeOK'
  BY <1>2, <1>0, ApplyTypes DEF ApplyStatus, DashTypeOK
<1>3. ASSUME NEW r \in Acts \cup Refreshes, ServeStatus(r) PROVE DashTypeOK'
  <2>1. read' \in [Acts \cup Refreshes -> ReadRecs]
    BY <1>3, <1>0 DEF ServeStatus, ReadRecs, Statuses
  <2> QED BY <1>3, <1>0, <2>1 DEF ServeStatus, DashTypeOK
<1>4. ASSUME NEW o \in Acts, HandleStart(o) \/ HandleStop(o) \/ HandleDelete(o) PROVE DashTypeOK'
  <2>1. PICK kind \in Actions : Post(o, kind)
    BY <1>4 DEF HandleStart, HandleStop, HandleDelete, Actions
  <2>2. act' \in [Acts -> ActRecs]
    BY <1>0, <2>1 DEF Post, ActRecs
  <2> QED BY <1>4, <1>0, <2>2 DEF HandleStart, HandleStop, HandleDelete, Actions, DashTypeOK
<1>5. ASSUME NEW o \in Acts, ServePost(o) PROVE DashTypeOK'
  <2>1. act' \in [Acts -> ActRecs]
    BY <1>5, <1>0 DEF ServePost, ActRecs
  <2>2. observed' \in Projections
    BY <1>5, OutcomeTypes DEF ServePost
  <2>3. read' \in [Acts \cup Refreshes -> ReadRecs]
    BY <1>5, <1>0 DEF ServePost, ReadRecs
  <2> QED BY <1>5, <1>0, <2>1, <2>2, <2>3 DEF ServePost, DashTypeOK
<1>6. ASSUME NEW o \in Acts, PostFails(o) PROVE DashTypeOK'
  <2>1. act' \in [Acts -> ActRecs]
    BY <1>6, <1>0, ReadTypes DEF PostFails
  <2> QED BY <1>6, <1>0, <2>1 DEF PostFails, DashTypeOK
<1>7. ASSUME NEW o \in Acts, PostAccepted(o) PROVE DashTypeOK'
  <2>1. act' \in [Acts -> ActRecs] /\ act[o].kind \in Actions \cup {"none"}
    BY <1>7, <1>0 DEF PostAccepted, ActRecs
  <2> QED BY <1>7, <1>0, <2>1 DEF PostAccepted, DashTypeOK
<1>8. ASSUME NEW o \in Acts, PollSeesEnd(o) \/ PollTimesOut(o) PROVE DashTypeOK'
  <2>1. act' \in [Acts -> ActRecs] /\ read' \in [Acts \cup Refreshes -> ReadRecs]
    BY <1>8, <1>0, ReadTypes DEF PollSeesEnd, PollTimesOut, NoAct, ActRecs
  <2> QED BY <1>8, <1>0, <2>1 DEF PollSeesEnd, PollTimesOut, DashTypeOK
<1>9. ASSUME NEW o \in Acts, PollingDone(o) PROVE DashTypeOK'
  <2>1. act' \in [Acts -> ActRecs]
    BY <1>9, <1>0, ReadTypes DEF PollingDone
  <2> QED BY <1>9, <1>0, <2>1, ApplyTypes DEF PollingDone, DashTypeOK
<1>10. CASE StatusMoves
  BY <1>10, <1>0 DEF StatusMoves, Projections, DashTypeOK
<1>11. CASE DeleteDialog
  BY <1>11, <1>0 DEF DeleteDialog, DashTypeOK
<1>12. CASE LeaveDashboard
  <2>1. act' \in [Acts -> ActRecs] /\ read' \in [Acts \cup Refreshes -> ReadRecs]
    BY <1>12, ReadTypes DEF LeaveDashboard
  <2> QED BY <1>12, <1>0, <2>1 DEF LeaveDashboard, DashTypeOK, Statuses
<1>13. CASE UNCHANGED dashVars
  BY <1>13, <1>0 DEF dashVars, DashTypeOK
<1> QED BY <1>1, <1>2, <1>3, <1>4, <1>5, <1>6, <1>7, <1>8, <1>9, <1>10, <1>11, <1>12, <1>13
        DEF DashNext, ActStep

(* Dashboard: what the page and the API hold is always of the kinds declared;   *)
(* in particular the lock and the status that the buttons are derived from.     *)
THEOREM DashboardTyped == DashSpec => []DashTypeOK
BY DashInitTypes, DashStepTypes, PTL DEF DashSpec
-----------------------------------------------------------------------------
(* Dashboard: an action reads the status while it is in its last phase, and      *)
(* never otherwise.  As long as the card owes something, one of the actions under *)
(* way is going to read, or has read an answer that is not old.                   *)
Follows == \A o \in Acts : Reading(o) <=> act[o].at = "reading"

Pays(o) == \/ act[o].at \in {"done", "polling"}
           \/ act[o].at = "reading" /\ (read[o].at = "asked" \/ ~ read[o].old)

Remembered == card = "owed" => \E o \in Acts : Pays(o)

SettledInv == DashTypeOK /\ Follows /\ Remembered

LEMMA DashInitSettled == DashInit => SettledInv
<1> SUFFICES ASSUME DashInit PROVE SettledInv
  OBVIOUS
<1>1. PICK first \in Refreshes : read = [r \in Acts \cup Refreshes |-> IF r = first THEN Ask ELSE NoRead]
  BY DEF DashInit
<1>2. act = [o \in Acts |-> NoAct] /\ card = "fresh"
  BY DEF DashInit
<1>3. first \notin Acts
  BY ActsAndRefreshes
<1>4. Follows
  BY <1>1, <1>2, <1>3 DEF Follows, Reading, NoRead, NoAct
<1> QED BY <1>2, <1>4, DashInitTypes DEF SettledInv, Remembered

(* The read of r takes effect: what is owed from then on was owed before, and r's *)
(* answer was old, or r is no action.                                            *)
LEMMA ApplyPays ==
  ASSUME DashTypeOK, NEW r \in Acts \cup Refreshes, Apply(r), card' = "owed"
  PROVE  card = "owed" /\ (r \in Acts => read[r].old)
<1>1. card \in {"fresh", "owed", "excused"} /\ read[r].old \in BOOLEAN
  BY DashTypes DEF ReadRecs
<1> QED BY <1>1 DEF Apply

LEMMA DashStepSettled == SettledInv /\ [DashNext]_dashVars => SettledInv'
<1> SUFFICES ASSUME SettledInv, [DashNext]_dashVars PROVE SettledInv'
  OBVIOUS
<1>01. DashTypeOK /\ DashTypeOK' /\ Follows /\ Remembered
  BY DashStepTypes DEF SettledInv
<1>02. act \in [Acts -> ActRecs] /\ read \in [Acts \cup Refreshes -> ReadRecs]
  BY <1>01, DashTypes
<1>03. SUFFICES Follows' /\ Remembered'
  BY <1>01 DEF SettledInv
<1>0. CASE UNCHANGED <<act, read, card>>
  BY <1>0, <1>01 DEF Follows, Remembered, Pays, Reading
<1>1. ASSUME NEW r \in Refreshes, Refresh(r) PROVE Follows' /\ Remembered'
  <2>1. read' = [read EXCEPT ![r] = Ask] /\ act' = act /\ card' = card
    BY <1>1 DEF Refresh
  <2>2. r \notin Acts
    BY ActsAndRefreshes
  <2>3. \A o \in Acts : read'[o] = read[o]
    BY <1>02, <2>1, <2>2
  <2> QED BY <1>01, <2>1, <2>3 DEF Follows, Remembered, Pays, Reading
<1>2. ASSUME NEW r \in Refreshes, ApplyStatus(r) PROVE Follows' /\ Remembered'
  <2>1. Apply(r) /\ act' = act
    BY <1>2 DEF ApplyStatus
  <2>2. r \notin Acts
    BY ActsAndRefreshes
  <2>3. \A o \in Acts : read'[o] = read[o]
    BY <1>02, <2>1, <2>2 DEF Apply
  <2>4. card' = "owed" => card = "owed"
    BY <1>01, <2>1, ApplyPays
  <2> QED BY <1>01, <2>1, <2>3, <2>4 DEF Follows, Remembered, Pays, Reading
<1>3. ASSUME NEW r \in Acts \cup Refreshes, ServeStatus(r) PROVE Follows' /\ Remembered'
  <2>1. /\ read[r].at = "asked" /\ act' = act /\ card' = card
        /\ \E a \in {observed, "failed"} :
             read' = [read EXCEPT ![r] = [at |-> "served", got |-> a, old |-> FALSE]]
    BY <1>3 DEF ServeStatus
  <2>2. /\ read'[r].at = "served" /\ read'[r].old = FALSE
        /\ \A x \in Acts \cup Refreshes : x # r => read'[x] = read[x]
    BY <1>02, <2>1
  <2>3. Follows'
    BY <1>01, <2>1, <2>2 DEF Follows, Reading
  <2>4. \A o \in Acts : Pays(o) => Pays(o)'
    BY <2>1, <2>2 DEF Pays
  <2> QED BY <1>01, <2>1, <2>3, <2>4 DEF Remembered
<1>4. ASSUME NEW o \in Acts, HandleStart(o) \/ HandleStop(o) \/ HandleDelete(o)
      PROVE  Follows' /\ Remembered'
  <2>1. read' = read /\ card' = card /\ \E kind \in Actions : Post(o, kind)
    BY <1>4 DEF HandleStart, HandleStop, HandleDelete, Actions
  <2>2. /\ act[o] = NoAct
        /\ \E kind \in Actions : act' = [act EXCEPT ![o] = [kind |-> kind, at |-> "posting"]]
    BY <2>1 DEF Post
  <2>3. act[o].at = "free" /\ act'[o].at = "posting" /\ \A p \in Acts : p # o => act'[p] = act[p]
    BY <1>02, <2>2 DEF NoAct
  <2> QED BY <1>01, <2>1, <2>3 DEF Follows, Remembered, Pays, Reading
<1>5. ASSUME NEW o \in Acts, PostFails(o) PROVE Follows' /\ Remembered'
  <2>1. /\ act[o].at \in {"posting", "done"} /\ act' = [act EXCEPT ![o] = NoAct] /\ read' = read
        /\ card' = IF act[o].at = "done" /\ card = "owed" THEN "excused" ELSE card
    BY <1>5 DEF PostFails
  <2>2. act'[o].at = "free" /\ \A p \in Acts : p # o => act'[p] = act[p]
    BY <1>02, <2>1 DEF NoAct
  <2>3. Follows'
    BY <1>01, <2>1, <2>2 DEF Follows, Reading
  <2>4. ASSUME card' = "owed" PROVE \E p \in Acts : Pays(p)'
    <3>1. card = "owed" /\ act[o].at = "posting"
      BY <2>1, <2>4
    <3>2. PICK p \in Acts : Pays(p)
      BY <1>01, <3>1 DEF Remembered
    <3> QED BY <2>1, <2>2, <3>1, <3>2 DEF Pays
  <2> QED BY <2>3, <2>4 DEF Remembered
<1>6. ASSUME NEW o \in Acts, ServePost(o) PROVE Follows' /\ Remembered'
  <2>1. /\ act[o].at = "posting" /\ act' = [act EXCEPT ![o].at = "done"]
        /\ read' = [r \in Acts \cup Refreshes |->
                     IF read[r].at = "served" THEN [read[r] EXCEPT !.old = TRUE] ELSE read[r]]
    BY <1>6 DEF ServePost
  <2>2. act'[o].at = "done" /\ \A p \in Acts : p # o => act'[p] = act[p]
    BY <1>02, <2>1 DEF ActRecs
  <2>3. \A r \in Acts \cup Refreshes : read'[r].at = read[r].at
    BY <1>02, <2>1 DEF ReadRecs
  <2>4. Follows'
    BY <1>01, <2>1, <2>2, <2>3 DEF Follows, Reading
  <2>5. Pays(o)'
    BY <2>2 DEF Pays
  <2> QED BY <2>4, <2>5 DEF Remembered
<1>7. ASSUME NEW o \in Acts, PostAccepted(o) PROVE Follows' /\ Remembered'
  <2>1. act[o].at = "done" /\ act' = [act EXCEPT ![o].at = "polling"] /\ UNCHANGED <<read, card>>
    BY <1>7 DEF PostAccepted
  <2>2. act'[o].at = "polling" /\ \A p \in Acts : p # o => act'[p] = act[p]
    BY <1>02, <2>1 DEF ActRecs
  <2>3. Follows' /\ Pays(o)'
    BY <1>01, <2>1, <2>2 DEF Follows, Reading, Pays
  <2> QED BY <2>3 DEF Remembered
<1>8. ASSUME NEW o \in Acts, PollSeesEnd(o) \/ PollTimesOut(o) PROVE Follows' /\ Remembered'
  <2>1. /\ act' = [act EXCEPT ![o] = [NoAct EXCEPT !.at = "reading"]]
        /\ read' = [read EXCEPT ![o] = Ask]
    BY <1>8 DEF PollSeesEnd, PollTimesOut
  <2>2. /\ act'[o].at = "reading" /\ read'[o].at = "asked"
        /\ \A p \in Acts : p # o => act'[p] = act[p] /\ read'[p] = read[p]
    BY <1>02, <2>1 DEF NoAct, Ask, NoRead
  <2>3. Follows' /\ Pays(o)'
    BY <1>01, <2>2 DEF Follows, Reading, Pays
  <2> QED BY <2>3 DEF Remembered
<1>9. ASSUME NEW o \in Acts, PollingDone(o) PROVE Follows' /\ Remembered'
  <2>1. /\ act[o].at = "reading" /\ read[o].at = "served"
        /\ act' = [act EXCEPT ![o] = NoAct] /\ Apply(o)
    BY <1>9 DEF PollingDone
  <2>2. /\ act'[o].at = "free" /\ read'[o].at = "idle"
        /\ \A p \in Acts : p # o => act'[p] = act[p] /\ read'[p] = read[p]
    BY <1>02, <2>1 DEF Apply, NoRead, NoAct
  <2>3. Follows'
    BY <1>01, <2>2 DEF Follows, Reading
  <2>4. ASSUME card' = "owed" PROVE \E p \in Acts : Pays(p)'
    <3>1. card = "owed" /\ read[o].old
      BY <1>01, <2>1, <2>4, ApplyPays
    <3>2. PICK p \in Acts : Pays(p)
      BY <1>01, <3>1 DEF Remembered
    <3>3. p # o
      BY <2>1, <3>1, <3>2 DEF Pays
    <3> QED BY <2>2, <3>2, <3>3 DEF Pays
  <2> QED BY <2>3, <2>4 DEF Remembered
<1>10. CASE LeaveDashboard
  <2>1. PICK first \in Refreshes :
          read' = [r \in Acts \cup Refreshes |-> IF r = first THEN Ask ELSE NoRead]
    BY <1>10 DEF LeaveDashboard
  <2>2. act' = [o \in Acts |-> NoAct] /\ card' = "fresh"
    BY <1>10 DEF LeaveDashboard
  <2>3. first \notin Acts
    BY ActsAndRefreshes
  <2>4. Follows'
    BY <2>1, <2>2, <2>3 DEF Follows, Reading, NoRead, NoAct
  <2> QED BY <2>2, <2>4 DEF Remembered
<1>11. CASE DeleteDialog \/ StatusMoves \/ UNCHANGED dashVars
  BY <1>0, <1>11 DEF DeleteDialog, StatusMoves, dashVars
<1> QED BY <1>1, <1>2, <1>3, <1>4, <1>5, <1>6, <1>7, <1>8, <1>9, <1>10, <1>11 DEF DashNext, ActStep

(* Dashboard: a card at rest shows an answer that the API gave after the last    *)
(* action of the page was over, however refreshes, actions and polls overlapped,  *)
(* unless the answer to the post, or to the action's own read, was lost, or an    *)
(* older answer arrived last (startPolling, Dashboard.tsx:549-569).              *)
THEOREM DashboardSettles == DashSpec => []SettledStatusIsFresh
<1>1. SettledInv => SettledStatusIsFresh
  BY DEF SettledInv, Remembered, Pays, SettledStatusIsFresh, Acting
<1> QED BY <1>1, DashInitSettled, DashStepSettled, PTL DEF DashSpec
-----------------------------------------------------------------------------
(* The administrator's pages: the types, with the task of every action under    *)
(* way.                                                                        *)
LoadRecs == [at : {"idle", "asked", "served", "refused", "signedOut"}, got : Rows \cup {Nothing}]

AdminTypes ==
  /\ page \in AdminPageNames /\ rows \in [Items -> Values] /\ shown \in Rows \cup {Nothing, Demo}
  /\ loading \in BOOLEAN /\ failed \in BOOLEAN /\ doubt \in BOOLEAN
  /\ slot \in Todo \cup {Nothing} /\ dialog \in Todo \cup {Nothing}
  /\ op \in [Ops -> OpRecs] /\ load \in [Ops \cup Reads -> LoadRecs]
  /\ \A o \in Ops : Busy(o) => op[o].todo \in Todo

LEMMA AdminTypesOK == AdminTypes => AdminTypeOK
BY DEF AdminTypes, AdminTypeOK, OpRecs, LoadRecs, Rows

LEMMA AdminConstants == NoLoad \in LoadRecs /\ AskRows \in LoadRecs /\ NoOp \in OpRecs
BY DEF NoLoad, AskRows, NoOp, LoadRecs, OpRecs

LEMMA AdminInitTypes == AdminInit => AdminTypes
<1> SUFFICES ASSUME AdminInit PROVE AdminTypes
  OBVIOUS
<1>1. load \in [Ops \cup Reads -> LoadRecs] /\ op \in [Ops -> OpRecs]
  BY AdminConstants DEF AdminInit
<1>2. rows \in [Items -> Values]
  BY DEF AdminInit, Values
<1>3. \A o \in Ops : ~ Busy(o)
  BY DEF AdminInit, Busy, NoOp
<1> QED BY <1>1, <1>2, <1>3 DEF AdminInit, AdminTypes

(* What a post does to the rows: one row, to one of its values; a resent         *)
(* invitation stays as it was.                                                 *)
LEMMA EffectOnRows ==
  ASSUME AdminTypes, NEW t \in Todo, NEW v \in Effect(t), rows' = [rows EXCEPT ![t.item] = v]
  PROVE  rows' \in [Items -> Values] /\ (t.kind \in {"resend", "update"} => rows' = rows)
<1>1. t.item \in Items /\ rows \in [Items -> Values]
  BY DEF Todo, AdminTypes
<1>2. v \in Values
  BY <1>1 DEF Effect, Values
<1>3. t.kind = "resend" => v = rows[t.item]
  BY DEF Effect
<1>4. t.kind # "update"
  BY DEF Effect
<1> QED BY <1>1, <1>2, <1>3, <1>4

LEMMA LoadTypes ==
  ASSUME AdminTypes, NEW l \in Ops \cup Reads, Load(l)
  PROVE  /\ load' = [load EXCEPT ![l] = AskRows] /\ load' \in [Ops \cup Reads -> LoadRecs]
         /\ loading' \in BOOLEAN /\ failed' \in BOOLEAN
<1>1. load' = [load EXCEPT ![l] = AskRows] /\ (failed' = FALSE \/ failed' = failed)
  BY DEF Load, LoadUsers, LoadUser, LoadInvitations, LoadInvitation, LoadCredentials, LoadModels,
         LoadSummary, LoadHome
<1> QED BY <1>1, AdminConstants DEF Load, AdminTypes

LEMMA LoadedTypes ==
  ASSUME AdminTypes, NEW l \in Ops \cup Reads, Arrived(l), Loaded(l)
  PROVE  /\ load' \in [Ops \cup Reads -> LoadRecs] /\ shown' \in Rows \cup {Nothing, Demo}
         /\ loading' \in BOOLEAN /\ failed' \in BOOLEAN
<1>1. load[l] \in LoadRecs /\ shown \in Rows \cup {Nothing, Demo} /\ failed \in BOOLEAN
  BY DEF AdminTypes
<1>2. load' \in [Ops \cup Reads -> LoadRecs] /\ loading' \in BOOLEAN
  BY AdminConstants DEF AdminTypes, Loaded
<1>3. CASE load[l].at = "served"
  BY <1>1, <1>2, <1>3 DEF Loaded, LoadRecs
<1>4. CASE load[l].at = "signedOut"
  BY <1>1, <1>2, <1>4 DEF Loaded
<1>5. CASE load[l].at = "refused"
  BY <1>1, <1>2, <1>5 DEF Loaded
<1> QED BY <1>3, <1>4, <1>5 DEF Arrived

LEMMA BeginTypes ==
  ASSUME AdminTypes, NEW o \in Ops, NEW t \in Todo, Begin(o, t),
         slot' \in Todo \cup {Nothing}, dialog' \in Todo \cup {Nothing}
  PROVE  AdminTypes'
<1>1. /\ op' = [op EXCEPT ![o] = [at |-> "posting", todo |-> t]]
      /\ UNCHANGED <<page, rows, shown, loading, failed, load>> /\ doubt' = (doubt \/ Crowded(o))
  BY DEF Begin, Doubtful
<1>2. op' \in [Ops -> OpRecs] /\ op'[o].todo = t /\ \A p \in Ops : p # o => op'[p] = op[p]
  BY <1>1 DEF AdminTypes, OpRecs
<1>3. \A p \in Ops : Busy(p)' => op'[p].todo \in Todo
  BY <1>2 DEF AdminTypes, Busy
<1>4. doubt' \in BOOLEAN
  BY <1>1 DEF AdminTypes, Crowded
<1> QED BY <1>1, <1>2, <1>3, <1>4 DEF AdminTypes

(* An action that ends.                                                        *)
LEMMA EndTypes ==
  ASSUME AdminTypes, NEW o \in Ops, op' = [op EXCEPT ![o] = NoOp], NEW t, Finally(t)
  PROVE  /\ op' \in [Ops -> OpRecs] /\ \A p \in Ops : Busy(p)' => op'[p].todo \in Todo
         /\ slot' \in Todo \cup {Nothing} /\ dialog' \in Todo \cup {Nothing}
<1>1. op' \in [Ops -> OpRecs] /\ op'[o].at = "free" /\ \A p \in Ops : p # o => op'[p] = op[p]
  BY AdminConstants DEF AdminTypes, NoOp
<1> QED BY <1>1 DEF AdminTypes, Busy, Finally

LEMMA AdminStepTypes == AdminTypes /\ [AdminNext]_adminVars => AdminTypes'
<1> SUFFICES ASSUME AdminTypes, [AdminNext]_adminVars PROVE AdminTypes'
  OBVIOUS
<1>1. ASSUME NEW l \in Ops \cup Reads, ServeLoad(l) PROVE AdminTypes'
  <2>1. rows \in Rows /\ load \in [Ops \cup Reads -> LoadRecs]
    BY DEF AdminTypes, Rows
  <2>2. \/ load' = [load EXCEPT ![l] = [at |-> "served", got |-> rows]]
        \/ load' = [load EXCEPT ![l].at = "refused"]
        \/ load' = [load EXCEPT ![l].at = "signedOut"]
    BY <1>1 DEF ServeLoad
  <2>3. load' \in [Ops \cup Reads -> LoadRecs]
    BY <2>1, <2>2 DEF LoadRecs
  <2> QED BY <1>1, <2>3 DEF ServeLoad, AdminTypes, Busy
<1>2. ASSUME NEW l \in Reads, RefreshPage(l) PROVE AdminTypes'
  <2>1. Load(l) /\ UNCHANGED <<page, rows, shown, slot, dialog, op>> /\ doubt' = Crowded(l)
    BY <1>2 DEF RefreshPage
  <2>2. /\ load' \in [Ops \cup Reads -> LoadRecs]
        /\ loading' \in BOOLEAN /\ failed' \in BOOLEAN
    BY <2>1, LoadTypes
  <2> QED BY <2>1, <2>2 DEF AdminTypes, Busy, Crowded
<1>3. ASSUME NEW l \in Reads, ApplyLoad(l) PROVE AdminTypes'
  <2>1. Arrived(l) /\ Loaded(l) /\ UNCHANGED <<page, rows, slot, dialog, op, doubt>>
    BY <1>3 DEF ApplyLoad
  <2>2. /\ load' \in [Ops \cup Reads -> LoadRecs] /\ shown' \in Rows \cup {Nothing, Demo}
        /\ loading' \in BOOLEAN /\ failed' \in BOOLEAN
    BY <2>1, LoadedTypes
  <2> QED BY <2>1, <2>2 DEF AdminTypes, Busy
<1>4. ASSUME NEW i \in Items, AskConfirmation(i) PROVE AdminTypes'
  BY <1>4 DEF AskConfirmation, AdminTypes, Busy
<1>5. CASE Dismiss \/ UNCHANGED adminVars
  BY <1>5 DEF Dismiss, adminVars, AdminTypes, Busy
<1>6. ASSUME NEW o \in Ops, Confirm(o) \/ Click(o) PROVE AdminTypes'
  <2>1. PICK t \in Todo : Begin(o, t) /\ slot' = t
    BY <1>6 DEF Confirm, Click
  <2>2. dialog' \in Todo \cup {Nothing}
    BY <1>6 DEF Confirm, Click, AdminTypes
  <2> QED BY <2>1, <2>2, BeginTypes
<1>7. ASSUME NEW o \in Ops, CreateInvitation(o) \/ CreateCredential(o) PROVE AdminTypes'
  <2>1. /\ \E i \in Items : Begin(o, ToDo(i, "create"))
        /\ slot' = slot /\ dialog' = dialog
    BY <1>7 DEF CreateInvitation, CreateCredential
  <2>2. \A i \in Items : ToDo(i, "create") \in Todo
    BY DEF ToDo, Todo, Kinds
  <2>3. slot' \in Todo \cup {Nothing} /\ dialog' \in Todo \cup {Nothing}
    BY <2>1 DEF AdminTypes
  <2> QED BY <2>1, <2>2, <2>3, BeginTypes
<1>8. ASSUME NEW o \in Ops, ActionDone(o) PROVE AdminTypes'
  <2>1. op[o].at = "posting" /\ op[o].todo \in Todo
    BY <1>8 DEF ActionDone, AdminTypes, Busy
  <2>2. rows' \in [Items -> Values]
    BY <1>8, <2>1, EffectOnRows DEF ActionDone
  <2>3. CASE Reloads(op[o].todo)
    <3>1. Load(o) /\ op' = [op EXCEPT ![o].at = "reloading"] /\ UNCHANGED <<slot, dialog, page, shown, doubt>>
      BY <1>8, <2>3 DEF ActionDone
    <3>2. /\ load' \in [Ops \cup Reads -> LoadRecs]
          /\ loading' \in BOOLEAN /\ failed' \in BOOLEAN
      BY <3>1, LoadTypes
    <3>3. /\ op' \in [Ops -> OpRecs] /\ op'[o].todo = op[o].todo
          /\ \A p \in Ops : p # o => op'[p] = op[p]
      BY <3>1 DEF AdminTypes, OpRecs
    <3>4. \A p \in Ops : Busy(p)' => op'[p].todo \in Todo
      BY <2>1, <3>3 DEF AdminTypes, Busy
    <3> QED BY <2>2, <3>1, <3>2, <3>3, <3>4 DEF AdminTypes
  <2>4. CASE ~ Reloads(op[o].todo)
    <3>1. /\ op' = [op EXCEPT ![o] = NoOp] /\ Finally(op[o].todo)
          /\ UNCHANGED <<loading, failed, load, page, shown, doubt>>
      BY <1>8, <2>4 DEF ActionDone
    <3> QED BY <2>2, <3>1, EndTypes DEF AdminTypes
  <2> QED BY <2>3, <2>4
<1>9. ASSUME NEW o \in Ops, ActionFails(o) PROVE AdminTypes'
  <2>1. op[o].todo \in Todo
    BY <1>9 DEF ActionFails, AdminTypes, Busy
  <2>2. rows' \in [Items -> Values] /\ doubt' \in BOOLEAN
    BY <1>9, <2>1, EffectOnRows DEF ActionFails, AdminTypes
  <2>3. /\ op' = [op EXCEPT ![o] = NoOp] /\ Finally(op[o].todo)
        /\ UNCHANGED <<page, shown, loading, failed, load>>
    BY <1>9 DEF ActionFails
  <2> QED BY <2>2, <2>3, EndTypes DEF AdminTypes
<1>10. ASSUME NEW o \in Ops, ReloadDone(o) PROVE AdminTypes'
  <2>1. /\ op' = [op EXCEPT ![o] = NoOp] /\ Finally(op[o].todo) /\ Arrived(o) /\ Loaded(o)
        /\ UNCHANGED <<page, rows, doubt>>
    BY <1>10 DEF ReloadDone
  <2>2. /\ load' \in [Ops \cup Reads -> LoadRecs] /\ shown' \in Rows \cup {Nothing, Demo}
        /\ loading' \in BOOLEAN /\ failed' \in BOOLEAN
    BY <2>1, LoadedTypes
  <2> QED BY <2>1, <2>2, EndTypes DEF AdminTypes
<1> QED BY <1>1, <1>2, <1>3, <1>4, <1>5, <1>6, <1>7, <1>8, <1>9, <1>10 DEF AdminNext, AdminOpStep

(* The administrator's pages: what they and the API hold is always of the kinds *)
(* declared; no post leaves a row without a value, whatever page it came from.  *)
THEOREM AdminTyped == AdminSpec => []AdminTypeOK
BY AdminInitTypes, AdminStepTypes, AdminTypesOK, PTL DEF AdminSpec
-----------------------------------------------------------------------------
(* What is under way on a page.  A handler awaits its own load only, once its    *)
(* post has succeeded.  While the history is clean, at most one thing is under   *)
(* way; a load that was answered has the rows the API still holds; and as long   *)
(* as nothing is loading, the page shows those rows.                            *)
AdminUnderWay == {x \in Ops \cup Reads : (x \in Ops /\ Busy(x)) \/ Loads(x)}

Awaits == \A o \in Ops : Loads(o) <=> op[o].at = "reloading"

NothingLoads == \A l \in Ops \cup Reads : ~ Loads(l)

Quiet ==
  /\ \A x, y \in AdminUnderWay : x = y
  /\ \A l \in Ops \cup Reads : load[l].at = "served" => load[l].got = rows
  /\ NothingLoads => failed \/ shown = Demo \/ shown = rows

QuietInv == AdminTypes /\ Awaits /\ (~ doubt => Quiet)

LEMMA NotCrowded ==
  ASSUME NEW self, ~ Crowded(self)
  PROVE  AdminUnderWay \subseteq {self}
BY DEF Crowded, AdminUnderWay

LEMMA AdminInitQuiet == AdminInit => QuietInv
<1> SUFFICES ASSUME AdminInit PROVE QuietInv
  OBVIOUS
<1>1. PICK first \in Reads : load = [l \in Ops \cup Reads |-> IF l = first THEN AskRows ELSE NoLoad]
  BY DEF AdminInit
<1>2. op = [o \in Ops |-> NoOp]
  BY DEF AdminInit
<1>3. first \notin Ops
  BY OpsAndReads
<1>4. Awaits
  BY <1>1, <1>2, <1>3 DEF Awaits, Loads, NoLoad, NoOp
<1>5. AdminUnderWay \subseteq {first} /\ Loads(first)
  BY <1>1, <1>2 DEF AdminUnderWay, Busy, Loads, NoOp, NoLoad, AskRows
<1>6. \A l \in Ops \cup Reads : load[l].at # "served"
  BY <1>1 DEF NoLoad, AskRows
<1>7. Quiet
  BY <1>5, <1>6 DEF Quiet, NothingLoads
<1> QED BY <1>4, <1>7, AdminInitTypes DEF QuietInv

(* The page is loaded anew where nothing else is under way.                      *)
LEMMA LoadAlone ==
  ASSUME AdminTypes, NEW l \in Ops \cup Reads, load' = [load EXCEPT ![l] = AskRows],
         AdminUnderWay \subseteq {l}, AdminUnderWay' \subseteq {l}
  PROVE  Quiet'
<1>1. load'[l].at = "asked" /\ \A x \in Ops \cup Reads : x # l => load'[x] = load[x]
  BY DEF AdminTypes, AskRows
<1>2. \A x \in Ops \cup Reads : load'[x].at # "served"
  BY <1>1 DEF AdminUnderWay, Loads
<1>3. Loads(l)'
  BY <1>1 DEF Loads
<1> QED BY <1>2, <1>3 DEF Quiet, NothingLoads

(* A load takes effect, and nothing else is under way.                           *)
LEMMA LoadedAlone ==
  ASSUME Quiet, NEW l \in Ops \cup Reads, l \in AdminUnderWay, Arrived(l), Loaded(l),
         rows' = rows, AdminUnderWay' \subseteq AdminUnderWay \ {l}
  PROVE  Quiet'
<1>1. failed' \/ shown' = Demo \/ shown' = rows
  BY DEF Arrived, Loaded, Quiet
<1>2. AdminUnderWay' = {}
  BY DEF Quiet
<1>3. \A x \in Ops \cup Reads : ~ Loads(x)'
  BY <1>2 DEF AdminUnderWay
<1> QED BY <1>1, <1>2, <1>3 DEF Quiet, Loads

LEMMA LoadedLoad ==
  ASSUME AdminTypes, NEW l \in Ops \cup Reads, Loaded(l)
  PROVE  load'[l].at = "idle" /\ \A x \in Ops \cup Reads : x # l => load'[x] = load[x]
BY DEF AdminTypes, Loaded, NoLoad

(* A handler starts.                                                           *)
LEMMA BeginQuiet ==
  ASSUME QuietInv, NEW o \in Ops, NEW t \in Todo, Begin(o, t)
  PROVE  Awaits' /\ (~ doubt' => Quiet')
<1>1. /\ op' = [op EXCEPT ![o] = [at |-> "posting", todo |-> t]] /\ op[o] = NoOp
      /\ UNCHANGED <<rows, shown, failed, load>> /\ doubt' = (doubt \/ Crowded(o))
  BY DEF Begin, Doubtful
<1>2. op'[o].at = "posting" /\ \A p \in Ops : p # o => op'[p] = op[p]
  BY <1>1 DEF QuietInv, AdminTypes
<1>3. ~ Loads(o) /\ ~ Busy(o)
  BY <1>1 DEF QuietInv, Awaits, Busy, NoOp
<1>4. Awaits'
  BY <1>1, <1>2, <1>3 DEF QuietInv, Awaits, Loads
<1>5. ASSUME ~ doubt' PROVE Quiet'
  <2>1. AdminUnderWay = {}
    BY <1>1, <1>3, <1>5, NotCrowded DEF AdminUnderWay
  <2>2. AdminUnderWay' \subseteq {o}
    BY <1>1, <1>2, <2>1 DEF AdminUnderWay, Busy, Loads
  <2> QED BY <1>1, <1>5, <2>2 DEF QuietInv, Quiet, NothingLoads, Loads
<1> QED BY <1>4, <1>5

(* A handler ends without a load of its own, having changed no row.              *)
LEMMA EndQuiet ==
  ASSUME QuietInv, NEW o \in Ops, op[o].at = "posting", op' = [op EXCEPT ![o] = NoOp],
         load' = load
  PROVE  Awaits' /\ (~ doubt /\ UNCHANGED <<rows, shown, failed>> => Quiet')
<1>1. op'[o] = NoOp /\ \A p \in Ops : p # o => op'[p] = op[p]
  BY DEF QuietInv, AdminTypes
<1>2. Awaits'
  BY <1>1 DEF QuietInv, Awaits, Loads, NoOp
<1>3. AdminUnderWay' \subseteq AdminUnderWay
  BY <1>1 DEF AdminUnderWay, Busy, Loads, NoOp
<1> QED BY <1>2, <1>3 DEF QuietInv, Quiet, NothingLoads, Loads

LEMMA AdminStepQuiet == QuietInv /\ [AdminNext]_adminVars => QuietInv'
<1> SUFFICES ASSUME QuietInv, [AdminNext]_adminVars PROVE QuietInv'
  OBVIOUS
<1>01. AdminTypes /\ AdminTypes'
  BY AdminStepTypes DEF QuietInv
<1>02. op \in [Ops -> OpRecs] /\ load \in [Ops \cup Reads -> LoadRecs]
  BY <1>01 DEF AdminTypes
<1>03. Awaits /\ (~ doubt => Quiet)
  BY DEF QuietInv
<1>04. SUFFICES Awaits' /\ (~ doubt' => Quiet')
  BY <1>01 DEF QuietInv
<1>0. CASE UNCHANGED <<rows, shown, failed, op, load, doubt>>
  BY <1>0, <1>03 DEF Awaits, Quiet, NothingLoads, AdminUnderWay, Busy, Loads
<1>1. ASSUME NEW l \in Ops \cup Reads, ServeLoad(l) PROVE Awaits' /\ (~ doubt' => Quiet')
  <2>1. /\ load[l].at = "asked" /\ UNCHANGED <<rows, shown, failed, op, doubt>>
        /\ \/ load' = [load EXCEPT ![l] = [at |-> "served", got |-> rows]]
           \/ load' = [load EXCEPT ![l].at = "refused"]
           \/ load' = [load EXCEPT ![l].at = "signedOut"]
    BY <1>1 DEF ServeLoad
  <2>2. /\ load'[l].at \in {"served", "refused", "signedOut"}
        /\ load'[l].at = "served" => load'[l].got = rows
        /\ \A x \in Ops \cup Reads : x # l => load'[x] = load[x]
    BY <1>02, <2>1 DEF LoadRecs
  <2>3. \A x \in Ops \cup Reads : Loads(x)' <=> Loads(x)
    BY <2>1, <2>2 DEF Loads
  <2>4. Awaits' /\ AdminUnderWay' = AdminUnderWay /\ (NothingLoads' <=> NothingLoads)
    BY <1>03, <2>1, <2>3 DEF Awaits, AdminUnderWay, Busy, NothingLoads
  <2> QED BY <1>03, <2>1, <2>2, <2>4 DEF Quiet
<1>2. ASSUME NEW l \in Reads, RefreshPage(l) PROVE Awaits' /\ (~ doubt' => Quiet')
  <2>1. load' = [load EXCEPT ![l] = AskRows] /\ op' = op /\ doubt' = Crowded(l)
    BY <1>2, <1>01, LoadTypes DEF RefreshPage
  <2>2. l \notin Ops /\ \A x \in Ops \cup Reads : x # l => load'[x] = load[x]
    BY <1>02, <2>1, OpsAndReads
  <2>3. Awaits'
    BY <1>03, <2>1, <2>2 DEF Awaits, Loads
  <2>4. ASSUME ~ doubt' PROVE Quiet'
    <3>1. AdminUnderWay \subseteq {l}
      BY <2>1, <2>4, NotCrowded
    <3>2. AdminUnderWay' \subseteq {l}
      BY <2>1, <2>2, <3>1 DEF AdminUnderWay, Busy, Loads
    <3> QED BY <1>01, <2>1, <3>1, <3>2, LoadAlone
  <2> QED BY <2>3, <2>4
<1>3. ASSUME NEW l \in Reads, ApplyLoad(l) PROVE Awaits' /\ (~ doubt' => Quiet')
  <2>1. Arrived(l) /\ Loaded(l) /\ UNCHANGED <<rows, op, doubt>>
    BY <1>3 DEF ApplyLoad
  <2>2. /\ l \notin Ops /\ load'[l].at = "idle"
        /\ \A x \in Ops \cup Reads : x # l => load'[x] = load[x]
    BY <1>01, <2>1, OpsAndReads, LoadedLoad
  <2>3. Awaits'
    BY <1>03, <2>1, <2>2 DEF Awaits, Loads
  <2>4. l \in AdminUnderWay /\ AdminUnderWay' \subseteq AdminUnderWay \ {l}
    BY <2>1, <2>2 DEF AdminUnderWay, Busy, Loads, Arrived
  <2> QED BY <1>03, <2>1, <2>3, <2>4, LoadedAlone
<1>4. ASSUME NEW i \in Items, AskConfirmation(i) PROVE Awaits' /\ (~ doubt' => Quiet')
  BY <1>0, <1>4 DEF AskConfirmation
<1>5. CASE Dismiss \/ UNCHANGED adminVars
  BY <1>0, <1>5 DEF Dismiss, adminVars
<1>6. ASSUME NEW o \in Ops, Confirm(o) \/ Click(o) \/ CreateInvitation(o) \/ CreateCredential(o)
      PROVE  Awaits' /\ (~ doubt' => Quiet')
  <2>1. \A i \in Items : ToDo(i, "create") \in Todo
    BY DEF ToDo, Todo, Kinds
  <2>2. PICK t \in Todo : Begin(o, t)
    BY <1>6, <2>1 DEF Confirm, Click, CreateInvitation, CreateCredential
  <2> QED BY <2>2, BeginQuiet
<1>7. ASSUME NEW o \in Ops, ActionDone(o) PROVE Awaits' /\ (~ doubt' => Quiet')
  <2>1. op[o].at = "posting" /\ op[o].todo \in Todo /\ UNCHANGED <<shown, doubt>>
    BY <1>7, <1>01 DEF ActionDone, AdminTypes, Busy
  <2>2. CASE Reloads(op[o].todo)
    <3>1. load' = [load EXCEPT ![o] = AskRows] /\ op' = [op EXCEPT ![o].at = "reloading"]
      BY <1>7, <2>2, <1>01, LoadTypes DEF ActionDone
    <3>2. /\ op'[o].at = "reloading" /\ load'[o].at = "asked"
          /\ \A p \in Ops : p # o => op'[p] = op[p]
          /\ \A x \in Ops \cup Reads : x # o => load'[x] = load[x]
      BY <1>02, <3>1 DEF AskRows, OpRecs
    <3>3. Awaits'
      BY <1>03, <3>2 DEF Awaits, Loads
    <3>4. ASSUME ~ doubt' PROVE Quiet'
      <4>1. AdminUnderWay \subseteq {o}
        BY <1>03, <2>1, <3>4 DEF Quiet, AdminUnderWay, Busy
      <4>2. AdminUnderWay' \subseteq {o}
        BY <3>2, <4>1 DEF AdminUnderWay, Busy, Loads
      <4> QED BY <1>01, <3>1, <4>1, <4>2, LoadAlone
    <3> QED BY <3>3, <3>4
  <2>3. CASE ~ Reloads(op[o].todo)
    <3>1. op' = [op EXCEPT ![o] = NoOp] /\ UNCHANGED <<failed, load>>
      BY <1>7, <2>3 DEF ActionDone
    <3>2. rows' = rows
      BY <1>7, <1>01, <2>1, <2>3, EffectOnRows DEF ActionDone, Reloads
    <3> QED BY <2>1, <3>1, <3>2, EndQuiet
  <2> QED BY <2>2, <2>3
<1>8. ASSUME NEW o \in Ops, ActionFails(o) PROVE Awaits' /\ (~ doubt' => Quiet')
  <2>1. /\ op[o].at = "posting" /\ op' = [op EXCEPT ![o] = NoOp]
        /\ UNCHANGED <<shown, failed, load>>
    BY <1>8 DEF ActionFails
  <2>2. UNCHANGED <<rows, doubt>> \/ doubt'
    BY <1>8 DEF ActionFails
  <2>3. Awaits' /\ (~ doubt /\ UNCHANGED <<rows, shown, failed>> => Quiet')
    BY <2>1, EndQuiet
  <2> QED BY <2>1, <2>2, <2>3
<1>9. ASSUME NEW o \in Ops, ReloadDone(o) PROVE Awaits' /\ (~ doubt' => Quiet')
  <2>1. Arrived(o) /\ Loaded(o) /\ op' = [op EXCEPT ![o] = NoOp] /\ UNCHANGED <<rows, doubt>>
    BY <1>9 DEF ReloadDone
  <2>2. /\ op'[o] = NoOp /\ load'[o].at = "idle"
        /\ \A p \in Ops : p # o => op'[p] = op[p]
        /\ \A x \in Ops \cup Reads : x # o => load'[x] = load[x]
    BY <1>01, <1>02, <2>1, LoadedLoad
  <2>3. Awaits'
    BY <1>03, <2>2 DEF Awaits, Loads, NoOp
  <2>4. o \in AdminUnderWay /\ AdminUnderWay' \subseteq AdminUnderWay \ {o}
    BY <2>1, <2>2 DEF AdminUnderWay, Busy, Loads, Arrived, NoOp
  <2> QED BY <1>03, <2>1, <2>3, <2>4, LoadedAlone
<1> QED BY <1>1, <1>2, <1>3, <1>4, <1>5, <1>6, <1>7, <1>8, <1>9 DEF AdminNext, AdminOpStep

(* The administrator's pages: a page at rest shows what the API holds, however   *)
(* loads, confirmations and actions followed one another, unless two of them      *)
(* overlapped or a post failed half-way since the last refresh by itself.        *)
THEOREM AdminPageSettles == AdminSpec => []QuietPageIsFresh
<1>1. QuietInv => QuietPageIsFresh
  BY DEF QuietInv, Quiet, NothingLoads, QuietPageIsFresh
<1> QED BY <1>1, AdminInitQuiet, AdminStepQuiet, PTL DEF AdminSpec
=============================================================================
