----------------------------- MODULE MCWebPages -----------------------------
(***************************************************************************)
(* The pages that a router mounts one at a time, the debug collector and a     *)
(* text field, in one model: site says which it is, the others stay as they     *)
(* were.  What overlaps within one does not reach another, so that their states *)
(* add up and do not multiply.                                               *)
(***************************************************************************)
EXTENDS EntryPage, Dashboard, AdminPages, FileBrowser, InvitePage, DebugCollector,
        Composition

VARIABLE site

pagesVars == <<site, entryVars, dashVars, adminVars, filesVars, inviteVars, collectorVars,
              compositionVars>>

MCDirOf == [a |-> "top", b |-> "top"]
MCLimit == [console |-> 2, network |-> 1, ui |-> 2]

(* A page that is not mounted has asked for nothing.                          *)
NoDashboard ==
  /\ observed = "missing" /\ status = "none" /\ fetching = FALSE
  /\ lock = "none" /\ deleting = FALSE /\ deleteDialog = FALSE
  /\ act = [o \in Acts |-> NoAct] /\ read = [r \in Acts \cup Refreshes |-> NoRead]
  /\ crossed = FALSE /\ card = "fresh"

NoAdmin ==
  /\ page = "home" /\ rows = [i \in Items |-> "on"]
  /\ shown = Nothing /\ loading = FALSE /\ failed = FALSE /\ slot = Nothing /\ dialog = Nothing
  /\ op = [o \in Ops |-> NoOp] /\ load = [l \in Ops \cup Reads |-> NoLoad]
  /\ doubt = TRUE

NoFiles ==
  /\ disk = [f \in Files |-> f] /\ currentPath = "top"
  /\ listed = [dir |-> "top", files |-> {}] /\ listLoading = FALSE /\ listError = FALSE
  /\ selected = Absent /\ content = Absent
  /\ isEditing = FALSE /\ isSaving = FALSE /\ isUploading = FALSE
  /\ request = [q \in Requests |-> NoRequest] /\ listing = "excused"

NoInvite ==
  /\ link = [status |-> "pending", by |-> Nobody, login |-> Nobody, expired |-> FALSE]
  /\ taken = {} /\ view = "left" /\ reason = "not_found" /\ username = Nobody
  /\ fly = NoFly /\ leaving = FALSE

PagesInit ==
  /\ EntryInit        \* whose page is not mounted yet
  /\ CollectorInit    \* where nothing is logged yet
  /\ CompositionInit  \* where nothing is typed yet
  /\ \/ site = "entry"       /\ NoDashboard /\ NoAdmin /\ NoFiles /\ NoInvite
     \/ site = "dashboard"   /\ DashInit /\ NoAdmin /\ NoFiles /\ NoInvite
     \/ site = "admin"       /\ NoDashboard /\ AdminInit /\ NoFiles /\ NoInvite
     \/ site = "files"       /\ NoDashboard /\ NoAdmin /\ FilesInit /\ NoInvite
     \/ site = "invite"      /\ NoDashboard /\ NoAdmin /\ NoFiles /\ InviteInit
     \/ site \in {"collector", "field"} /\ NoDashboard /\ NoAdmin /\ NoFiles /\ NoInvite
  /\ site # "field" => field = "input" /\ inDialog

PagesNext ==
  \/ /\ site = "entry" /\ EntryNext
     /\ UNCHANGED <<site, dashVars, adminVars, filesVars, inviteVars, collectorVars, compositionVars>>
  \/ /\ site = "dashboard" /\ DashNext
     /\ UNCHANGED <<site, entryVars, adminVars, filesVars, inviteVars, collectorVars, compositionVars>>
  \/ /\ site = "admin" /\ AdminNext
     /\ UNCHANGED <<site, entryVars, dashVars, filesVars, inviteVars, collectorVars, compositionVars>>
  \/ /\ site = "files" /\ FilesNext
     /\ UNCHANGED <<site, entryVars, dashVars, adminVars, inviteVars, collectorVars, compositionVars>>
  \/ /\ site = "invite" /\ InviteNext
     /\ UNCHANGED <<site, entryVars, dashVars, adminVars, filesVars, collectorVars, compositionVars>>
  \/ /\ site = "collector" /\ CollectorNext
     /\ UNCHANGED <<site, entryVars, dashVars, adminVars, filesVars, inviteVars, compositionVars>>
  \/ /\ site = "field" /\ CompositionNext
     /\ UNCHANGED <<site, entryVars, dashVars, adminVars, filesVars, inviteVars, collectorVars>>

(* Fairness is that of the pages: nothing they owe can happen unmounted.        *)
PagesSpec ==
  /\ PagesInit /\ [][PagesNext]_pagesVars
  /\ EntryFairness /\ DashFairness /\ AdminFairness
=============================================================================
