----------------------------- MODULE FileBrowser -----------------------------
(***************************************************************************)
(* The file browser of the web client (FileBrowser.tsx): a listing of one    *)
(* directory and an editor for one file of the user's container.             *)
(*                                                                         *)
(* Requests are neither cancelled nor ordered: an answer takes effect when it *)
(* arrives, whatever directory or file the page is at by then.  A handler     *)
(* that loads the listing again does so for the directory it began in.       *)
(*                                                                         *)
(* What a text says does not matter, only whose it is: contents are named by  *)
(* the file they were read from, typed or uploaded for.  What files there are   *)
(* is as much the doing of the container's own processes, which write and        *)
(* delete at any time: a listing may name any, and what matters of it - names     *)
(* and sizes alike - is when the API read it.                                  *)
(***************************************************************************)
EXTENDS Naturals, FiniteSets

CONSTANTS
  Dirs,         \* directories
  Files,        \* files
  DirOf,        \* the directory a file is in
  Requests,     \* requests under way at once (a bound)
  Absent        \* nothing selected, nothing listed

ASSUME FilesAreInDirs == DirOf \in [Files -> Dirs]
ASSUME AbsentIsNothing == Absent \notin Files \cup Dirs
ASSUME SomeRequest == Requests # {}

VARIABLES
  disk,         \* API: the contents of each file, while there is one
  currentPath,
  listed,       \* the directory of the listing shown; its files
  listLoading,  \* loading
  listError,    \* error
  selected,     \* selectedFile
  content,      \* fileContent: whose text it is
  isEditing,
  isSaving,
  isUploading,
  request,      \* requests under way
  listing       \* history: does the page show what the API answered since it is
                \* in this directory and last added a file to it: "current", not
                \* yet ("owed"), or was it kept from it ("excused")

filesVars == <<disk, currentPath, listed, listLoading, listError, selected, content,
               isEditing, isSaving, isUploading, request, listing>>

NoRequest == [kind |-> "none", dir |-> Absent, files |-> {}, text |-> Absent, at |-> "idle",
              old |-> FALSE]
Free(q) == request[q] = NoRequest
FilesOf(d) == {f \in Files : DirOf[f] = d}
NoListing == [dir |-> Absent, files |-> {}]

(* An old listing was read before a file was added to its directory.          *)
RequestRecs ==
  [kind : {"none", "list", "read", "save", "create", "upload"}, dir : Dirs \cup {Absent},
   files : SUBSET Files, text : Files \cup {Absent},
   at : {"idle", "asked", "served", "failed"}, old : BOOLEAN]

FilesTypeOK ==
  /\ disk \in [Files -> Files \cup {Absent}]
  /\ currentPath \in Dirs
  /\ listed \in [dir : Dirs \cup {Absent}, files : SUBSET Files]
  /\ {selected, content} \subseteq Files \cup {Absent}
  /\ {listLoading, listError, isEditing, isSaving, isUploading} \subseteq BOOLEAN
  /\ request \in [Requests -> RequestRecs]
  /\ listing \in {"current", "owed", "excused"}

Send(q, kind, d, fs, t) ==
  /\ Free(q)
  /\ request' = [request EXCEPT ![q] =
       [kind |-> kind, dir |-> d, files |-> fs, text |-> t, at |-> "asked", old |-> FALSE]]

FilesInit ==
  /\ disk = [f \in Files |-> f]
  /\ currentPath \in Dirs
  /\ listed = NoListing /\ listLoading = TRUE /\ listError = FALSE
  /\ selected = Absent /\ content = Absent
  /\ isEditing = FALSE /\ isSaving = FALSE /\ isUploading = FALSE
  /\ \E first \in Requests : request = [q \in Requests |-> IF q = first
       THEN [NoRequest EXCEPT !.kind = "list", !.dir = currentPath, !.at = "asked"] ELSE NoRequest]
  /\ listing = "owed"

-----------------------------------------------------------------------------
(* loadFiles.                                                                *)
LoadFiles(q, d) ==
  /\ Send(q, "list", d, {}, Absent)
  /\ listLoading' = TRUE /\ listError' = FALSE

(* The refresh and retry buttons                                             *)
RefreshFiles(q) ==
  /\ ~ listLoading
  /\ LoadFiles(q, currentPath)
  /\ listing' = "owed"
  /\ UNCHANGED <<disk, currentPath, listed, selected, content, isEditing, isSaving, isUploading>>

(* Another directory: a click in the listing, or goBack, and then the effect.   *)
SetCurrentPath(q, d) ==
  /\ d # currentPath
  /\ currentPath' = d
  /\ LoadFiles(q, d)
  /\ listing' = "owed"
  /\ UNCHANGED <<disk, listed, selected, content, isEditing, isSaving, isUploading>>

(* Mutant: the file is selected at the click, before its text has come. *)
ReadFile_SelectsEarly(q, f) ==
  /\ f \in listed.files /\ ~ (listLoading \/ listError)
  /\ Send(q, "read", Absent, {f}, Absent)
  /\ selected' = f
  /\ UNCHANGED <<disk, currentPath, listed, listLoading, listError, content,
                 isEditing, isSaving, isUploading, listing>>

(* A click on a file that is listed.                                         *)
ReadFile(q, f) ==
  /\ f \in listed.files /\ ~ (listLoading \/ listError)
  /\ Send(q, "read", Absent, {f}, Absent)
  /\ UNCHANGED <<disk, currentPath, listed, listLoading, listError, selected, content,
                 isEditing, isSaving, isUploading, listing>>

Edit ==
  /\ selected # Absent /\ ~ isEditing
  /\ isEditing' = TRUE
  /\ UNCHANGED <<disk, currentPath, listed, listLoading, listError, selected, content,
                 isSaving, isUploading, request, listing>>

StopEditing ==
  /\ isEditing /\ ~ isSaving
  /\ isEditing' = FALSE
  /\ UNCHANGED <<disk, currentPath, listed, listLoading, listError, selected, content,
                 isSaving, isUploading, request, listing>>

(* saveFile, up to its await.                                                *)
SaveFile(q) ==
  /\ selected # Absent /\ isEditing /\ ~ isSaving
  /\ Send(q, "save", Absent, {selected}, content)
  /\ isSaving' = TRUE
  /\ UNCHANGED <<disk, currentPath, listed, listLoading, listError, selected, content,
                 isEditing, isUploading, listing>>

(* createNewFile: an existing file of that name is emptied.                   *)
CreateNewFile(q, f) ==
  /\ DirOf[f] = currentPath
  /\ Send(q, "create", currentPath, {f}, f)
  /\ UNCHANGED <<disk, currentPath, listed, listLoading, listError, selected, content,
                 isEditing, isSaving, isUploading, listing>>

(* handleFileUpload: several files, one request after the other.              *)
HandleFileUpload(q, fs) ==
  /\ fs # {} /\ fs \subseteq FilesOf(currentPath) /\ ~ isUploading
  /\ Send(q, "upload", currentPath, fs, Absent)
  /\ isUploading' = TRUE
  /\ UNCHANGED <<disk, currentPath, listed, listLoading, listError, selected, content,
                 isEditing, isSaving, listing>>

-----------------------------------------------------------------------------
(* The API answers: it reads, writes, or fails, for an upload file by file.     *)
First(fs) == CHOOSE f \in fs : TRUE

(* A file was added to d, which listings of d already read do not know.          *)
NewFileIn(d, req) ==
  /\ request' = [p \in Requests |->
                   IF req[p].kind = "list" /\ req[p].dir = d /\ req[p].at = "served"
                     THEN [req[p] EXCEPT !.old = TRUE] ELSE req[p]]
  /\ listing' = IF d = currentPath THEN "owed" ELSE listing

Written(q) ==
  /\ request[q].kind \in {"save", "create", "upload"}
  /\ disk' = [disk EXCEPT ![First(request[q].files)] =
                IF request[q].kind = "upload" THEN First(request[q].files) ELSE request[q].text]

Served(q) ==
  \/ /\ request[q].kind = "list"
     /\ \E fs \in SUBSET FilesOf(request[q].dir) :
          request' = [request EXCEPT ![q].files = fs, ![q].at = "served"]
     /\ UNCHANGED <<disk, listing>>
  \/ /\ request[q].kind = "read"
     /\ request' = [request EXCEPT ![q].text = disk[First(request[q].files)], ![q].at = "served"]
     /\ UNCHANGED <<disk, listing>>
  \/ /\ request[q].kind = "save"
     /\ Written(q)
     /\ request' = [request EXCEPT ![q].at = "served"]
     /\ UNCHANGED listing
  \/ /\ request[q].kind = "create"
     /\ Written(q)
     /\ NewFileIn(request[q].dir, [request EXCEPT ![q].at = "served"])
  \/ /\ request[q].kind = "upload"
     /\ Written(q)
     /\ LET left == request[q].files \ {First(request[q].files)}
        IN NewFileIn(request[q].dir,
             [request EXCEPT ![q].files = left, ![q].at = IF left = {} THEN "served" ELSE "asked"])

ServeFiles(q) ==
  /\ request[q].at = "asked"
  /\ \/ Served(q)
     \/ /\ request' = [request EXCEPT ![q].at = "failed"] /\ UNCHANGED listing
        /\ UNCHANGED disk \/ Written(q)   \* the answer alone may be lost
  /\ UNCHANGED <<currentPath, listed, listLoading, listError, selected, content,
                 isEditing, isSaving, isUploading>>

EndRequest(q) == request' = [request EXCEPT ![q] = NoRequest]

(* The listing that arrived last is shown, under whatever path.               *)
FilesListed(q) ==
  /\ request[q].kind = "list" /\ request[q].at \in {"served", "failed"}
  /\ IF request[q].at = "served"
       THEN listed' = [dir |-> request[q].dir, files |-> request[q].files] /\ UNCHANGED listError
       ELSE listError' = TRUE /\ UNCHANGED listed
  /\ listing' = CASE request[q].dir # currentPath \/ request[q].old ->
                       IF listing = "current" /\ request[q].at = "served" THEN "excused" ELSE listing
                  [] OTHER -> IF request[q].at = "served" THEN "current"
                              ELSE IF listing = "owed" THEN "excused" ELSE listing
  /\ listLoading' = FALSE
  /\ EndRequest(q)
  /\ UNCHANGED <<disk, currentPath, selected, content, isEditing, isSaving, isUploading>>

(* A file read: its text and its name take the editor over together.           *)
FileRead(q) ==
  /\ request[q].kind = "read" /\ request[q].at \in {"served", "failed"}
  /\ IF request[q].at = "served"
       THEN /\ content' = request[q].text
            /\ selected' = First(request[q].files)
            /\ isEditing' = TRUE
       ELSE UNCHANGED <<content, selected, isEditing>>
  /\ EndRequest(q)
  /\ UNCHANGED <<disk, currentPath, listed, listLoading, listError, isSaving, isUploading, listing>>

FileSaved(q) ==
  /\ request[q].kind = "save" /\ request[q].at \in {"served", "failed"}
  /\ isSaving' = FALSE
  /\ isEditing' = (isEditing /\ request[q].at = "failed")
  /\ EndRequest(q)
  /\ UNCHANGED <<disk, currentPath, listed, listLoading, listError, selected, content,
                 isUploading, listing>>

(* Created or uploaded: the listing is loaded for the directory the handler     *)
(* began in.  A failure loads nothing, even when some files have arrived.      *)
ListAgain(q) ==
  /\ request' = [request EXCEPT ![q] = [NoRequest EXCEPT !.kind = "list",
                                          !.dir = request[q].dir, !.at = "asked"]]
  /\ listLoading' = TRUE /\ listError' = FALSE
  /\ UNCHANGED listing

NotAdded(q) ==
  /\ EndRequest(q)
  /\ listing' = IF listing = "owed" /\ request[q].dir = currentPath THEN "excused" ELSE listing
  /\ UNCHANGED <<listLoading, listError>>

(* Mutant: what was added is not listed. *)
FilesAdded_NotListed(q) ==
  /\ request[q].kind \in {"create", "upload"} /\ request[q].at \in {"served", "failed"}
  /\ IF request[q].at = "served"
       THEN EndRequest(q) /\ UNCHANGED <<listLoading, listError, listing>>
       ELSE NotAdded(q)
  /\ isUploading' = (isUploading /\ request[q].kind = "create")
  /\ UNCHANGED <<disk, currentPath, listed, selected, content, isEditing, isSaving>>

FilesAdded(q) ==
  /\ request[q].kind \in {"create", "upload"} /\ request[q].at \in {"served", "failed"}
  /\ IF request[q].at = "served" THEN ListAgain(q) ELSE NotAdded(q)
  /\ isUploading' = (isUploading /\ request[q].kind = "create")
  /\ UNCHANGED <<disk, currentPath, listed, selected, content, isEditing, isSaving>>

Answered(q) == FilesListed(q) \/ FileRead(q) \/ FileSaved(q) \/ FilesAdded(q)

FilesNext ==
  \/ \E q \in Requests :
       \/ RefreshFiles(q) \/ SaveFile(q) \/ ServeFiles(q) \/ Answered(q)
       \/ \E d \in Dirs : SetCurrentPath(q, d)
       \/ \E f \in Files : ReadFile(q, f) \/ CreateNewFile(q, f)
       \/ \E fs \in SUBSET Files : HandleFileUpload(q, fs)
  \/ Edit \/ StopEditing

FilesSpec == FilesInit /\ [][FilesNext]_filesVars

-----------------------------------------------------------------------------
(* No file takes another's text: whatever reads and saves overlap, and           *)
(* whichever answer comes late, what a file holds was read from it, typed in its *)
(* editor or uploaded under its name.                                        *)
OwnTextOnly == \A f \in Files : disk[f] = f

(* At rest the listing is that of the directory above it, and was read after the  *)
(* page last added a file there, however creations, uploads, refreshes and changes *)
(* of directory overlap.  It may not be in three cases: an error said that the     *)
(* listing, the creation or the upload failed; an answer for another directory     *)
(* arrived last; or one read earlier did.  Later moves of the container are not     *)
(* shown, nor is what a save changes: the page lists nothing after one.            *)
ListingIsCurrent ==
  (\A q \in Requests : Free(q)) =>
    /\ listing # "owed"
    /\ listing = "current" => listed.dir = currentPath
=============================================================================
