-------------------------- MODULE FileBrowserProofs --------------------------
(***************************************************************************)
(* Theorems about the file browser, for any number of files, directories and *)
(* overlapping requests.                                                     *)
(*                                                                         *)
(* No file takes another's text: the file that is selected and the text in    *)
(* the editor change together or not at all, and a request carries the name   *)
(* and the text it was sent with, so that the order in which requests are     *)
(* served does not matter.                                                   *)
(*                                                                         *)
(* The listing at rest is current: as long as the page owes a newer one, a       *)
(* request for it is under way, or one to add a file, whose handler asks for it. *)
(***************************************************************************)
EXTENDS FileBrowser, TLAPS

(* A request writes a file's own text under its name, and has read it there.     *)
OwnText(r) ==
  /\ r.kind \in {"save", "create"} => \E f \in Files : r.files = {f} /\ r.text = f
  /\ r.kind = "read" => \E f \in Files : r.files = {f} /\ (r.at = "served" => r.text = f)
  /\ r.kind = "upload" /\ r.at = "asked" => r.files # {}
  /\ r.kind = "none" => r.at = "idle"

RequestsOwn == \A q \in Requests : OwnText(request[q])

EditorOwn == selected = content /\ selected \in Files \cup {Absent}

Places == currentPath \in Dirs /\ listed.files \subseteq Files

FilesInv ==
  /\ disk \in [Files -> Files \cup {Absent}]
  /\ OwnTextOnly
  /\ request \in [Requests -> RequestRecs]
  /\ RequestsOwn
  /\ EditorOwn
  /\ Places

LEMMA FirstOfOne == \A f : First({f}) = f
BY DEF First

LEMMA FirstIsOne == ASSUME NEW fs, fs # {} PROVE First(fs) \in fs
BY DEF First

(* The requests stay as they should when one of them is replaced by a good one.  *)
LEMMA OneReplaced ==
  ASSUME FilesInv, NEW q \in Requests, NEW r \in RequestRecs, OwnText(r),
         request' = [request EXCEPT ![q] = r]
  PROVE  request' \in [Requests -> RequestRecs] /\ RequestsOwn'
<1>1. request' \in [Requests -> RequestRecs] /\ request'[q] = r
      /\ \A p \in Requests \ {q} : request'[p] = request[p]
  BY DEF FilesInv
<1>2. ASSUME NEW p \in Requests PROVE OwnText(request'[p])
  BY <1>1 DEF FilesInv, RequestsOwn
<1> QED BY <1>1, <1>2 DEF RequestsOwn

LEMMA NoRequestOwn == NoRequest \in RequestRecs /\ OwnText(NoRequest)
BY DEF NoRequest, RequestRecs, OwnText

LEMMA ListOwn ==
  ASSUME NEW r, NEW d \in Dirs \cup {Absent}, NEW fs \in SUBSET Files,
         NEW at \in {"asked", "served", "failed"},
         r = [kind |-> "list", dir |-> d, files |-> fs, text |-> Absent, at |-> at, old |-> FALSE]
  PROVE  r \in RequestRecs /\ OwnText(r)
BY DEF RequestRecs, OwnText

LEMMA FilesInitInv == FilesInit => FilesInv
<1> SUFFICES ASSUME FilesInit PROVE FilesInv
  OBVIOUS
<1>1. PICK first \in Requests : request = [q \in Requests |-> IF q = first
        THEN [NoRequest EXCEPT !.kind = "list", !.dir = currentPath, !.at = "asked"] ELSE NoRequest]
  BY DEF FilesInit
<1> DEFINE asked == [NoRequest EXCEPT !.kind = "list", !.dir = currentPath, !.at = "asked"]
<1>3. currentPath \in Dirs
  BY DEF FilesInit
<1>4. asked \in RequestRecs /\ OwnText(asked)
  BY <1>3 DEF NoRequest, RequestRecs, OwnText
<1> HIDE DEF asked
<1>5. request \in [Requests -> RequestRecs] /\ RequestsOwn
  BY <1>1, <1>4, NoRequestOwn DEF RequestsOwn, asked
<1> QED BY <1>3, <1>5 DEF FilesInit, FilesInv, OwnTextOnly, EditorOwn, Places, NoListing

(* Every handler up to its await.                                              *)
LEMMA SendOwn ==
  ASSUME FilesInv, NEW q \in Requests, NEW kind, NEW d, NEW fs, NEW t,
         Send(q, kind, d, fs, t),
         [kind |-> kind, dir |-> d, files |-> fs, text |-> t, at |-> "asked", old |-> FALSE] \in RequestRecs,
         OwnText([kind |-> kind, dir |-> d, files |-> fs, text |-> t, at |-> "asked", old |-> FALSE])
  PROVE  request' \in [Requests -> RequestRecs] /\ RequestsOwn'
BY OneReplaced DEF Send

LEMMA EndOwn ==
  ASSUME FilesInv, NEW q \in Requests, EndRequest(q)
  PROVE  request' \in [Requests -> RequestRecs] /\ RequestsOwn'
BY OneReplaced, NoRequestOwn DEF EndRequest

(* The API answers a request.                                                  *)
LEMMA OneServed ==
  ASSUME FilesInv, NEW q \in Requests, NEW r \in RequestRecs, OwnText(r)
  PROVE  /\ [request EXCEPT ![q] = r] \in [Requests -> RequestRecs]
         /\ \A p \in Requests : OwnText([request EXCEPT ![q] = r][p])
BY DEF FilesInv, RequestsOwn

LEMMA NewFileOwn ==
  ASSUME NEW req \in [Requests -> RequestRecs], \A p \in Requests : OwnText(req[p]),
         NEW d, NewFileIn(d, req)
  PROVE  request' \in [Requests -> RequestRecs] /\ RequestsOwn'
<1>1. ASSUME NEW r \in RequestRecs PROVE [r EXCEPT !.old = TRUE] \in RequestRecs
  BY DEF RequestRecs
<1>2. ASSUME NEW r \in RequestRecs, OwnText(r) PROVE OwnText([r EXCEPT !.old = TRUE])
  BY <1>2 DEF RequestRecs, OwnText
<1>3. ASSUME NEW p \in Requests PROVE request'[p] \in RequestRecs /\ OwnText(request'[p])
  <2>1. request'[p] = req[p] \/ request'[p] = [req[p] EXCEPT !.old = TRUE]
    BY DEF NewFileIn
  <2> QED BY <1>1, <1>2, <2>1
<1>4. request' = [p \in Requests |-> request'[p]]
  BY DEF NewFileIn
<1> QED BY <1>3, <1>4 DEF RequestsOwn

(* What is written under a file's name is its own text.                          *)
LEMMA WrittenOwn ==
  ASSUME FilesInv, NEW q \in Requests, Written(q), request[q].at = "asked"
  PROVE  disk' \in [Files -> Files \cup {Absent}] /\ OwnTextOnly'
<1> DEFINE f == First(request[q].files)
           t == IF request[q].kind = "upload" THEN f ELSE request[q].text
<1>1. OwnText(request[q]) /\ request[q] \in RequestRecs
  BY DEF FilesInv, RequestsOwn
<1>2. f \in Files /\ t = f
  <2>1. CASE request[q].kind = "upload"
    BY <1>1, <2>1, FirstIsOne DEF OwnText, RequestRecs
  <2>2. CASE request[q].kind \in {"save", "create"}
    BY <1>1, <2>2, FirstOfOne DEF OwnText
  <2> QED BY <2>1, <2>2 DEF Written
<1>3. disk' = [disk EXCEPT ![f] = t]
  BY DEF Written
<1> HIDE DEF f, t
<1> QED BY <1>2, <1>3 DEF FilesInv, OwnTextOnly

LEMMA ServeOwn ==
  ASSUME FilesInv, NEW q \in Requests, ServeFiles(q)
  PROVE  FilesInv'
<1> USE DEF FilesInv
<1> DEFINE r == request[q]
<1>1. r \in RequestRecs /\ OwnText(r) /\ r.at = "asked"
  BY DEF ServeFiles, RequestsOwn
<1>2. UNCHANGED <<selected, content, currentPath, listed>>
  BY DEF ServeFiles
<1>3. EditorOwn' /\ Places'
  BY <1>2 DEF EditorOwn, Places
<1>4. disk' \in [Files -> Files \cup {Absent}] /\ OwnTextOnly'
  <2>1. Written(q) \/ UNCHANGED disk
    BY DEF ServeFiles, Served
  <2> QED BY <1>1, <2>1, WrittenOwn DEF OwnTextOnly
<1>5. CASE request' = [request EXCEPT ![q].at = "failed"]
  <2>1. [r EXCEPT !.at = "failed"] \in RequestRecs /\ OwnText([r EXCEPT !.at = "failed"])
    BY <1>1 DEF RequestRecs, OwnText
  <2>2. request' = [request EXCEPT ![q] = [r EXCEPT !.at = "failed"]]
    BY <1>5
  <2>3. request' \in [Requests -> RequestRecs] /\ RequestsOwn'
    BY <2>1, <2>2, OneReplaced
  <2> QED BY <1>3, <1>4, <2>3
<1>6. CASE Served(q)
  <2>1. r.kind \in {"list", "read", "save", "create", "upload"} \/ r.kind = "none"
    BY <1>1 DEF RequestRecs
  <2>2. CASE r.kind = "list"
    <3>1. PICK fs \in SUBSET FilesOf(r.dir) :
            request' = [request EXCEPT ![q].files = fs, ![q].at = "served"]
      BY <1>6, <2>2 DEF Served
    <3> DEFINE a == [r EXCEPT !.files = fs, !.at = "served"]
    <3>2. request' = [request EXCEPT ![q] = a]
      BY <3>1
    <3>3. fs \in SUBSET Files
      BY <3>1 DEF FilesOf
    <3>4. a \in RequestRecs /\ OwnText(a)
      BY <1>1, <2>2, <3>3 DEF RequestRecs, OwnText
    <3>5. request' \in [Requests -> RequestRecs] /\ RequestsOwn'
      BY <3>2, <3>4, OneReplaced
    <3> QED BY <1>3, <1>4, <3>5
  <2>3. CASE r.kind = "read"
    <3>1. PICK f \in Files : r.files = {f}
      BY <1>1, <2>3 DEF OwnText
    <3>2. request' = [request EXCEPT ![q].text = disk[f], ![q].at = "served"]
      BY <1>6, <2>3, <3>1, FirstOfOne DEF Served
    <3>3. disk[f] = f
      BY DEF OwnTextOnly
    <3> DEFINE a == [r EXCEPT !.text = f, !.at = "served"]
    <3>4. request' = [request EXCEPT ![q] = a]
      BY <3>2, <3>3
    <3>5. a \in RequestRecs /\ OwnText(a)
      BY <1>1, <2>3, <3>1 DEF RequestRecs, OwnText
    <3>6. request' \in [Requests -> RequestRecs] /\ RequestsOwn'
      BY <3>4, <3>5, OneReplaced
    <3> QED BY <1>3, <1>4, <3>6
  <2>4. CASE r.kind \in {"save", "create"}
    <3> DEFINE a == [r EXCEPT !.at = "served"]
               req == [request EXCEPT ![q] = a]
    <3>1. a \in RequestRecs /\ OwnText(a)
      BY <1>1, <2>4 DEF RequestRecs, OwnText
    <3>2. req \in [Requests -> RequestRecs] /\ \A p \in Requests : OwnText(req[p])
      BY <3>1, OneServed
    <3>3. request' = req \/ NewFileIn(r.dir, req)
      BY <1>6, <2>4 DEF Served
    <3>4. request' \in [Requests -> RequestRecs] /\ RequestsOwn'
      <4> HIDE DEF req
      <4> QED BY <3>2, <3>3, NewFileOwn DEF RequestsOwn
    <3> QED BY <1>3, <1>4, <3>4
  <2>5. CASE r.kind = "upload"
    <3> DEFINE left == r.files \ {First(r.files)}
               a == [r EXCEPT !.files = left, !.at = IF left = {} THEN "served" ELSE "asked"]
               req == [request EXCEPT ![q] = a]
    <3>1. a \in RequestRecs /\ OwnText(a)
      BY <1>1, <2>5 DEF RequestRecs, OwnText
    <3>2. req \in [Requests -> RequestRecs] /\ \A p \in Requests : OwnText(req[p])
      BY <3>1, OneServed
    <3>3. NewFileIn(r.dir, req)
      BY <1>6, <2>5 DEF Served
    <3>4. request' \in [Requests -> RequestRecs] /\ RequestsOwn'
      <4> HIDE DEF req
      <4> QED BY <3>2, <3>3, NewFileOwn
    <3> QED BY <1>3, <1>4, <3>4
  <2>6. CASE r.kind = "none"
    BY <1>1, <2>6 DEF OwnText
  <2> QED BY <2>1, <2>2, <2>3, <2>4, <2>5, <2>6
<1> QED BY <1>5, <1>6 DEF ServeFiles

(* A handler that asks for the listing, for a file's text, or sends some.         *)
LEMMA LoadOwn ==
  ASSUME FilesInv, NEW q \in Requests, NEW d \in Dirs, LoadFiles(q, d)
  PROVE  request' \in [Requests -> RequestRecs] /\ RequestsOwn'
<1> DEFINE r == [kind |-> "list", dir |-> d, files |-> {}, text |-> Absent, at |-> "asked", old |-> FALSE]
<1>1. r \in RequestRecs /\ OwnText(r)
  BY ListOwn
<1>2. Send(q, "list", d, {}, Absent)
  BY DEF LoadFiles
<1> QED BY <1>1, <1>2, SendOwn

LEMMA AskOwn ==
  ASSUME FilesInv, NEW q \in Requests, NEW kind \in {"read", "save", "create"},
         NEW d \in Dirs \cup {Absent}, NEW f \in Files, NEW t \in Files \cup {Absent},
         kind # "read" => t = f, Send(q, kind, d, {f}, t)
  PROVE  request' \in [Requests -> RequestRecs] /\ RequestsOwn'
<1> DEFINE r == [kind |-> kind, dir |-> d, files |-> {f}, text |-> t, at |-> "asked", old |-> FALSE]
<1>1. r \in RequestRecs /\ OwnText(r)
  BY DEF RequestRecs, OwnText
<1> QED BY <1>1, SendOwn

LEMMA UploadOwn ==
  ASSUME FilesInv, NEW q \in Requests, NEW fs \in SUBSET Files, fs # {},
         Send(q, "upload", currentPath, fs, Absent)
  PROVE  request' \in [Requests -> RequestRecs] /\ RequestsOwn'
<1> DEFINE r == [kind |-> "upload", dir |-> currentPath, files |-> fs, text |-> Absent, at |-> "asked", old |-> FALSE]
<1>1. r \in RequestRecs /\ OwnText(r)
  BY DEF RequestRecs, OwnText, FilesInv, Places
<1> QED BY <1>1, SendOwn

(* An answer takes effect.                                                      *)
LEMMA AnswerOwn ==
  ASSUME FilesInv, NEW q \in Requests, Answered(q)
  PROVE  FilesInv'
<1> USE DEF FilesInv
<1> DEFINE r == request[q]
<1>1. r \in RequestRecs /\ OwnText(r)
  BY DEF RequestsOwn
<1>2. UNCHANGED <<disk, currentPath>>
  BY DEF Answered, FilesListed, FileRead, FileSaved, FilesAdded
<1>3. disk' \in [Files -> Files \cup {Absent}] /\ OwnTextOnly'
  BY <1>2 DEF OwnTextOnly
<1>4. CASE FilesListed(q)
  <2>1. Places'
    BY <1>1, <1>2, <1>4 DEF FilesListed, Places, RequestRecs
  <2> QED BY <1>3, <1>4, <2>1, EndOwn DEF FilesListed, EditorOwn
<1>5. CASE FileRead(q)
  <2>1. PICK f \in Files : r.files = {f} /\ (r.at = "served" => r.text = f)
    BY <1>1, <1>5 DEF FileRead, OwnText
  <2>2. EditorOwn'
    BY <1>5, <2>1, FirstOfOne DEF FileRead, EditorOwn
  <2> QED BY <1>2, <1>3, <1>5, <2>2, EndOwn DEF FileRead, Places
<1>6. CASE FileSaved(q)
  BY <1>2, <1>3, <1>6, EndOwn DEF FileSaved, EditorOwn, Places
<1>7. CASE FilesAdded(q)
  <2>1. UNCHANGED <<listed, selected, content>>
    BY <1>7 DEF FilesAdded
  <2>2. CASE ListAgain(q)
    <3> DEFINE a == [NoRequest EXCEPT !.kind = "list", !.dir = r.dir, !.at = "asked"]
    <3>1. a \in RequestRecs /\ OwnText(a)
      BY <1>1 DEF NoRequest, RequestRecs, OwnText
    <3>2. request' = [request EXCEPT ![q] = a]
      BY <2>2 DEF ListAgain
    <3>3. request' \in [Requests -> RequestRecs] /\ RequestsOwn'
      BY <3>1, <3>2, OneReplaced
    <3> QED BY <1>2, <1>3, <2>1, <3>3 DEF EditorOwn, Places
  <2>3. CASE EndRequest(q)
    BY <1>2, <1>3, <2>1, <2>3, EndOwn DEF EditorOwn, Places
  <2> QED BY <1>7, <2>2, <2>3 DEF FilesAdded, NotAdded
<1> QED BY <1>4, <1>5, <1>6, <1>7 DEF Answered

LEMMA FilesStepInv == FilesInv /\ [FilesNext]_filesVars => FilesInv'
<1> SUFFICES ASSUME FilesInv, [FilesNext]_filesVars PROVE FilesInv'
  OBVIOUS
<1> USE DEF FilesInv
<1>1. ASSUME UNCHANGED <<disk, listed, selected, content>>, currentPath' \in Dirs,
             request' \in [Requests -> RequestRecs], RequestsOwn'
      PROVE  FilesInv'
  BY <1>1 DEF OwnTextOnly, EditorOwn, Places
<1>2. currentPath \in Dirs /\ listed.files \subseteq Files
  BY DEF Places
<1>3. ASSUME NEW q \in Requests, RefreshFiles(q) PROVE FilesInv'
  <2>1. LoadFiles(q, currentPath) /\ UNCHANGED <<disk, currentPath, listed, selected, content>>
    BY <1>3 DEF RefreshFiles
  <2> QED BY <1>1, <1>2, <2>1, LoadOwn
<1>4. ASSUME NEW q \in Requests, NEW d \in Dirs, SetCurrentPath(q, d) PROVE FilesInv'
  <2>1. LoadFiles(q, d) /\ currentPath' = d /\ UNCHANGED <<disk, listed, selected, content>>
    BY <1>4 DEF SetCurrentPath
  <2> QED BY <1>1, <2>1, LoadOwn
<1>5. ASSUME NEW q \in Requests, NEW f \in Files, ReadFile(q, f) PROVE FilesInv'
  <2>1. Send(q, "read", Absent, {f}, Absent)
        /\ UNCHANGED <<disk, currentPath, listed, selected, content>>
    BY <1>5 DEF ReadFile
  <2> QED BY <1>1, <1>2, <2>1, AskOwn
<1>6. ASSUME NEW q \in Requests, SaveFile(q) PROVE FilesInv'
  <2>1. selected \in Files /\ content = selected /\ Send(q, "save", Absent, {selected}, content)
        /\ UNCHANGED <<disk, currentPath, listed, selected, content>>
    BY <1>6 DEF SaveFile, EditorOwn
  <2> QED BY <1>1, <1>2, <2>1, AskOwn
<1>7. ASSUME NEW q \in Requests, NEW f \in Files, CreateNewFile(q, f) PROVE FilesInv'
  <2>1. Send(q, "create", currentPath, {f}, f)
        /\ UNCHANGED <<disk, currentPath, listed, selected, content>>
    BY <1>7 DEF CreateNewFile
  <2> QED BY <1>1, <1>2, <2>1, AskOwn
<1>8. ASSUME NEW q \in Requests, NEW fs \in SUBSET Files, HandleFileUpload(q, fs) PROVE FilesInv'
  <2>1. fs # {} /\ Send(q, "upload", currentPath, fs, Absent)
        /\ UNCHANGED <<disk, currentPath, listed, selected, content>>
    BY <1>8 DEF HandleFileUpload
  <2> QED BY <1>1, <1>2, <2>1, UploadOwn
<1>9. CASE Edit \/ StopEditing \/ UNCHANGED filesVars
  <2>1. UNCHANGED <<disk, currentPath, listed, selected, content, request>>
    BY <1>9 DEF Edit, StopEditing, filesVars
  <2> QED BY <1>1, <1>2, <2>1 DEF RequestsOwn, OwnText
<1> QED BY <1>3, <1>4, <1>5, <1>6, <1>7, <1>8, <1>9, ServeOwn, AnswerOwn DEF FilesNext

(* No file takes another's text, whatever reads, saves, creations and uploads     *)
(* overlap and in whatever order the API serves them.                             *)
THEOREM NoTextGoesAstray == FilesSpec => []OwnTextOnly
<1>1. FilesInv => OwnTextOnly
  BY DEF FilesInv
<1> QED BY <1>1, FilesInitInv, FilesStepInv, PTL DEF FilesSpec

(* What the page shows has the types declared for it: a listing has a directory   *)
(* of its own, and the flags are only ever set or cleared.                        *)
PageTypes ==
  /\ listed \in [dir : Dirs \cup {Absent}, files : SUBSET Files]
  /\ listLoading \in BOOLEAN /\ listError \in BOOLEAN
  /\ isEditing \in BOOLEAN /\ isSaving \in BOOLEAN /\ isUploading \in BOOLEAN
  /\ listing \in {"current", "owed", "excused"}

LEMMA FilesTypes == FilesInv /\ PageTypes => FilesTypeOK
BY DEF FilesInv, PageTypes, EditorOwn, Places, FilesTypeOK, RequestRecs

LEMMA FilesInitTypes == FilesInit => PageTypes
<1> SUFFICES ASSUME FilesInit PROVE PageTypes
  OBVIOUS
<1>1. /\ listed = NoListing /\ listLoading = TRUE /\ listError = FALSE /\ isEditing = FALSE
      /\ isSaving = FALSE /\ isUploading = FALSE /\ listing = "owed"
  BY DEF FilesInit
<1>2. NoListing \in [dir : Dirs \cup {Absent}, files : SUBSET Files]
  BY DEF NoListing
<1> QED BY <1>1, <1>2 DEF PageTypes

LEMMA FilesStepTypes == FilesInv /\ PageTypes /\ [FilesNext]_filesVars => PageTypes'
<1> SUFFICES ASSUME FilesInv, PageTypes, [FilesNext]_filesVars PROVE PageTypes'
  OBVIOUS
<1>0. /\ listed \in [dir : Dirs \cup {Absent}, files : SUBSET Files]
      /\ listLoading \in BOOLEAN /\ listError \in BOOLEAN
      /\ isEditing \in BOOLEAN /\ isSaving \in BOOLEAN /\ isUploading \in BOOLEAN
      /\ listing \in {"current", "owed", "excused"}
      /\ request \in [Requests -> RequestRecs]
  BY DEF PageTypes, FilesInv
<1> USE <1>0 DEF PageTypes
<1>1. ASSUME NEW q \in Requests, RefreshFiles(q) PROVE PageTypes'
  BY <1>1 DEF RefreshFiles, LoadFiles
<1>2. ASSUME NEW q \in Requests, NEW d \in Dirs, SetCurrentPath(q, d) PROVE PageTypes'
  BY <1>2 DEF SetCurrentPath, LoadFiles
<1>3. ASSUME NEW q \in Requests, NEW f \in Files, ReadFile(q, f) \/ CreateNewFile(q, f)
      PROVE  PageTypes'
  BY <1>3 DEF ReadFile, CreateNewFile
<1>4. ASSUME NEW q \in Requests, NEW fs \in SUBSET Files, SaveFile(q) \/ HandleFileUpload(q, fs)
      PROVE  PageTypes'
  BY <1>4 DEF SaveFile, HandleFileUpload
<1>5. ASSUME NEW q \in Requests, ServeFiles(q) PROVE PageTypes'
  BY <1>5 DEF ServeFiles, Served, NewFileIn
<1>6. ASSUME NEW q \in Requests, FilesListed(q) PROVE PageTypes'
  <2>1. request[q].dir \in Dirs \cup {Absent} /\ request[q].files \in SUBSET Files
    BY DEF RequestRecs
  <2>2. [dir |-> request[q].dir, files |-> request[q].files]
          \in [dir : Dirs \cup {Absent}, files : SUBSET Files]
    BY <2>1
  <2>3. listed' = [dir |-> request[q].dir, files |-> request[q].files] \/ listed' = listed
    BY <1>6 DEF FilesListed
  <2>4. listed' \in [dir : Dirs \cup {Absent}, files : SUBSET Files]
    BY <2>2, <2>3
  <2>5. /\ listLoading' \in BOOLEAN /\ listError' \in BOOLEAN
        /\ UNCHANGED <<isEditing, isSaving, isUploading>>
    BY <1>6 DEF FilesListed
  <2>6. listing' \in {"current", "owed", "excused"}
    BY <1>6 DEF FilesListed
  <2> QED BY <2>4, <2>5, <2>6
<1>7. ASSUME NEW q \in Requests, FileRead(q) \/ FileSaved(q) PROVE PageTypes'
  BY <1>7 DEF FileRead, FileSaved
<1>8. ASSUME NEW q \in Requests, FilesAdded(q) PROVE PageTypes'
  BY <1>8 DEF FilesAdded, ListAgain, NotAdded
<1>9. CASE Edit \/ StopEditing \/ UNCHANGED filesVars
  BY <1>9 DEF Edit, StopEditing, filesVars
<1> QED BY <1>1, <1>2, <1>3, <1>4, <1>5, <1>6, <1>7, <1>8, <1>9 DEF FilesNext, Answered

(* Type correctness of the page, the requests under way and the user's files, for   *)
(* any number of them.                                                           *)
THEOREM FilesTyped == FilesSpec => []FilesTypeOK
BY FilesInitInv, FilesStepInv, FilesInitTypes, FilesStepTypes, FilesTypes, PTL DEF FilesSpec
-----------------------------------------------------------------------------
(* A request that brings the page a current listing: one for the directory it is  *)
(* at that no file was added behind, or one to add a file there, whose handler     *)
(* asks for such a listing.                                                    *)
Pays(r, d) ==
  /\ r.dir = d
  /\ r.kind \in {"create", "upload"} \/ (r.kind = "list" /\ ~ r.old)

(* What is owed is paid for, what is current is of the directory the page is at,   *)
(* and only a listing that was served gets old.                                  *)
Remembered ==
  /\ listing = "owed" => \E q \in Requests : Pays(request[q], currentPath)
  /\ listing = "current" => listed.dir = currentPath
  /\ \A q \in Requests : request[q].old => request[q].at = "served"

ListingInv == request \in [Requests -> RequestRecs] /\ Remembered

LEMMA FilesInitListing == FilesInit => Remembered
<1> SUFFICES ASSUME FilesInit PROVE Remembered
  OBVIOUS
<1>1. PICK first \in Requests : request = [q \in Requests |-> IF q = first
        THEN [NoRequest EXCEPT !.kind = "list", !.dir = currentPath, !.at = "asked"] ELSE NoRequest]
  BY DEF FilesInit
<1>2. Pays(request[first], currentPath)
  BY <1>1 DEF Pays, NoRequest
<1>3. \A q \in Requests : ~ request[q].old
  BY <1>1 DEF NoRequest
<1>4. listing = "owed"
  BY DEF FilesInit
<1> QED BY <1>2, <1>3, <1>4 DEF Remembered

(* A handler that asks for the listing of the directory the page is at.           *)
LEMMA LoadListing ==
  ASSUME ListingInv, NEW q \in Requests, LoadFiles(q, currentPath'), listing' = "owed"
  PROVE  Remembered'
<1> DEFINE r == [kind |-> "list", dir |-> currentPath', files |-> {}, text |-> Absent,
                 at |-> "asked", old |-> FALSE]
<1>1. request'[q] = r /\ \A p \in Requests \ {q} : request'[p] = request[p]
  BY DEF LoadFiles, Send, ListingInv
<1>2. Pays(request'[q], currentPath')
  BY <1>1 DEF Pays
<1>3. \A p \in Requests : request'[p].old => request'[p].at = "served"
  BY <1>1 DEF ListingInv, Remembered
<1> QED BY <1>2, <1>3 DEF Remembered

(* A handler that begins beside the requests that are under way.                  *)
LEMMA SendListing ==
  ASSUME ListingInv, NEW q \in Requests, NEW kind, NEW d, NEW fs, NEW t,
         Send(q, kind, d, fs, t), UNCHANGED <<currentPath, listed, listing>>
  PROVE  Remembered'
<1>1. /\ request[q] = NoRequest
      /\ request'[q] = [kind |-> kind, dir |-> d, files |-> fs, text |-> t, at |-> "asked",
                        old |-> FALSE]
      /\ \A p \in Requests \ {q} : request'[p] = request[p]
  BY DEF Send, Free, ListingInv
<1>2. ~ Pays(request[q], currentPath)
  BY <1>1 DEF NoRequest, Pays
<1>3. listing' = "owed" => \E p \in Requests : Pays(request'[p], currentPath')
  BY <1>1, <1>2 DEF ListingInv, Remembered
<1>4. \A p \in Requests : request'[p].old => request'[p].at = "served"
  BY <1>1 DEF ListingInv, Remembered
<1> QED BY <1>3, <1>4 DEF ListingInv, Remembered

(* The API answers.  One that adds a file makes the listings of that directory     *)
(* old, and is one that pays for a newer listing itself.                         *)
LEMMA ServeListing ==
  ASSUME ListingInv, NEW q \in Requests, ServeFiles(q)
  PROVE  Remembered'
<1> DEFINE r == request[q]
<1>1. /\ r \in RequestRecs /\ r.at = "asked" /\ ~ r.old
      /\ UNCHANGED <<currentPath, listed>>
      /\ \A p \in Requests : request[p] \in RequestRecs
      /\ \A p \in Requests : request[p].old => request[p].at = "served"
  BY DEF ListingInv, Remembered, ServeFiles, RequestRecs
<1>2. \/ UNCHANGED listing
      \/ r.kind \in {"create", "upload"} /\ listing' = IF r.dir = currentPath THEN "owed" ELSE listing
  BY DEF ServeFiles, Served, NewFileIn
<1>3. /\ request'[q].kind = r.kind /\ request'[q].dir = r.dir
      /\ ~ request'[q].old
  <2>1. CASE request' = [request EXCEPT ![q].at = "failed"]
    BY <1>1, <2>1 DEF ListingInv, RequestRecs
  <2>2. CASE Served(q) /\ r.kind = "list"
    <3>1. PICK fs : request' = [request EXCEPT ![q].files = fs, ![q].at = "served"]
      BY <2>2 DEF Served
    <3> QED BY <1>1, <3>1 DEF ListingInv, RequestRecs
  <2>3. CASE Served(q) /\ r.kind = "read"
    BY <1>1, <2>3 DEF ListingInv, RequestRecs, Served
  <2>4. CASE Served(q) /\ r.kind = "save"
    BY <1>1, <2>4 DEF ListingInv, RequestRecs, Served
  <2>5. CASE Served(q) /\ r.kind = "create"
    BY <1>1, <2>5 DEF ListingInv, RequestRecs, Served, NewFileIn
  <2>6. CASE Served(q) /\ r.kind = "upload"
    <3> DEFINE left == r.files \ {First(r.files)}
               a == [r EXCEPT !.files = left, !.at = IF left = {} THEN "served" ELSE "asked"]
    <3>1. NewFileIn(r.dir, [request EXCEPT ![q] = a])
      BY <2>6 DEF Served
    <3>2. a.kind = "upload" /\ a.dir = r.dir /\ ~ a.old
      BY <1>1, <2>6 DEF RequestRecs
    <3>3. [request EXCEPT ![q] = a][q] = a
      BY DEF ListingInv
    <3> HIDE DEF a
    <3>4. request'[q] = a
      BY <3>1, <3>2, <3>3 DEF NewFileIn
    <3> QED BY <2>6, <3>2, <3>4
  <2>7. Served(q) => r.kind \in {"list", "read", "save", "create", "upload"}
    BY DEF Served
  <2> QED BY <2>1, <2>2, <2>3, <2>4, <2>5, <2>6, <2>7 DEF ServeFiles
<1>4. ASSUME NEW p \in Requests \ {q}
      PROVE  \/ request'[p] = request[p]
             \/ /\ r.kind \in {"create", "upload"} /\ request[p].dir = r.dir
                /\ request[p].at = "served" /\ request'[p] = [request[p] EXCEPT !.old = TRUE]
  <2>1. \/ \E a : request' = [request EXCEPT ![q] = a]
        \/ /\ r.kind \in {"create", "upload"}
           /\ \E a : NewFileIn(r.dir, [request EXCEPT ![q] = a])
    <3>1. CASE request' = [request EXCEPT ![q].at = "failed"]
      BY <3>1
    <3>2. CASE Served(q) /\ r.kind = "list"
      BY <3>2 DEF Served
    <3>3. CASE Served(q) /\ r.kind = "read"
      BY <3>3 DEF Served
    <3>4. CASE Served(q) /\ r.kind = "save"
      BY <3>4 DEF Served
    <3>5. CASE Served(q) /\ r.kind = "create"
      BY <3>5 DEF Served
    <3>6. CASE Served(q) /\ r.kind = "upload"
      BY <3>6 DEF Served
    <3>7. Served(q) => r.kind \in {"list", "read", "save", "create", "upload"}
      BY DEF Served
    <3> QED BY <3>1, <3>2, <3>3, <3>4, <3>5, <3>6, <3>7 DEF ServeFiles
  <2>2. CASE \E a : request' = [request EXCEPT ![q] = a]
    BY <2>2 DEF ListingInv
  <2>3. CASE r.kind \in {"create", "upload"} /\ \E a : NewFileIn(r.dir, [request EXCEPT ![q] = a])
    <3>1. PICK a : NewFileIn(r.dir, [request EXCEPT ![q] = a])
      BY <2>3
    <3>2. [request EXCEPT ![q] = a][p] = request[p]
      BY DEF ListingInv
    <3> QED BY <2>3, <3>1, <3>2 DEF NewFileIn
  <2> QED BY <2>1, <2>2, <2>3
<1>5. ASSUME NEW p \in Requests, request'[p].old PROVE request'[p].at = "served"
  <2>1. p # q
    BY <1>3, <1>5
  <2>2. CASE request'[p] = request[p]
    BY <1>1, <1>5, <2>2
  <2>3. CASE request[p].at = "served" /\ request'[p] = [request[p] EXCEPT !.old = TRUE]
    BY <1>1, <2>3 DEF RequestRecs
  <2> QED BY <1>4, <2>1, <2>2, <2>3
<1>6. ASSUME listing' = "owed" PROVE \E p \in Requests : Pays(request'[p], currentPath')
  <2>1. CASE Pays(r, currentPath)
    BY <1>1, <1>3, <2>1 DEF Pays
  <2>2. CASE ~ Pays(r, currentPath)
    <3>1. listing = "owed"
      BY <1>2, <1>6, <2>2 DEF Pays
    <3>2. PICK p \in Requests : Pays(request[p], currentPath)
      BY <3>1 DEF ListingInv, Remembered
    <3>3. request'[p] = request[p]
      BY <1>4, <2>2, <3>2 DEF Pays
    <3> QED BY <1>1, <3>2, <3>3
  <2> QED BY <2>1, <2>2
<1>7. listing' = "current" => listed'.dir = currentPath'
  BY <1>1, <1>2 DEF ListingInv, Remembered
<1> QED BY <1>5, <1>6, <1>7 DEF Remembered

(* A handler ends that nothing depends on.                                       *)
LEMMA EndListing ==
  ASSUME ListingInv, NEW q \in Requests, EndRequest(q), UNCHANGED currentPath,
         listing' = "owed" => listing = "owed" /\ ~ Pays(request[q], currentPath),
         listing' = "current" => listed'.dir = currentPath
  PROVE  Remembered'
<1>1. request'[q] = NoRequest /\ \A p \in Requests \ {q} : request'[p] = request[p]
  BY DEF EndRequest, ListingInv
<1>2. ~ NoRequest.old
  BY DEF NoRequest
<1>3. \A p \in Requests : request'[p].old => request'[p].at = "served"
  BY <1>1, <1>2 DEF ListingInv, Remembered
<1>4. listing' = "owed" => \E p \in Requests : Pays(request'[p], currentPath')
  BY <1>1 DEF ListingInv, Remembered
<1> QED BY <1>3, <1>4 DEF Remembered

LEMMA AnswerListing ==
  ASSUME ListingInv, NEW q \in Requests, Answered(q)
  PROVE  Remembered'
<1> DEFINE r == request[q]
<1>1. UNCHANGED currentPath /\ (listing = "current" => listed.dir = currentPath)
  BY DEF Answered, FilesListed, FileRead, FileSaved, FilesAdded, ListingInv, Remembered
<1>2. CASE FilesListed(q)
  <2>1. EndRequest(q) /\ r.kind = "list"
    BY <1>2 DEF FilesListed
  <2>2. CASE r.dir # currentPath \/ r.old
    <3>1. ~ Pays(r, currentPath)
      BY <2>1, <2>2 DEF Pays
    <3>2. listing' = IF listing = "current" /\ r.at = "served" THEN "excused" ELSE listing
      BY <1>2, <2>2 DEF FilesListed
    <3>3. r.at = "served" \/ UNCHANGED listed
      BY <1>2 DEF FilesListed
    <3> QED BY <1>1, <2>1, <3>1, <3>2, <3>3, EndListing
  <2>3. CASE r.dir = currentPath /\ ~ r.old
    <3>1. listing' = IF r.at = "served" THEN "current"
                     ELSE IF listing = "owed" THEN "excused" ELSE listing
      BY <1>2, <2>3 DEF FilesListed
    <3>2. IF r.at = "served" THEN listed' = [dir |-> r.dir, files |-> r.files] ELSE UNCHANGED listed
      BY <1>2 DEF FilesListed
    <3> QED BY <1>1, <2>1, <2>3, <3>1, <3>2, EndListing
  <2> QED BY <2>2, <2>3
<1>3. CASE FileRead(q) \/ FileSaved(q)
  <2>1. EndRequest(q) /\ UNCHANGED <<listed, listing>> /\ r.kind \in {"read", "save"}
    BY <1>3 DEF FileRead, FileSaved
  <2>2. ~ Pays(r, currentPath)
    BY <2>1 DEF Pays
  <2> QED BY <1>1, <2>1, <2>2, EndListing
<1>4. CASE FilesAdded(q)
  <2>1. UNCHANGED listed
    BY <1>4 DEF FilesAdded
  <2>2. CASE ListAgain(q)
    <3> DEFINE a == [NoRequest EXCEPT !.kind = "list", !.dir = r.dir, !.at = "asked"]
    <3>1. a.kind = "list" /\ a.dir = r.dir /\ ~ a.old
      BY DEF NoRequest
    <3>2. request' = [request EXCEPT ![q] = a] /\ UNCHANGED listing
      BY <2>2 DEF ListAgain
    <3> HIDE DEF a
    <3>3. request'[q] = a /\ \A p \in Requests \ {q} : request'[p] = request[p]
      BY <3>2 DEF ListingInv
    <3>4. \A p \in Requests : Pays(request[p], currentPath) => Pays(request'[p], currentPath)
      BY <3>1, <3>3 DEF Pays
    <3>5. \A p \in Requests : request'[p].old => request'[p].at = "served"
      BY <3>1, <3>3 DEF ListingInv, Remembered
    <3> QED BY <1>1, <2>1, <3>2, <3>4, <3>5 DEF ListingInv, Remembered
  <2>3. CASE NotAdded(q)
    <3>1. EndRequest(q)
          /\ listing' = IF listing = "owed" /\ r.dir = currentPath THEN "excused" ELSE listing
      BY <2>3 DEF NotAdded
    <3>2. listing' = "owed" => listing = "owed" /\ ~ Pays(r, currentPath)
      BY <3>1 DEF Pays
    <3> QED BY <1>1, <2>1, <3>1, <3>2, EndListing
  <2> QED BY <1>4, <2>2, <2>3 DEF FilesAdded
<1> QED BY <1>2, <1>3, <1>4 DEF Answered

LEMMA FilesStepListing == ListingInv /\ [FilesNext]_filesVars => Remembered'
<1> SUFFICES ASSUME ListingInv, [FilesNext]_filesVars PROVE Remembered'
  OBVIOUS
<1>1. ASSUME NEW q \in Requests, RefreshFiles(q) PROVE Remembered'
  <2>1. LoadFiles(q, currentPath') /\ listing' = "owed"
    BY <1>1 DEF RefreshFiles
  <2> QED BY <2>1, LoadListing
<1>2. ASSUME NEW q \in Requests, NEW d \in Dirs, SetCurrentPath(q, d) PROVE Remembered'
  <2>1. LoadFiles(q, currentPath') /\ listing' = "owed"
    BY <1>2 DEF SetCurrentPath
  <2> QED BY <2>1, LoadListing
<1>3. ASSUME NEW q \in Requests, NEW f \in Files, ReadFile(q, f) PROVE Remembered'
  BY <1>3, SendListing DEF ReadFile
<1>4. ASSUME NEW q \in Requests, SaveFile(q) PROVE Remembered'
  BY <1>4, SendListing DEF SaveFile
<1>5. ASSUME NEW q \in Requests, NEW f \in Files, CreateNewFile(q, f) PROVE Remembered'
  BY <1>5, SendListing DEF CreateNewFile
<1>6. ASSUME NEW q \in Requests, NEW fs \in SUBSET Files, HandleFileUpload(q, fs)
      PROVE  Remembered'
  BY <1>6, SendListing DEF HandleFileUpload
<1>7. CASE Edit \/ StopEditing \/ UNCHANGED filesVars
  <2>1. UNCHANGED <<currentPath, listed, request, listing>>
    BY <1>7 DEF Edit, StopEditing, filesVars
  <2> QED BY <2>1 DEF ListingInv, Remembered, Pays
<1> QED BY <1>1, <1>2, <1>3, <1>4, <1>5, <1>6, <1>7, ServeListing, AnswerListing DEF FilesNext

(* At rest the listing shown is that of the directory above it and was read after  *)
(* the page last added a file there, however refreshes, changes of directory,     *)
(* creations and uploads overlap; but for a failure, or an answer for another     *)
(* directory or from before that came last.  What a save or the container itself  *)
(* changes later is not spoken of: the page lists nothing after it.               *)
THEOREM ListingComesRight == FilesSpec => []ListingIsCurrent
<1>1. Remembered => ListingIsCurrent
  <2>1. \A q \in Requests : Free(q) => ~ Pays(request[q], currentPath)
    BY DEF Free, NoRequest, Pays
  <2> QED BY <2>1 DEF Remembered, ListingIsCurrent
<1>2. FilesInv => request \in [Requests -> RequestRecs]
  BY DEF FilesInv
<1> QED BY <1>1, <1>2, FilesInitInv, FilesStepInv, FilesInitListing, FilesStepListing, PTL
        DEF FilesSpec, ListingInv
=============================================================================
