---------------------------- MODULE DebugCollector ----------------------------
(***************************************************************************)
(* The debug collector of the web client: a script in every page of a        *)
(* development server (debug-collector.js) that gathers console logs, network*)
(* requests and UI events in three bounded buffers and reports them every 2  *)
(* seconds, and the server's side of it, a plugin that appends them to three *)
(* log files of bounded size (vite.config.ts).                             *)
(*                                                                         *)
(* Reports are not waited for: a slow one is overtaken by the next.  A report *)
(* that fails puts its entries back.                                        *)
(*                                                                         *)
(* Entries are numbered in the order they are logged; all have size one.     *)
(***************************************************************************)
EXTENDS Naturals, Sequences, FiniteSets

CONSTANTS
  Limit,        \* bufferSize, by kind
  FileLimit,    \* MAX_LOG_SIZE_BYTES
  MaxFile,      \* what a file that cannot be trimmed grows to (a bound)
  TrimTarget,   \* TRIM_TARGET_BYTES
  BeaconLimit,  \* MAX_BEACON_SIZE
  BeaconKeeps,  \* entries of each kind that a truncated beacon keeps
  Reports,      \* reports under way at once (a bound)
  MaxEntries    \* entries logged in a behaviour (a bound)

Buffers == {"console", "network", "ui"}

ASSUME LimitsAreSizes == Limit \in [Buffers -> Nat \ {0}]
ASSUME TrimTrims == FileLimit \in Nat /\ TrimTarget \in 0 .. FileLimit
ASSUME BeaconSizes == BeaconLimit \in Nat /\ BeaconKeeps \in Nat
ASSUME SomeEntries == MaxEntries \in Nat

VARIABLES
  store,        \* the buffers
  bodies,       \* responses whose body is being read in the background
  report,       \* reports under way
  file,         \* the log files
  logged,       \* history: entries logged, by kind
  written,      \* history: entries written to a file
  counted,      \* history: entries logged so far
  untrimmed,    \* history: log files whose last trim failed
  spoiled,      \* history: a report was refused or not sent, or a page was left
  doubled       \* history: an answer was lost, or a beacon sent and the page not left

collectorVars == <<store, bodies, report, file, logged, written, counted, untrimmed,
                   spoiled, doubled>>

Entries == 1 .. MaxEntries
NoEntries == [k \in Buffers |-> << >>]
NoReport == [at |-> "idle", carries |-> NoEntries]
Members(s) == {s[i] : i \in DOMAIN s}

CollectorTypeOK ==
  /\ store \in [Buffers -> Seq(Entries)]
  /\ bodies \in Nat
  /\ report \in [Reports -> [at : {"idle", "sent", "kept", "refused"}, carries : [Buffers -> Seq(Entries)]]]
  /\ file \in [Buffers -> Seq(Entries)]
  /\ logged \in [Buffers -> SUBSET Entries] /\ written \subseteq Entries
  /\ counted \in 0 .. MaxEntries /\ untrimmed \subseteq Buffers
  /\ spoiled \in BOOLEAN /\ doubled \in BOOLEAN

CollectorInit ==
  /\ store = NoEntries /\ bodies = 0
  /\ report = [r \in Reports |-> NoReport]
  /\ file = NoEntries
  /\ logged = [k \in Buffers |-> {}] /\ written = {} /\ counted = 0 /\ untrimmed = {}
  /\ spoiled = FALSE /\ doubled = FALSE

-----------------------------------------------------------------------------
(* pruneBuffer: the oldest entries go.                                        *)
PruneBuffer(s, n) == IF Len(s) > n THEN SubSeq(s, Len(s) - n + 1, Len(s)) ELSE s

(* An entry is pushed to each buffer of ks.                                   *)
Push(ks) ==
  /\ counted < MaxEntries
  /\ counted' = counted + 1
  /\ store' = [k \in Buffers |-> IF k \in ks THEN PruneBuffer(Append(store[k], counted'), Limit[k])
                                           ELSE store[k]]
  /\ logged' = [k \in Buffers |-> IF k \in ks THEN logged[k] \cup {counted'} ELSE logged[k]]

Logs(ks) == Push(ks) /\ UNCHANGED <<bodies, report, file, written, untrimmed, spoiled, doubled>>

(* The wrapped console methods.                                               *)
ConsoleCall == Logs({"console"})

(* "error" and "unhandledrejection".                                          *)
UncaughtError == Logs({"console", "ui"})

(* Clicks, changes, focus, keys, submits, throttled scrolls, navigation.       *)
UiEvent == Logs({"ui"})

(* The wrapped fetch: an error status logs a UI event; the body of a text      *)
(* response is read in the background, and the request is logged after it.     *)
FetchAnswered ==
  /\ bodies < 1 /\ bodies' = bodies + 1        \* one at a time is a bound
  /\ \/ UNCHANGED <<store, logged, counted>>
     \/ Push({"ui"})
  /\ UNCHANGED <<report, file, written, untrimmed, spoiled, doubled>>

BodyRead ==
  /\ bodies > 0 /\ bodies' = bodies - 1
  /\ Push({"network"})
  /\ UNCHANGED <<report, file, written, untrimmed, spoiled, doubled>>

(* A fetch that fails or whose body is not read, and the listeners of           *)
(* XMLHttpRequest, which read it at once.                                     *)
XhrDone == Logs({"network"}) \/ Logs({"network", "ui"})

-----------------------------------------------------------------------------
NothingNew == store = NoEntries

(* Mutant: the buffers are copied, not emptied. *)
ReportLogs_Copies(r) ==
  /\ ~ NothingNew
  /\ report[r] = NoReport
  /\ report' = [report EXCEPT ![r] = [at |-> "sent", carries |-> store]]
  /\ UNCHANGED <<store, bodies, file, logged, written, counted, untrimmed, spoiled, doubled>>

(* reportLogs, by its timer, up to the request.                               *)
ReportLogs(r) ==
  /\ ~ NothingNew
  /\ report[r] = NoReport
  /\ report' = [report EXCEPT ![r] = [at |-> "sent", carries |-> store]]
  /\ store' = NoEntries
  /\ UNCHANGED <<bodies, file, logged, written, counted, untrimmed, spoiled, doubled>>

(* What was logged cannot be turned into JSON (a BigInt, which sanitizeValue lets *)
(* through): the splice has happened, the request has not, and nothing is put     *)
(* back.                                                                    *)
ReportThrows ==
  /\ ~ NothingNew
  /\ store' = NoEntries
  /\ spoiled' = TRUE
  /\ UNCHANGED <<bodies, report, file, logged, written, counted, untrimmed, doubled>>

(* trimLogFile, when it succeeds: the newest entries within the target.         *)
TrimLogFile(s) == IF Len(s) <= FileLimit THEN s ELSE PruneBuffer(s, TrimTarget)

TooLong(p) == {k \in Buffers : p[k] # << >> /\ Len(file[k] \o p[k]) \in FileLimit + 1 .. MaxFile}

(* writeToLogFile for each kind of entry a payload has.  Trimming may fail, which *)
(* is caught and ignored: the file stays as long as it got.                     *)
WriteToLogFile(p) ==
  /\ \E fails \in SUBSET TooLong(p) :
       /\ file' = [k \in Buffers |-> IF p[k] = << >> \/ k \in fails THEN file[k] \o p[k]
                                     ELSE TrimLogFile(file[k] \o p[k])]
       /\ untrimmed' = {k \in untrimmed : p[k] = << >>} \cup fails
  /\ written' = written \cup UNION {Members(p[k]) : k \in Buffers}

(* handlePayload, for a report, kind by kind: all is written; or a file cannot   *)
(* be, nor any after it, and the answer is 400.                               *)
ServeReport(r) ==
  /\ report[r].at = "sent"
  /\ \/ /\ WriteToLogFile(report[r].carries)
        /\ report' = [report EXCEPT ![r].at = "kept"]
     \/ /\ \E ks \in {{}, {"console"}, {"console", "network"}} :
             WriteToLogFile([k \in Buffers |-> IF k \in ks THEN report[r].carries[k] ELSE << >>])
        /\ report' = [report EXCEPT ![r].at = "refused"]
  /\ UNCHANGED <<store, bodies, logged, counted, spoiled, doubled>>

(* Any answer ends the report, a refusal as well: its entries are gone.         *)
ReportAnswered(r) ==
  /\ report[r].at \in {"kept", "refused"}
  /\ report' = [report EXCEPT ![r] = NoReport]
  /\ spoiled' = (spoiled \/ report[r].at = "refused")
  /\ UNCHANGED <<store, bodies, file, logged, written, counted, untrimmed, doubled>>

PutBack(r) == [k \in Buffers |-> report[r].carries[k] \o store[k]]

(* Mutant: the limits are not respected. *)
ReportFails_NoPrune(r) ==
  /\ report[r].at # "idle"
  /\ report' = [report EXCEPT ![r] = NoReport]
  /\ doubled' = (doubled \/ report[r].at # "sent")
  /\ store' = PutBack(r)
  /\ UNCHANGED <<bodies, file, logged, written, counted, untrimmed, spoiled>>

(* Mutant: what was logged meanwhile is overwritten. *)
ReportFails_Overwrites(r) ==
  /\ report[r].at # "idle"
  /\ report' = [report EXCEPT ![r] = NoReport]
  /\ doubled' = (doubled \/ report[r].at # "sent")
  /\ store' = report[r].carries
  /\ UNCHANGED <<bodies, file, logged, written, counted, untrimmed, spoiled>>

(* catch: "put data back on failure (but respect limits)", also when only the   *)
(* answer was lost.                                                          *)
ReportFails(r) ==
  /\ report[r].at # "idle"
  /\ report' = [report EXCEPT ![r] = NoReport]
  /\ doubled' = (doubled \/ report[r].at # "sent")
  /\ store' = [k \in Buffers |-> PruneBuffer(PutBack(r)[k], Limit[k])]
  /\ UNCHANGED <<bodies, file, logged, written, counted, untrimmed, spoiled>>

(* beforeunload: a beacon with what the buffers hold, cut down when it is too   *)
(* large.                                                                   *)
Beacon ==
  IF Len(store["console"]) + Len(store["network"]) + Len(store["ui"]) > BeaconLimit
    THEN [k \in Buffers |-> PruneBuffer(store[k], BeaconKeeps)]
    ELSE store

(* The page is left, with the reports under way; a beacon arrives before or not.  *)
Leaves ==
  /\ store' = NoEntries /\ bodies' = 0 /\ spoiled' = TRUE
  /\ report' = [r \in Reports |-> NoReport]
  /\ UNCHANGED doubled

(* The person stays, and the buffers are as they were.                          *)
Stays == doubled' = TRUE /\ UNCHANGED <<store, bodies, spoiled, report>>

BeforeUnload ==
  /\ \/ ~ NothingNew /\ WriteToLogFile(Beacon) /\ (Leaves \/ Stays)
     \/ UNCHANGED <<file, written, untrimmed>> /\ Leaves
  /\ UNCHANGED <<logged, counted>>

CollectorNext ==
  \/ ConsoleCall \/ UncaughtError \/ UiEvent \/ FetchAnswered \/ BodyRead \/ XhrDone
  \/ \E r \in Reports :
       ReportLogs(r) \/ ServeReport(r) \/ ReportAnswered(r) \/ ReportFails(r)
  \/ ReportThrows \/ BeforeUnload

CollectorSpec == CollectorInit /\ [][CollectorNext]_collectorVars

-----------------------------------------------------------------------------
(* The buffers stay within their limits, whichever reports fail and in which    *)
(* order, and so does a log file unless its last trim failed.                   *)
BuffersBounded ==
  \A k \in Buffers :
    Len(store[k]) <= Limit[k] /\ (Len(file[k]) > FileLimit => k \in untrimmed)

Under(k) == Members(store[k]) \cup UNION {Members(report[r].carries[k]) : r \in Reports}

(* "Put data back on failure" (debug-collector.js:703): as long as a buffer      *)
(* could hold all that was logged, no entry is lost - it is buffered, under way  *)
(* or written - unless the server refuses a report, one cannot be turned into     *)
(* JSON, or the page is left.                                                *)
EntriesAreKept ==
  \A k \in Buffers : ~ spoiled /\ Cardinality(logged[k]) <= Limit[k]
                     => logged[k] \subseteq Under(k) \cup written

Times(e, s) == Cardinality({i \in DOMAIN s : s[i] = e})

(* No entry is reported twice: it is in one place, unless the answer to a report *)
(* was lost or a beacon sent from a page that is not left.                     *)
OncePerEntry ==
  ~ doubled => \A e \in Entries, k \in Buffers :
    /\ Times(e, store[k]) + Times(e, file[k]) <= 1
    /\ e \in Members(store[k]) => e \notin Members(file[k])
    /\ \A r \in Reports : e \in Members(report[r].carries[k]) =>
         /\ e \notin Members(store[k])
         /\ \A s \in Reports \ {r} : e \notin Members(report[s].carries[k])
         /\ report[r].at = "sent" => e \notin Members(file[k])
=============================================================================
