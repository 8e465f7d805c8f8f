------------------------------ MODULE EntryPage ------------------------------
(***************************************************************************)
(* The workspace entry page of the web client (WorkspaceEntry.tsx): it asks  *)
(* the API for the workspace's entry until it is ready, opens it in a new    *)
(* tab, or gives up after 180 seconds.                                      *)
(*                                                                         *)
(* Each start of polling - a visit of the page, or a click on refresh -      *)
(* begins a chain: request, answer, timer, request, ...  A visit has one     *)
(* start time and remembers one timer, the last that was set.  A chain whose *)
(* request is under way cannot be stopped: it outlives a visit that ends.    *)
(***************************************************************************)
EXTENDS Naturals, FiniteSets

CONSTANTS
  Chains,       \* chains alive at once (a bound)
  NoChain,      \* pollingRef.current is null
  MaxStarts,    \* visits and refreshes in a behaviour (a bound)
  Deadline      \* MAX_POLL_MS, in ticks of the clock

ASSUME FiniteChains == IsFiniteSet(Chains) /\ NoChain \notin Chains
ASSUME SomeStarts == MaxStarts \in Nat
ASSUME SomeTime == Deadline \in Nat \ {0}

VARIABLES
  visit,        \* visits so far
  here,         \* the page is mounted
  entry,        \* pageState of the visit
  age,          \* per visit: time since startTimeRef, up to Deadline
  latest,       \* per visit: the chain pollingRef's timer belongs to
  chain,        \* chains
  starts,       \* history: starts of polling
  tabs,         \* history: tabs opened
  loose         \* history: visits left, or refreshed, with a request under way

entryVars == <<visit, here, entry, age, latest, chain, starts, tabs, loose>>

Visits == 1 .. MaxStarts
Waiting == {"loadingEntry", "runtimeNotReady"}
GivenUp == {"timedOut", "entryFailed"}
Done == {"readyToRedirect", "noWorkspace", "runtimeMissing"}

Idle == [at |-> "idle", of |-> 0]
Live(c) == chain[c].at # "idle"
LiveChains == {c \in Chains : Live(c)}
Asking(v) == {c \in Chains : chain[c] = [at |-> "asked", of |-> v]}

ChainRecs == [at : {"idle", "asked", "timer"}, of : 0 .. MaxStarts]

EntryTypeOK ==
  /\ visit \in 0 .. MaxStarts /\ here \in BOOLEAN
  /\ entry \in Waiting \cup GivenUp \cup Done
  /\ age \in [Visits -> 0 .. Deadline]
  /\ latest \in [Visits -> Chains \cup {NoChain}]
  /\ chain \in [Chains -> ChainRecs]
  /\ starts \in 0 .. MaxStarts /\ tabs \in Nat
  /\ loose \subseteq Visits

EntryInit ==
  /\ visit = 0 /\ here = FALSE /\ entry = "loadingEntry"
  /\ age = [v \in Visits |-> 0]
  /\ latest = [v \in Visits |-> NoChain]
  /\ chain = [c \in Chains |-> Idle]
  /\ starts = 0 /\ tabs = 0 /\ loose = {}

-----------------------------------------------------------------------------
(* Mutant: the timer is forgotten, not cleared. *)
StopPolling_NotCleared(v) == chain

(* stopPolling: clears the timer pollingRef names, if it is still set.        *)
StopPolling(v) ==
  [c \in Chains |-> IF c = latest[v] /\ chain[c] = [at |-> "timer", of |-> v]
                    THEN Idle ELSE chain[c]]

(* startPolling up to the first request of its chain.                        *)
StartPolling(v) ==
  /\ starts < MaxStarts
  /\ starts' = starts + 1
  /\ age' = [age EXCEPT ![v] = 0]
  /\ latest' = [latest EXCEPT ![v] = NoChain]
  /\ \E c \in Chains :
       /\ StopPolling(v)[c] = Idle
       /\ chain' = [StopPolling(v) EXCEPT ![c] = [at |-> "asked", of |-> v]]

Enter ==
  /\ ~ here /\ visit < MaxStarts
  /\ visit' = visit + 1
  /\ here' = TRUE /\ entry' = "loadingEntry"
  /\ StartPolling(visit')
  /\ UNCHANGED <<tabs, loose>>

(* handleManualRefresh: the buttons of "timed out" and "entry failed".  The    *)
(* page state stays until an answer, so the button can be clicked again.      *)
ManualRefresh ==
  /\ here /\ entry \in GivenUp
  /\ StartPolling(visit)
  /\ loose' = IF Asking(visit) = {} THEN loose ELSE loose \cup {visit}
  /\ UNCHANGED <<visit, here, entry, tabs>>

(* The page is left: its effect's cleanup stops polling.                      *)
Unmount ==
  /\ here' = FALSE /\ entry' = "loadingEntry"
  /\ latest' = [latest EXCEPT ![visit] = NoChain]
  /\ loose' = IF Asking(visit) = {} THEN loose ELSE loose \cup {visit}

Leave ==
  /\ here /\ Unmount
  /\ chain' = StopPolling(visit)
  /\ UNCHANGED <<visit, age, starts, tabs>>

-----------------------------------------------------------------------------
(* setPageState by a chain of visit v: without effect once it is unmounted.    *)
SetPageState(v, s) == entry' = IF here /\ v = visit THEN s ELSE entry

End(c) == chain' = [chain EXCEPT ![c] = Idle]

(* Mutant: the deadline ends the chain and leaves the page as it is. *)
TimerFires_Silent(c) ==
  /\ chain[c].at = "timer"
  /\ IF age[chain[c].of] >= Deadline
       THEN End(c) /\ UNCHANGED entry
       ELSE chain' = [chain EXCEPT ![c].at = "asked"] /\ UNCHANGED entry
  /\ UNCHANGED <<visit, here, age, latest, starts, tabs, loose>>

(* Mutant: no deadline. *)
TimerFires_NoDeadline(c) ==
  /\ chain[c].at = "timer"
  /\ chain' = [chain EXCEPT ![c].at = "asked"]
  /\ UNCHANGED <<visit, here, entry, age, latest, starts, tabs, loose>>

(* tick: past the deadline the page gives up, else it asks once more.         *)
TimerFires(c) ==
  /\ chain[c].at = "timer"
  /\ IF age[chain[c].of] >= Deadline
       THEN End(c) /\ SetPageState(chain[c].of, "timedOut")
       ELSE chain' = [chain EXCEPT ![c].at = "asked"] /\ UNCHANGED entry
  /\ UNCHANGED <<visit, here, age, latest, starts, tabs, loose>>

(* Mutant: polling goes on when the entry is ready. *)
EntryReady_GoesOn(c) ==
  /\ chain[c].at = "asked"
  /\ tabs' = tabs + 1
  /\ SetPageState(chain[c].of, "readyToRedirect")
  /\ chain' = [chain EXCEPT ![c].at = "timer"]
  /\ latest' = [latest EXCEPT ![chain[c].of] = c]
  /\ UNCHANGED <<visit, here, age, starts, loose>>

(* loadEntry, by answer: ready,                                              *)
EntryReady(c) ==
  /\ chain[c].at = "asked"
  /\ tabs' = tabs + 1
  /\ SetPageState(chain[c].of, "readyToRedirect")
  /\ End(c)
  /\ UNCHANGED <<visit, here, age, latest, starts, loose>>

(* not yet ready: the next timer is set,                                     *)
EntryNotReady(c) ==
  /\ chain[c].at = "asked"
  /\ SetPageState(chain[c].of, "runtimeNotReady")
  /\ chain' = [chain EXCEPT ![c].at = "timer"]
  /\ latest' = [latest EXCEPT ![chain[c].of] = c]
  /\ UNCHANGED <<visit, here, age, starts, tabs, loose>>

(* no workspace, no runtime, or an error,                                    *)
EntryStops(c) ==
  /\ chain[c].at = "asked"
  /\ \E s \in {"noWorkspace", "runtimeMissing", "entryFailed"} : SetPageState(chain[c].of, s)
  /\ End(c)
  /\ UNCHANGED <<visit, here, age, latest, starts, tabs, loose>>

(* USER_DISABLED: the chain navigates, from whatever page is shown by then.    *)
EntryDisabled(c) ==
  /\ chain[c].at = "asked"
  /\ IF here
       THEN /\ here' = FALSE /\ entry' = "loadingEntry"
            /\ latest' = [latest EXCEPT ![visit] = NoChain]
            /\ loose' = IF Asking(visit) \ {c} = {} THEN loose ELSE loose \cup {visit}
            /\ chain' = [StopPolling(visit) EXCEPT ![c] = Idle]
       ELSE End(c) /\ UNCHANGED <<here, entry, latest, loose>>
  /\ UNCHANGED <<visit, age, starts, tabs>>

(* Time passes for the visits whose chains are alive.                         *)
TimePasses ==
  /\ \E c \in LiveChains : age[chain[c].of] < Deadline
  /\ age' = [v \in Visits |-> IF age[v] < Deadline /\ \E c \in LiveChains : chain[c].of = v
                              THEN age[v] + 1 ELSE age[v]]
  /\ UNCHANGED <<visit, here, entry, latest, chain, starts, tabs, loose>>

ChainStep(c) ==
  TimerFires(c) \/ EntryReady(c) \/ EntryNotReady(c) \/ EntryStops(c) \/ EntryDisabled(c)

EntryNext ==
  Enter \/ ManualRefresh \/ Leave \/ TimePasses \/ \E c \in Chains : ChainStep(c)

(* The API answers, timers fire and time passes.                             *)
EntryFairness == WF_entryVars(TimePasses) /\ \A c \in Chains : WF_entryVars(ChainStep(c))

EntrySpec == EntryInit /\ [][EntryNext]_entryVars

-----------------------------------------------------------------------------
(* One tab per start: visits, refreshes and chains that outlive their page     *)
(* never open more tabs than the person began waits, and a chain still alive   *)
(* stands for a tab not yet opened (WorkspaceEntry.tsx:107).                  *)
OneTabPerStart == tabs + Cardinality(LiveChains) <= starts

(* Nobody is left waiting: while the page says that the workspace is being      *)
(* prepared, a chain of this visit is alive to find out when it is.           *)
NobodyLeftWaiting ==
  here /\ entry \in Waiting => \E c \in LiveChains : chain[c].of = visit

(* "You can safely leave this page" (WorkspaceEntry.tsx:264): a visit left         *)
(* while its timer ran, and never refreshed in the middle of a request, leaves   *)
(* no chain behind to open a tab or to navigate.                              *)
LeavingStopsPolling ==
  \A c \in LiveChains : (here /\ chain[c].of = visit) \/ chain[c].of \in loose

(* Polling ends, also that of visits left long ago.                           *)
PollingEnds == <>[](LiveChains = {})
=============================================================================
