--------------------------- MODULE RuntimeManager ---------------------------
(***************************************************************************)
(* The runtime-manager service: RuntimeExecutor acting on the Docker        *)
(* containers of ONE runtimeId (every Docker listing it makes is filtered   *)
(* by the runtimeId label, so runtimes do not touch each other).            *)
(*                                                                         *)
(* The HTTP handlers are plain functions served by a thread pool, so two    *)
(* requests for the same runtime interleave at every Docker call; there is  *)
(* no lock.  A job is one request; each action below is one Docker call (or *)
(* one file-system call) of its handler together with the code up to the    *)
(* next one.                                                               *)
(***************************************************************************)
EXTENDS Naturals, FiniteSets

CONSTANTS
  Containers,   \* container ids Docker may hand out
  Jobs,         \* request threads of the service
  None,         \* "no container"
  Faults,       \* which failures of the environment may happen
  DriftTo       \* statuses a running container may fall into by itself

(* docker: a Docker API call raises;  host: a file-system call raises;      *)
(* unready: the gateway does not answer within the grace period;            *)
(* dies: the process exits right after start;  rm_crash: the service dies;  *)
(* the other four are failures of the API side (module RuntimeService).     *)
FaultKinds == {"docker", "host", "unready", "dies", "rm_crash",
               "timeout", "api_crash", "rm_down", "db"}

ContainerStatus == {"created", "running", "exited", "paused", "restarting", "dead"}
ObservedState   == {"creating", "running", "stopped", "error", "deleted"}

ASSUME NoneAssumption  == None \notin Containers
ASSUME FaultAssumption == Faults \subseteq FaultKinds
ASSUME FiniteAssumption == IsFiniteSet(Containers) /\ IsFiniteSet(Jobs)
ASSUME DriftAssumption == DriftTo \subseteq ContainerStatus \ {"created", "running"}

VARIABLES
  containers,   \* [Containers -> status or "absent"]: Docker's own state
  attached,     \* the containers connected to the runtime network
  config,       \* openclaw.json is in the runtime's config directory
  job           \* [Jobs -> the request a thread is serving]

rmVars == <<containers, attached, config, job>>

-----------------------------------------------------------------------------
Managed == {c \in Containers : containers[c] # "absent"}

(* RuntimeExecutor.get_state: status_map *)
ObservedOf(s) ==
  CASE s = "running"                   -> "running"
    [] s = "exited"                    -> "stopped"
    [] s \in {"created", "restarting"} -> "creating"
    [] OTHER                           -> "error"

Reply(obs, url) == [ok |-> TRUE, observed |-> obs, url |-> url]
Failure == [ok |-> FALSE, observed |-> "error", url |-> FALSE]
Replies == [ok : BOOLEAN, observed : ObservedState, url : BOOLEAN]

Ops   == {"ensure", "stop", "delete", "get"}
Steps == {"begin", "list", "inspect", "boot", "discard", "create", "connect",
          "first_boot", "cleanup", "ready", "report", "act", "wipe", "replied"}

NoJob == [op |-> "none", at |-> "idle", on |-> None, seen |-> "absent",
          wipe |-> FALSE, reply |-> Failure]
JobRecord == [op : Ops \cup {"none"}, at : Steps \cup {"idle"},
              on : Containers \cup {None}, seen : ContainerStatus \cup {"absent"},
              wipe : BOOLEAN, reply : Replies]

(* The steps that act on the container the job holds *)
Acting == {"inspect", "boot", "discard", "connect", "first_boot", "cleanup",
           "ready", "report", "act"}

RMTypeOK ==
  /\ containers \in [Containers -> ContainerStatus \cup {"absent"}]
  /\ attached \subseteq Containers
  /\ config \in BOOLEAN
  /\ job \in [Jobs -> JobRecord]
  /\ \A j \in Jobs : job[j].at \in Acting => job[j].on \in Containers

RMInit ==
  /\ containers = [c \in Containers |-> "absent"]
  /\ attached = {}
  /\ config = FALSE
  /\ job = [j \in Jobs |-> NoJob]

-----------------------------------------------------------------------------
(* Moves of a job *)
At(j, op, step) == job[j].op = op /\ job[j].at = step

Advance(j, step, c, s) ==
  job' = [job EXCEPT ![j] = [@ EXCEPT !.at = step, !.on = c, !.seen = s]]
Goto(j, step) == Advance(j, step, job[j].on, "absent")
Answer(j, r) ==
  job' = [job EXCEPT ![j] = [@ EXCEPT !.at = "replied", !.on = None,
                                      !.seen = "absent", !.reply = r]]

Put(c, s) == containers' = [containers EXCEPT ![c] = s]
Remove(c) == Put(c, "absent") /\ attached' = attached \ {c}
HostUnchanged == UNCHANGED <<containers, attached, config>>
Gone(j) == containers[job[j].on] = "absent"

(* A Docker call on the job's container raises: NotFound, an APIError, or     *)
(* the refusal to start a container that has been paused or died meanwhile.   *)
Refused(j) ==
  /\ job[j].at \in {"boot", "first_boot"}
  /\ containers[job[j].on] \in {"paused", "restarting", "dead"}

Raises(j, op, step) ==
  /\ At(j, op, step)
  /\ Gone(j) \/ Refused(j) \/ "docker" \in Faults
  /\ Answer(j, Failure)
  /\ HostUnchanged

(* The HTTP layer hands a request to a free thread. *)
FirstStep(op) == IF op = "ensure" THEN "begin" ELSE "list"

Submit(j, op, wipe) ==
  /\ job[j].at = "idle"
  /\ job' = [job EXCEPT ![j] = [NoJob EXCEPT !.op = op, !.at = FirstStep(op),
                                             !.wipe = wipe]]
Release(j) == job' = [job EXCEPT ![j] = NoJob]

-----------------------------------------------------------------------------
(* ensure_running *)

(* prepare_runtime_dirs and write_openclaw_config *)
EnsurePrepare(j) ==
  /\ At(j, "ensure", "begin")
  /\ \/ config' = TRUE /\ Goto(j, "list")
     \/ "host" \in Faults /\ UNCHANGED config /\ Answer(j, Failure)
  /\ UNCHANGED <<containers, attached>>

(* Mutant: stopped containers are not listed (no all=True). *)
EnsureList_RunningOnly(j) ==
  /\ At(j, "ensure", "list")
  /\ \/ (\A c \in Managed : containers[c] # "running") /\ Goto(j, "create")
     \/ \E c \in Managed : /\ containers[c] = "running"
                           /\ Advance(j, "inspect", c, "absent")
  /\ HostUnchanged

(* _list_managed; existing_containers[0] when there is one *)
EnsureList(j) ==
  /\ At(j, "ensure", "list")
  /\ \/ Managed = {} /\ Goto(j, "create")
     \/ \E c \in Managed : Advance(j, "inspect", c, "absent")
  /\ HostUnchanged

(* container.reload() and the choice on its status *)
EnsureInspect(j) ==
  LET s == containers[job[j].on] IN
  /\ At(j, "ensure", "inspect")
  /\ ~ Gone(j)
  /\ \/ s \in {"exited", "created"} /\ Goto(j, "boot")
     \/ s = "running" /\ Goto(j, "ready")
     \/ s \notin {"exited", "created", "running"} /\ Goto(j, "discard")
  /\ HostUnchanged

(* container.start() of an existing container, reload, status check; one     *)
(* that is not running afterwards is left as it is.  Starting a container     *)
(* that already runs does nothing.                                           *)
EnsureBoot(j) ==
  LET c == job[j].on IN
  /\ At(j, "ensure", "boot")
  /\ containers[c] \in {"created", "exited", "running"}
  /\ \/ Put(c, "running") /\ Goto(j, "ready")
     \/ /\ "dies" \in Faults /\ containers[c] # "running"
        /\ Put(c, "exited") /\ Answer(j, Failure)
  /\ UNCHANGED <<attached, config>>

(* Mutant: a refused removal is ignored and a new container created. *)
EnsureDiscard_Ignored(j) ==
  /\ At(j, "ensure", "discard")
  /\ Advance(j, "create", None, "absent")
  /\ HostUnchanged

(* container.remove(force=True) of a container in an unexpected state *)
EnsureDiscard(j) ==
  /\ At(j, "ensure", "discard")
  /\ ~ Gone(j)
  /\ Remove(job[j].on)
  /\ Advance(j, "create", None, "absent")
  /\ UNCHANGED config

(* Docker never reuses an id: a new container gets one that neither exists    *)
(* nor is still held by a request.                                           *)
FreshIds == Containers \ (Managed \cup {job[j].on : j \in Jobs})

(* images.pull and containers.create *)
EnsureCreate(j) ==
  /\ At(j, "ensure", "create")
  /\ \/ \E c \in FreshIds :
          Put(c, "created") /\ Advance(j, "connect", c, "absent")
     \/ "docker" \in Faults /\ UNCHANGED containers /\ Answer(j, Failure)
  /\ UNCHANGED <<attached, config>>

(* networks.get(...).connect(container) *)
EnsureConnect(j) ==
  /\ At(j, "ensure", "connect")
  /\ ~ Gone(j)
  /\ attached' = attached \cup {job[j].on}
  /\ Goto(j, "first_boot")
  /\ UNCHANGED <<containers, config>>

(* container.start() of the new container, reload, status check *)
EnsureFirstBoot(j) ==
  LET c == job[j].on IN
  /\ At(j, "ensure", "first_boot")
  /\ containers[c] \in {"created", "exited", "running"}
  /\ \/ Put(c, "running") /\ Goto(j, "ready")
     \/ /\ "dies" \in Faults /\ containers[c] # "running"
        /\ Put(c, "exited") /\ Goto(j, "cleanup")
  /\ UNCHANGED <<attached, config>>

(* A new container that is not running after its start is removed; the job    *)
(* fails whether or not the removal succeeds.                                *)
EnsureCleanup(j) ==
  /\ At(j, "ensure", "cleanup")
  /\ ~ Gone(j)
  /\ Remove(job[j].on)
  /\ Answer(j, Failure)
  /\ UNCHANGED config

(* Mutant: the address on the network is not required. *)
EnsureReady_AnyNetwork(j) ==
  LET up == containers[job[j].on] = "running" IN
  /\ At(j, "ensure", "ready")
  /\ \/ up /\ Goto(j, "report")
     \/ (~ up \/ "unready" \in Faults) /\ Answer(j, Failure)
  /\ HostUnchanged

(* container_ip and _wait_ready: without an address on the network, or       *)
(* without enough consecutive connections before the deadline, the job fails *)
(* and leaves the container as it is.                                        *)
EnsureReady(j) ==
  LET up == job[j].on \in attached /\ containers[job[j].on] = "running" IN
  /\ At(j, "ensure", "ready")
  /\ \/ up /\ Goto(j, "report")
     \/ (~ up \/ "unready" \in Faults) /\ Answer(j, Failure)
  /\ HostUnchanged

(* _browser_url_from_container and the answer, which says "running" whatever *)
(* the container has become; a port is published only while it runs.        *)
EnsureReport(j) ==
  /\ At(j, "ensure", "report")
  /\ ~ Gone(j)
  /\ Answer(j, Reply("running", containers[job[j].on] = "running"))
  /\ HostUnchanged

EnsureRaises(j) ==
  \E step \in {"inspect", "boot", "discard", "connect", "first_boot", "cleanup", "ready",
               "report"} :
    Raises(j, "ensure", step)

Ensure(j) ==
  \/ EnsurePrepare(j) \/ EnsureList(j) \/ EnsureInspect(j)
  \/ EnsureBoot(j) \/ EnsureDiscard(j) \/ EnsureCreate(j) \/ EnsureConnect(j)
  \/ EnsureFirstBoot(j) \/ EnsureCleanup(j)
  \/ EnsureReady(j) \/ EnsureReport(j) \/ EnsureRaises(j)

-----------------------------------------------------------------------------
(* _get_single_container, shared by stop, delete and get_state: more than    *)
(* one managed container is RUNTIME_ACTION_CONFLICT.                         *)
Ambiguous == \E c, d \in Managed : c # d

LookupConflict(j) ==
  /\ job[j].op \in {"stop", "delete", "get"}
  /\ job[j].at = "list"
  /\ Ambiguous
  /\ Answer(j, Failure)
  /\ HostUnchanged

(* _list_managed raises, in any of the four handlers. *)
ListRaises(j) ==
  /\ job[j].at = "list" /\ "docker" \in Faults
  /\ Answer(j, Failure)
  /\ HostUnchanged

(* stop: the status that decides is the one of the listing *)
StopLookup(j) ==
  /\ At(j, "stop", "list")
  /\ ~ Ambiguous
  /\ \/ /\ \A c \in Managed : containers[c] \in {"exited", "created"}
        /\ Answer(j, Reply("stopped", FALSE))
     \/ \E c \in Managed : /\ containers[c] \notin {"exited", "created"}
                           /\ Advance(j, "act", c, containers[c])
  /\ HostUnchanged

StopAct(j) ==
  /\ At(j, "stop", "act")
  /\ ~ Gone(j)
  /\ Put(job[j].on, "exited")
  /\ Answer(j, Reply("stopped", FALSE))
  /\ UNCHANGED <<attached, config>>

(* delete: remove the container, then the directories under wipe_workspace *)
DeleteLookup(j) ==
  /\ At(j, "delete", "list")
  /\ ~ Ambiguous
  /\ \/ Managed = {} /\ Advance(j, "wipe", None, "absent")
     \/ \E c \in Managed : Advance(j, "act", c, "absent")
  /\ HostUnchanged

DeleteAct(j) ==
  /\ At(j, "delete", "act")
  /\ ~ Gone(j)
  /\ Remove(job[j].on)
  /\ Advance(j, "wipe", None, "absent")
  /\ UNCHANGED config

(* Mutant: a directory that cannot be removed is ignored. *)
DeleteWipe_IgnoresErrors(j) ==
  /\ At(j, "delete", "wipe")
  /\ \/ ~ job[j].wipe /\ UNCHANGED config
     \/ job[j].wipe /\ config' = FALSE
     \/ job[j].wipe /\ "host" \in Faults /\ config' \in {config, FALSE}
  /\ Answer(j, Reply("deleted", FALSE))
  /\ UNCHANGED <<containers, attached>>

DeleteWipe(j) ==
  /\ At(j, "delete", "wipe")
  /\ \/ ~ job[j].wipe /\ UNCHANGED config /\ Answer(j, Reply("deleted", FALSE))
     \/ job[j].wipe /\ config' = FALSE /\ Answer(j, Reply("deleted", FALSE))
     \/ /\ job[j].wipe /\ "host" \in Faults
        /\ config' \in {config, FALSE}
        /\ Answer(j, Failure)
  /\ UNCHANGED <<containers, attached>>

(* get_state: the status is the one of the listing, the port the one of a    *)
(* second inspection.                                                       *)
GetLookup(j) ==
  /\ At(j, "get", "list")
  /\ ~ Ambiguous
  /\ \/ Managed = {} /\ Answer(j, Reply("deleted", FALSE))
     \/ \E c \in Managed : Advance(j, "act", c, containers[c])
  /\ HostUnchanged

GetReport(j) ==
  /\ At(j, "get", "act")
  /\ ~ Gone(j)
  /\ Answer(j, Reply(ObservedOf(job[j].seen), containers[job[j].on] = "running"))
  /\ HostUnchanged

(* Mutant: an error of the Docker stop counts as "already stopped". *)
CallRaises_StopIgnored(j) ==
  /\ \E op \in {"stop", "delete", "get"} : At(j, op, "act")
  /\ Gone(j) \/ "docker" \in Faults
  /\ Answer(j, IF job[j].op = "stop" THEN Reply("stopped", FALSE) ELSE Failure)
  /\ HostUnchanged

CallRaises(j) == \E op \in {"stop", "delete", "get"} : Raises(j, op, "act")

Step(j) ==
  \/ Ensure(j) \/ ListRaises(j) \/ LookupConflict(j) \/ StopLookup(j) \/ StopAct(j)
  \/ DeleteLookup(j) \/ DeleteAct(j) \/ DeleteWipe(j)
  \/ GetLookup(j) \/ GetReport(j) \/ CallRaises(j)

-----------------------------------------------------------------------------
(* A running container leaves that state by itself: the process ends, an     *)
(* operator pauses it, the daemon restarts it.                              *)
Drift ==
  /\ \E c \in Containers, s \in DriftTo : containers[c] = "running" /\ Put(c, s)
  /\ UNCHANGED <<attached, config, job>>

(* The service restarts: its threads are gone, their callers see a broken    *)
(* connection, Docker keeps every container as it is.                        *)
RMCrash ==
  /\ "rm_crash" \in Faults
  /\ \E j \in Jobs : job[j].at \notin {"idle", "replied"}
  /\ job' = [j \in Jobs |->
               IF job[j].at \in {"idle", "replied"} THEN job[j]
               ELSE [job[j] EXCEPT !.at = "replied", !.on = None,
                                   !.seen = "absent", !.reply = Failure]]
  /\ HostUnchanged

(* The service under any client: requests arrive in any order, as many at    *)
(* once as there are threads, and are forgotten once answered.               *)
Call(j) ==
  /\ \E op \in Ops, wipe \in BOOLEAN : (wipe => op = "delete") /\ Submit(j, op, wipe)
  /\ HostUnchanged
Hangup(j) == job[j].at = "replied" /\ Release(j) /\ HostUnchanged

RMNext ==
  \/ \E j \in Jobs : Call(j) \/ Step(j) \/ Hangup(j)
  \/ Drift
  \/ RMCrash

RMSpec == RMInit /\ [][RMNext]_rmVars

(* The service under a client that waits for each answer, as the event loop   *)
(* of clawloops-api does.  A container drifts only while no request is        *)
(* served: the delivery properties speak of what a request finds and leaves,  *)
(* not of what happens between its last Docker call and its answer.           *)
NoneBusy == \A j \in Jobs : job[j].at = "idle"

SerialNext ==
  \/ NoneBusy /\ ((\E j \in Jobs : Call(j)) \/ Drift)
  \/ \E j \in Jobs : Step(j) \/ Hangup(j)
  \/ RMCrash

SerialSpec == RMInit /\ [][SerialNext]_rmVars

-----------------------------------------------------------------------------
(* Jobs that are about to create a container: they saw none, or removed one. *)
Creating == {j \in Jobs : job[j].at = "create"}

(* There are never more containers of one runtime than requests the service  *)
(* serves at once: a job adds one only after it saw none or removed one      *)
(* itself.  It is what is left of "one container per runtime" in a service   *)
(* without a lock.                                                           *)
ContainersBounded ==
  Cardinality(Managed) + Cardinality(Creating) <= Cardinality(Jobs)

Replied(j, op) == At(j, op, "replied") /\ job[j].reply.ok

(* With one request at a time, an ensure_running that answers "running"      *)
(* leaves exactly one container, running, on the network, with its config    *)
(* written, and its answer carries the browser URL.                          *)
EnsureDelivers ==
  \A j \in Jobs : Replied(j, "ensure") =>
    /\ config /\ job[j].reply.url
    /\ \E c \in attached : Managed = {c} /\ containers[c] = "running"

(* With one request at a time, a stop that answers "stopped" leaves no       *)
(* container running, whatever was there before it.                          *)
StopDelivers ==
  \A j \in Jobs : Replied(j, "stop") => \A c \in Containers : containers[c] # "running"

(* With one request at a time, a delete that answers "deleted" leaves no     *)
(* container and, under wipe_workspace, no config directory.                 *)
DeleteDelivers ==
  \A j \in Jobs : Replied(j, "delete") => Managed = {} /\ (job[j].wipe => ~ config)
=============================================================================
