--------------------------- MODULE RuntimeService ---------------------------
(***************************************************************************)
(* clawloops-api and runtime-manager together, for one user: RuntimeService *)
(* (start, stop, delete), the status and workspace-entry handlers that      *)
(* reconcile the binding with the container, and the administrator who      *)
(* disables and enables the user.                                          *)
(*                                                                         *)
(* Every API handler body is synchronous code on the single event loop, so  *)
(* bodies run one after the other (variable loop); the session and user     *)
(* checks of require_active_user are synchronous dependencies, which FastAPI *)
(* runs in a thread before the body (action Admit).  The HTTP client gives   *)
(* up after 45 s while the runtime-manager thread goes on, and the task      *)
(* repository lives in memory.                                             *)
(***************************************************************************)
EXTENDS RuntimeManager

CONSTANTS
  Clients,      \* requests the user may have under way at once
  TaskIds       \* ids of tasks; one no longer active may be handed out again

ASSUME NoneIsNoTask == None \notin TaskIds
ASSUME NoneIsNoJob  == None \notin Jobs

VARIABLES
  user,         \* the user's status in the database
  binding,      \* the user's row of runtime_bindings
  tasks,        \* InMemoryRuntimeTaskRepository
  loop,         \* the handler body the event loop is executing
  request       \* admitted requests whose body has not run yet

apiVars == <<user, binding, tasks, loop, request>>
vars == <<containers, attached, config, job, user, binding, tasks, loop, request>>

-----------------------------------------------------------------------------
ServiceOps == {"start", "stop", "delete", "wipe"}
Requests   == ServiceOps \cup {"status"}

RMOp(op) == CASE op = "start"  -> "ensure"
              [] op = "stop"   -> "stop"
              [] op = "status" -> "get"
              [] OTHER         -> "delete"

(* RuntimeAction of the task a service operation creates *)
ActionOf(op) == CASE op = "start" -> "ensure_running"
                  [] op = "stop"  -> "stop"
                  [] OTHER        -> "delete"

TargetOf(op) == CASE op = "start" -> "running"
                  [] op = "stop"  -> "stopped"
                  [] OTHER        -> "deleted"

(* Tasks: the statuses the service gives them; it never cancels one, and     *)
(* creation and start are one step of the same body.                         *)
TaskStatus == {"unused", "running", "succeeded", "failed"}
Active == {t \in TaskIds : tasks[t] = "running"}      \* get_active_tasks_for_user

Idle == [at |-> "idle", op |-> "none", task |-> None, on |-> None]

DesiredState == {"running", "stopped", "deleted"}
(* browser_url: absent, a chat URL without and with the gateway token        *)
Urls == {"none", "bare", "token"}

TypeOK ==
  /\ RMTypeOK
  /\ user \in {"active", "disabled"}
  /\ binding \in [bound : BOOLEAN, desired : DesiredState, observed : ObservedState,
                  url : Urls, failed : BOOLEAN]
  /\ tasks \in [TaskIds -> TaskStatus]
  /\ loop \in [at : {"idle", "serve", "call"}, op : Requests \cup {"none"},
               task : TaskIds \cup {None}, on : Jobs \cup {None}]
  /\ request \in [Clients -> Requests \cup {"none"}]

Init ==
  /\ RMInit
  /\ user = "active"
  /\ binding = [bound |-> FALSE, desired |-> "stopped", observed |-> "stopped",
                url |-> "none", failed |-> FALSE]
  /\ tasks = [t \in TaskIds |-> "unused"]
  /\ loop = Idle
  /\ request = [c \in Clients |-> "none"]

-----------------------------------------------------------------------------
(* require_active_user: the check runs in a thread, at any time, and its     *)
(* verdict is what the body later relies on.                                *)
Admit(c, op) ==
  /\ request[c] = "none"
  /\ user = "active"
  /\ request' = [request EXCEPT ![c] = op]
  /\ UNCHANGED <<rmVars, user, binding, tasks, loop>>

(* The body calls the runtime-manager, or fails to: model gateway or         *)
(* runtime-manager out of reach (then no job carries the call).              *)
CallRM(op, t) ==
  \/ \E j \in Jobs :
       /\ Submit(j, RMOp(op), op = "wipe")
       /\ loop' = [at |-> "call", op |-> op, task |-> t, on |-> j]
  \/ /\ "rm_down" \in Faults
     /\ loop' = [at |-> "call", op |-> op, task |-> t, on |-> None]
     /\ UNCHANGED job

(* Mutant: no check for an active task. *)
Dispatch_NoCheck(op) ==
  /\ binding' = [binding EXCEPT !.bound = TRUE]
  /\ \E t \in TaskIds : /\ tasks' = [tasks EXCEPT ![t] = "running"]
                        /\ CallRM(op, t)
  /\ HostUnchanged

(* ensure_running, stop_runtime, delete_runtime up to the call: ensure_binding,*)
(* the check for an active task (an exception ends the request), the new      *)
(* task.                                                                     *)
Dispatch(op) ==
  /\ binding' = [binding EXCEPT !.bound = TRUE]
  /\ \/ Active # {} /\ loop' = Idle /\ UNCHANGED <<tasks, job>>
     \/ /\ Active = {}
        /\ \E t \in TaskIds : /\ tasks' = [tasks EXCEPT ![t] = "running"]
                              /\ CallRM(op, t)
  /\ HostUnchanged

BeginService(c) ==
  /\ loop.at = "idle"
  /\ request[c] \in ServiceOps
  /\ Dispatch(request[c])
  /\ request' = [request EXCEPT ![c] = "none"]
  /\ UNCHANGED user

(* get_my_runtime_status and get_workspace_entry: without a binding they     *)
(* answer at once, else they ask for the container fact.                     *)
BeginStatus(c) ==
  /\ loop.at = "idle"
  /\ request[c] = "status"
  /\ \/ ~ binding.bound /\ UNCHANGED <<job, loop>>
     \/ binding.bound /\ CallRM("status", None)
  /\ request' = [request EXCEPT ![c] = "none"]
  /\ UNCHANGED <<containers, attached, config, user, binding, tasks>>

(* update_user_status: set_user_status commits, then stop_runtime *)
AdminDisable ==
  /\ loop.at = "idle"
  /\ user' = "disabled"
  /\ loop' = [Idle EXCEPT !.at = "serve", !.op = "stop"]
  /\ UNCHANGED <<rmVars, binding, tasks, request>>

ServeDisable ==
  /\ loop.at = "serve"
  /\ Dispatch(loop.op)
  /\ UNCHANGED <<user, request>>

AdminEnable ==
  /\ loop.at = "idle"
  /\ user = "disabled"
  /\ user' = "active"
  /\ UNCHANGED <<rmVars, binding, tasks, loop, request>>

-----------------------------------------------------------------------------
(* The end of the call *)
Answered == loop.on # None /\ job[loop.on].at = "replied"
Answer1  == job[loop.on].reply

Succeeds == Answered /\ Answer1.ok
(* Mutant: a call that no thread carries is not noticed. *)
Fails_NeedsThread ==
  \/ Answered /\ (~ Answer1.ok \/ "db" \in Faults)
  \/ loop.on # None /\ ~ Answered /\ "timeout" \in Faults

Fails ==
  \/ loop.on = None
  \/ Answered /\ (~ Answer1.ok \/ "db" \in Faults)
  \/ ~ Answered /\ "timeout" \in Faults

(* The call is over: an answered job is gone, an unanswered one runs on.     *)
EndCall ==
  /\ IF Answered THEN Release(loop.on) ELSE UNCHANGED job
  /\ loop' = Idle

(* merge_with_existing_token *)
Merge(published) ==
  IF ~ published THEN "none" ELSE IF binding.url = "token" THEN "token" ELSE "bare"

(* patch_binding_state after a call that succeeded.  Only a stop keeps the   *)
(* URL; nothing else writes the binding while the body runs.                 *)
FinishOk ==
  /\ loop.at = "call" /\ loop.op \in ServiceOps
  /\ Succeeds
  /\ binding' = [binding EXCEPT
       !.desired = TargetOf(loop.op),
       !.observed = IF loop.op = "start" THEN Answer1.observed ELSE TargetOf(loop.op),
       !.url = CASE loop.op = "start" -> IF Answer1.url THEN "token" ELSE "none"
                 [] loop.op = "stop"  -> binding.url
                 [] OTHER             -> "none",
       !.failed = FALSE]
  /\ tasks' = [tasks EXCEPT ![loop.task] = "succeeded"]
  /\ EndCall
  /\ UNCHANGED <<containers, attached, config, user, request>>

(* Mutants of the except branch: the target is recorded as if reached; the   *)
(* error is not recorded; the desired state is not; the task is forgotten.    *)
FinishFailedWith(row, outcome) ==
  /\ loop.at = "call" /\ loop.op \in ServiceOps
  /\ Fails
  /\ binding' = row
  /\ tasks' = [tasks EXCEPT ![loop.task] = outcome]
  /\ EndCall
  /\ UNCHANGED <<containers, attached, config, user, request>>

FinishFailed_Optimistic ==
  FinishFailedWith([binding EXCEPT !.desired = TargetOf(loop.op), !.failed = TRUE,
                                   !.observed = TargetOf(loop.op)], "failed")
FinishFailed_Silent ==
  FinishFailedWith([binding EXCEPT !.desired = TargetOf(loop.op),
                                   !.observed = "error"], "failed")
FinishFailed_KeepsDesired ==
  FinishFailedWith([binding EXCEPT !.observed = "error", !.failed = TRUE], "failed")
FinishFailed_TaskLeft ==
  FinishFailedWith([binding EXCEPT !.desired = TargetOf(loop.op), !.failed = TRUE,
                                   !.observed = "error"], "running")

(* The except branch: the call raised, timed out, or its result could not    *)
(* be written.                                                               *)
FinishFailed ==
  /\ loop.at = "call" /\ loop.op \in ServiceOps
  /\ Fails
  /\ binding' = [binding EXCEPT
       !.desired = TargetOf(loop.op), !.observed = "error", !.failed = TRUE,
       !.url = IF loop.op = "stop" THEN binding.url ELSE "none"]
  /\ tasks' = [tasks EXCEPT ![loop.task] = "failed"]
  /\ EndCall
  /\ UNCHANGED <<containers, attached, config, user, request>>

(* The write inside the except branch raises as well: the request ends with  *)
(* the task still running.                                                   *)
FinishUnrecorded ==
  /\ loop.at = "call" /\ loop.op \in ServiceOps
  /\ "db" \in Faults
  /\ Fails
  /\ EndCall
  /\ UNCHANGED <<containers, attached, config, user, binding, tasks, request>>

(* Mutant: a runtime in error is not reconciled. *)
FinishStatus_SkipsErrors ==
  /\ loop.at = "call" /\ loop.op = "status"
  /\ \/ /\ Succeeds /\ binding.observed # "error"
        /\ binding' = [binding EXCEPT !.observed = Answer1.observed,
                                      !.url = Merge(Answer1.url)]
     \/ (Fails \/ binding.observed = "error") /\ UNCHANGED binding
  /\ EndCall
  /\ UNCHANGED <<containers, attached, config, user, tasks, request>>

(* The reconciliation of status and workspace-entry; any exception is        *)
(* swallowed and leaves the binding as it was.                               *)
FinishStatus ==
  /\ loop.at = "call" /\ loop.op = "status"
  /\ \/ /\ Succeeds
        /\ binding' = [binding EXCEPT !.observed = Answer1.observed,
                                      !.url = Merge(Answer1.url)]
     \/ Fails /\ UNCHANGED binding
  /\ EndCall
  /\ UNCHANGED <<containers, attached, config, user, tasks, request>>

-----------------------------------------------------------------------------
(* A runtime-manager thread whose caller has given up ends unheard.          *)
Reap(j) ==
  /\ job[j].at = "replied"
  /\ loop.on # j
  /\ Release(j)
  /\ UNCHANGED <<containers, attached, config>>
  /\ UNCHANGED apiVars

ManagerStep(j) == Step(j) /\ UNCHANGED apiVars

HostStep == (Drift \/ RMCrash) /\ UNCHANGED apiVars

(* The API process restarts: the body, the admitted requests and the tasks   *)
(* are gone, the database stays.                                             *)
ApiCrash ==
  /\ "api_crash" \in Faults
  /\ loop' = Idle
  /\ tasks' = [t \in TaskIds |-> "unused"]
  /\ request' = [c \in Clients |-> "none"]
  /\ UNCHANGED <<rmVars, user, binding>>

Finish == FinishOk \/ FinishFailed \/ FinishUnrecorded \/ FinishStatus

Next ==
  \/ \E c \in Clients, op \in Requests : Admit(c, op)
  \/ \E c \in Clients : BeginService(c) \/ BeginStatus(c)
  \/ AdminDisable \/ ServeDisable \/ AdminEnable
  \/ Finish
  \/ \E j \in Jobs : ManagerStep(j) \/ Reap(j)
  \/ HostStep \/ ApiCrash

Spec == Init /\ [][Next]_vars

(* The event loop keeps executing the body it is in and takes up every        *)
(* request it has admitted; runtime-manager threads keep running.             *)
FairSpec ==
  /\ Spec
  /\ \A j \in Jobs : WF_vars(ManagerStep(j)) /\ WF_vars(Reap(j))
  /\ WF_vars(ServeDisable) /\ WF_vars(Finish)
  /\ \A c \in Clients : SF_vars(BeginService(c) \/ BeginStatus(c))

-----------------------------------------------------------------------------
(* One task at a time; and as long as the database accepts writes, an active *)
(* task is the one of the body being executed, so a finished or crashed body *)
(* never leaves the user locked out by "a task is already in progress".      *)
SingleFlight ==
  /\ \A t1, t2 \in Active : t1 = t2
  /\ "db" \notin Faults =>
       \A t \in Active : loop.at = "call" /\ loop.op \in ServiceOps /\ loop.task = t

(* ARCHITECTURE, "One runtime per user": Docker never holds two containers   *)
(* of the same runtime.                                                      *)
OneRuntimePerUser == \A c, d \in Managed : c = d

(* No request is executing anywhere in the system. *)
Quiet == loop = Idle /\ \A j \in Jobs : job[j].at = "idle"
Running == {c \in Containers : containers[c] = "running"}

(* When nothing is under way, the state the platform shows is the state of   *)
(* the host: "running" is one container on the network with its config and   *)
(* a URL, "stopped" and "deleted" mean nothing runs or exists.               *)
BindingMatchesHost ==
  Quiet =>
    /\ binding.observed = "running" =>
         config /\ binding.url # "none" /\ Running # {} /\ Managed = Running
    /\ binding.observed = "stopped" => Running = {}
    /\ binding.observed = "deleted" => Managed = {}

(* A container that runs although the platform wants it stopped or deleted    *)
(* never goes unnoticed: the binding carries the error of the call that       *)
(* failed to take it down, even after a poll has overwritten observed.        *)
UnwantedRunningIsReported ==
  Quiet /\ Running # {} /\ binding.desired # "running" => binding.failed

(* "Admin disables user -> runtime converges to stopped": once everything     *)
(* under way is over, a disabled user has no running container.               *)
DisabledRuntimeStops ==
  Quiet /\ user = "disabled" /\ (\A c \in Clients : request[c] = "none")
    => Running = {}

(* Every admitted request is served, and every call ends. *)
EveryRequestEnds ==
  /\ \A c \in Clients : request[c] # "none" ~> request[c] = "none"
  /\ loop.at # "idle" ~> loop.at = "idle"

(* The state get_state reports *)
HostState ==
  IF Managed = {} THEN "deleted"
  ELSE ObservedOf(containers[CHOOSE c \in Managed : TRUE])

Settled ==
  /\ user = "active"
  /\ loop.op \notin ServiceOps
  /\ \A c \in Clients : request[c] \notin ServiceOps

(* "Reconcile status from runtime-manager container facts to avoid stale      *)
(* binding projection" (workspace.py): once no operation is asked for any     *)
(* more, polls that succeed again and again bring the recorded state to the    *)
(* container's, whatever an operation that failed or timed out, or a           *)
(* container that exited, left behind.                                        *)
RepairedByPolling ==
  <>[]Settled /\ []<><<FinishStatus /\ Succeeds>>_vars
    => <>[](binding.bound => binding.observed = HostState)

(* The operations as the lifecycle of one runtime *)
Lifecycle == INSTANCE RuntimeLifecycle WITH
  busy     <- IF loop.at = "call" /\ loop.op \in ServiceOps THEN ActionOf(loop.op) ELSE "none",
  stuck    <- Active # {} /\ ~ (loop.at = "call" /\ loop.op \in ServiceOps),
  desired  <- binding.desired,
  observed <- binding.observed

(* The service implements the lifecycle it promises, whatever fails. *)
LifecycleRefined == Lifecycle!LifecycleSpec
=============================================================================
