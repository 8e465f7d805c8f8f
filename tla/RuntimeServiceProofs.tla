------------------------ MODULE RuntimeServiceProofs ------------------------
(***************************************************************************)
(* What TLAPS proves of RuntimeService for every set of clients, tasks,     *)
(* containers, runtime-manager threads and faults.  The runtime-manager's   *)
(* side of a step is taken from the lemmas of RuntimeManagerProofs.         *)
(***************************************************************************)
EXTENDS RuntimeService, RuntimeManagerProofs

(* A body that starts its call holds the thread that got the request, if one *)
(* did.                                                                      *)
LEMMA CallRMEffect ==
  ASSUME RMTypeOK, NEW op \in Requests, NEW t \in TaskIds \cup {None},
         CallRM(op, t), HostUnchanged
  PROVE  /\ RMTypeOK' /\ Managed' = Managed
         /\ loop' \in [at : {"call"}, op : {op}, task : {t}, on : Jobs \cup {None}]
         /\ \A i \in Jobs \ {loop'.on} : job'[i] = job[i]
         /\ loop'.on \in Jobs =>
              /\ job[loop'.on].at = "idle" /\ job'[loop'.on].op = RMOp(op)
              /\ job'[loop'.on].at \in {"begin", "list"}
<1>1. RMOp(op) \in Ops /\ (op = "wipe") \in BOOLEAN
  BY DEF RMOp, Ops
<1>2. CASE \E j \in Jobs : /\ Submit(j, RMOp(op), op = "wipe")
                           /\ loop' = [at |-> "call", op |-> op, task |-> t, on |-> j]
  <2>1. PICK j \in Jobs : /\ Submit(j, RMOp(op), op = "wipe")
                          /\ loop' = [at |-> "call", op |-> op, task |-> t, on |-> j]
    BY <1>2
  <2>2. loop'.on = j /\ loop' \in [at : {"call"}, op : {op}, task : {t}, on : Jobs \cup {None}]
    BY <2>1
  <2>3. /\ RMTypeOK' /\ Managed' = Managed
        /\ \A i \in Jobs \ {j} : job'[i] = job[i]
        /\ job[j].at = "idle" /\ job'[j].op = RMOp(op)
        /\ job'[j].at \in {"begin", "list"}
    BY <1>1, <2>1, SubmitType
  <2>4. QED  BY <2>2, <2>3
<1>3. CASE /\ loop' = [at |-> "call", op |-> op, task |-> t, on |-> None]
           /\ UNCHANGED job
  <2>1. /\ loop'.on = None /\ None \notin Jobs
        /\ loop' \in [at : {"call"}, op : {op}, task : {t}, on : Jobs \cup {None}]
    BY <1>3, NoneIsNoJob
  <2>2. RMTypeOK' /\ Managed' = Managed
    BY <1>3 DEF HostUnchanged, RMTypeOK, Managed
  <2>3. QED  BY <1>3, <2>1, <2>2
<1>4. QED
  BY <1>2, <1>3 DEF CallRM

(* A call that ends frees its thread if that has answered. *)
LEMMA EndCallEffect ==
  ASSUME RMTypeOK, loop.on \in Jobs \cup {None}, EndCall, HostUnchanged
  PROVE  /\ RMTypeOK' /\ Managed' = Managed /\ loop' = Idle
         /\ \A i \in Jobs : job'[i] = job[i] \/ (job'[i] = NoJob /\ job'[i].at = "idle")
         /\ Answered => job'[loop.on].at = "idle"
<1>1. CASE Answered
  BY <1>1, ReleaseType DEF EndCall, Answered
<1>2. CASE ~ Answered
  <2>1. job' = job /\ loop' = Idle
    BY <1>2 DEF EndCall
  <2>2. RMTypeOK' /\ Managed' = Managed
    BY <2>1 DEF HostUnchanged, RMTypeOK, Managed
  <2>3. QED  BY <1>2, <2>1, <2>2
<1>3. QED  BY <1>1, <1>2

-----------------------------------------------------------------------------
(* Type correctness *)
ApiTypeOK ==
  /\ user \in {"active", "disabled"}
  /\ binding \in [bound : BOOLEAN, desired : DesiredState, observed : ObservedState,
                  url : Urls, failed : BOOLEAN]
  /\ tasks \in [TaskIds -> TaskStatus]
  /\ loop \in [at : {"idle", "serve", "call"}, op : Requests \cup {"none"},
               task : TaskIds \cup {None}, on : Jobs \cup {None}]
  /\ request \in [Clients -> Requests \cup {"none"}]

LEMMA TypeParts == TypeOK <=> RMTypeOK /\ ApiTypeOK
BY DEF TypeOK, ApiTypeOK

LEMMA IdleType ==
  Idle \in [at : {"idle", "serve", "call"}, op : Requests \cup {"none"},
            task : TaskIds \cup {None}, on : Jobs \cup {None}]
BY DEF Idle

LEMMA ReplyObserved ==
  ASSUME RMTypeOK, loop.on \in Jobs \cup {None}, Answered
  PROVE  Answer1.observed \in ObservedState /\ Answer1.url \in BOOLEAN
BY DEF RMTypeOK, Answered, Answer1, JobRecord, Replies

LEMMA InitType == Init => TypeOK
<1> SUFFICES ASSUME Init PROVE RMTypeOK /\ ApiTypeOK
  BY TypeParts
<1>1. RMTypeOK
  BY RMInitType DEF Init
<1>2. binding \in [bound : BOOLEAN, desired : DesiredState, observed : ObservedState,
                   url : Urls, failed : BOOLEAN]
  BY DEF Init, DesiredState, ObservedState, Urls
<1>3. QED
  BY <1>1, <1>2, IdleType DEF Init, ApiTypeOK, TaskStatus

LEMMA DispatchType ==
  ASSUME TypeOK, NEW op \in ServiceOps, Dispatch(op), UNCHANGED user,
         request' \in [Clients -> Requests \cup {"none"}]
  PROVE  TypeOK'
<1>1. RMTypeOK /\ ApiTypeOK /\ op \in Requests
  BY TypeParts DEF Requests
<1>2. binding' \in [bound : BOOLEAN, desired : DesiredState, observed : ObservedState,
                    url : Urls, failed : BOOLEAN]
  BY <1>1 DEF Dispatch, ApiTypeOK
<1>3. CASE loop' = Idle /\ UNCHANGED <<tasks, job>>
  <2>1. RMTypeOK'
    BY <1>1, <1>3 DEF Dispatch, HostUnchanged, RMTypeOK
  <2>2. QED
    BY <1>1, <1>2, <1>3, <2>1, IdleType DEF TypeOK, ApiTypeOK
<1>4. CASE \E t \in TaskIds : tasks' = [tasks EXCEPT ![t] = "running"] /\ CallRM(op, t)
  <2>1. PICK t \in TaskIds : tasks' = [tasks EXCEPT ![t] = "running"] /\ CallRM(op, t)
    BY <1>4
  <2>2. tasks' \in [TaskIds -> TaskStatus]
    BY <1>1, <2>1 DEF ApiTypeOK, TaskStatus
  <2>3. RMTypeOK' /\ loop' \in [at : {"call"}, op : {op}, task : {t}, on : Jobs \cup {None}]
    BY <1>1, <2>1, CallRMEffect DEF Dispatch
  <2>4. QED
    BY <1>1, <1>2, <2>2, <2>3 DEF TypeOK, ApiTypeOK
<1>5. QED
  BY <1>3, <1>4 DEF Dispatch

LEMMA FinishType ==
  ASSUME TypeOK, Finish
  PROVE  TypeOK'
<1>1. RMTypeOK /\ ApiTypeOK /\ loop.on \in Jobs \cup {None}
  BY TypeParts DEF ApiTypeOK
<1>2. /\ RMTypeOK' /\ loop' = Idle
      /\ user' = user /\ request' = request
  BY <1>1, EndCallEffect
  DEF Finish, FinishOk, FinishFailed, FinishUnrecorded, FinishStatus, HostUnchanged
<1>3. tasks' \in [TaskIds -> TaskStatus]
  BY <1>1 DEF ApiTypeOK, TaskStatus, Finish, FinishOk, FinishFailed,
              FinishUnrecorded, FinishStatus
<1> DEFINE Bindings == [bound : BOOLEAN, desired : DesiredState,
                        observed : ObservedState, url : Urls, failed : BOOLEAN]
<1>4. binding \in Bindings
  BY <1>1 DEF ApiTypeOK
<1>5. \A op : TargetOf(op) \in DesiredState /\ TargetOf(op) \in ObservedState
  BY DEF TargetOf, DesiredState, ObservedState
<1>6. CASE FinishOk
  <2>1. Answer1.observed \in ObservedState
    BY <1>1, <1>6, ReplyObserved DEF FinishOk, Succeeds
  <2> DEFINE o == IF loop.op = "start" THEN Answer1.observed ELSE TargetOf(loop.op)
             u == CASE loop.op = "start" -> IF Answer1.url THEN "token" ELSE "none"
                    [] loop.op = "stop"  -> binding.url
                    [] OTHER             -> "none"
  <2>2. o \in ObservedState
    BY <1>5, <2>1
  <2>3. u \in Urls
    BY <1>4 DEF Urls
  <2>4. binding' = [binding EXCEPT !.desired = TargetOf(loop.op), !.observed = o,
                                   !.url = u, !.failed = FALSE]
    BY <1>6 DEF FinishOk
  <2> HIDE DEF o, u
  <2>5. binding' \in Bindings
    BY <1>4, <1>5, <2>2, <2>3, <2>4
  <2>6. QED
    BY <1>1, <1>2, <1>3, <2>5, IdleType DEF TypeOK, ApiTypeOK
<1>7. CASE FinishFailed
  <2> DEFINE u == IF loop.op = "stop" THEN binding.url ELSE "none"
  <2>1. u \in Urls /\ "error" \in ObservedState
    BY <1>4 DEF Urls, ObservedState
  <2>2. binding' = [binding EXCEPT !.desired = TargetOf(loop.op), !.observed = "error",
                                   !.failed = TRUE, !.url = u]
    BY <1>7 DEF FinishFailed
  <2> HIDE DEF u
  <2>3. binding' \in Bindings
    BY <1>4, <1>5, <2>1, <2>2
  <2>4. QED
    BY <1>1, <1>2, <1>3, <2>3, IdleType DEF TypeOK, ApiTypeOK
<1>8. CASE FinishUnrecorded
  BY <1>1, <1>2, <1>3, <1>8, IdleType DEF TypeOK, ApiTypeOK, FinishUnrecorded
<1>9. CASE FinishStatus
  <2>1. CASE UNCHANGED binding
    BY <1>1, <1>2, <1>3, <2>1, IdleType DEF TypeOK, ApiTypeOK
  <2>2. CASE /\ Succeeds
             /\ binding' = [binding EXCEPT !.observed = Answer1.observed,
                                           !.url = Merge(Answer1.url)]
    <3>1. Answer1.observed \in ObservedState
      BY <1>1, <2>2, ReplyObserved DEF Succeeds
    <3>2. Merge(Answer1.url) \in Urls
      BY DEF Merge, Urls
    <3>3. binding' \in Bindings
      BY <1>4, <2>2, <3>1, <3>2
    <3>4. QED
      BY <1>1, <1>2, <1>3, <3>3, IdleType DEF TypeOK, ApiTypeOK
  <2>3. QED  BY <1>9, <2>1, <2>2 DEF FinishStatus
<1>10. QED
  BY <1>6, <1>7, <1>8, <1>9 DEF Finish

(* The steps on the host's side *)
LEMMA HostEffect ==
  ASSUME RMTypeOK, HostStep
  PROVE  /\ RMTypeOK' /\ Managed' = Managed /\ UNCHANGED apiVars
         /\ \A j \in Jobs :
              \/ job'[j] = job[j]
              \/ /\ job[j].at # "idle"
                 /\ job'[j].at = "replied" /\ job'[j].op = job[j].op
                 /\ ~ job'[j].reply.ok
BY DriftType, CrashType DEF HostStep

LEMMA ReapEffect ==
  ASSUME RMTypeOK, NEW j \in Jobs, Reap(j)
  PROVE  /\ RMTypeOK' /\ Managed' = Managed /\ UNCHANGED apiVars
         /\ \A i \in Jobs \ {j} : job'[i] = job[i]
         /\ loop.on # j /\ job'[j] = NoJob /\ job'[j].at = "idle"
BY ReleaseType DEF Reap, HostUnchanged

LEMMA ApiUnchanged ==
  ASSUME ApiTypeOK, UNCHANGED apiVars
  PROVE  ApiTypeOK'
BY DEF ApiTypeOK, apiVars

(* What the event loop may be doing: TypeOK is inductive only with it, for a  *)
(* body that is to dispatch an operation must hold one.                      *)
LoopShape ==
  /\ loop.at = "idle" => loop = Idle
  /\ loop.at = "serve" => loop.op = "stop"
  /\ loop.at = "call" => loop.op \in Requests

LEMMA NextType ==
  ASSUME TypeOK, LoopShape, [Next]_vars
  PROVE  TypeOK'
<1> SUFFICES RMTypeOK' /\ ApiTypeOK'
  BY DEF TypeOK, ApiTypeOK
<1> DEFINE Goal == RMTypeOK' /\ ApiTypeOK'
<1>0. RMTypeOK /\ ApiTypeOK /\ (TypeOK' => Goal)
  BY DEF TypeOK, ApiTypeOK
<1>1. ASSUME NEW c \in Clients, NEW op \in Requests, Admit(c, op)  PROVE Goal
  BY <1>0, <1>1 DEF Admit, rmVars, RMTypeOK, ApiTypeOK
<1>2. ASSUME NEW c \in Clients, BeginService(c)  PROVE Goal
  BY <1>0, <1>2, DispatchType DEF BeginService, ApiTypeOK
<1>3. ASSUME NEW c \in Clients, BeginStatus(c)  PROVE Goal
  <2>1. /\ "status" \in Requests /\ None \in TaskIds \cup {None}
        /\ request' \in [Clients -> Requests \cup {"none"}]
    BY <1>0, <1>3 DEF Requests, BeginStatus, ApiTypeOK
  <2>2. CASE UNCHANGED <<job, loop>>
    BY <1>0, <1>3, <2>1, <2>2 DEF BeginStatus, RMTypeOK, ApiTypeOK
  <2>3. CASE CallRM("status", None)
    <3>1. /\ RMTypeOK'
          /\ loop' \in [at : {"call"}, op : {"status"}, task : {None}, on : Jobs \cup {None}]
      BY <1>0, <1>3, <2>1, <2>3, CallRMEffect DEF BeginStatus, HostUnchanged
    <3>2. QED
      BY <1>0, <1>3, <2>1, <3>1 DEF BeginStatus, ApiTypeOK
  <2>4. QED  BY <1>0, <1>3, <2>2, <2>3 DEF BeginStatus
<1>4. ASSUME AdminDisable  PROVE Goal
  BY <1>0, <1>4, IdleType
  DEF AdminDisable, rmVars, RMTypeOK, ApiTypeOK, Idle, Requests, ServiceOps
<1>5. ASSUME ServeDisable  PROVE Goal
  <2>1. loop.op \in ServiceOps
    BY <1>0, <1>5 DEF ServeDisable, LoopShape, ServiceOps
  <2>2. QED
    BY <1>0, <1>5, <2>1, DispatchType DEF ServeDisable, ApiTypeOK
<1>6. ASSUME AdminEnable  PROVE Goal
  BY <1>0, <1>6 DEF AdminEnable, rmVars, RMTypeOK, ApiTypeOK
<1>7. ASSUME Finish  PROVE Goal
  BY <1>0, <1>7, FinishType
<1>8. ASSUME NEW j \in Jobs, ManagerStep(j)  PROVE Goal
  BY <1>0, <1>8, StepSummary, ApiUnchanged DEF ManagerStep, StepEffect
<1>9. ASSUME NEW j \in Jobs, Reap(j)  PROVE Goal
  BY <1>0, <1>9, ReapEffect, ApiUnchanged
<1>10. ASSUME HostStep  PROVE Goal
  BY <1>0, <1>10, HostEffect, ApiUnchanged
<1>11. ASSUME ApiCrash  PROVE Goal
  BY <1>0, <1>11, IdleType DEF ApiCrash, rmVars, RMTypeOK, ApiTypeOK, TaskStatus
<1>12. ASSUME UNCHANGED vars  PROVE Goal
  BY <1>0, <1>12 DEF vars, RMTypeOK, ApiTypeOK
<1>13. QED
  BY <1>0, <1>1, <1>2, <1>3, <1>4, <1>5, <1>6, <1>7, <1>8, <1>9, <1>10, <1>11, <1>12
  DEF Next

LEMMA DispatchShape ==
  ASSUME TypeOK, NEW op \in ServiceOps, Dispatch(op)
  PROVE  LoopShape'
<1>1. CASE loop' = Idle
  BY <1>1 DEF LoopShape, Idle
<1>2. CASE \E t \in TaskIds : CallRM(op, t)
  BY <1>2 DEF CallRM, LoopShape, Requests
<1>3. QED
  BY <1>1, <1>2 DEF Dispatch

LEMMA NextShape ==
  ASSUME TypeOK, LoopShape, [Next]_vars
  PROVE  LoopShape'
<1>1. ASSUME loop' = loop  PROVE LoopShape'
  BY <1>1 DEF LoopShape
<1>2. ASSUME loop' = Idle  PROVE LoopShape'
  BY <1>2 DEF LoopShape, Idle
<1>3. ASSUME NEW c \in Clients, BeginService(c)  PROVE LoopShape'
  BY <1>3, DispatchShape DEF BeginService
<1>4. ASSUME NEW c \in Clients, BeginStatus(c)  PROVE LoopShape'
  BY <1>1, <1>4 DEF BeginStatus, CallRM, LoopShape, Requests
<1>5. ASSUME ServeDisable  PROVE LoopShape'
  <2>1. loop.op \in ServiceOps
    BY <1>5 DEF ServeDisable, LoopShape, ServiceOps
  <2>2. QED  BY <1>5, <2>1, DispatchShape DEF ServeDisable
<1>6. ASSUME AdminDisable  PROVE LoopShape'
  BY <1>6 DEF AdminDisable, LoopShape, Idle
<1>7. ASSUME Finish  PROVE loop' = Idle
  BY <1>7 DEF Finish, FinishOk, FinishFailed, FinishUnrecorded, FinishStatus, EndCall
<1>8. QED
  BY <1>1, <1>2, <1>3, <1>4, <1>5, <1>6, <1>7
  DEF Next, Admit, AdminEnable, ManagerStep, Reap, HostStep, ApiCrash, vars, apiVars

LEMMA ShapeInvariant == Spec => [](TypeOK /\ LoopShape)
<1>1. Init => TypeOK /\ LoopShape
  BY InitType DEF Init, LoopShape, Idle
<1>2. TypeOK /\ LoopShape /\ [Next]_vars => (TypeOK /\ LoopShape)'
  BY NextType, NextShape
<1>3. QED
  BY <1>1, <1>2, PTL DEF Spec

(* The user's row, the binding, the task table, the event loop and the        *)
(* admitted requests keep the shape the handlers rely on, whatever requests,  *)
(* failures and restarts come.                                               *)
THEOREM ServiceTypeCorrect == Spec => []TypeOK
BY ShapeInvariant, PTL

-----------------------------------------------------------------------------
(* One task at a time *)
InBody == loop.at = "call" /\ loop.op \in ServiceOps

(* SingleFlight is not inductive: that a body ends with its task no longer   *)
(* active needs that the task it holds is the active one.                    *)
TaskOfBody ==
  /\ \A t1, t2 \in Active : t1 = t2
  /\ InBody => loop.task \in Active
  /\ "db" \notin Faults => \A t \in Active : InBody /\ loop.task = t

LEMMA DispatchTask ==
  ASSUME TypeOK, NEW op \in ServiceOps, Dispatch(op)
  PROVE  \/ Active # {} /\ Active' = Active /\ loop' = Idle
         \/ /\ Active = {}
            /\ loop'.at = "call" /\ loop'.op = op
            /\ \E t \in TaskIds : Active' = {t} /\ loop'.task = t
<1>1. CASE Active # {} /\ loop' = Idle /\ UNCHANGED <<tasks, job>>
  BY <1>1 DEF Active
<1>2. CASE /\ Active = {}
           /\ \E t \in TaskIds : tasks' = [tasks EXCEPT ![t] = "running"] /\ CallRM(op, t)
  <2>1. PICK t \in TaskIds : tasks' = [tasks EXCEPT ![t] = "running"] /\ CallRM(op, t)
    BY <1>2
  <2>2. Active' = {t}
    BY <1>2, <2>1 DEF Active, TypeOK
  <2>3. loop'.at = "call" /\ loop'.op = op /\ loop'.task = t
    BY <2>1 DEF CallRM
  <2>4. QED  BY <1>2, <2>2, <2>3
<1>3. QED
  BY <1>1, <1>2 DEF Dispatch

LEMMA FinishTask ==
  ASSUME TypeOK, Finish
  PROVE  /\ loop.at = "call" /\ loop' = Idle
         /\ FinishOk \/ FinishFailed => InBody /\ Active' = Active \ {loop.task}
         /\ FinishUnrecorded => InBody /\ "db" \in Faults /\ Active' = Active
         /\ FinishStatus => ~ InBody /\ Active' = Active
<1>1. ASSUME NEW s \in {"succeeded", "failed"}, tasks' = [tasks EXCEPT ![loop.task] = s]
      PROVE  Active' = Active \ {loop.task}
  BY <1>1 DEF TypeOK, Active
<1>2. UNCHANGED tasks => Active' = Active
  BY DEF Active
<1>3. QED
  BY <1>1, <1>2
  DEF Finish, FinishOk, FinishFailed, FinishUnrecorded, FinishStatus, EndCall,
      InBody, ServiceOps

LEMMA NextTask ==
  ASSUME TypeOK, LoopShape, TaskOfBody, [Next]_vars
  PROVE  TaskOfBody'
<1>1. ASSUME UNCHANGED <<tasks, loop>>  PROVE TaskOfBody'
  BY <1>1 DEF TaskOfBody, Active, InBody
<1>2. ASSUME loop.at # "call", loop'.at # "call", UNCHANGED tasks  PROVE TaskOfBody'
  BY <1>2 DEF TaskOfBody, Active, InBody
<1>3. ASSUME loop.at # "call", NEW op \in ServiceOps, Dispatch(op)  PROVE TaskOfBody'
  BY <1>3, DispatchTask DEF TaskOfBody, InBody, Idle
<1>4. ASSUME NEW c \in Clients, BeginService(c)  PROVE TaskOfBody'
  BY <1>3, <1>4 DEF BeginService
<1>5. ASSUME NEW c \in Clients, BeginStatus(c)  PROVE TaskOfBody'
  <2>1. loop.at # "call" /\ Active' = Active
    BY <1>5 DEF BeginStatus, Active
  <2>2. ~ InBody'
    BY <1>5 DEF BeginStatus, CallRM, InBody, ServiceOps
  <2>3. QED  BY <2>1, <2>2 DEF TaskOfBody, InBody
<1>6. ASSUME ServeDisable  PROVE TaskOfBody'
  <2>1. loop.op \in ServiceOps
    BY <1>6 DEF ServeDisable, LoopShape, ServiceOps
  <2>2. QED  BY <1>3, <1>6, <2>1 DEF ServeDisable
<1>7. ASSUME AdminDisable  PROVE TaskOfBody'
  BY <1>2, <1>7 DEF AdminDisable, Idle
<1>8. ASSUME Finish  PROVE TaskOfBody'
  <2>1. ~ InBody'
    BY <1>8, FinishTask DEF InBody, Idle
  <2>2. Active' \subseteq Active
    BY <1>8, FinishTask DEF Finish
  <2>3. "db" \notin Faults => Active' = {}
    BY <1>8, FinishTask DEF Finish, TaskOfBody
  <2>4. QED  BY <2>1, <2>2, <2>3 DEF TaskOfBody
<1>9. ASSUME ApiCrash  PROVE TaskOfBody'
  <2>1. Active' = {} /\ loop' = Idle
    BY <1>9 DEF ApiCrash, Active
  <2>2. QED  BY <2>1 DEF TaskOfBody, InBody, Idle
<1>10. QED
  BY <1>1, <1>4, <1>5, <1>6, <1>7, <1>8, <1>9
  DEF Next, Admit, AdminEnable, ManagerStep, Reap, HostStep, vars, apiVars

LEMMA TaskInvariant == Spec => [](TypeOK /\ LoopShape /\ TaskOfBody)
<1>1. Init => TaskOfBody
  BY DEF Init, TaskOfBody, Active, InBody, Idle
<1>2. TypeOK /\ LoopShape /\ TaskOfBody /\ [Next]_vars => TaskOfBody'
  BY NextTask
<1>3. QED
  BY <1>1, <1>2, ShapeInvariant, PTL DEF Spec

(* The user has at most one active task, and unless a database write fails it *)
(* is the task of the body being executed: whatever the runtime-manager does, *)
(* and whenever the API restarts, no ended request leaves the user locked out. *)
THEOREM ServiceSingleFlight == Spec => []SingleFlight
<1>1. TaskOfBody => SingleFlight
  BY DEF TaskOfBody, SingleFlight, InBody
<1>2. QED
  BY <1>1, TaskInvariant, PTL

-----------------------------------------------------------------------------
(* One container per user, while the API waits for its calls *)
Patient == "timeout" \notin Faults /\ "api_crash" \notin Faults

(* A runtime-manager thread is busy only with the call the event loop waits   *)
(* for: this is what stands in for a lock around list-then-create, and what   *)
(* a timeout or a restart of the API breaks.                                 *)
OneCall == \A j \in Jobs : job[j].at # "idle" => loop.at = "call" /\ loop.on = j
CreateSeesNone == \A j \in Jobs : job[j].at = "create" => Managed = {}
CallInv == OneCall /\ CreateSeesNone /\ OneRuntimePerUser

(* While no thread is busy, one call can be started. *)
LEMMA StartCall ==
  ASSUME TypeOK, CallInv, loop.at # "call", NEW op \in Requests,
         NEW t \in TaskIds \cup {None}, CallRM(op, t), HostUnchanged
  PROVE  CallInv'
<1>1. RMTypeOK
  BY DEF TypeOK
<1>2. /\ Managed' = Managed /\ loop'.at = "call"
      /\ \A i \in Jobs \ {loop'.on} : job'[i] = job[i]
      /\ loop'.on \in Jobs => job'[loop'.on].at \in {"begin", "list"}
  BY <1>1, CallRMEffect
<1>3. OneCall'
  BY <1>2 DEF CallInv, OneCall
<1>4. CreateSeesNone' /\ OneRuntimePerUser'
  BY <1>2 DEF CallInv, CreateSeesNone, OneRuntimePerUser
<1>5. QED  BY <1>3, <1>4 DEF CallInv

LEMMA StartService ==
  ASSUME TypeOK, CallInv, loop.at # "call", NEW op \in ServiceOps, Dispatch(op)
  PROVE  CallInv'
<1>1. CASE loop' = Idle /\ UNCHANGED job
  BY <1>1
  DEF Dispatch, HostUnchanged, CallInv, OneCall, CreateSeesNone, OneRuntimePerUser, Managed
<1>2. CASE \E t \in TaskIds : CallRM(op, t)
  <2>1. op \in Requests
    BY DEF Requests
  <2>2. QED  BY <1>2, <2>1, StartCall DEF Dispatch
<1>3. QED  BY <1>1, <1>2 DEF Dispatch

(* A step of the one busy thread keeps at most one container. *)
LEMMA WorkCall ==
  ASSUME TypeOK, CallInv, NEW j \in Jobs, StepEffect(j), UNCHANGED apiVars
  PROVE  CallInv'
<1>1. /\ loop.at = "call" /\ loop.on = j /\ loop' = loop
      /\ \A i \in Jobs \ {j} : job'[i].at = "idle"
  BY DEF CallInv, OneCall, StepEffect, apiVars
<1>2. OneCall'
  BY <1>1 DEF OneCall
<1>3. CreateSeesNone' /\ OneRuntimePerUser'
  <2>1. CASE Keeps(j)
    BY <1>1, <2>1 DEF Keeps, CallInv, CreateSeesNone, OneRuntimePerUser
  <2>2. CASE Creates(j)
    BY <1>1, <2>2 DEF Creates, CallInv, CreateSeesNone, OneRuntimePerUser
  <2>3. CASE SeesNone(j)
    BY <1>1, <2>3 DEF SeesNone, CreateSeesNone, OneRuntimePerUser
  <2>4. CASE Replaces(j)
    BY <1>1, <2>4 DEF Replaces, CallInv, CreateSeesNone, OneRuntimePerUser
  <2>5. QED  BY <2>1, <2>2, <2>3, <2>4 DEF StepEffect
<1>4. QED  BY <1>2, <1>3 DEF CallInv

(* A patient API gives up a call only when the thread is free again. *)
LEMMA EndOfCall ==
  ASSUME Patient, TypeOK, CallInv, Finish
  PROVE  CallInv'
<1>1. RMTypeOK /\ loop.on \in Jobs \cup {None}
  BY DEF TypeOK
<1>2. EndCall /\ HostUnchanged /\ (loop.on = None \/ Answered)
  BY DEF Finish, FinishOk, FinishFailed, FinishUnrecorded, FinishStatus,
         HostUnchanged, Succeeds, Fails, Patient
<1>3. /\ Managed' = Managed
      /\ \A i \in Jobs : job'[i] = job[i] \/ job'[i].at = "idle"
      /\ Answered => job'[loop.on].at = "idle"
  BY <1>1, <1>2, EndCallEffect
<1>4. \A i \in Jobs : job'[i].at = "idle"
  BY <1>1, <1>2, <1>3, NoneIsNoJob DEF CallInv, OneCall
<1>5. QED
  BY <1>3, <1>4 DEF CallInv, OneCall, CreateSeesNone, OneRuntimePerUser

LEMMA NextCall ==
  ASSUME Patient, TypeOK, LoopShape, CallInv, [Next]_vars
  PROVE  CallInv'
<1> USE DEF CallInv, OneCall, CreateSeesNone, OneRuntimePerUser
<1>0. RMTypeOK
  BY DEF TypeOK
<1>1. ASSUME Managed' = Managed,
             \A i \in Jobs : job'[i] = job[i] \/ job'[i].at \in {"idle", "replied"},
             \A i \in Jobs : job[i].at = "idle" => job'[i].at = "idle",
             loop' = loop \/ loop.at # "call"
      PROVE  CallInv'
  BY <1>1
<1>2. ASSUME UNCHANGED rmVars, loop' = loop \/ loop.at # "call"  PROVE CallInv'
  BY <1>2 DEF rmVars, Managed
<1>3. ASSUME NEW c \in Clients, BeginService(c)  PROVE CallInv'
  BY <1>3, StartService DEF BeginService
<1>4. ASSUME NEW c \in Clients, BeginStatus(c)  PROVE CallInv'
  <2>1. HostUnchanged /\ loop.at # "call" /\ "status" \in Requests
    BY <1>4 DEF BeginStatus, HostUnchanged, Requests
  <2>2. CASE UNCHANGED <<job, loop>>
    BY <2>1, <2>2 DEF HostUnchanged, Managed
  <2>3. QED
    BY <1>4, <2>1, <2>2, StartCall DEF BeginStatus
<1>5. ASSUME ServeDisable  PROVE CallInv'
  <2>1. loop.op \in ServiceOps
    BY <1>5 DEF ServeDisable, LoopShape, ServiceOps
  <2>2. QED  BY <1>5, <2>1, StartService DEF ServeDisable
<1>6. ASSUME NEW j \in Jobs, ManagerStep(j)  PROVE CallInv'
  BY <1>0, <1>6, StepSummary, WorkCall DEF ManagerStep
<1>7. ASSUME NEW j \in Jobs, Reap(j)  PROVE CallInv'
  BY <1>0, <1>1, <1>7, ReapEffect DEF apiVars
<1>8. ASSUME HostStep  PROVE CallInv'
  BY <1>0, <1>1, <1>8, HostEffect DEF apiVars
<1>9. ASSUME AdminDisable  PROVE CallInv'
  BY <1>2, <1>9 DEF AdminDisable
<1>10. QED
  BY <1>2, <1>3, <1>4, <1>5, <1>6, <1>7, <1>8, <1>9, EndOfCall
  DEF Next, Admit, AdminEnable, ApiCrash, vars, rmVars, Patient

(* If the API neither times out nor restarts while a call is under way, a     *)
(* user never has two containers, whatever Docker, the containers and the     *)
(* runtime-manager do: its list-then-create is safe because the event loop    *)
(* sends it one request at a time, and for no other reason.                  *)
THEOREM ServiceOneRuntime ==
  ASSUME Patient
  PROVE  Spec => []OneRuntimePerUser
<1>1. Init => CallInv
  <2>1. ASSUME Init  PROVE Managed = {} /\ \A j \in Jobs : job[j].at = "idle"
    BY <2>1 DEF Init, RMInit, Managed, NoJob
  <2>2. QED
    BY <2>1 DEF CallInv, OneCall, CreateSeesNone, OneRuntimePerUser
<1>2. TypeOK /\ LoopShape /\ CallInv /\ [Next]_vars => CallInv'
  BY NextCall
<1>3. CallInv => OneRuntimePerUser
  BY DEF CallInv
<1>4. QED
  BY <1>1, <1>2, <1>3, ShapeInvariant, PTL DEF Spec

-----------------------------------------------------------------------------
(* The service implements the lifecycle *)

(* The thread a body waits for serves what the body asked for, and an         *)
(* ensure_running that succeeds says "running": without this the observed     *)
(* state written at the end of a start could be anything.                    *)
AnswerTrue ==
  /\ loop.at = "call" /\ loop.on \in Jobs => job[loop.on].op = RMOp(loop.op)
  /\ \A j \in Jobs : Replied(j, "ensure") => job[j].reply.observed = "running"

LEMMA NextAnswer ==
  ASSUME TypeOK, LoopShape, AnswerTrue, [Next]_vars
  PROVE  AnswerTrue'
<1> USE DEF AnswerTrue, Replied, At
<1>0. RMTypeOK /\ loop.on \in Jobs \cup {None} /\ None \notin Jobs
  BY NoneIsNoJob DEF TypeOK
<1>1. ASSUME UNCHANGED job, loop' = loop \/ loop'.at # "call"  PROVE AnswerTrue'
  BY <1>1
<1>2. ASSUME NEW op \in Requests, NEW t \in TaskIds \cup {None}, CallRM(op, t),
             HostUnchanged
      PROVE  AnswerTrue'
  BY <1>0, <1>2, CallRMEffect
<1>3. ASSUME NEW op \in ServiceOps, Dispatch(op)  PROVE AnswerTrue'
  BY <1>1, <1>2, <1>3 DEF Dispatch, Requests, Idle
<1>4. ASSUME NEW c \in Clients, BeginService(c)  PROVE AnswerTrue'
  BY <1>3, <1>4 DEF BeginService
<1>5. ASSUME NEW c \in Clients, BeginStatus(c)  PROVE AnswerTrue'
  BY <1>1, <1>2, <1>5 DEF BeginStatus, HostUnchanged, Requests
<1>6. ASSUME ServeDisable  PROVE AnswerTrue'
  BY <1>3, <1>6 DEF ServeDisable, LoopShape, ServiceOps
<1>7. ASSUME Finish  PROVE AnswerTrue'
  <2>1. EndCall /\ HostUnchanged
    BY <1>7 DEF Finish, FinishOk, FinishFailed, FinishUnrecorded, FinishStatus,
                HostUnchanged
  <2>2. loop' = Idle /\ \A i \in Jobs : job'[i] = job[i] \/ job'[i].at = "idle"
    BY <1>0, <2>1, EndCallEffect
  <2>3. QED  BY <2>2 DEF Idle
<1>8. ASSUME NEW j \in Jobs, ManagerStep(j)  PROVE AnswerTrue'
  <2>1. StepEffect(j) /\ loop' = loop
    BY <1>0, <1>8, StepSummary DEF ManagerStep, apiVars
  <2>2. QED  BY <2>1 DEF StepEffect, AnswersTruly
<1>9. ASSUME NEW j \in Jobs, Reap(j)  PROVE AnswerTrue'
  BY <1>0, <1>9, ReapEffect DEF apiVars
<1>10. ASSUME HostStep  PROVE AnswerTrue'
  BY <1>0, <1>10, HostEffect DEF apiVars
<1>11. ASSUME AdminDisable \/ ApiCrash  PROVE AnswerTrue'
  <2>1. UNCHANGED job /\ loop'.at # "call"
    <3>1. CASE AdminDisable
      BY <3>1 DEF AdminDisable, Idle, rmVars
    <3>2. CASE ApiCrash
      BY <3>2 DEF ApiCrash, Idle, rmVars
    <3>3. QED  BY <1>11, <3>1, <3>2
  <2>2. QED  BY <1>1, <2>1
<1>12. QED
  BY <1>1, <1>4, <1>5, <1>6, <1>7, <1>8, <1>9, <1>10, <1>11
  DEF Next, Admit, AdminEnable, vars, rmVars

LEMMA AnswerInvariant == Spec => []AnswerTrue
<1>1. Init => AnswerTrue
  BY DEF Init, RMInit, AnswerTrue, Replied, At, Idle, NoJob
<1>2. TypeOK /\ LoopShape /\ AnswerTrue /\ [Next]_vars => AnswerTrue'
  BY NextAnswer
<1>3. QED
  BY <1>1, <1>2, ShapeInvariant, PTL DEF Spec

LEMMA InitLifecycle == Init => Lifecycle!LifecycleInit
BY DEF Init, Lifecycle!LifecycleInit, Idle, Active

(* A step that changes neither the body, the active task nor the states *)
LEMMA LifecycleStutter ==
  ASSUME Active' = Active, InBody' <=> InBody, InBody => loop' = loop,
         binding'.desired = binding.desired, binding'.observed = binding.observed
  PROVE  UNCHANGED Lifecycle!lifecycleVars
BY DEF Lifecycle!lifecycleVars, InBody

LEMMA LifecycleDispatch ==
  ASSUME TypeOK, loop.at # "call", NEW op \in ServiceOps, Dispatch(op)
  PROVE  [Lifecycle!LifecycleNext]_(Lifecycle!lifecycleVars)
<1>1. binding'.desired = binding.desired /\ binding'.observed = binding.observed
  BY DEF Dispatch, TypeOK
<1>2. CASE Active' = Active /\ loop' = Idle
  BY <1>1, <1>2, LifecycleStutter DEF InBody, Idle
<1>3. CASE /\ Active = {} /\ loop'.at = "call" /\ loop'.op = op
           /\ \E t \in TaskIds : Active' = {t} /\ loop'.task = t
  <2>1. Lifecycle!Begin
    BY <1>1, <1>3 DEF Lifecycle!Begin, Lifecycle!LifecycleActions, ActionOf
  <2>2. QED  BY <2>1 DEF Lifecycle!LifecycleNext
<1>4. QED
  BY <1>2, <1>3, DispatchTask

LEMMA LifecycleFinish ==
  ASSUME TypeOK, TaskOfBody, AnswerTrue, Finish
  PROVE  [Lifecycle!LifecycleNext]_(Lifecycle!lifecycleVars)
<1>1. loop.at = "call" /\ loop'.at = "idle" /\ ~ InBody' /\ loop.on \in Jobs \cup {None}
  BY FinishTask DEF InBody, Idle, TypeOK
<1>2. InBody => /\ ActionOf(loop.op) \in Lifecycle!LifecycleActions
                /\ ActionOf(loop.op) # "none"
                /\ TargetOf(loop.op) = Lifecycle!Target(ActionOf(loop.op))
  BY DEF ActionOf, TargetOf, Lifecycle!Target, Lifecycle!LifecycleActions, InBody, ServiceOps
<1>3. CASE FinishOk \/ FinishFailed
  <2>1. InBody /\ Active' = {} /\ Active # {}
    BY <1>3, FinishTask DEF TaskOfBody
  <2>2. binding'.desired = TargetOf(loop.op)
    BY <1>3 DEF FinishOk, FinishFailed, TypeOK
  <2>3. binding'.observed \in {TargetOf(loop.op), "error"}
    <3>1. CASE FinishFailed
      BY <3>1 DEF FinishFailed, TypeOK
    <3>2. CASE FinishOk /\ loop.op # "start"
      BY <3>2 DEF FinishOk, TypeOK
    <3>3. CASE FinishOk /\ loop.op = "start"
      <4>1. loop.on \in Jobs /\ Replied(loop.on, "ensure")
        BY <1>1, <3>3
        DEF FinishOk, Succeeds, Answered, Answer1, AnswerTrue, RMOp, Replied, At
      <4>2. Answer1.observed = "running" /\ TargetOf(loop.op) = "running"
        BY <3>3, <4>1 DEF AnswerTrue, Answer1, TargetOf
      <4>3. QED  BY <3>3, <4>2 DEF FinishOk, TypeOK
    <3>4. QED  BY <1>3, <3>1, <3>2, <3>3
  <2>4. Lifecycle!Finish
    BY <1>1, <1>2, <2>1, <2>2, <2>3 DEF Lifecycle!Finish, InBody
  <2>5. QED  BY <2>4 DEF Lifecycle!LifecycleNext
<1>4. CASE FinishUnrecorded
  <2>1. InBody /\ Active' = Active /\ Active # {} /\ binding' = binding
    BY <1>4, FinishTask DEF TaskOfBody, FinishUnrecorded
  <2>2. Lifecycle!Abandon
    BY <1>1, <1>2, <2>1 DEF Lifecycle!Abandon, InBody
  <2>3. QED  BY <2>2 DEF Lifecycle!LifecycleNext
<1>5. CASE FinishStatus
  <2>1. ~ InBody /\ Active' = Active
    BY <1>5, FinishTask
  <2>2. CASE UNCHANGED binding
    BY <1>1, <2>1, <2>2, LifecycleStutter
  <2>3. CASE /\ Succeeds
             /\ binding' = [binding EXCEPT !.observed = Answer1.observed,
                                           !.url = Merge(Answer1.url)]
    <3>1. Answer1.observed \in ObservedState
      BY <1>1, <2>3, ReplyObserved DEF Succeeds, TypeOK
    <3>2. binding'.desired = binding.desired /\ binding'.observed \in ObservedState
      BY <2>3, <3>1 DEF TypeOK
    <3>3. Lifecycle!Observe
      BY <1>1, <2>1, <3>2 DEF Lifecycle!Observe, InBody, ObservedState
    <3>4. QED  BY <3>3 DEF Lifecycle!LifecycleNext
  <2>4. QED  BY <1>5, <2>2, <2>3 DEF FinishStatus
<1>6. QED
  BY <1>3, <1>4, <1>5 DEF Finish

LEMMA NextLifecycle ==
  ASSUME TypeOK, LoopShape, TaskOfBody, AnswerTrue, [Next]_vars
  PROVE  [Lifecycle!LifecycleNext]_(Lifecycle!lifecycleVars)
<1>1. ASSUME UNCHANGED <<tasks, loop, binding>>
      PROVE  UNCHANGED Lifecycle!lifecycleVars
  BY <1>1, LifecycleStutter DEF Active, InBody
<1>2. ASSUME NEW c \in Clients, BeginService(c)
      PROVE  [Lifecycle!LifecycleNext]_(Lifecycle!lifecycleVars)
  BY <1>2, LifecycleDispatch DEF BeginService
<1>3. ASSUME NEW c \in Clients, BeginStatus(c)
      PROVE  UNCHANGED Lifecycle!lifecycleVars
  <2>1. ~ InBody /\ ~ InBody'
    BY <1>3 DEF BeginStatus, CallRM, InBody, ServiceOps
  <2>2. QED  BY <1>3, <2>1, LifecycleStutter DEF BeginStatus, Active
<1>4. ASSUME ServeDisable
      PROVE  [Lifecycle!LifecycleNext]_(Lifecycle!lifecycleVars)
  <2>1. loop.op \in ServiceOps
    BY <1>4 DEF ServeDisable, LoopShape, ServiceOps
  <2>2. QED  BY <1>4, <2>1, LifecycleDispatch DEF ServeDisable
<1>5. ASSUME AdminDisable  PROVE UNCHANGED Lifecycle!lifecycleVars
  BY <1>5, LifecycleStutter DEF AdminDisable, InBody, Idle, Active
<1>6. ASSUME ApiCrash  PROVE Lifecycle!Restart
  BY <1>6 DEF ApiCrash, Lifecycle!Restart, Active, Idle
<1>7. QED
  BY <1>1, <1>2, <1>3, <1>4, <1>5, <1>6, LifecycleFinish
  DEF Next, Admit, AdminEnable, ManagerStep, Reap, HostStep, vars, apiVars,
      Lifecycle!LifecycleNext

(* Every behaviour of the service, with any number of requests under way and  *)
(* with every failure the model knows, is one of the lifecycle of a single    *)
(* runtime: operations one at a time, each ending with its target or "error", *)
(* the recorded state following the host in between.                         *)
THEOREM ServiceImplementsLifecycle == Spec => LifecycleRefined
<1>1. TypeOK /\ LoopShape /\ TaskOfBody /\ AnswerTrue /\ [Next]_vars
        => [Lifecycle!LifecycleNext]_(Lifecycle!lifecycleVars)
  BY NextLifecycle
<1>2. Init => Lifecycle!LifecycleInit
  BY InitLifecycle
<1>3. Spec => Lifecycle!LifecycleSpec
  BY <1>1, <1>2, AnswerInvariant, TaskInvariant, PTL DEF Spec, Lifecycle!LifecycleSpec
<1>4. QED
  BY <1>3 DEF LifecycleRefined
-----------------------------------------------------------------------------
(* What the platform shows is what the host does *)

(* Whatever CallRM starts, the threads that serve nothing yet promise nothing. *)
LEMMA CallRMFresh ==
  ASSUME RMTypeOK, NEW op \in Requests, NEW t \in TaskIds \cup {None}, CallRM(op, t)
  PROVE  \A i \in Jobs : job'[i] = job[i] \/ Fresh(i)'
<1>1. RMOp(op) \in Ops /\ (op = "wipe") \in BOOLEAN
  BY DEF RMOp, Ops
<1>2. CASE UNCHANGED job
  BY <1>2
<1>3. CASE \E j \in Jobs : Submit(j, RMOp(op), op = "wipe")
  <2>1. PICK j \in Jobs : Submit(j, RMOp(op), op = "wipe")
    BY <1>3
  <2>2. Fresh(j)'
    BY <1>1, <2>1, SubmitFirst
  <2>3. \A i \in Jobs \ {j} : job'[i] = job[i]
    BY <2>1 DEF Submit, RMTypeOK
  <2>4. QED  BY <2>2, <2>3
<1>4. QED  BY <1>2, <1>3 DEF CallRM

LEMMA EndCallFresh ==
  ASSUME RMTypeOK, loop.on \in Jobs \cup {None}, EndCall
  PROVE  \A i \in Jobs : job'[i] = job[i] \/ Fresh(i)'
BY DEF EndCall, Answered, Release, NoJob, Fresh, RMTypeOK

(* A step of the service is one of five kinds, as the host and the binding    *)
(* see it: a body starts a call, a thread works, a call ends, something        *)
(* happens to the containers or to the service, or nothing of this changes.   *)
SameRow == /\ binding'.desired = binding.desired /\ binding'.observed = binding.observed
           /\ binding'.url = binding.url /\ binding'.failed = binding.failed
Starts  == /\ ~ InBody /\ loop.at # "call" /\ HostUnchanged /\ SameRow
           /\ \A i \in Jobs : job'[i] = job[i] \/ Fresh(i)'
Works   == \E j \in Jobs : Step(j) /\ UNCHANGED apiVars
Ends    == Finish /\ loop.at = "call" /\ HostUnchanged
           /\ \A i \in Jobs : job'[i] = job[i] \/ Fresh(i)'
Rests   == HostUnchanged /\ job' = job /\ SameRow /\ (InBody' <=> InBody)

LEMMA DispatchStarts ==
  ASSUME TypeOK, NEW op \in ServiceOps, loop.at # "call", Dispatch(op)
  PROVE  Starts
<1>1. HostUnchanged /\ SameRow /\ ~ InBody
  BY DEF Dispatch, SameRow, InBody, TypeOK
<1>2. CASE UNCHANGED job
  BY <1>1, <1>2 DEF Starts
<1>3. CASE \E t \in TaskIds : CallRM(op, t)
  <2>1. RMTypeOK /\ op \in Requests
    BY DEF TypeOK, Requests
  <2>2. QED  BY <1>1, <1>3, <2>1, CallRMFresh DEF Starts
<1>4. QED  BY <1>2, <1>3 DEF Dispatch

LEMMA NextKinds ==
  ASSUME Patient, TypeOK, LoopShape, [Next]_vars
  PROVE  Starts \/ Works \/ Ends \/ (HostStep /\ UNCHANGED apiVars) \/ Rests
         \/ (\E j \in Jobs : Reap(j))
<1>0. RMTypeOK /\ loop.on \in Jobs \cup {None}
  BY DEF TypeOK
<1>1. ASSUME NEW c \in Clients, BeginService(c)  PROVE Starts
  BY <1>1, DispatchStarts DEF BeginService
<1>2. ASSUME NEW c \in Clients, BeginStatus(c)  PROVE Starts
  <2>1. HostUnchanged /\ SameRow /\ ~ InBody /\ loop.at # "call"
    BY <1>2 DEF BeginStatus, HostUnchanged, SameRow, InBody
  <2>2. \A i \in Jobs : job'[i] = job[i] \/ Fresh(i)'
    BY <1>0, <1>2, CallRMFresh DEF BeginStatus, Requests
  <2>3. QED  BY <2>1, <2>2 DEF Starts
<1>3. ASSUME ServeDisable  PROVE Starts
  <2>1. loop.op \in ServiceOps /\ loop.at # "call"
    BY <1>3 DEF ServeDisable, LoopShape, ServiceOps
  <2>2. QED  BY <1>3, <2>1, DispatchStarts DEF ServeDisable
<1>4. ASSUME Finish  PROVE Ends
  <2>1. EndCall /\ HostUnchanged /\ loop.at = "call"
    BY <1>4 DEF Finish, FinishOk, FinishFailed, FinishUnrecorded, FinishStatus,
                HostUnchanged
  <2>2. QED  BY <1>0, <1>4, <2>1, EndCallFresh DEF Ends
<1>5. ASSUME AdminDisable  PROVE Rests
  BY <1>5 DEF AdminDisable, Rests, HostUnchanged, SameRow, InBody, Idle, rmVars
<1>6. ASSUME NEW c \in Clients, NEW op \in Requests, Admit(c, op)  PROVE Rests
  BY <1>6 DEF Admit, Rests, HostUnchanged, SameRow, InBody, rmVars
<1>7. ASSUME AdminEnable \/ UNCHANGED vars  PROVE Rests
  BY <1>7 DEF AdminEnable, Rests, HostUnchanged, SameRow, InBody, rmVars, vars
<1>8. QED
  BY <1>1, <1>2, <1>3, <1>4, <1>5, <1>6, <1>7
  DEF Next, ManagerStep, Works, HostStep, ApiCrash, Patient

-----------------------------------------------------------------------------
(* The thread that works holds the only container *)
Tracked == HasConfig /\ \A j \in Jobs : Track(j)

LEMMA NextTracked ==
  ASSUME Patient, TypeOK, LoopShape, CallInv, Tracked, [Next]_vars
  PROVE  Tracked'
<1> USE DEF Tracked
<1>0. RMTypeOK /\ Single
  BY DEF TypeOK, CallInv, OneRuntimePerUser, Single
<1>1. ASSUME HostUnchanged, \A i \in Jobs : job'[i] = job[i] \/ Fresh(i)'
      PROVE  Tracked'
  BY <1>1, TrackKept DEF HostUnchanged, HasConfig, Managed
<1>2. ASSUME Starts \/ Ends \/ Rests  PROVE Tracked'
  BY <1>1, <1>2 DEF Starts, Ends, Rests
<1>3. ASSUME NEW j \in Jobs, Step(j), UNCHANGED apiVars  PROVE Tracked'
  <2>1. Track(j)' /\ HasConfig'
    BY <1>0, <1>3, StepTrack
  <2>2. \A i \in Jobs \ {j} : job'[i].at = "idle"
    BY <1>0, <1>3, StepSummary DEF StepEffect, CallInv, OneCall
  <2>3. \A i \in Jobs \ {j} : Track(i)'
    BY <2>2 DEF Track, Replied, At, Acting
  <2>4. QED  BY <2>1, <2>3
<1>4. ASSUME Drift  PROVE Tracked'
  BY <1>0, <1>4, DriftTrack, DriftType DEF HasConfig, Drift
<1>5. ASSUME RMCrash  PROVE Tracked'
  <2>1. HostUnchanged /\ \A i \in Jobs : job'[i] = job[i] \/ Fresh(i)'
    BY <1>0, <1>5, CrashType DEF RMCrash, Fresh
  <2>2. QED  BY <1>1, <2>1
<1>6. ASSUME NEW j \in Jobs, Reap(j)  PROVE Tracked'
  <2>1. HostUnchanged /\ \A i \in Jobs : job'[i] = job[i] \/ Fresh(i)'
    BY <1>0, <1>6, ReapEffect DEF Reap, HostUnchanged, Fresh
  <2>2. QED  BY <1>1, <2>1
<1>7. QED
  BY <1>2, <1>3, <1>4, <1>5, <1>6, NextKinds DEF Works, HostStep

LEMMA TrackedInvariant ==
  ASSUME Patient
  PROVE  Spec => [](TypeOK /\ LoopShape /\ CallInv /\ AnswerTrue /\ Tracked)
<1>1. Init => CallInv /\ Tracked
  <2> SUFFICES ASSUME Init PROVE CallInv /\ Tracked
    OBVIOUS
  <2>1. Managed = {} /\ \A j \in Jobs : job[j].at = "idle"
    BY DEF Init, RMInit, Managed, NoJob
  <2>2. \A j \in Jobs : Track(j)
    BY <2>1, NothingDue DEF Fresh
  <2>3. QED
    BY <2>1, <2>2
    DEF CallInv, OneCall, CreateSeesNone, OneRuntimePerUser, Tracked, HasConfig
<1>2. TypeOK /\ LoopShape /\ CallInv /\ [Next]_vars => CallInv'
  BY NextCall
<1>3. TypeOK /\ LoopShape /\ CallInv /\ Tracked /\ [Next]_vars => Tracked'
  BY NextTracked
<1>4. QED
  BY <1>1, <1>2, <1>3, ShapeInvariant, AnswerInvariant, PTL DEF Spec

(* A call that succeeded carries the answer of the thread the body asked. *)
LEMMA GoodAnswer ==
  ASSUME TypeOK, AnswerTrue, loop.at = "call", Succeeds
  PROVE  loop.on \in Jobs /\ Replied(loop.on, RMOp(loop.op))
         /\ Answer1 = job[loop.on].reply
BY DEF TypeOK, Succeeds, Answered, Answer1, AnswerTrue, Replied, At

-----------------------------------------------------------------------------
(* An unwanted container that runs is reported *)
Noticed == Running # {} /\ binding.desired # "running" => binding.failed

(* Between the dispatch of an operation and its end the host may already be    *)
(* what the binding does not say yet; at any other time nothing runs unwanted  *)
(* and unreported, whatever the containers do by themselves.                  *)
UnwantedInv == ~ InBody => Noticed

LEMMA NextUnwanted ==
  ASSUME Patient, "db" \notin Faults, TypeOK, LoopShape, CallInv, AnswerTrue, Tracked,
         UnwantedInv, [Next]_vars
  PROVE  UnwantedInv'
<1> USE DEF UnwantedInv
<1>0. RMTypeOK /\ binding \in [bound : BOOLEAN, desired : DesiredState,
                               observed : ObservedState, url : Urls, failed : BOOLEAN]
  BY DEF TypeOK
<1>1. ASSUME Running' \subseteq Running, SameRow, ~ InBody' => ~ InBody
      PROVE  UnwantedInv'
  BY <1>1 DEF Noticed, SameRow
<1>2. ASSUME HostUnchanged  PROVE Running' = Running /\ Managed' = Managed
  BY <1>2 DEF HostUnchanged, Running, Managed
<1>3. ASSUME Starts \/ Rests  PROVE UnwantedInv'
  BY <1>1, <1>2, <1>3 DEF Starts, Rests
<1>4. ASSUME NEW j \in Jobs, Step(j), UNCHANGED apiVars  PROVE UnwantedInv'
  <2>1. SameRow /\ loop' = loop /\ (InBody' <=> InBody)
    BY <1>4 DEF apiVars, SameRow, InBody
  <2>2. CASE ~ InBody
    <3>1. loop.at = "call" /\ loop.on = j
      BY <1>0, <1>4, StepSummary DEF StepEffect, CallInv, OneCall
    <3>2. loop.op = "status"
      BY <2>2, <3>1 DEF InBody, LoopShape, Requests
    <3>3. job[j].op = "get"
      BY <3>1, <3>2 DEF AnswerTrue, RMOp
    <3>4. QED  BY <1>1, <1>2, <1>4, <2>1, <3>3, GetLooksOnly
  <2>3. QED  BY <2>1, <2>2
<1>5. ASSUME Drift, UNCHANGED apiVars  PROVE UnwantedInv'
  <2>1. Running' \subseteq Running
    BY <1>0, <1>5, DriftStops DEF Running
  <2>2. QED  BY <1>1, <1>5, <2>1 DEF apiVars, SameRow, InBody
<1>6. ASSUME RMCrash, UNCHANGED apiVars  PROVE UnwantedInv'
  BY <1>1, <1>2, <1>6 DEF RMCrash, apiVars, SameRow, InBody
<1>7. ASSUME NEW j \in Jobs, Reap(j)  PROVE UnwantedInv'
  BY <1>1, <1>2, <1>7 DEF Reap, HostUnchanged, apiVars, SameRow, InBody
<1>8. ASSUME Ends  PROVE UnwantedInv'
  <2>0. Running' = Running /\ loop.at = "call"
    BY <1>2, <1>8 DEF Ends
  <2>1. CASE FinishStatus
    <3>1. binding'.desired = binding.desired /\ binding'.failed = binding.failed
      BY <1>0, <2>1 DEF FinishStatus
    <3>2. ~ InBody
      BY <2>1 DEF FinishStatus, InBody, ServiceOps
    <3>3. QED  BY <2>0, <3>1, <3>2 DEF Noticed
  <2>2. CASE FinishFailed
    <3>1. binding'.failed
      BY <1>0, <2>2 DEF FinishFailed
    <3>2. QED  BY <3>1 DEF Noticed
  <2>3. CASE FinishOk
    <3>1. binding'.desired = TargetOf(loop.op) /\ loop.op \in ServiceOps
      BY <1>0, <2>3 DEF FinishOk
    <3>2. CASE loop.op = "start"
      BY <3>1, <3>2 DEF Noticed, TargetOf
    <3>3. CASE loop.op # "start"
      <4>1. loop.on \in Jobs /\ Replied(loop.on, RMOp(loop.op)) /\ Track(loop.on)
        BY <2>0, <2>3, GoodAnswer DEF FinishOk, Tracked
      <4>2. RMOp(loop.op) \in {"stop", "delete"}
        BY <3>1, <3>3 DEF RMOp, ServiceOps
      <4>3. Running = {}
        BY <4>1, <4>2 DEF Track, Running, Managed
      <4>4. QED  BY <2>0, <4>3 DEF Noticed
    <3>4. QED  BY <3>2, <3>3
  <2>4. CASE FinishUnrecorded
    BY <2>4 DEF FinishUnrecorded
  <2>5. QED  BY <1>8, <2>1, <2>2, <2>3, <2>4 DEF Ends, Finish
<1>9. QED
  BY <1>3, <1>4, <1>5, <1>6, <1>7, <1>8, NextKinds DEF Works, HostStep

(* While the API waits for its calls and its database takes every write, a     *)
(* container that runs although the platform wants it stopped or deleted       *)
(* carries a reported error whenever nothing is under way, whatever calls      *)
(* fail, whatever the runtime-manager crashes in, and whatever state the       *)
(* containers fall into by themselves.                                        *)
THEOREM ServiceReportsUnwanted ==
  ASSUME Patient, "db" \notin Faults
  PROVE  Spec => []UnwantedRunningIsReported
<1>1. Init => UnwantedInv
  BY DEF Init, RMInit, UnwantedInv, Noticed, Running
<1>2. TypeOK /\ LoopShape /\ CallInv /\ AnswerTrue /\ Tracked /\ UnwantedInv
        /\ [Next]_vars => UnwantedInv'
  BY NextUnwanted
<1>3. UnwantedInv => UnwantedRunningIsReported
  BY DEF UnwantedInv, Noticed, UnwantedRunningIsReported, Quiet, InBody, Idle
<1>4. QED
  BY <1>1, <1>2, <1>3, TrackedInvariant, PTL DEF Spec

-----------------------------------------------------------------------------
(* The recorded state is the state of the host *)
Calm == Patient /\ "db" \notin Faults /\ DriftTo = {}

Steadied == \A j \in Jobs : Steady(j)

LEMMA NextSteadied ==
  ASSUME Calm, TypeOK, LoopShape, CallInv, Tracked, Steadied, [Next]_vars
  PROVE  Steadied'
<1> USE DEF Steadied
<1>0. RMTypeOK /\ Single /\ HasConfig /\ Patient /\ \A j \in Jobs : Track(j)
  BY DEF TypeOK, CallInv, OneRuntimePerUser, Single, Tracked, Calm
<1>1. ASSUME HostUnchanged, \A i \in Jobs : job'[i] = job[i] \/ Fresh(i)'
      PROVE  Steadied'
  BY <1>1, SteadyKept
<1>2. ASSUME Starts \/ Ends \/ Rests  PROVE Steadied'
  BY <1>1, <1>2 DEF Starts, Ends, Rests
<1>3. ASSUME NEW j \in Jobs, Step(j), UNCHANGED apiVars  PROVE Steadied'
  <2>1. Steady(j)'
    BY <1>0, <1>3, StepSteady
  <2>2. \A i \in Jobs \ {j} : job'[i].at = "idle"
    BY <1>0, <1>3, StepSummary DEF StepEffect, CallInv, OneCall
  <2>3. \A i \in Jobs \ {j} : Steady(i)'
    BY <2>2 DEF Steady, Replied, At
  <2>4. QED  BY <2>1, <2>3
<1>4. ~ Drift
  BY DEF Drift, Calm
<1>5. ASSUME RMCrash  PROVE Steadied'
  <2>1. HostUnchanged /\ \A i \in Jobs : job'[i] = job[i] \/ Fresh(i)'
    BY <1>0, <1>5, CrashType DEF RMCrash, Fresh
  <2>2. QED  BY <1>1, <2>1
<1>6. ASSUME NEW j \in Jobs, Reap(j)  PROVE Steadied'
  <2>1. HostUnchanged /\ \A i \in Jobs : job'[i] = job[i] \/ Fresh(i)'
    BY <1>0, <1>6, ReapEffect DEF Reap, HostUnchanged, Fresh
  <2>2. QED  BY <1>1, <2>1
<1>7. QED
  BY <1>0, <1>2, <1>3, <1>4, <1>5, <1>6, NextKinds DEF Works, HostStep

(* What the recorded state says of the host *)
Matches ==
  /\ binding.observed = "running" =>
       config /\ binding.url # "none" /\ Running # {} /\ Managed = Running
  /\ binding.observed = "stopped" => Running = {}
  /\ binding.observed = "deleted" => Managed = {}
MatchInv == ~ InBody => Matches

(* The three ways a call can end *)
LEMMA MatchesAfterOk ==
  ASSUME TypeOK, LoopShape, CallInv, AnswerTrue, Tracked, Steadied, FinishOk
  PROVE  Matches'
<1> DEFINE j == loop.on
<1>1. loop.at = "call" /\ loop.op \in ServiceOps /\ Succeeds
  BY DEF FinishOk
<1>2. /\ j \in Jobs /\ Replied(j, RMOp(loop.op)) /\ Answer1 = job[j].reply
      /\ Track(j) /\ Steady(j)
  BY <1>1, GoodAnswer DEF Tracked, Steadied
<1>3. Running' = Running /\ Managed' = Managed /\ config' = config
  BY DEF FinishOk, Running, Managed
<1>4. CASE loop.op = "start"
  <2>1. ReadyReply(j) /\ Answer1.observed = "running" /\ Answer1.url
    BY <1>2, <1>4 DEF RMOp, Steady, AnswerTrue, ReadyReply
  <2>2. Managed = Running /\ Running # {}
    BY <2>1 DEF ReadyReply, Running, Managed
  <2>3. binding'.observed = "running" /\ binding'.url = "token"
    BY <1>4, <2>1 DEF FinishOk, TypeOK
  <2>4. QED  BY <1>3, <2>1, <2>2, <2>3 DEF Matches, ReadyReply
<1>5. CASE loop.op = "stop"
  <2>1. Running = {}
    BY <1>2, <1>5 DEF RMOp, Track, Running
  <2>2. binding'.observed = "stopped"
    BY <1>5 DEF FinishOk, TypeOK, TargetOf
  <2>3. QED  BY <1>3, <2>1, <2>2 DEF Matches
<1>6. CASE loop.op \in {"delete", "wipe"}
  <2>1. Managed = {}
    BY <1>2, <1>6 DEF RMOp, Track
  <2>2. binding'.observed = "deleted"
    BY <1>6 DEF FinishOk, TypeOK, TargetOf
  <2>3. QED  BY <1>3, <2>1, <2>2 DEF Matches
<1>7. QED
  BY <1>1, <1>4, <1>5, <1>6 DEF ServiceOps

LEMMA ObservedTruly ==
  \A s \in ContainerStatus : /\ ObservedOf(s) = "running" => s = "running"
                             /\ ObservedOf(s) = "stopped" => s = "exited"
                             /\ ObservedOf(s) # "deleted"
BY DEF ObservedOf, ContainerStatus

LEMMA MatchesAfterStatus ==
  ASSUME TypeOK, CallInv, AnswerTrue, Tracked, Steadied, Matches, FinishStatus
  PROVE  Matches'
<1> DEFINE j == loop.on
<1>1. Running' = Running /\ Managed' = Managed /\ config' = config
  BY DEF FinishStatus, Running, Managed
<1>2. CASE UNCHANGED binding
  BY <1>1, <1>2 DEF Matches
<1>3. CASE /\ Succeeds
           /\ binding' = [binding EXCEPT !.observed = Answer1.observed,
                                         !.url = Merge(Answer1.url)]
  <2>1. j \in Jobs /\ Replied(j, "get") /\ Answer1 = job[j].reply /\ TrueReply(j)
    BY <1>3, GoodAnswer DEF FinishStatus, RMOp, Steadied, Steady
  <2>2. binding'.observed = Answer1.observed /\ binding'.url = Merge(Answer1.url)
    BY <1>3 DEF TypeOK
  <2>3. CASE Managed = {} /\ Answer1.observed = "deleted"
    BY <1>1, <2>2, <2>3 DEF Matches
  <2>4. CASE \E c \in Managed : /\ Answer1.observed = ObservedOf(containers[c])
                                /\ Answer1.url = (containers[c] = "running")
    <3>1. PICK c \in Managed : /\ Answer1.observed = ObservedOf(containers[c])
                               /\ Answer1.url = (containers[c] = "running")
      BY <2>4
    <3>2. /\ c \in Containers /\ containers[c] \in ContainerStatus
          /\ Managed = {c} /\ config
      BY <3>1 DEF TypeOK, RMTypeOK, Managed, CallInv, OneRuntimePerUser, Tracked, HasConfig
    <3>3. /\ containers[c] = "running" => Running = {c}
          /\ containers[c] # "running" => Running = {}
      BY <3>2 DEF Running, Managed
    <3>4. containers[c] = "running" => binding'.url # "none"
      BY <2>2, <3>1 DEF Merge
    <3>5. QED
      BY <1>1, <2>2, <3>1, <3>2, <3>3, <3>4, ObservedTruly DEF Matches
  <2>5. QED  BY <2>1, <2>3, <2>4 DEF TrueReply
<1>4. QED  BY <1>2, <1>3 DEF FinishStatus

LEMMA NextMatch ==
  ASSUME Calm, TypeOK, LoopShape, CallInv, AnswerTrue, Tracked, Steadied,
         MatchInv, [Next]_vars
  PROVE  MatchInv'
<1> USE DEF MatchInv
<1>0. RMTypeOK /\ Patient
  BY DEF TypeOK, Calm
<1>1. ASSUME HostUnchanged, SameRow, ~ InBody' => ~ InBody  PROVE MatchInv'
  BY <1>1 DEF Matches, SameRow, HostUnchanged, Running, Managed
<1>2. ASSUME Starts \/ Rests  PROVE MatchInv'
  BY <1>1, <1>2 DEF Starts, Rests
<1>3. ASSUME NEW j \in Jobs, Step(j), UNCHANGED apiVars  PROVE MatchInv'
  <2>1. SameRow /\ loop' = loop /\ (InBody' <=> InBody)
    BY <1>3 DEF apiVars, SameRow, InBody
  <2>2. CASE ~ InBody
    <3>1. loop.at = "call" /\ loop.on = j
      BY <1>0, <1>3, StepSummary DEF StepEffect, CallInv, OneCall
    <3>2. loop.op = "status"
      BY <2>2, <3>1 DEF InBody, LoopShape, Requests
    <3>3. job[j].op = "get"
      BY <3>1, <3>2 DEF AnswerTrue, RMOp
    <3>4. QED  BY <1>1, <1>3, <2>1, <3>3, GetLooksOnly
  <2>3. QED  BY <2>1, <2>2
<1>4. ~ Drift
  BY DEF Drift, Calm
<1>5. ASSUME RMCrash, UNCHANGED apiVars  PROVE MatchInv'
  BY <1>1, <1>5 DEF RMCrash, apiVars, SameRow, InBody
<1>6. ASSUME NEW j \in Jobs, Reap(j)  PROVE MatchInv'
  BY <1>1, <1>6 DEF Reap, HostUnchanged, apiVars, SameRow, InBody
<1>7. ASSUME Ends  PROVE MatchInv'
  <2>1. CASE FinishStatus
    <3>1. ~ InBody
      BY <2>1 DEF FinishStatus, InBody, ServiceOps
    <3>2. QED  BY <2>1, <3>1, MatchesAfterStatus
  <2>2. CASE FinishOk
    BY <2>2, MatchesAfterOk
  <2>3. CASE FinishFailed
    <3>1. binding'.observed = "error"
      BY <2>3 DEF FinishFailed, TypeOK
    <3>2. QED  BY <3>1 DEF Matches
  <2>4. CASE FinishUnrecorded
    BY <2>4 DEF FinishUnrecorded, Calm
  <2>5. QED  BY <1>7, <2>1, <2>2, <2>3, <2>4 DEF Ends, Finish
<1>8. QED
  BY <1>0, <1>2, <1>3, <1>4, <1>5, <1>6, <1>7, NextKinds DEF Works, HostStep

(* While the API waits for its calls, its database takes every write and no    *)
(* container leaves its state by itself, the recorded state is the state of    *)
(* the host whenever nothing is under way: "running" is one container that     *)
(* runs, with its config and a URL, "stopped" and "deleted" mean what they     *)
(* say; and this in spite of failing Docker and file-system calls, of          *)
(* containers that do not start or are not ready, and of restarts of the       *)
(* runtime-manager.  Calm states exactly what the run svc_serial leaves out.   *)
THEOREM ServiceBindingMatches ==
  ASSUME Calm
  PROVE  Spec => []BindingMatchesHost
<1>1. Init => Steadied /\ MatchInv
  <2> SUFFICES ASSUME Init PROVE Steadied /\ MatchInv
    OBVIOUS
  <2>1. \A j \in Jobs : job[j].at = "idle"
    BY DEF Init, RMInit, NoJob
  <2>2. Steadied
    BY <2>1, NothingDue DEF Fresh, Steadied
  <2>3. Running = {} /\ binding.observed = "stopped"
    BY DEF Init, RMInit, Running
  <2>4. QED  BY <2>2, <2>3 DEF MatchInv, Matches
<1>2. TypeOK /\ LoopShape /\ CallInv /\ Tracked /\ Steadied /\ [Next]_vars => Steadied'
  BY NextSteadied
<1>3. TypeOK /\ LoopShape /\ CallInv /\ AnswerTrue /\ Tracked /\ Steadied /\ MatchInv
        /\ [Next]_vars => MatchInv'
  BY NextMatch
<1>4. MatchInv => BindingMatchesHost
  BY DEF MatchInv, Matches, BindingMatchesHost, Quiet, InBody, Idle
<1>5. Spec => [](TypeOK /\ LoopShape /\ CallInv /\ AnswerTrue /\ Tracked)
  BY TrackedInvariant DEF Calm
<1>6. QED
  BY <1>1, <1>2, <1>3, <1>4, <1>5, PTL DEF Spec
=============================================================================
