------------------------ MODULE RuntimeManagerProofs ------------------------
(***************************************************************************)
(* What TLAPS proves of RuntimeManager for every set of containers, jobs    *)
(* and faults.  Most of the work is in one lemma that says what a single    *)
(* Docker call of a handler can do (StepSummary); the theorems, and those   *)
(* of RuntimeServiceProofs, are about that summary and not about the        *)
(* individual actions.                                                     *)
(***************************************************************************)
EXTENDS RuntimeManager, FiniteSetTheorems, TLAPS

(* What the two moves of a job leave behind. *)
LEMMA AdvanceJob ==
  ASSUME job \in [Jobs -> JobRecord], NEW j \in Jobs, NEW step \in Steps,
         NEW c \in Containers \cup {None},
         NEW s \in ContainerStatus \cup {"absent"},
         Advance(j, step, c, s)
  PROVE  /\ job' \in [Jobs -> JobRecord]
         /\ \A i \in Jobs \ {j} : job'[i] = job[i]
         /\ job'[j].op = job[j].op /\ job'[j].wipe = job[j].wipe
         /\ job'[j].at = step /\ job'[j].on = c
BY DEF Advance, JobRecord

LEMMA AnswerJob ==
  ASSUME job \in [Jobs -> JobRecord], NEW j \in Jobs, NEW r \in Replies,
         Answer(j, r)
  PROVE  /\ job' \in [Jobs -> JobRecord]
         /\ \A i \in Jobs \ {j} : job'[i] = job[i]
         /\ job'[j].op = job[j].op /\ job'[j].wipe = job[j].wipe
         /\ job'[j].at = "replied" /\ job'[j].reply = r
BY DEF Answer, JobRecord, Steps

LEMMA ReplyType ==
  /\ Failure \in Replies
  /\ \A s \in ContainerStatus : ObservedOf(s) \in ObservedState
  /\ \A o \in ObservedState, u \in BOOLEAN : Reply(o, u) \in Replies
BY DEF Failure, Replies, ObservedState, Reply, ObservedOf, ContainerStatus

-----------------------------------------------------------------------------
(* The four things a step can do to the set of containers: leave it alone or *)
(* shrink it, add one because the job was to create one, decide to create     *)
(* one because there is none, or remove one in order to create another.       *)
Keeps(j)    == Managed' \subseteq Managed /\ job'[j].at # "create"
Creates(j)  == /\ job[j].at = "create" /\ job'[j].at # "create"
               /\ \E c \in Containers \ Managed : Managed' = Managed \cup {c}
SeesNone(j) == /\ job[j].at # "create" /\ job'[j].at = "create"
               /\ Managed = {} /\ Managed' = {}
Replaces(j) == /\ job[j].at # "create" /\ job'[j].at = "create"
               /\ \E c \in Managed : Managed' = Managed \ {c}

AnswersTruly(j) ==
  job'[j].at = "replied" /\ job[j].op = "ensure" /\ job'[j].reply.ok =>
    job'[j].reply.observed = "running"

StepEffect(j) ==
  /\ RMTypeOK'
  /\ job[j].at \notin {"idle", "replied"} /\ job'[j].at # "idle"
  /\ job'[j].op = job[j].op
  /\ \A i \in Jobs \ {j} : job'[i] = job[i]
  /\ Keeps(j) \/ Creates(j) \/ SeesNone(j) \/ Replaces(j)
  /\ AnswersTruly(j)

(* The summary follows for a step of either form. *)
HostTypeOK == /\ containers \in [Containers -> ContainerStatus \cup {"absent"}]
              /\ attached \subseteq Containers /\ config \in BOOLEAN

LEMMA AnswerEffect ==
  ASSUME RMTypeOK, NEW j \in Jobs, job[j].at \notin {"idle", "replied"},
         NEW r \in Replies, Answer(j, r),
         (job[j].op = "ensure" /\ r.ok) => r.observed = "running",
         Managed' \subseteq Managed, HostTypeOK'
  PROVE  StepEffect(j)
BY AnswerJob
DEF StepEffect, Keeps, AnswersTruly, RMTypeOK, HostTypeOK, Acting

LEMMA AdvanceEffect ==
  ASSUME RMTypeOK, NEW j \in Jobs, job[j].at \notin {"idle", "replied"},
         NEW step \in Steps \ {"replied"}, NEW c \in Containers \cup {None},
         NEW s \in ContainerStatus \cup {"absent"}, Advance(j, step, c, s),
         step \in Acting => c \in Containers,
         HostTypeOK',
         \/ Managed' \subseteq Managed /\ step # "create"
         \/ /\ job[j].at = "create" /\ step # "create"
            /\ \E d \in Containers \ Managed : Managed' = Managed \cup {d}
         \/ job[j].at # "create" /\ step = "create" /\ Managed = {} /\ Managed' = {}
         \/ /\ job[j].at # "create" /\ step = "create"
            /\ \E d \in Managed : Managed' = Managed \ {d}
  PROVE  StepEffect(j)
<1>1. /\ job' \in [Jobs -> JobRecord]
      /\ \A i \in Jobs \ {j} : job'[i] = job[i]
      /\ job'[j].op = job[j].op
      /\ job'[j].at = step /\ job'[j].on = c
  BY AdvanceJob DEF RMTypeOK
<1>2. RMTypeOK'
  BY <1>1 DEF RMTypeOK, HostTypeOK
<1>3. Keeps(j) \/ Creates(j) \/ SeesNone(j) \/ Replaces(j)
  BY <1>1 DEF Keeps, Creates, SeesNone, Replaces
<1>4. job'[j].at # "idle" /\ AnswersTruly(j)
  BY <1>1 DEF AnswersTruly, Steps
<1>5. QED
  BY <1>1, <1>2, <1>3, <1>4 DEF StepEffect

(* A step that leaves Docker and the directories alone. *)
LEMMA SameHost ==
  ASSUME RMTypeOK, HostUnchanged
  PROVE  HostTypeOK' /\ Managed' = Managed
BY DEF RMTypeOK, HostUnchanged, HostTypeOK, Managed

(* A status other than absent, put on a container that exists *)
LEMMA PutManaged ==
  ASSUME RMTypeOK, NEW c \in Containers, containers[c] # "absent",
         NEW s \in ContainerStatus, Put(c, s)
  PROVE  /\ containers' \in [Containers -> ContainerStatus \cup {"absent"}]
         /\ Managed' = Managed
BY DEF RMTypeOK, Put, Managed, ContainerStatus

LEMMA RemoveManaged ==
  ASSUME RMTypeOK, NEW c \in Containers, containers[c] # "absent", Remove(c)
  PROVE  /\ containers' \in [Containers -> ContainerStatus \cup {"absent"}]
         /\ attached' \subseteq Containers
         /\ c \in Managed /\ Managed' = Managed \ {c}
BY DEF RMTypeOK, Remove, Put, Managed

LEMMA EnsureEffect ==
  ASSUME RMTypeOK, NEW j \in Jobs, Ensure(j)
  PROVE  StepEffect(j)
<1> USE ReplyType DEF At, Goto, Acting, Steps
<1> DEFINE c == job[j].on
<1>0. /\ Failure \in Replies /\ ~ Failure.ok
      /\ HostTypeOK /\ job[j] \in JobRecord
      /\ c \in Containers \cup {None} /\ "absent" \notin ContainerStatus
      /\ job[j].at \in Acting => c \in Containers
  BY DEF Failure, RMTypeOK, HostTypeOK, JobRecord, ContainerStatus
<1>1. CASE EnsurePrepare(j)
  <2>1. Managed' = Managed /\ HostTypeOK'
    BY <1>0, <1>1 DEF EnsurePrepare, Managed, HostTypeOK
  <2>2. QED
    BY <1>0, <1>1, <2>1, AdvanceEffect, AnswerEffect DEF EnsurePrepare
<1>2. CASE EnsureList(j)
  <2>1. Managed' = Managed /\ HostTypeOK'
    BY <1>2, SameHost DEF EnsureList
  <2>2. CASE Managed = {} /\ Goto(j, "create")
    BY <1>0, <1>2, <2>1, <2>2, AdvanceEffect DEF EnsureList
  <2>3. CASE \E d \in Managed : Advance(j, "inspect", d, "absent")
    BY <1>0, <1>2, <2>1, <2>3, AdvanceEffect DEF EnsureList, Managed
  <2>4. QED  BY <1>2, <2>2, <2>3 DEF EnsureList
<1>3. CASE EnsureInspect(j)
  <2>1. Managed' = Managed /\ HostTypeOK'
    BY <1>3, SameHost DEF EnsureInspect
  <2>2. PICK step \in {"boot", "ready", "discard"} : Goto(j, step)
    BY <1>3 DEF EnsureInspect
  <2>3. QED
    BY <1>0, <1>3, <2>1, <2>2, AdvanceEffect DEF EnsureInspect
<1>4. CASE EnsureBoot(j)
  <2>1. c \in Containers /\ containers[c] # "absent"
    BY <1>0, <1>4 DEF EnsureBoot
  <2>2. PICK s \in {"running", "exited"} : Put(c, s)
    BY <1>4 DEF EnsureBoot
  <2>3. Managed' = Managed /\ HostTypeOK'
    BY <1>0, <1>4, <2>1, <2>2, PutManaged
    DEF EnsureBoot, HostTypeOK, ContainerStatus
  <2>4. QED
    BY <1>0, <1>4, <2>3, AdvanceEffect, AnswerEffect DEF EnsureBoot
<1>5. CASE EnsureDiscard(j)
  <2>1. c \in Managed /\ Managed' = Managed \ {c} /\ HostTypeOK'
    BY <1>0, <1>5, RemoveManaged DEF EnsureDiscard, Gone, HostTypeOK
  <2>2. QED
    BY <1>0, <1>5, <2>1, AdvanceEffect DEF EnsureDiscard
<1>6. CASE EnsureCreate(j)
  <2>1. CASE \E d \in FreshIds : Put(d, "created") /\ Advance(j, "connect", d, "absent")
    <3>1. PICK d \in FreshIds : Put(d, "created") /\ Advance(j, "connect", d, "absent")
      BY <2>1
    <3>2. d \in Containers \ Managed /\ Managed' = Managed \cup {d} /\ HostTypeOK'
      BY <1>0, <1>6, <3>1
      DEF EnsureCreate, FreshIds, Put, Managed, ContainerStatus, HostTypeOK
    <3>3. QED
      BY <1>0, <1>6, <3>1, <3>2, AdvanceEffect DEF EnsureCreate
  <2>2. CASE UNCHANGED containers /\ Answer(j, Failure)
    <3>1. Managed' = Managed /\ HostTypeOK'
      BY <1>0, <1>6, <2>2 DEF EnsureCreate, Managed, HostTypeOK
    <3>2. QED
      BY <1>0, <1>6, <2>2, <3>1, AnswerEffect DEF EnsureCreate
  <2>3. QED  BY <1>6, <2>1, <2>2 DEF EnsureCreate
<1>7. CASE EnsureConnect(j)
  <2>1. Managed' = Managed /\ HostTypeOK'
    BY <1>0, <1>7 DEF EnsureConnect, Managed, HostTypeOK
  <2>2. QED
    BY <1>0, <1>7, <2>1, AdvanceEffect DEF EnsureConnect
<1>8. CASE EnsureFirstBoot(j)
  <2>1. c \in Containers /\ containers[c] # "absent"
    BY <1>0, <1>8 DEF EnsureFirstBoot
  <2>2. PICK s \in {"running", "exited"} : Put(c, s)
    BY <1>8 DEF EnsureFirstBoot
  <2>3. Managed' = Managed /\ HostTypeOK'
    BY <1>0, <1>8, <2>1, <2>2, PutManaged
    DEF EnsureFirstBoot, HostTypeOK, ContainerStatus
  <2>4. QED
    BY <1>0, <1>8, <2>3, AdvanceEffect DEF EnsureFirstBoot
<1>9. CASE EnsureCleanup(j)
  <2>1. Managed' \subseteq Managed /\ HostTypeOK'
    BY <1>0, <1>9, RemoveManaged DEF EnsureCleanup, Gone, HostTypeOK
  <2>2. QED
    BY <1>0, <1>9, <2>1, AnswerEffect DEF EnsureCleanup
<1>10. CASE EnsureReady(j)
  <2>1. Managed' = Managed /\ HostTypeOK'
    BY <1>10, SameHost DEF EnsureReady
  <2>2. QED
    BY <1>0, <1>10, <2>1, AdvanceEffect, AnswerEffect DEF EnsureReady
<1>11. CASE EnsureReport(j)
  <2>1. Managed' = Managed /\ HostTypeOK'
    BY <1>11, SameHost DEF EnsureReport
  <2> DEFINE r == Reply("running", containers[c] = "running")
  <2>2. r \in Replies /\ r.observed = "running"
    BY DEF Reply, Replies, ObservedState
  <2>3. QED
    BY <1>0, <1>11, <2>1, <2>2, AnswerEffect DEF EnsureReport
<1>12. CASE EnsureRaises(j)
  <2>1. Managed' = Managed /\ HostTypeOK'
    BY <1>12, SameHost DEF EnsureRaises, Raises
  <2>2. QED
    BY <1>0, <1>12, <2>1, AnswerEffect DEF EnsureRaises, Raises
<1>13. QED
  BY <1>1, <1>2, <1>3, <1>4, <1>5, <1>6, <1>7, <1>8, <1>9, <1>10, <1>11, <1>12
  DEF Ensure

LEMMA CallEffect ==
  ASSUME RMTypeOK, NEW j \in Jobs, Step(j), ~ Ensure(j)
  PROVE  StepEffect(j)
<1> USE ReplyType DEF At, Acting, Steps
<1> DEFINE c == job[j].on
<1>0. /\ Failure \in Replies /\ ~ Failure.ok
      /\ HostTypeOK /\ job[j] \in JobRecord
      /\ c \in Containers \cup {None} /\ "absent" \notin ContainerStatus
      /\ job[j].at \in Acting => c \in Containers
  BY DEF Failure, RMTypeOK, HostTypeOK, JobRecord, ContainerStatus
<1>1. /\ Reply("stopped", FALSE) \in Replies /\ Reply("deleted", FALSE) \in Replies
  BY DEF ObservedState
<1>2. CASE LookupConflict(j)
  <2>1. Managed' = Managed /\ HostTypeOK'
    BY <1>2, SameHost DEF LookupConflict
  <2>2. QED
    BY <1>0, <1>2, <2>1, AnswerEffect DEF LookupConflict
<1>3. CASE StopLookup(j)
  <2>1. Managed' = Managed /\ HostTypeOK'
    BY <1>3, SameHost DEF StopLookup
  <2>2. CASE Answer(j, Reply("stopped", FALSE))
    BY <1>0, <1>1, <1>3, <2>1, <2>2, AnswerEffect DEF StopLookup
  <2>3. CASE \E d \in Managed : Advance(j, "act", d, containers[d])
    <3>1. PICK d \in Managed : Advance(j, "act", d, containers[d])
      BY <2>3
    <3>2. d \in Containers /\ containers[d] \in ContainerStatus
      BY <1>0 DEF Managed, HostTypeOK
    <3>3. QED
      BY <1>0, <1>3, <2>1, <3>1, <3>2, AdvanceEffect DEF StopLookup
  <2>4. QED  BY <1>3, <2>2, <2>3 DEF StopLookup
<1>4. CASE StopAct(j)
  <2>1. Managed' = Managed /\ HostTypeOK'
    BY <1>0, <1>4, PutManaged DEF StopAct, Gone, HostTypeOK, ContainerStatus
  <2>2. QED
    BY <1>0, <1>1, <1>4, <2>1, AnswerEffect DEF StopAct
<1>5. CASE DeleteLookup(j)
  <2>1. Managed' = Managed /\ HostTypeOK'
    BY <1>5, SameHost DEF DeleteLookup
  <2>2. QED
    BY <1>0, <1>5, <2>1, AdvanceEffect DEF DeleteLookup, Managed
<1>6. CASE DeleteAct(j)
  <2>1. Managed' \subseteq Managed /\ HostTypeOK'
    BY <1>0, <1>6, RemoveManaged DEF DeleteAct, Gone, HostTypeOK
  <2>2. QED
    BY <1>0, <1>6, <2>1, AdvanceEffect DEF DeleteAct
<1>7. CASE DeleteWipe(j)
  <2>1. Managed' = Managed /\ HostTypeOK'
    BY <1>0, <1>7 DEF DeleteWipe, Managed, HostTypeOK
  <2>2. QED
    BY <1>0, <1>1, <1>7, <2>1, AnswerEffect DEF DeleteWipe
<1>8. CASE GetLookup(j)
  <2>1. Managed' = Managed /\ HostTypeOK'
    BY <1>8, SameHost DEF GetLookup
  <2>2. CASE Answer(j, Reply("deleted", FALSE))
    BY <1>0, <1>1, <1>8, <2>1, <2>2, AnswerEffect DEF GetLookup
  <2>3. CASE \E d \in Managed : Advance(j, "act", d, containers[d])
    <3>1. PICK d \in Managed : Advance(j, "act", d, containers[d])
      BY <2>3
    <3>2. d \in Containers /\ containers[d] \in ContainerStatus
      BY <1>0 DEF Managed, HostTypeOK
    <3>3. QED
      BY <1>0, <1>8, <2>1, <3>1, <3>2, AdvanceEffect DEF GetLookup
  <2>4. QED  BY <1>8, <2>2, <2>3 DEF GetLookup
<1>9. CASE GetReport(j)
  <2>1. Managed' = Managed /\ HostTypeOK'
    BY <1>9, SameHost DEF GetReport
  <2> DEFINE r == Reply(ObservedOf(job[j].seen), containers[c] = "running")
  <2>2. r \in Replies
    <3>1. ObservedOf(job[j].seen) \in ObservedState
      BY DEF ObservedOf, ObservedState
    <3>2. QED  BY <3>1
  <2>3. QED
    BY <1>0, <1>9, <2>1, <2>2, AnswerEffect DEF GetReport
<1>10. CASE CallRaises(j)
  <2>1. Managed' = Managed /\ HostTypeOK'
    BY <1>10, SameHost DEF CallRaises, Raises
  <2>2. QED
    BY <1>0, <1>10, <2>1, AnswerEffect DEF CallRaises, Raises
<1>11. CASE ListRaises(j)
  <2>1. Managed' = Managed /\ HostTypeOK'
    BY <1>11, SameHost DEF ListRaises
  <2>2. QED
    BY <1>0, <1>11, <2>1, AnswerEffect DEF ListRaises
<1>12. QED
  BY <1>2, <1>3, <1>4, <1>5, <1>6, <1>7, <1>8, <1>9, <1>10, <1>11 DEF Step

(* One Docker call of a handler, whichever it is *)
LEMMA StepSummary ==
  ASSUME RMTypeOK, NEW j \in Jobs, Step(j)
  PROVE  StepEffect(j)
BY EnsureEffect, CallEffect

-----------------------------------------------------------------------------
LEMMA DriftType ==
  ASSUME RMTypeOK, Drift
  PROVE  RMTypeOK' /\ Managed' = Managed /\ job' = job
<1>1. PICK c \in Containers, s \in DriftTo : containers[c] = "running" /\ Put(c, s)
  BY DEF Drift
<1>2. containers[c] # "absent" /\ s \in ContainerStatus
  BY <1>1, DriftAssumption
<1>3. QED
  BY <1>1, <1>2, PutManaged DEF Drift, RMTypeOK

LEMMA CrashType ==
  ASSUME RMTypeOK, RMCrash
  PROVE  /\ RMTypeOK' /\ Managed' = Managed
         /\ \A j \in Jobs :
              \/ job'[j] = job[j]
              \/ /\ job[j].at # "idle"
                 /\ job'[j].at = "replied" /\ job'[j].op = job[j].op
                 /\ ~ job'[j].reply.ok
<1>1. Managed' = Managed
  BY DEF RMCrash, HostUnchanged, Managed
<1>2. \A j \in Jobs : /\ job'[j] \in JobRecord
                      /\ job'[j].at \in Acting => job'[j].on \in Containers
  <2> TAKE j \in Jobs
  <2>1. job[j] \in JobRecord /\ (job[j].at \in Acting => job[j].on \in Containers)
    BY DEF RMTypeOK
  <2>2. CASE job[j].at \in {"idle", "replied"}
    BY <2>1, <2>2 DEF RMCrash
  <2>3. CASE job[j].at \notin {"idle", "replied"}
    <3>1. job'[j] = [job[j] EXCEPT !.at = "replied", !.on = None,
                                   !.seen = "absent", !.reply = Failure]
      BY <2>3 DEF RMCrash
    <3>2. job'[j] \in JobRecord /\ job'[j].at = "replied"
      BY <2>1, <3>1, ReplyType DEF JobRecord, Steps
    <3>3. QED  BY <3>2 DEF Acting
  <2>4. QED  BY <2>2, <2>3
<1>3. job' \in [Jobs -> JobRecord]
  BY <1>2 DEF RMCrash
<1>4. RMTypeOK'
  BY <1>2, <1>3 DEF RMTypeOK, RMCrash, HostUnchanged
<1>5. \A j \in Jobs :
        \/ job'[j] = job[j]
        \/ /\ job[j].at # "idle"
           /\ job'[j].at = "replied" /\ job'[j].op = job[j].op
           /\ ~ job'[j].reply.ok
  BY DEF RMTypeOK, RMCrash, JobRecord, Failure
<1>6. QED  BY <1>1, <1>4, <1>5

LEMMA SubmitType ==
  ASSUME RMTypeOK, NEW j \in Jobs, NEW op \in Ops, NEW wipe \in BOOLEAN,
         Submit(j, op, wipe), HostUnchanged
  PROVE  /\ RMTypeOK' /\ Managed' = Managed
         /\ \A i \in Jobs \ {j} : job'[i] = job[i]
         /\ job[j].at = "idle" /\ job'[j].op = op
         /\ job'[j].at \in {"begin", "list"}
<1>1. job' \in [Jobs -> JobRecord]
  BY ReplyType DEF RMTypeOK, Submit, NoJob, JobRecord, FirstStep, Steps
<1>2. /\ \A i \in Jobs \ {j} : job'[i] = job[i]
      /\ job[j].at = "idle" /\ job'[j].op = op
      /\ job'[j].at \in {"begin", "list"}
  BY DEF RMTypeOK, Submit, NoJob, FirstStep
<1>3. QED
  BY <1>1, <1>2, SameHost DEF RMTypeOK, HostTypeOK, Acting

LEMMA ReleaseType ==
  ASSUME RMTypeOK, NEW j \in Jobs, Release(j), HostUnchanged
  PROVE  /\ RMTypeOK' /\ Managed' = Managed
         /\ \A i \in Jobs \ {j} : job'[i] = job[i]
         /\ job'[j] = NoJob /\ job'[j].at = "idle"
<1>1. job' \in [Jobs -> JobRecord]
  BY ReplyType DEF RMTypeOK, Release, NoJob, JobRecord
<1>2. /\ \A i \in Jobs \ {j} : job'[i] = job[i]
      /\ job'[j] = NoJob /\ NoJob.at = "idle"
  BY DEF RMTypeOK, Release, NoJob
<1>3. QED
  BY <1>1, <1>2, SameHost DEF RMTypeOK, HostTypeOK, Acting

LEMMA RMInitType == RMInit => RMTypeOK /\ Managed = {} /\ Creating = {}
<1>1. NoJob \in JobRecord /\ NoJob.at = "idle"
  BY ReplyType DEF NoJob, JobRecord
<1>2. ASSUME RMInit  PROVE \A j \in Jobs : job[j] = NoJob
  BY <1>2 DEF RMInit
<1>3. ASSUME RMInit  PROVE job \in [Jobs -> JobRecord]
  BY <1>1, <1>3 DEF RMInit
<1>4. ASSUME RMInit
      PROVE  /\ containers \in [Containers -> ContainerStatus \cup {"absent"}]
             /\ attached \subseteq Containers /\ config \in BOOLEAN
             /\ Managed = {}
  BY <1>4 DEF RMInit, Managed
<1>5. QED
  BY <1>1, <1>2, <1>3, <1>4 DEF RMTypeOK, Creating, Acting

LEMMA CallType ==
  ASSUME RMTypeOK, NEW j \in Jobs, Call(j)
  PROVE  RMTypeOK' /\ Managed' = Managed /\ Creating' \subseteq Creating
<1>1. PICK op \in Ops, wipe \in BOOLEAN : Submit(j, op, wipe)
  BY DEF Call
<1>2. QED
  BY <1>1, SubmitType DEF Call, Creating

LEMMA HangupType ==
  ASSUME RMTypeOK, NEW j \in Jobs, Hangup(j)
  PROVE  RMTypeOK' /\ Managed' = Managed /\ Creating' \subseteq Creating
BY ReleaseType DEF Hangup, Creating

(* Docker's statuses, the network, the config flag and every thread's request *)
(* keep the shape the handlers rely on, however many requests run at once; in *)
(* particular a thread that is to act on a container holds one.              *)
THEOREM ManagerTypeCorrect == RMSpec => []RMTypeOK
<1>1. RMInit => RMTypeOK
  BY RMInitType
<1>2. RMTypeOK /\ [RMNext]_rmVars => RMTypeOK'
  <2> SUFFICES ASSUME RMTypeOK, [RMNext]_rmVars  PROVE RMTypeOK'
    OBVIOUS
  <2>1. CASE \E j \in Jobs : Call(j)
    BY <2>1, CallType
  <2>2. CASE \E j \in Jobs : Step(j)
    BY <2>2, StepSummary DEF StepEffect
  <2>3. CASE \E j \in Jobs : Hangup(j)
    BY <2>3, HangupType
  <2>4. CASE Drift
    BY <2>4, DriftType
  <2>5. CASE RMCrash
    BY <2>5, CrashType
  <2>6. CASE UNCHANGED rmVars
    BY <2>6 DEF rmVars, RMTypeOK
  <2>7. QED
    BY <2>1, <2>2, <2>3, <2>4, <2>5, <2>6 DEF RMNext
<1>3. QED
  BY <1>1, <1>2, PTL DEF RMSpec

-----------------------------------------------------------------------------
(* The bound on containers *)
LEMMA FiniteParts ==
  /\ IsFiniteSet(Jobs) /\ Cardinality(Jobs) \in Nat
  /\ IsFiniteSet(Managed) /\ Cardinality(Managed) \in Nat
  /\ IsFiniteSet(Creating) /\ Cardinality(Creating) \in Nat
  /\ Cardinality(Creating) <= Cardinality(Jobs)
<1>1. IsFiniteSet(Managed)
  BY FiniteAssumption, FS_Subset DEF Managed
<1>2. IsFiniteSet(Creating) /\ Cardinality(Creating) <= Cardinality(Jobs)
  BY FiniteAssumption, FS_Subset DEF Creating
<1>3. QED
  BY <1>1, <1>2, FiniteAssumption, FS_CardinalityType

(* Neither count grows. *)
LEMMA Shrinks ==
  ASSUME ContainersBounded, Managed' \subseteq Managed, Creating' \subseteq Creating
  PROVE  ContainersBounded'
<1>1. /\ Cardinality(Managed') <= Cardinality(Managed) /\ IsFiniteSet(Managed')
      /\ Cardinality(Creating') <= Cardinality(Creating) /\ IsFiniteSet(Creating')
  BY FiniteParts, FS_Subset
<1>2. Cardinality(Managed') \in Nat /\ Cardinality(Creating') \in Nat
  BY <1>1, FS_CardinalityType
<1>3. QED
  BY <1>1, <1>2, FiniteParts DEF ContainersBounded

LEMMA BoundedStep ==
  ASSUME ContainersBounded, NEW j \in Jobs, StepEffect(j)
  PROVE  ContainersBounded'
<1>1. \A i \in Jobs \ {j} : i \in Creating' <=> i \in Creating
  BY DEF StepEffect, Creating
<1>2. CASE Keeps(j)
  <2>1. Creating' \subseteq Creating
    BY <1>1, <1>2 DEF Keeps, Creating
  <2>2. QED  BY <1>2, <2>1, Shrinks DEF Keeps
<1>3. CASE Creates(j)
  <2>1. j \in Creating /\ Creating' = Creating \ {j}
    BY <1>1, <1>3 DEF Creates, Creating
  <2>2. Cardinality(Creating') = Cardinality(Creating) - 1
    BY <2>1, FiniteParts, FS_RemoveElement
  <2>3. PICK c \in Containers \ Managed : Managed' = Managed \cup {c}
    BY <1>3 DEF Creates
  <2>4. Cardinality(Managed') = Cardinality(Managed) + 1
    BY <2>3, FiniteParts, FS_AddElement
  <2>5. QED  BY <2>2, <2>4, FiniteParts DEF ContainersBounded
<1>4. CASE SeesNone(j)
  <2>1. Cardinality(Managed') = 0
    BY <1>4, FS_EmptySet DEF SeesNone
  <2>2. IsFiniteSet(Creating') /\ Cardinality(Creating') <= Cardinality(Jobs)
    BY FiniteAssumption, FS_Subset DEF Creating
  <2>3. Cardinality(Creating') \in Nat
    BY <2>2, FS_CardinalityType
  <2>4. QED  BY <2>1, <2>2, <2>3, FiniteParts DEF ContainersBounded
<1>5. CASE Replaces(j)
  <2>1. j \notin Creating /\ Creating' = Creating \cup {j}
    BY <1>1, <1>5 DEF Replaces, Creating
  <2>2. Cardinality(Creating') = Cardinality(Creating) + 1
    BY <2>1, FiniteParts, FS_AddElement
  <2>3. PICK c \in Managed : Managed' = Managed \ {c}
    BY <1>5 DEF Replaces
  <2>4. Cardinality(Managed') = Cardinality(Managed) - 1
    BY <2>3, FiniteParts, FS_RemoveElement
  <2>5. QED  BY <2>2, <2>4, FiniteParts DEF ContainersBounded
<1>6. QED
  BY <1>2, <1>3, <1>4, <1>5 DEF StepEffect

(* However many requests the service serves at once, and whatever Docker,    *)
(* the containers and the service itself do meanwhile, the containers of a   *)
(* runtime and the requests about to create one are at most as many as the   *)
(* requests.  The invariant needs no strengthening beyond the type: it       *)
(* counts the intention to create a container with the containers.           *)
THEOREM ManagerContainersBounded == RMSpec => []ContainersBounded
<1>1. RMInit => ContainersBounded
  BY RMInitType, FiniteParts, FS_EmptySet DEF ContainersBounded
<1>2. RMTypeOK /\ ContainersBounded /\ [RMNext]_rmVars => ContainersBounded'
  <2> SUFFICES ASSUME RMTypeOK, ContainersBounded, [RMNext]_rmVars
               PROVE  ContainersBounded'
    OBVIOUS
  <2>1. CASE \E j \in Jobs : Call(j)
    BY <2>1, CallType, Shrinks
  <2>2. CASE \E j \in Jobs : Step(j)
    BY <2>2, StepSummary, BoundedStep
  <2>3. CASE \E j \in Jobs : Hangup(j)
    BY <2>3, HangupType, Shrinks
  <2>4. CASE Drift
    BY <2>4, DriftType, Shrinks DEF Creating
  <2>5. CASE RMCrash
    <3>1. Creating' \subseteq Creating
      BY <2>5, CrashType DEF Creating
    <3>2. QED  BY <2>5, <3>1, CrashType, Shrinks
  <2>6. CASE UNCHANGED rmVars
    BY <2>6, Shrinks DEF rmVars, Managed, Creating
  <2>7. QED
    BY <2>1, <2>2, <2>3, <2>4, <2>5, <2>6 DEF RMNext
<1>3. QED
  BY <1>1, <1>2, ManagerTypeCorrect, PTL DEF RMSpec

-----------------------------------------------------------------------------
(* What a request served alone finds and leaves *)
Single    == \A c, d \in Managed : c = d
HasConfig == Managed # {} => config

(* The container in hand is the only one, and there is none where one is to  *)
(* be created or the directories are to go.  The containers may drift.       *)
Track(j) ==
  /\ job[j].at \in Acting => Managed = {job[j].on}
  /\ job[j].at \in {"create", "wipe"} => Managed = {}
  /\ job[j].op = "ensure" /\ job[j].at \notin {"idle", "begin", "replied"} => config
  /\ Replied(j, "stop") => \A c \in Containers : containers[c] # "running"
  /\ Replied(j, "delete") => Managed = {} /\ (job[j].wipe => ~ config)

(* While no container drifts, what the request saw of it is still so.        *)
ReadyReply(j) ==
  /\ config /\ job[j].reply.url
  /\ \E c \in attached : Managed = {c} /\ containers[c] = "running"
TrueReply(j) ==
  \/ Managed = {} /\ job[j].reply.observed = "deleted"
  \/ \E c \in Managed : /\ job[j].reply.observed = ObservedOf(containers[c])
                        /\ job[j].reply.url = (containers[c] = "running")

Steady(j) ==
  /\ At(j, "ensure", "report") =>
       job[j].on \in attached /\ containers[job[j].on] = "running"
  /\ At(j, "get", "act") => job[j].seen = containers[job[j].on]
  /\ Replied(j, "ensure") => ReadyReply(j)
  /\ Replied(j, "get") => TrueReply(j)

(* The host side of an answer or of a move, seen from the request *)
LEMMA TrackAnswer ==
  ASSUME RMTypeOK, NEW j \in Jobs, NEW r \in Replies, Answer(j, r),
         job[j].op = "stop" /\ r.ok => \A c \in Containers : containers'[c] # "running",
         job[j].op = "delete" /\ r.ok => Managed' = {} /\ (job[j].wipe => ~ config')
  PROVE  Track(j)'
BY AnswerJob DEF Track, Replied, At, Acting, RMTypeOK

LEMMA TrackAdvance ==
  ASSUME RMTypeOK, NEW j \in Jobs, NEW step \in Steps \ {"replied"},
         NEW c \in Containers \cup {None}, NEW s \in ContainerStatus \cup {"absent"},
         Advance(j, step, c, s),
         step \in Acting => Managed' = {c},
         step \in {"create", "wipe"} => Managed' = {},
         job[j].op = "ensure" => config'
  PROVE  Track(j)'
BY AdvanceJob DEF Track, Replied, At, RMTypeOK

LEMMA EnsureTrack ==
  ASSUME RMTypeOK, NEW j \in Jobs, Single, HasConfig, Track(j), Ensure(j)
  PROVE  Track(j)' /\ Single' /\ HasConfig'
<1> USE ReplyType DEF At, Goto, Steps
<1> DEFINE c == job[j].on
<1>0. /\ Failure \in Replies /\ ~ Failure.ok /\ job[j].op = "ensure"
      /\ job[j] \in JobRecord /\ c \in Containers \cup {None}
      /\ "absent" \notin ContainerStatus /\ "absent" \in ContainerStatus \cup {"absent"}
      /\ job[j].at \in Acting => c \in Containers /\ Managed = {c}
      /\ \A d \in Managed : d \in Containers /\ Managed = {d}
  BY DEF Failure, RMTypeOK, JobRecord, ContainerStatus, Single, Track, Managed, Acting,
         Ensure, EnsurePrepare, EnsureList, EnsureInspect, EnsureBoot, EnsureDiscard,
         EnsureCreate, EnsureConnect, EnsureFirstBoot, EnsureCleanup, EnsureReady,
         EnsureReport, EnsureRaises, Raises
<1> DEFINE Goal == Track(j)' /\ Single' /\ HasConfig'
<1>1. ASSUME Answer(j, Failure), Managed' \subseteq Managed, config' = config  PROVE Goal
  <2>1. Track(j)'
    BY <1>0, <1>1, TrackAnswer
  <2>2. QED  BY <1>1, <2>1 DEF Single, HasConfig
<1>2. CASE EnsurePrepare(j)
  <2>1. Managed' = Managed
    BY <1>2 DEF EnsurePrepare, Managed
  <2>2. CASE config' = TRUE /\ Goto(j, "list")
    BY <1>0, <2>1, <2>2, TrackAdvance DEF Acting, Single, HasConfig
  <2>3. QED  BY <1>1, <1>2, <2>1, <2>2 DEF EnsurePrepare
<1>3. ASSUME HostUnchanged, config,
             NEW step \in {"create", "inspect", "boot", "ready", "discard", "report"},
             NEW d \in Containers \cup {None}, Advance(j, step, d, "absent"),
             step = "create" => Managed = {}, step # "create" => Managed = {d}
      PROVE  Goal
  <2>1. Managed' = Managed /\ config' = config
    BY <1>3, SameHost DEF HostUnchanged
  <2>2. Track(j)'
    BY <1>0, <1>3, <2>1, TrackAdvance DEF Acting
  <2>3. QED  BY <2>1, <2>2 DEF Single, HasConfig
<1>4. job[j].at # "begin" => config
  BY <1>0 DEF Track, Ensure, EnsurePrepare, EnsureList, EnsureInspect, EnsureBoot,
         EnsureDiscard, EnsureCreate, EnsureConnect, EnsureFirstBoot, EnsureCleanup,
         EnsureReady, EnsureReport, EnsureRaises, Raises
<1>5. CASE EnsureList(j)
  BY <1>0, <1>3, <1>4, <1>5 DEF EnsureList
<1>6. CASE EnsureInspect(j)
  <2>1. PICK step \in {"boot", "ready", "discard"} : Goto(j, step)
    BY <1>6 DEF EnsureInspect
  <2>2. QED  BY <1>0, <1>3, <1>4, <1>6, <2>1 DEF EnsureInspect, Acting
<1>7. ASSUME c \in Containers, containers[c] # "absent", NEW s \in ContainerStatus,
             Put(c, s), Managed = {c}, config, config' = config,
             \/ Answer(j, Failure)
             \/ \E step \in {"ready", "cleanup"} : Goto(j, step)
      PROVE  Goal
  <2>1. Managed' = Managed
    BY <1>7, PutManaged
  <2>2. ASSUME NEW step \in {"ready", "cleanup"}, Goto(j, step)  PROVE Track(j)'
    BY <1>0, <1>7, <2>1, <2>2, TrackAdvance DEF Acting
  <2>3. QED  BY <1>1, <1>7, <2>1, <2>2 DEF Single, HasConfig
<1>8. CASE EnsureBoot(j)
  <2>1. PICK s \in {"running", "exited"} :
          Put(c, s) /\ (Answer(j, Failure) \/ Goto(j, "ready"))
    BY <1>8 DEF EnsureBoot
  <2>2. QED
    BY <1>0, <1>4, <1>7, <1>8, <2>1 DEF EnsureBoot, Acting, ContainerStatus
<1>9. CASE EnsureFirstBoot(j)
  <2>1. PICK s \in {"running", "exited"} :
          Put(c, s) /\ (Goto(j, "cleanup") \/ Goto(j, "ready"))
    BY <1>9 DEF EnsureFirstBoot
  <2>2. QED
    BY <1>0, <1>4, <1>7, <1>9, <2>1 DEF EnsureFirstBoot, Acting, ContainerStatus
<1>10. CASE EnsureDiscard(j)
  <2>1. Managed' = {} /\ config' = config /\ config
    BY <1>0, <1>4, <1>10, RemoveManaged DEF EnsureDiscard, Gone, Acting
  <2>2. Track(j)'
    BY <1>0, <1>10, <2>1, TrackAdvance DEF EnsureDiscard, Acting
  <2>3. QED  BY <2>1, <2>2 DEF Single, HasConfig
<1>11. CASE EnsureCreate(j)
  <2>1. Managed = {} /\ config /\ config' = config
    BY <1>4, <1>11 DEF EnsureCreate, Track
  <2>2. ASSUME NEW d \in FreshIds, Put(d, "created"), Advance(j, "connect", d, "absent")
        PROVE  Goal
    <3>1. d \in Containers /\ Managed' = {d}
      BY <2>1, <2>2 DEF FreshIds, Put, Managed, ContainerStatus, RMTypeOK
    <3>2. Track(j)'
      BY <1>0, <2>1, <2>2, <3>1, TrackAdvance DEF Acting
    <3>3. QED  BY <2>1, <3>1, <3>2 DEF Single, HasConfig
  <2>3. QED
    BY <1>1, <1>11, <2>1, <2>2 DEF EnsureCreate, Managed
<1>12. CASE EnsureConnect(j)
  <2>1. Managed' = {c} /\ config' = config /\ config
    BY <1>0, <1>4, <1>12 DEF EnsureConnect, Managed, Acting
  <2>2. Track(j)'
    BY <1>0, <1>12, <2>1, TrackAdvance DEF EnsureConnect, Acting
  <2>3. QED  BY <2>1, <2>2 DEF Single, HasConfig
<1>13. CASE EnsureCleanup(j)
  BY <1>0, <1>1, <1>13, RemoveManaged DEF EnsureCleanup, Gone, Acting
<1>14. ASSUME HostUnchanged, Answer(j, Failure)  PROVE Goal
  BY <1>1, <1>14, SameHost DEF HostUnchanged
<1>15. CASE EnsureReady(j)
  BY <1>0, <1>3, <1>4, <1>14, <1>15 DEF EnsureReady, Acting
<1>16. CASE EnsureReport(j)
  <2> DEFINE r == Reply("running", containers[c] = "running")
  <2>1. r \in Replies
    BY DEF Reply, Replies, ObservedState
  <2>2. Managed' = Managed /\ config' = config
    BY <1>16, SameHost DEF EnsureReport, HostUnchanged
  <2>3. Track(j)'
    BY <1>0, <1>16, <2>1, TrackAnswer DEF EnsureReport
  <2>4. QED  BY <2>2, <2>3 DEF Single, HasConfig
<1>17. CASE EnsureRaises(j)
  BY <1>14, <1>17 DEF EnsureRaises, Raises
<1>18. QED
  BY <1>2, <1>5, <1>6, <1>8, <1>9, <1>10, <1>11, <1>12, <1>13, <1>15, <1>16, <1>17
  DEF Ensure

LEMMA CallTrack ==
  ASSUME RMTypeOK, NEW j \in Jobs, Single, HasConfig, Track(j), Step(j), ~ Ensure(j)
  PROVE  Track(j)' /\ Single' /\ HasConfig'
<1> USE ReplyType DEF At, Steps
<1> DEFINE c == job[j].on
           Goal == Track(j)' /\ Single' /\ HasConfig'
<1>00. /\ Failure \in Replies /\ ~ Failure.ok
       /\ Reply("stopped", FALSE) \in Replies /\ Reply("deleted", FALSE) \in Replies
       /\ "absent" \notin ContainerStatus
  BY DEF Failure, ContainerStatus, ObservedState
<1>01. \A d \in Managed :
         d \in Containers /\ Managed = {d} /\ containers[d] \in ContainerStatus
  BY DEF RMTypeOK, Managed, Single
<1>02. /\ job[j] \in JobRecord /\ c \in Containers \cup {None}
       /\ job[j].at \in Acting => c \in Containers /\ Managed = {c}
  BY DEF RMTypeOK, JobRecord, Track
<1>0. /\ Failure \in Replies /\ ~ Failure.ok
      /\ Reply("stopped", FALSE) \in Replies /\ Reply("deleted", FALSE) \in Replies
      /\ job[j] \in JobRecord /\ c \in Containers \cup {None}
      /\ "absent" \notin ContainerStatus
      /\ job[j].at \in Acting => c \in Containers /\ Managed = {c}
      /\ \A d \in Managed :
           d \in Containers /\ Managed = {d} /\ containers[d] \in ContainerStatus
  BY <1>00, <1>01, <1>02
<1>1. ASSUME HostUnchanged  PROVE Managed' = Managed /\ Single' /\ HasConfig'
  BY <1>1, SameHost DEF HostUnchanged, Single, HasConfig
<1>2. ASSUME HostUnchanged, Answer(j, Failure)  PROVE Goal
  BY <1>0, <1>1, <1>2, TrackAnswer
<1>3. ASSUME HostUnchanged, job[j].op # "ensure", NEW d \in Managed,
             NEW s \in ContainerStatus \cup {"absent"}, Advance(j, "act", d, s)
      PROVE  Goal
  <2>1. Track(j)'
    BY <1>0, <1>1, <1>3, TrackAdvance
  <2>2. QED  BY <1>1, <1>3, <2>1
<1>4. CASE LookupConflict(j)
  BY <1>2, <1>4 DEF LookupConflict
<1>5. CASE ListRaises(j)
  BY <1>2, <1>5 DEF ListRaises
<1>6. CASE CallRaises(j)
  BY <1>2, <1>6 DEF CallRaises, Raises
<1>7. CASE StopLookup(j)
  <2>1. ASSUME \A d \in Managed : containers[d] \in {"exited", "created"},
               Answer(j, Reply("stopped", FALSE))
        PROVE  Goal
    <3>1. \A d \in Containers : containers'[d] # "running"
      BY <1>7, <2>1 DEF StopLookup, HostUnchanged, Managed
    <3>2. Track(j)'
      BY <1>0, <1>7, <2>1, <3>1, TrackAnswer DEF StopLookup
    <3>3. QED  BY <1>1, <1>7, <3>2 DEF StopLookup
  <2>2. QED
    BY <1>0, <1>3, <1>7, <2>1 DEF StopLookup
<1>8. CASE StopAct(j)
  <2>1. c \in Containers /\ Managed = {c}
    BY <1>0, <1>8 DEF StopAct, Acting
  <2>2. Managed' = Managed /\ config' = config /\ Put(c, "exited")
    BY <1>8, <2>1, PutManaged DEF StopAct, Gone, ContainerStatus
  <2>3. \A d \in Containers : containers'[d] # "running"
    BY <2>1, <2>2 DEF Put, Managed, RMTypeOK
  <2>4. Track(j)'
    BY <1>0, <1>8, <2>3, TrackAnswer DEF StopAct
  <2>5. QED  BY <2>2, <2>4 DEF Single, HasConfig
<1>9. CASE DeleteLookup(j)
  <2>1. ASSUME Managed = {}, Advance(j, "wipe", None, "absent")  PROVE Goal
    <3>1. Track(j)'
      BY <1>0, <1>1, <1>9, <2>1, TrackAdvance DEF DeleteLookup, Acting
    <3>2. QED  BY <1>1, <1>9, <3>1 DEF DeleteLookup
  <2>2. QED
    BY <1>3, <1>9, <2>1 DEF DeleteLookup
<1>10. CASE DeleteAct(j)
  <2>1. Managed' = {} /\ config' = config
    BY <1>0, <1>10, RemoveManaged DEF DeleteAct, Gone, Acting
  <2>2. Track(j)'
    BY <1>0, <1>10, <2>1, TrackAdvance DEF DeleteAct, Acting
  <2>3. QED  BY <2>1, <2>2 DEF Single, HasConfig
<1>11. CASE DeleteWipe(j)
  <2>1. Managed' = {} /\ Single' /\ HasConfig'
    BY <1>11 DEF DeleteWipe, Track, Managed, Single, HasConfig
  <2>2. Track(j)'
    BY <1>0, <1>11, <2>1, TrackAnswer DEF DeleteWipe
  <2>3. QED  BY <2>1, <2>2
<1>12. CASE GetLookup(j)
  <2>1. ASSUME Answer(j, Reply("deleted", FALSE))  PROVE Goal
    BY <1>0, <1>1, <1>12, <2>1, TrackAnswer DEF GetLookup
  <2>2. QED
    BY <1>0, <1>3, <1>12, <2>1 DEF GetLookup
<1>13. CASE GetReport(j)
  <2> DEFINE r == Reply(ObservedOf(job[j].seen), containers[c] = "running")
  <2>1. r \in Replies
    <3>1. ObservedOf(job[j].seen) \in ObservedState
      BY DEF ObservedOf, ObservedState
    <3>2. QED  BY <3>1
  <2>2. Track(j)'
    BY <1>0, <1>13, <2>1, TrackAnswer DEF GetReport
  <2>3. QED  BY <1>1, <1>13, <2>2 DEF GetReport
<1>14. QED
  BY <1>4, <1>5, <1>6, <1>7, <1>8, <1>9, <1>10, <1>11, <1>12, <1>13 DEF Step

(* A request served alone keeps to one container whatever that does meanwhile. *)
LEMMA StepTrack ==
  ASSUME RMTypeOK, NEW j \in Jobs, Single, HasConfig, Track(j), Step(j)
  PROVE  Track(j)' /\ Single' /\ HasConfig'
BY EnsureTrack, CallTrack

(* If nothing else touches the container, the answer says what is there.      *)
LEMMA StepSteady ==
  ASSUME RMTypeOK, NEW j \in Jobs, Single, HasConfig, Track(j), Steady(j), Step(j)
  PROVE  Steady(j)'
<1> USE ReplyType DEF At, Goto, Steps, Steady, Replied
<1> DEFINE c == job[j].on
<1>0. /\ job[j] \in JobRecord /\ ~ Failure.ok /\ Failure \in Replies
      /\ Managed \subseteq Containers
      /\ job[j].at \in Acting => c \in Containers /\ Managed = {c}
  BY DEF RMTypeOK, Failure, Managed, Track
<1>1. ASSUME NEW r \in Replies, Answer(j, r),
             job[j].op \in {"ensure", "get"} => ~ r.ok
      PROVE  Steady(j)'
  BY <1>0, <1>1, AnswerJob DEF RMTypeOK
<1>2. ASSUME NEW step \in Steps \ {"replied", "report", "act"},
             NEW d \in Containers \cup {None}, Advance(j, step, d, "absent")
      PROVE  Steady(j)'
  BY <1>0, <1>2, AdvanceJob DEF RMTypeOK
<1>3. CASE EnsureReady(j)
  <2>1. ASSUME c \in attached, containers[c] = "running", Goto(j, "report")
        PROVE  Steady(j)'
    <3>1. job'[j].op = "ensure" /\ job'[j].at = "report" /\ job'[j].on = c
      BY <1>0, <1>3, <2>1, AdvanceJob DEF EnsureReady, RMTypeOK, JobRecord
    <3>2. QED
      BY <1>3, <2>1, <3>1 DEF EnsureReady, HostUnchanged
  <2>2. QED
    BY <1>0, <1>1, <1>3, <2>1 DEF EnsureReady
<1>4. CASE EnsureReport(j)
  <2> DEFINE r == Reply("running", containers[c] = "running")
  <2>1. r \in Replies /\ Answer(j, r) /\ r.url = (containers[c] = "running")
    BY <1>4 DEF EnsureReport, Reply, Replies, ObservedState
  <2>2. /\ job'[j].op = "ensure" /\ job'[j].at = "replied" /\ job'[j].reply = r
        /\ c \in attached /\ containers[c] = "running" /\ Managed = {c} /\ config
    BY <1>0, <1>4, <2>1, AnswerJob DEF EnsureReport, RMTypeOK, Acting, Track
  <2>3. Managed' = Managed /\ UNCHANGED <<containers, attached, config>>
    BY <1>4, SameHost DEF EnsureReport, HostUnchanged
  <2>4. QED
    BY <2>1, <2>2, <2>3 DEF ReadyReply
<1>5. CASE GetLookup(j)
  <2>1. Managed' = Managed /\ UNCHANGED <<containers, attached, config>>
    BY <1>5, SameHost DEF GetLookup, HostUnchanged
  <2>2. ASSUME Managed = {}, Answer(j, Reply("deleted", FALSE))  PROVE Steady(j)'
    <3>1. job'[j].op = "get" /\ job'[j].reply = Reply("deleted", FALSE) /\ job'[j].at = "replied"
      BY <1>5, <2>2, AnswerJob DEF GetLookup, RMTypeOK, ObservedState
    <3>2. QED  BY <2>1, <2>2, <3>1 DEF TrueReply, Reply
  <2>3. ASSUME NEW d \in Managed, Advance(j, "act", d, containers[d])  PROVE Steady(j)'
    <3>1. /\ job'[j].op = "get" /\ job'[j].at = "act" /\ job'[j].on = d
          /\ job'[j].seen = containers[d]
      BY <1>0, <1>5, <2>3 DEF GetLookup, Advance, RMTypeOK, JobRecord
    <3>2. QED  BY <2>1, <3>1
  <2>4. QED  BY <1>5, <2>2, <2>3 DEF GetLookup
<1>6. CASE GetReport(j)
  <2> DEFINE r == Reply(ObservedOf(containers[c]), containers[c] = "running")
  <2>1. job[j].seen = containers[c] /\ Managed = {c} /\ c \in Containers
    BY <1>0, <1>6 DEF GetReport, Acting
  <2>2. ObservedOf(containers[c]) \in ObservedState
    BY DEF ObservedOf, ObservedState
  <2>3. r \in Replies /\ Answer(j, r) /\ r.url = (containers[c] = "running")
        /\ r.observed = ObservedOf(containers[c])
    BY <1>6, <2>1, <2>2 DEF GetReport, Reply, Replies
  <2>4. job'[j].op = "get" /\ job'[j].at = "replied" /\ job'[j].reply = r
    BY <1>6, <2>3, AnswerJob DEF GetReport, RMTypeOK
  <2>5. Managed' = Managed /\ UNCHANGED <<containers, attached, config>>
    BY <1>6, SameHost DEF GetReport, HostUnchanged
  <2>6. QED
    BY <2>1, <2>3, <2>4, <2>5 DEF TrueReply
<1>7. CASE Ensure(j) /\ ~ EnsureReady(j) /\ ~ EnsureReport(j)
  BY <1>0, <1>1, <1>2, <1>7
  DEF Ensure, EnsurePrepare, EnsureList, EnsureInspect, EnsureBoot, EnsureDiscard,
      EnsureCreate, EnsureConnect, EnsureFirstBoot, EnsureCleanup, EnsureRaises, Raises,
      JobRecord, FreshIds
<1>8. CASE ListRaises(j) \/ LookupConflict(j) \/ CallRaises(j)
  BY <1>0, <1>1, <1>8 DEF ListRaises, LookupConflict, CallRaises, Raises
<1>9. CASE \/ StopLookup(j) \/ StopAct(j) \/ DeleteLookup(j) \/ DeleteAct(j)
           \/ DeleteWipe(j)
  <2>1. job[j].op \in {"stop", "delete"}
    BY <1>9 DEF StopLookup, StopAct, DeleteLookup, DeleteAct, DeleteWipe
  <2>2. job'[j].op = job[j].op
    BY StepSummary DEF StepEffect
  <2>3. QED  BY <2>1, <2>2
<1>10. QED
  BY <1>3, <1>4, <1>5, <1>6, <1>7, <1>8, <1>9 DEF Step

-----------------------------------------------------------------------------
(* One request at a time *)
OneBusy == \A i, j \in Jobs : job[i].at # "idle" /\ job[j].at # "idle" => i = j

(* The delivery properties are about an answer; the invariant follows the     *)
(* request from its first listing to that answer.                            *)
SerialInv ==
  /\ RMTypeOK /\ OneBusy /\ Single /\ HasConfig
  /\ \A j \in Jobs : Track(j) /\ Steady(j)

(* A thread without a request, or with a request that has just arrived or     *)
(* just failed, promises nothing yet.                                        *)
Fresh(j) == \/ job[j].at \in {"idle", "begin"}
            \/ job[j].at = "list" /\ job[j].op # "ensure"
            \/ job[j].at = "replied" /\ ~ job[j].reply.ok

LEMMA NothingDue ==
  ASSUME NEW j \in Jobs, Fresh(j)
  PROVE  Track(j) /\ Steady(j)
BY DEF Fresh, Track, Steady, Replied, At, Acting

(* A step elsewhere that leaves the host alone *)
LEMMA TrackKept ==
  ASSUME HostUnchanged, NEW j \in Jobs, Track(j), job'[j] = job[j] \/ Fresh(j)'
  PROVE  Track(j)'
BY DEF HostUnchanged, Fresh, Track, Replied, At, Acting, Managed

LEMMA SteadyKept ==
  ASSUME HostUnchanged, NEW j \in Jobs, Steady(j), job'[j] = job[j] \/ Fresh(j)'
  PROVE  Steady(j)'
BY DEF HostUnchanged, Fresh, Steady, Replied, At, ReadyReply, TrueReply, Managed

(* A container that leaves "running" by itself breaks none of what Track says. *)
LEMMA DriftStops ==
  ASSUME RMTypeOK, Drift
  PROVE  \A d \in Containers : containers'[d] = "running" => containers[d] = "running"
<1>1. PICK c \in Containers, s \in DriftTo : containers[c] = "running" /\ Put(c, s)
  BY DEF Drift
<1>2. QED
  BY <1>1, DriftAssumption DEF Put, RMTypeOK

LEMMA DriftTrack ==
  ASSUME RMTypeOK, Drift, NEW j \in Jobs, Track(j)
  PROVE  Track(j)'
<1>1. Managed' = Managed /\ job' = job /\ config' = config
  BY DriftType DEF Drift
<1>2. QED
  BY <1>1, DriftStops DEF Track, Replied, At

(* get_state only looks. *)
LEMMA GetLooksOnly ==
  ASSUME NEW j \in Jobs, Step(j), job[j].op = "get"
  PROVE  HostUnchanged
BY DEF Step, Ensure, EnsurePrepare, EnsureList, EnsureInspect, EnsureBoot, EnsureDiscard,
       EnsureCreate, EnsureConnect, EnsureFirstBoot, EnsureCleanup, EnsureReady,
       EnsureReport, EnsureRaises, ListRaises, LookupConflict, StopLookup, StopAct,
       DeleteLookup, DeleteAct, DeleteWipe, GetLookup, GetReport, CallRaises, Raises,
       At, HostUnchanged

LEMMA SubmitFirst ==
  ASSUME RMTypeOK, NEW j \in Jobs, NEW op \in Ops, NEW wipe \in BOOLEAN,
         Submit(j, op, wipe)
  PROVE  job'[j].at # "idle" /\ Fresh(j)'
BY DEF RMTypeOK, Submit, NoJob, FirstStep, Fresh

LEMMA SerialStep ==
  ASSUME SerialInv, [SerialNext]_rmVars
  PROVE  SerialInv'
<1> USE DEF SerialInv
<1>1. ASSUME NoneBusy, NEW j \in Jobs, Call(j)  PROVE SerialInv'
  <2>1. PICK op \in Ops, wipe \in BOOLEAN : Submit(j, op, wipe)
    BY <1>1 DEF Call
  <2>2. /\ RMTypeOK' /\ Managed' = Managed /\ config' = config
        /\ \A i \in Jobs \ {j} : job'[i].at = "idle"
        /\ Fresh(j)'
    BY <1>1, <2>1, SubmitType, SubmitFirst DEF Call, HostUnchanged, NoneBusy
  <2>3. \A i \in Jobs : Track(i)' /\ Steady(i)'
    BY <2>2 DEF Fresh, Track, Steady, Replied, At, Acting
  <2>4. QED  BY <2>2, <2>3 DEF OneBusy, Single, HasConfig
<1>2. ASSUME NoneBusy, Drift  PROVE SerialInv'
  <2>1. RMTypeOK' /\ Managed' = Managed /\ job' = job /\ config' = config
    BY <1>2, DriftType DEF Drift
  <2>2. \A i \in Jobs : Track(i)' /\ Steady(i)'
    BY <1>2, <2>1 DEF NoneBusy, Track, Steady, Replied, At, Acting
  <2>3. QED  BY <2>1, <2>2 DEF OneBusy, Single, HasConfig
<1>3. ASSUME NEW j \in Jobs, Step(j)  PROVE SerialInv'
  <2>1. StepEffect(j)
    BY <1>3, StepSummary
  <2>2. \A i \in Jobs \ {j} : job'[i].at = "idle"
    BY <2>1 DEF StepEffect, OneBusy
  <2>3. Track(j)' /\ Steady(j)' /\ Single' /\ HasConfig'
    BY <1>3, StepTrack, StepSteady
  <2>4. \A i \in Jobs \ {j} : Track(i)' /\ Steady(i)'
    BY <2>2 DEF Track, Steady, Replied, At, Acting
  <2>5. QED  BY <2>1, <2>2, <2>3, <2>4 DEF StepEffect, OneBusy
<1>4. ASSUME NEW j \in Jobs, Hangup(j)  PROVE SerialInv'
  <2>1. /\ RMTypeOK' /\ Managed' = Managed /\ config' = config
        /\ \A i \in Jobs : job'[i].at = "idle"
    BY <1>4, ReleaseType DEF Hangup, HostUnchanged, OneBusy
  <2>2. \A i \in Jobs : Track(i)' /\ Steady(i)'
    BY <2>1 DEF Track, Steady, Replied, At, Acting
  <2>3. QED  BY <2>1, <2>2 DEF OneBusy, Single, HasConfig
<1>5. ASSUME RMCrash  PROVE SerialInv'
  <2>1. /\ RMTypeOK' /\ Managed' = Managed
        /\ UNCHANGED <<containers, attached, config>>
        /\ \A i \in Jobs :
             \/ job'[i] = job[i]
             \/ job[i].at # "idle" /\ job'[i].at = "replied" /\ ~ job'[i].reply.ok
    BY <1>5, CrashType DEF RMCrash, HostUnchanged
  <2>2. ASSUME NEW i \in Jobs  PROVE Track(i)' /\ Steady(i)'
    BY <1>5, <2>1, <2>2, TrackKept, SteadyKept DEF Fresh, RMCrash
  <2>3. QED  BY <2>1, <2>2 DEF OneBusy, Single, HasConfig
<1>6. ASSUME UNCHANGED rmVars  PROVE SerialInv'
  <2>1. /\ Managed' = Managed /\ RMTypeOK'
        /\ UNCHANGED <<containers, attached, config, job>>
    BY <1>6 DEF rmVars, Managed, RMTypeOK
  <2>2. ASSUME NEW i \in Jobs  PROVE Track(i)' /\ Steady(i)'
    BY <2>1, <2>2, TrackKept, SteadyKept DEF HostUnchanged
  <2>3. QED  BY <2>1, <2>2 DEF OneBusy, Single, HasConfig
<1>7. QED
  BY <1>1, <1>2, <1>3, <1>4, <1>5, <1>6 DEF SerialNext

LEMMA SerialInvariant == SerialSpec => []SerialInv
<1>1. RMInit => SerialInv
  <2> SUFFICES ASSUME RMInit PROVE SerialInv
    OBVIOUS
  <2>1. \A j \in Jobs : job[j].at = "idle"
    BY DEF RMInit, NoJob
  <2>2. \A j \in Jobs : Track(j) /\ Steady(j)
    BY <2>1, NothingDue DEF Fresh
  <2>3. QED
    BY <2>1, <2>2, RMInitType DEF SerialInv, OneBusy, Single, HasConfig
<1>2. SerialInv /\ [SerialNext]_rmVars => SerialInv'
  BY SerialStep
<1>3. QED
  BY <1>1, <1>2, PTL DEF SerialSpec

(* Served one at a time, an ensure_running that answers "running" leaves the  *)
(* one container running, on the network, with its config and a browser URL,  *)
(* whatever container, in whatever state, it found, and whatever failed on    *)
(* the way in this request or in earlier ones.                               *)
THEOREM SerialEnsure == SerialSpec => []EnsureDelivers
<1>1. SerialInv => EnsureDelivers
  BY DEF SerialInv, Steady, ReadyReply, EnsureDelivers
<1>2. QED  BY <1>1, SerialInvariant, PTL

(* Served one at a time, a stop that answers "stopped" leaves nothing running. *)
THEOREM SerialStop == SerialSpec => []StopDelivers
<1>1. SerialInv => StopDelivers
  BY DEF SerialInv, Track, StopDelivers
<1>2. QED  BY <1>1, SerialInvariant, PTL

(* Served one at a time, a delete that answers "deleted" leaves no container,  *)
(* and no config directory where it was told to wipe the workspace.          *)
THEOREM SerialDelete == SerialSpec => []DeleteDelivers
<1>1. SerialInv => DeleteDelivers
  BY DEF SerialInv, Track, DeleteDelivers
<1>2. QED  BY <1>1, SerialInvariant, PTL
=============================================================================
