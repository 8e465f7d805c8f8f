------------------------------ MODULE WayInProofs ------------------------------
(***************************************************************************)
(* Theorems about the two pages by which a user gets to their workspace.     *)
(*                                                                         *)
(* InvitePage, for any usernames: a link that the page calls accepted, revoked *)
(* or expired is so, and the consumer of a link is never told that it is used. *)
(* What carries them: an answer is still true when it reaches the page,        *)
(* although the link and the accounts change in between.                     *)
(*                                                                         *)
(* EntryPage, for any number of chains and starts and any deadline: no more   *)
(* tabs than starts, a page that says it waits has a chain that asks, and     *)
(* leaving it stops polling.  What carries them: unless a visit was refreshed *)
(* or left in the middle of a request, it has one chain at most, and its      *)
(* timer is the one remembered.                                             *)
(***************************************************************************)
EXTENDS InvitePage, EntryPage, FiniteSetTheorems, TLAPS

(* A link has a consumer from its acceptance on, whatever becomes of it.        *)
ConsumerKept ==
  /\ link.status = "pending" => link.by = Nobody
  /\ link.status = "consumed" => link.by # Nobody

(* The page is in the view that its request was made from, or has been left.    *)
ViewAwaits ==
  /\ fly.what = "none" => fly.answer = "none"
  /\ fly.what = "preview" => view \in {"loadingPreview", "left"}
  /\ fly.what = "accept" => view \in {"submitting", "left"} /\ username \in Usernames
  /\ view = "accepted" => username \in Usernames

(* An answer in flight is true: that a link is accepted, used or revoked.       *)
AnswerIsTrue ==
  /\ fly.answer = "accepted" => fly.what = "accept" /\ link.by = username
  /\ fly.answer = "already_consumed" => link.by # Nobody \/ (fly.what = "accept" /\ username \in taken)
  /\ fly.answer = "already_consumed" /\ fly.what = "accept" => link.by # username
  /\ fly.answer = "revoked" => link.status = "revoked"
  /\ fly.answer = "expired" => link.expired

LinkInv == InviteTypeOK /\ ConsumerKept /\ ViewAwaits /\ AnswerIsTrue /\ VerdictIsTrue

-----------------------------------------------------------------------------
LEMMA LinkInitInv == InviteInit => LinkInv
<1> SUFFICES ASSUME InviteInit PROVE LinkInv
  OBVIOUS
<1>1. InviteTypeOK
  BY DEF InviteInit, InviteTypeOK, Codes, LinkCodes, Answers
<1>2. ConsumerKept /\ ViewAwaits /\ AnswerIsTrue /\ VerdictIsTrue
  BY DEF InviteInit, ConsumerKept, ViewAwaits, AnswerIsTrue, VerdictIsTrue
<1> QED BY <1>1, <1>2 DEF LinkInv

(* What the API may do to the link and to the accounts, for anybody.           *)
LinkMoves ==
  /\ link' \in [status : {"pending", "revoked", "consumed"}, by : Usernames \cup {Nobody},
                login : Usernames \cup {Nobody}, expired : BOOLEAN]
  /\ taken \subseteq taken' /\ taken' \subseteq Usernames
  /\ link.by # Nobody => link'.by = link.by
  /\ link.by = Nobody /\ link'.by # Nobody => link'.by \notin taken
  /\ link.status = "revoked" => link'.status = "revoked"
  /\ link.expired => link'.expired
  /\ ConsumerKept'

LEMMA Unmoved ==
  ASSUME LinkInv, UNCHANGED <<link, taken>>
  PROVE  LinkMoves
BY DEF LinkInv, InviteTypeOK, LinkMoves, ConsumerKept

(* An acceptance: of a pending link under a free username, or a replay.         *)
LEMMA EffectMoves ==
  ASSUME LinkInv, NEW n \in Usernames, TakeEffect(n)
  PROVE  LinkMoves /\ (AcceptCode(n) = "accepted" => link'.by = n)
<1> USE DEF LinkInv, InviteTypeOK
<1>1. CASE AcceptCode(n) # "accepted"
  BY <1>1, Unmoved DEF TakeEffect
<1>2. CASE AcceptCode(n) = "accepted"
  <2>1. link' = [link EXCEPT !.status = "consumed", !.by = n] /\ taken' = taken \cup {n}
    BY <1>2 DEF TakeEffect
  <2>2. link'.status = "consumed" /\ link'.by = n
    BY <2>1
  <2>3. /\ link.status # "revoked"
        /\ link.status = "consumed" => link.by = n
        /\ link.status = "pending" => n \notin taken
    BY <1>2 DEF AcceptCode
  <2>4. n # Nobody
    BY NobodyIsNoName
  <2> QED BY <2>1, <2>2, <2>3, <2>4 DEF LinkMoves, ConsumerKept
<1> QED BY <1>1, <1>2

(* What was true of the link stays true when it moves.                         *)
LEMMA MovesKeepTruth ==
  ASSUME LinkInv, LinkMoves, UNCHANGED <<view, reason, username, fly>>
  PROVE  ViewAwaits' /\ AnswerIsTrue' /\ VerdictIsTrue'
<1> USE DEF LinkInv, LinkMoves
<1>1. ViewAwaits'
  BY DEF ViewAwaits
<1>2. AnswerIsTrue'
  BY NobodyIsNoName DEF AnswerIsTrue, ViewAwaits
<1>3. VerdictIsTrue'
  BY NobodyIsNoName DEF VerdictIsTrue, ViewAwaits
<1> QED BY <1>1, <1>2, <1>3

LEMMA LinkStepInv == LinkInv /\ [InviteNext]_inviteVars => LinkInv'
<1> SUFFICES ASSUME LinkInv, [InviteNext]_inviteVars PROVE LinkInv'
  OBVIOUS
<1> USE DEF LinkInv
<1>1. CASE ServeInvite
  <2> DEFINE a == fly'.answer
  <2>1. /\ UNCHANGED <<view, reason, username, leaving>>
        /\ a \in Answers /\ fly' = [fly EXCEPT !.answer = a]
    BY <1>1 DEF ServeInvite, PreviewCode, AcceptCode, Answers, Codes, LinkCodes, FormCodes, InviteTypeOK
  <2>2. LinkMoves /\ (a = "accepted" => fly.what = "accept" /\ link'.by = username)
    BY <1>1, Unmoved, EffectMoves DEF ServeInvite, PreviewCode, AcceptCode, ViewAwaits, InviteTypeOK
  <2>3. /\ a = "already_consumed" => link'.by # Nobody \/ (fly.what = "accept" /\ username \in taken')
        /\ a = "already_consumed" /\ fly.what = "accept" => link'.by # username
        /\ a = "revoked" => link'.status = "revoked"
        /\ a = "expired" => link'.expired
    <3>1. CASE fly.what = "preview" /\ a = PreviewCode /\ UNCHANGED <<link, taken>>
      <4>1. PreviewCode = "already_consumed" => link.status = "consumed"
        BY DEF PreviewCode
      <4>2. /\ PreviewCode = "revoked" => link.status = "revoked"
            /\ PreviewCode = "expired" => link.expired
        BY DEF PreviewCode
      <4>3. link' = link
        BY <3>1
      <4> QED BY <3>1, <4>1, <4>2, <4>3 DEF ConsumerKept
    <3>2. CASE fly.what = "accept" /\ a = AcceptCode(username) /\ TakeEffect(username)
      <4>1. username \in Usernames /\ username # Nobody
        BY <3>2, NobodyIsNoName DEF ViewAwaits
      <4>2. CASE a = "accepted"
        BY <4>2
      <4>3. CASE a # "accepted"
        <5>1. link' = link /\ taken' = taken
          BY <3>2, <4>3 DEF TakeEffect
        <5>2. (a = "revoked" => link.status = "revoked") /\ (a = "expired" => link.expired)
          BY <3>2 DEF AcceptCode
        <5>3. a = "already_consumed" =>
                \/ link.status = "consumed" /\ link.by # username
                \/ link.status = "pending" /\ username \in taken
          BY <3>2 DEF AcceptCode
        <5> QED BY <3>2, <4>1, <5>1, <5>2, <5>3 DEF ConsumerKept
      <4> QED BY <4>2, <4>3
    <3>3. CASE a \in {"unknown", "password_invalid"}
      BY <3>3
    <3>4. \A x : fly' = [fly EXCEPT !.answer = x] => a = x
      BY DEF InviteTypeOK
    <3> QED BY <1>1, <3>1, <3>2, <3>3, <3>4 DEF ServeInvite
  <2>4. InviteTypeOK' /\ ViewAwaits' /\ AnswerIsTrue'
    BY <1>1, <2>1, <2>2, <2>3 DEF ServeInvite, InviteTypeOK, LinkMoves, ViewAwaits, AnswerIsTrue
  <2>5. VerdictIsTrue'
    BY <2>1, <2>2, NobodyIsNoName DEF LinkMoves, VerdictIsTrue, ViewAwaits
  <2> QED BY <2>2, <2>4, <2>5 DEF LinkMoves
<1>2. CASE ElsewhereInvite
  <2>1. LinkMoves
    BY <1>2, EffectMoves, Unmoved DEF ElsewhereInvite, LinkMoves, InviteTypeOK, ConsumerKept
  <2>2. UNCHANGED <<view, reason, username, fly, leaving>>
    BY <1>2 DEF ElsewhereInvite
  <2> QED BY <2>1, <2>2, MovesKeepTruth DEF LinkMoves, InviteTypeOK
<1>3. CASE PreviewShown
  BY <1>3 DEF PreviewShown, NoFly, InviteTypeOK, ConsumerKept, ViewAwaits, AnswerIsTrue, VerdictIsTrue,
              Answers, Codes, LinkCodes, FormCodes
<1>4. CASE AcceptShown
  BY <1>4 DEF AcceptShown, NoFly, InviteTypeOK, ConsumerKept, ViewAwaits, AnswerIsTrue, VerdictIsTrue,
              Answers, Codes, LinkCodes, FormCodes
<1>5. ASSUME NEW n \in Usernames, HandleAccept(n) PROVE LinkInv'
  BY <1>5 DEF HandleAccept, FormIsShown, FormIsIdle, InviteTypeOK, ConsumerKept, ViewAwaits,
              AnswerIsTrue, VerdictIsTrue, Answers
<1>6. CASE BackToLogin \/ LeaveInvite \/ GoToWorkspace
  BY <1>6 DEF BackToLogin, LeaveInvite, GoToWorkspace, InviteTypeOK, ConsumerKept, ViewAwaits,
              AnswerIsTrue, VerdictIsTrue
<1>7. CASE ReloadInvite
  BY <1>7 DEF ReloadInvite, Mount, InviteTypeOK, ConsumerKept, ViewAwaits, AnswerIsTrue, VerdictIsTrue,
              Answers, Codes, LinkCodes
<1>8. CASE UNCHANGED inviteVars
  BY <1>8, Unmoved, MovesKeepTruth DEF inviteVars, LinkMoves, InviteTypeOK
<1> QED BY <1>1, <1>2, <1>3, <1>4, <1>5, <1>6, <1>7, <1>8 DEF InviteNext

LEMMA LinkInvariant == InviteSpec => []LinkInv
BY LinkInitInv, LinkStepInv, PTL DEF InviteSpec

(* Every variable keeps its type.                                             *)
THEOREM InviteTypeCorrect == InviteSpec => []InviteTypeOK
<1>1. LinkInv => InviteTypeOK
  BY DEF LinkInv
<1> QED BY <1>1, LinkInvariant, PTL

(* The page says that the link was accepted only when it was consumed under the    *)
(* username of the form, and that it is revoked or has expired only when it is     *)
(* and has, although the link changes while its answers are under way.  "Already   *)
(* used" is left out: it also means that the username is somebody else's.          *)
THEOREM VerdictsAreTrue == InviteSpec => []VerdictIsTrue
<1>1. LinkInv => VerdictIsTrue
  BY DEF LinkInv
<1> QED BY <1>1, LinkInvariant, PTL

(* The consumer of a link who submits once more is not told that it is used.    *)
THEOREM ConsumerNotRefused == InviteSpec => OwnAcceptanceIsNotRefused
<1>1. LinkInv /\ AcceptShown /\ view = "submitting" /\ link.by = username
        => view' # "previewInvalid" \/ reason' # "already_consumed"
  BY DEF LinkInv, AcceptShown, AnswerIsTrue, LinkCodes
<1>2. LinkInv /\ [InviteNext]_inviteVars =>
        [AcceptShown /\ view = "submitting" /\ link.by = username
           => view' # "previewInvalid" \/ reason' # "already_consumed"]_inviteVars
  BY <1>1
<1> QED BY <1>2, LinkInvariant, PTL DEF InviteSpec, OwnAcceptanceIsNotRefused
-----------------------------------------------------------------------------
(* A chain belongs to a visit that has begun.                                 *)
ChainsOfVisits == \A c \in LiveChains : chain[c].of \in 1 .. visit

(* The visit that is here has begun.                                         *)
HereIsAVisit == here => visit \in Visits

(* A visit has one chain, unless its polling got loose,                       *)
OneChain == \A c, d \in LiveChains : chain[c].of = chain[d].of /\ chain[c].of \notin loose => c = d

(* and pollingRef names its timer.                                           *)
TimerIsLatest ==
  \A c \in Chains : chain[c].at = "timer" /\ chain[c].of \notin loose => latest[chain[c].of] = c

EntryInv ==
  /\ EntryTypeOK /\ ChainsOfVisits /\ HereIsAVisit /\ OneChain /\ TimerIsLatest
  /\ OneTabPerStart /\ NobodyLeftWaiting /\ LeavingStopsPolling

-----------------------------------------------------------------------------
LEMMA EntryInitInv == EntryInit => EntryInv
<1> SUFFICES ASSUME EntryInit PROVE EntryInv
  OBVIOUS
<1>1. LiveChains = {}
  BY DEF EntryInit, LiveChains, Live, Idle
<1>2. EntryTypeOK
  <2>1. visit \in 0 .. MaxStarts /\ starts \in 0 .. MaxStarts /\ tabs \in Nat
    BY SomeStarts DEF EntryInit
  <2>2. here \in BOOLEAN /\ entry \in Waiting \cup GivenUp \cup Done /\ loose \subseteq Visits
    BY DEF EntryInit, Waiting
  <2>3. age \in [Visits -> 0 .. Deadline] /\ latest \in [Visits -> Chains \cup {NoChain}]
    BY SomeTime DEF EntryInit
  <2>4. chain \in [Chains -> ChainRecs]
    BY SomeStarts DEF EntryInit, Idle, ChainRecs
  <2> QED BY <2>1, <2>2, <2>3, <2>4 DEF EntryTypeOK
<1>3. OneTabPerStart
  BY <1>1, FS_EmptySet DEF OneTabPerStart, EntryInit
<1>4. TimerIsLatest
  BY DEF EntryInit, TimerIsLatest, Idle
<1> QED BY <1>1, <1>2, <1>3, <1>4
        DEF EntryInv, EntryInit, ChainsOfVisits, HereIsAVisit, OneChain, NobodyLeftWaiting, LeavingStopsPolling

LEMMA IdleRecord == Idle \in ChainRecs /\ Idle.at = "idle"
BY SomeStarts DEF Idle, ChainRecs

(* Counting the chains alive.                                                *)
LEMMA LiveIsFinite == IsFiniteSet(LiveChains) /\ Cardinality(LiveChains) \in Nat
<1>1. LiveChains \subseteq Chains
  BY DEF LiveChains
<1> QED BY <1>1, FiniteChains, FS_Subset, FS_CardinalityType

LEMMA FewerLive ==
  ASSUME LiveChains' \subseteq LiveChains
  PROVE  Cardinality(LiveChains') <= Cardinality(LiveChains) /\ Cardinality(LiveChains') \in Nat
<1>1. IsFiniteSet(LiveChains')
  BY LiveIsFinite, FS_Subset
<1> QED BY <1>1, LiveIsFinite, FS_Subset, FS_CardinalityType

LEMMA OneMoreLive ==
  ASSUME NEW c, LiveChains' \subseteq LiveChains \cup {c}
  PROVE  Cardinality(LiveChains') <= Cardinality(LiveChains) + 1 /\ Cardinality(LiveChains') \in Nat
<1>1. /\ IsFiniteSet(LiveChains \cup {c})
      /\ Cardinality(LiveChains \cup {c}) <= Cardinality(LiveChains) + 1
      /\ Cardinality(LiveChains \cup {c}) \in Nat
  BY LiveIsFinite, FS_AddElement, FS_CardinalityType
<1>2. /\ IsFiniteSet(LiveChains')
      /\ Cardinality(LiveChains') <= Cardinality(LiveChains \cup {c})
  BY <1>1, FS_Subset
<1>3. Cardinality(LiveChains') \in Nat
  BY <1>2, FS_CardinalityType
<1> QED BY <1>1, <1>2, <1>3, LiveIsFinite

LEMMA OneLessLive ==
  ASSUME NEW c \in LiveChains, LiveChains' \subseteq LiveChains \ {c}
  PROVE  Cardinality(LiveChains') + 1 <= Cardinality(LiveChains) /\ Cardinality(LiveChains') \in Nat
<1>1. /\ IsFiniteSet(LiveChains \ {c})
      /\ Cardinality(LiveChains \ {c}) = Cardinality(LiveChains) - 1
      /\ Cardinality(LiveChains \ {c}) \in Nat
  BY LiveIsFinite, FS_RemoveElement, FS_CardinalityType
<1>2. /\ IsFiniteSet(LiveChains')
      /\ Cardinality(LiveChains') <= Cardinality(LiveChains \ {c})
  BY <1>1, FS_Subset
<1>3. Cardinality(LiveChains') \in Nat
  BY <1>2, FS_CardinalityType
<1> QED BY <1>1, <1>2, <1>3, LiveIsFinite

-----------------------------------------------------------------------------
(* A start of polling for visit v, which stops its remembered timer.            *)
LEMMA StartEffect ==
  ASSUME EntryInv, NEW v \in Visits, StartPolling(v)
  PROVE  \E c \in Chains :
           /\ chain' \in [Chains -> ChainRecs]
           /\ chain'[c] = [at |-> "asked", of |-> v]
           /\ \A d \in Chains \ {c} : chain'[d] = chain[d] \/ chain'[d] = Idle
           /\ \A d \in Chains \ {c} : chain'[d] # Idle /\ chain[d].of = v /\ chain[d].at = "timer"
                                        => latest[v] # d
<1>1. PICK c \in Chains : chain' = [StopPolling(v) EXCEPT ![c] = [at |-> "asked", of |-> v]]
  BY DEF StartPolling
<1>2. StopPolling(v) \in [Chains -> ChainRecs]
  BY SomeStarts DEF StopPolling, EntryInv, EntryTypeOK, Idle, ChainRecs
<1>3. [at |-> "asked", of |-> v] \in ChainRecs
  BY SomeStarts DEF Visits, ChainRecs
<1>4. \A d \in Chains \ {c} : chain'[d] = StopPolling(v)[d]
  BY <1>1, <1>2
<1>5. \A d \in Chains : chain[d].of = v /\ chain[d].at = "timer" => chain[d] = [at |-> "timer", of |-> v]
  BY DEF EntryInv, EntryTypeOK, ChainRecs
<1> QED BY <1>1, <1>2, <1>3, <1>4, <1>5 DEF StopPolling

(* What becomes of the chains when their page is left.                         *)
LEMMA StopEffect ==
  ASSUME EntryInv, NEW v
  PROVE  /\ StopPolling(v) \in [Chains -> ChainRecs]
         /\ \A d \in Chains : StopPolling(v)[d] = chain[d] \/ StopPolling(v)[d] = Idle
         /\ \A d \in Chains : chain[d].at = "timer" /\ chain[d].of = v /\ latest[v] = d
                              => StopPolling(v)[d] = Idle
BY SomeStarts DEF StopPolling, EntryInv, EntryTypeOK, Idle, ChainRecs

LEMMA StepType ==
  ASSUME EntryInv, [EntryNext]_entryVars
  PROVE  EntryTypeOK'
<1> USE DEF EntryInv
<1>1. ASSUME NEW v \in Visits, StartPolling(v)
      PROVE  /\ starts' \in 0 .. MaxStarts /\ age' \in [Visits -> 0 .. Deadline]
             /\ latest' \in [Visits -> Chains \cup {NoChain}] /\ chain' \in [Chains -> ChainRecs]
  <2>1. chain' \in [Chains -> ChainRecs]
    BY <1>1, StartEffect
  <2>2. starts' \in 0 .. MaxStarts
    BY <1>1, SomeStarts DEF StartPolling, EntryTypeOK
  <2>3. age' \in [Visits -> 0 .. Deadline] /\ latest' \in [Visits -> Chains \cup {NoChain}]
    BY <1>1, SomeTime DEF StartPolling, EntryTypeOK
  <2> QED BY <2>1, <2>2, <2>3
<1>2. CASE Enter
  <2>1. visit' \in Visits /\ visit' \in 0 .. MaxStarts
    BY <1>2, SomeStarts DEF Enter, EntryTypeOK, Visits
  <2>2. here' \in BOOLEAN /\ entry' \in Waiting /\ tabs' = tabs /\ loose' = loose
    BY <1>2 DEF Enter, Waiting
  <2> QED BY <1>1, <1>2, <2>1, <2>2 DEF Enter, EntryTypeOK
<1>3. CASE ManualRefresh
  <2>1. visit \in Visits
    BY <1>3 DEF ManualRefresh, HereIsAVisit
  <2>2. loose' \subseteq Visits
    BY <1>3, <2>1 DEF ManualRefresh, EntryTypeOK
  <2> QED BY <1>1, <1>3, <2>1, <2>2 DEF ManualRefresh, EntryTypeOK
<1>4. CASE Leave
  <2>1. visit \in Visits
    BY <1>4 DEF Leave, HereIsAVisit
  <2>2. here' \in BOOLEAN /\ entry' \in Waiting
    BY <1>4 DEF Leave, Unmount, Waiting
  <2>3. loose' \subseteq Visits /\ latest' \in [Visits -> Chains \cup {NoChain}]
    BY <1>4, <2>1 DEF Leave, Unmount, EntryTypeOK
  <2> QED BY <1>4, <2>2, <2>3, StopEffect DEF Leave, EntryTypeOK
<1>5. CASE TimePasses
  <2>1. age' \in [Visits -> 0 .. Deadline]
    BY <1>5, SomeTime DEF TimePasses, EntryTypeOK
  <2> QED BY <1>5, <2>1 DEF TimePasses, EntryTypeOK
<1>6. ASSUME NEW c \in Chains, ChainStep(c) PROVE EntryTypeOK'
  <2>1. ASSUME NEW v, NEW s \in Waiting \cup GivenUp \cup Done, SetPageState(v, s)
        PROVE  entry' \in Waiting \cup GivenUp \cup Done
    BY <2>1 DEF SetPageState, EntryTypeOK
  <2>2. {"readyToRedirect", "runtimeNotReady", "noWorkspace", "runtimeMissing", "entryFailed", "timedOut"}
           \subseteq Waiting \cup GivenUp \cup Done
    BY DEF Waiting, GivenUp, Done
  <2>3. End(c) => chain' \in [Chains -> ChainRecs]
    BY SomeStarts DEF End, EntryTypeOK, Idle, ChainRecs
  <2>4. \A a \in {"asked", "timer"} : [chain EXCEPT ![c].at = a] \in [Chains -> ChainRecs]
    BY DEF EntryTypeOK, ChainRecs
  <2>5. CASE TimerFires(c)
    BY <2>1, <2>2, <2>3, <2>4, <2>5 DEF TimerFires, EntryTypeOK
  <2>6. CASE EntryReady(c)
    BY <2>1, <2>2, <2>3, <2>6 DEF EntryReady, EntryTypeOK
  <2>7. CASE EntryNotReady(c)
    BY <2>1, <2>2, <2>4, <2>7 DEF EntryNotReady, EntryTypeOK
  <2>8. CASE EntryStops(c)
    BY <2>1, <2>2, <2>3, <2>8 DEF EntryStops, EntryTypeOK
  <2>9. CASE EntryDisabled(c)
    <3>1. CASE ~ here
      BY <2>3, <2>9, <3>1 DEF EntryDisabled, EntryTypeOK
    <3>2. CASE here
      <4>1. visit \in Visits
        BY <3>2 DEF HereIsAVisit
      <4>2. chain' \in [Chains -> ChainRecs]
        <5>1. StopPolling(visit) \in [Chains -> ChainRecs]
          BY StopEffect
        <5>2. chain' = [StopPolling(visit) EXCEPT ![c] = Idle]
          BY <2>9, <3>2 DEF EntryDisabled
        <5> QED BY <5>1, <5>2, IdleRecord
      <4>3. here' \in BOOLEAN /\ entry' \in Waiting
        BY <2>9, <3>2 DEF EntryDisabled, Waiting
      <4>4. loose' \subseteq Visits /\ latest' \in [Visits -> Chains \cup {NoChain}]
        BY <2>9, <3>2, <4>1 DEF EntryDisabled, EntryTypeOK
      <4> QED BY <2>9, <4>2, <4>3, <4>4 DEF EntryDisabled, EntryTypeOK
    <3> QED BY <3>1, <3>2
  <2> QED BY <1>6, <2>5, <2>6, <2>7, <2>8, <2>9 DEF ChainStep
<1>7. CASE UNCHANGED entryVars
  BY <1>7 DEF entryVars, EntryTypeOK
<1> QED BY <1>2, <1>3, <1>4, <1>5, <1>6, <1>7 DEF EntryNext

-----------------------------------------------------------------------------
(* How the set of chains alive moves.                                         *)
LEMMA StartMovesLive ==
  ASSUME EntryInv, NEW v \in Visits, StartPolling(v)
  PROVE  \E c \in Chains : LiveChains' \subseteq LiveChains \cup {c}
<1>1. PICK c \in Chains : \A d \in Chains \ {c} : chain'[d] = chain[d] \/ chain'[d] = Idle
  BY StartEffect
<1> QED BY <1>1 DEF LiveChains, Live, Idle

LEMMA StepMovesLive ==
  ASSUME EntryInv, NEW c \in Chains, ChainStep(c)
  PROVE  /\ LiveChains' \subseteq LiveChains
         /\ EntryReady(c) => c \in LiveChains /\ LiveChains' \subseteq LiveChains \ {c}
<1> USE DEF EntryInv, EntryTypeOK, LiveChains, Live
<1>1. End(c) => LiveChains' \subseteq LiveChains \ {c}
  BY DEF End, Idle
<1>2. chain[c].at # "idle"
  BY DEF ChainStep, TimerFires, EntryReady, EntryNotReady, EntryStops, EntryDisabled
<1>3. EntryReady(c) => End(c)
  BY DEF EntryReady
<1>4. LiveChains' \subseteq LiveChains
  <2>1. CASE End(c)
    BY <1>1, <2>1
  <2>2. CASE \E a : chain' = [chain EXCEPT ![c].at = a]
    BY <1>2, <2>2
  <2>3. CASE chain' = [StopPolling(visit) EXCEPT ![c] = Idle]
    <3>1. /\ StopPolling(visit) \in [Chains -> ChainRecs]
          /\ \A d \in Chains : StopPolling(visit)[d] = chain[d] \/ StopPolling(visit)[d] = Idle
      BY StopEffect
    <3>2. \A d \in Chains : chain'[d] = chain[d] \/ chain'[d] = Idle
      BY <2>3, <3>1
    <3> QED BY <3>2, IdleRecord
  <2> QED BY <2>1, <2>2, <2>3
          DEF ChainStep, TimerFires, EntryReady, EntryNotReady, EntryStops, EntryDisabled
<1> QED BY <1>1, <1>2, <1>3, <1>4

LEMMA StepCounts ==
  ASSUME EntryInv, [EntryNext]_entryVars
  PROVE  OneTabPerStart'
<1> USE DEF EntryInv
<1>1. tabs \in Nat /\ starts \in Nat /\ Cardinality(LiveChains) \in Nat
  BY LiveIsFinite, SomeStarts DEF EntryTypeOK
<1>2. CASE LiveChains' \subseteq LiveChains /\ UNCHANGED <<tabs, starts>>
  BY <1>1, <1>2, FewerLive DEF OneTabPerStart
<1>3. ASSUME NEW v \in Visits, StartPolling(v), tabs' = tabs PROVE OneTabPerStart'
  <2>1. PICK c \in Chains : LiveChains' \subseteq LiveChains \cup {c}
    BY <1>3, StartMovesLive
  <2>2. starts' = starts + 1
    BY <1>3 DEF StartPolling
  <2>3. Cardinality(LiveChains') <= Cardinality(LiveChains) + 1 /\ Cardinality(LiveChains') \in Nat
    BY <2>1, OneMoreLive
  <2> QED BY <1>1, <1>3, <2>2, <2>3 DEF OneTabPerStart
<1>4. CASE Enter
  <2>1. visit' \in Visits
    BY <1>4, SomeStarts DEF Enter, EntryTypeOK, Visits
  <2> QED BY <1>3, <1>4, <2>1 DEF Enter
<1>5. CASE ManualRefresh
  BY <1>3, <1>5 DEF ManualRefresh, HereIsAVisit
<1>6. CASE Leave
  <2>1. LiveChains' \subseteq LiveChains
    BY <1>6, StopEffect DEF Leave, LiveChains, Live, Idle
  <2> QED BY <1>2, <1>6, <2>1 DEF Leave
<1>7. CASE TimePasses \/ UNCHANGED entryVars
  BY <1>2, <1>7 DEF TimePasses, entryVars, LiveChains, Live
<1>8. ASSUME NEW c \in Chains, ChainStep(c) PROVE OneTabPerStart'
  <2>1. CASE EntryReady(c)
    <3>1. c \in LiveChains /\ LiveChains' \subseteq LiveChains \ {c}
      BY <1>8, <2>1, StepMovesLive
    <3>2. tabs' = tabs + 1 /\ starts' = starts
      BY <2>1 DEF EntryReady
    <3> QED BY <1>1, <3>1, <3>2, OneLessLive DEF OneTabPerStart
  <2>2. CASE ~ EntryReady(c)
    BY <1>2, <1>8, <2>2, StepMovesLive
       DEF ChainStep, TimerFires, EntryNotReady, EntryStops, EntryDisabled
  <2> QED BY <2>1, <2>2
<1> QED BY <1>4, <1>5, <1>6, <1>7, <1>8 DEF EntryNext

-----------------------------------------------------------------------------
(* What a step of a chain leaves of the others.                                *)
LEMMA ChainStepKeeps ==
  ASSUME EntryInv, NEW c \in Chains, ChainStep(c)
  PROVE  /\ visit' = visit
         /\ \A d \in LiveChains' : d \in LiveChains /\ chain'[d].of = chain[d].of
         /\ \A d \in Chains \ {c} : chain'[d] = chain[d] \/ chain'[d] = Idle
<1> USE DEF EntryInv, EntryTypeOK, LiveChains, Live
<1>1. visit' = visit
  BY DEF ChainStep, TimerFires, EntryReady, EntryNotReady, EntryStops, EntryDisabled
<1>2. chain[c].at # "idle"
  BY DEF ChainStep, TimerFires, EntryReady, EntryNotReady, EntryStops, EntryDisabled
<1>3. CASE End(c)
  BY <1>1, <1>3, IdleRecord DEF End
<1>4. CASE \E a : chain' = [chain EXCEPT ![c].at = a]
  <2>1. \A d \in Chains : chain'[d].of = chain[d].of /\ (d # c => chain'[d] = chain[d])
    BY <1>4 DEF ChainRecs
  <2> QED BY <1>1, <1>2, <2>1
<1>5. CASE chain' = [StopPolling(visit) EXCEPT ![c] = Idle]
  <2>1. /\ StopPolling(visit) \in [Chains -> ChainRecs]
        /\ \A d \in Chains : StopPolling(visit)[d] = chain[d] \/ StopPolling(visit)[d] = Idle
    BY StopEffect
  <2>2. \A d \in Chains : chain'[d] = chain[d] \/ chain'[d] = Idle
    BY <1>5, <2>1
  <2> QED BY <1>1, <2>2, IdleRecord
<1> QED BY <1>3, <1>4, <1>5
        DEF ChainStep, TimerFires, EntryReady, EntryNotReady, EntryStops, EntryDisabled

LEMMA StepVisits ==
  ASSUME EntryInv, [EntryNext]_entryVars
  PROVE  ChainsOfVisits' /\ HereIsAVisit'
<1> USE DEF EntryInv, EntryTypeOK
<1>1. ASSUME NEW v \in Visits, v <= visit', visit <= visit', visit' \in Nat, StartPolling(v)
      PROVE  ChainsOfVisits'
  <2>1. PICK c \in Chains : /\ chain'[c] = [at |-> "asked", of |-> v]
                            /\ \A d \in Chains \ {c} : chain'[d] = chain[d] \/ chain'[d] = Idle
    BY <1>1, StartEffect
  <2>2. \A d \in LiveChains' : d = c \/ (d \in LiveChains /\ chain'[d] = chain[d])
    BY <2>1, IdleRecord DEF LiveChains, Live
  <2>3. chain'[c].of = v
    BY <2>1
  <2>4. v \in 1 .. visit' /\ 1 .. visit \subseteq 1 .. visit'
    BY <1>1, SomeStarts DEF Visits
  <2> QED BY <2>2, <2>3, <2>4 DEF ChainsOfVisits
<1>2. CASE Enter
  <2>1. /\ visit' \in Visits /\ visit' = visit + 1 /\ visit' \in Nat
        /\ visit' <= visit' /\ visit <= visit'
    BY <1>2, SomeStarts DEF Enter, Visits
  <2> QED BY <1>1, <1>2, <2>1 DEF Enter, HereIsAVisit
<1>3. CASE ManualRefresh
  <2>1. visit \in Visits /\ visit' = visit /\ visit' \in Nat /\ visit <= visit
    BY <1>3, SomeStarts DEF ManualRefresh, HereIsAVisit, Visits
  <2> QED BY <1>1, <1>3, <2>1 DEF ManualRefresh, HereIsAVisit
<1>4. CASE Leave
  <2>1. \A d \in Chains : chain'[d] = chain[d] \/ chain'[d] = Idle
    BY <1>4, StopEffect DEF Leave
  <2> QED BY <1>4, <2>1, IdleRecord DEF Leave, Unmount, ChainsOfVisits, HereIsAVisit, LiveChains, Live
<1>5. CASE TimePasses \/ UNCHANGED entryVars
  BY <1>5 DEF TimePasses, entryVars, ChainsOfVisits, HereIsAVisit, LiveChains, Live
<1>6. ASSUME NEW c \in Chains, ChainStep(c) PROVE ChainsOfVisits' /\ HereIsAVisit'
  <2>1. here' => here
    BY <1>6 DEF ChainStep, TimerFires, EntryReady, EntryNotReady, EntryStops, EntryDisabled
  <2> QED BY <1>6, <2>1, ChainStepKeeps DEF ChainsOfVisits, HereIsAVisit
<1> QED BY <1>2, <1>3, <1>4, <1>5, <1>6 DEF EntryNext

-----------------------------------------------------------------------------
(* A page that says it waits has a chain that asks.                           *)
LEMMA StepWaits ==
  ASSUME EntryInv, [EntryNext]_entryVars
  PROVE  NobodyLeftWaiting'
<1> USE DEF EntryInv, EntryTypeOK
<1>1. ASSUME NEW v \in Visits, StartPolling(v), v = visit' PROVE NobodyLeftWaiting'
  <2>1. PICK c \in Chains : chain'[c] = [at |-> "asked", of |-> v]
    BY <1>1, StartEffect
  <2>2. c \in LiveChains' /\ chain'[c].of = visit'
    BY <1>1, <2>1 DEF LiveChains, Live
  <2> QED BY <2>2 DEF NobodyLeftWaiting
<1>2. CASE Enter
  <2>1. visit' \in Visits
    BY <1>2, SomeStarts DEF Enter, Visits
  <2> QED BY <1>1, <1>2, <2>1 DEF Enter
<1>3. CASE ManualRefresh
  BY <1>1, <1>3 DEF ManualRefresh, HereIsAVisit
<1>4. CASE Leave
  BY <1>4 DEF Leave, Unmount, NobodyLeftWaiting
<1>5. CASE TimePasses \/ UNCHANGED entryVars
  BY <1>5 DEF TimePasses, entryVars, NobodyLeftWaiting, LiveChains, Live
<1>6. ASSUME NEW c \in Chains, ChainStep(c), here', entry' \in Waiting
      PROVE  \E d \in LiveChains' : chain'[d].of = visit'
  <2>1. here /\ here' = here /\ visit' = visit
    BY <1>6 DEF ChainStep, TimerFires, EntryReady, EntryNotReady, EntryStops, EntryDisabled
  <2>2. ASSUME chain[c].of = visit
        PROVE  \E a \in {"asked", "timer"} : chain' = [chain EXCEPT ![c].at = a]
    <3>1. ASSUME NEW s, SetPageState(chain[c].of, s) PROVE entry' = s
      BY <2>1, <2>2, <3>1 DEF SetPageState
    <3>2. ~ EntryReady(c) /\ ~ EntryStops(c)
      BY <1>6, <3>1 DEF EntryReady, EntryStops, Waiting
    <3>3. ~ EntryDisabled(c)
      BY <1>6, <2>1 DEF EntryDisabled
    <3>4. CASE TimerFires(c)
      BY <1>6, <3>1, <3>4 DEF TimerFires, Waiting
    <3>5. CASE EntryNotReady(c)
      BY <3>5 DEF EntryNotReady
    <3> QED BY <1>6, <3>2, <3>3, <3>4, <3>5 DEF ChainStep
  <2>3. CASE chain[c].of = visit
    <3>1. chain'[c].of = visit /\ chain'[c].at # "idle"
      BY <2>2, <2>3 DEF ChainRecs
    <3> QED BY <2>1, <3>1 DEF LiveChains, Live
  <2>4. CASE chain[c].of # visit
    <3>1. entry' = entry
      BY <1>6, <2>1, <2>4
         DEF ChainStep, TimerFires, EntryReady, EntryNotReady, EntryStops, EntryDisabled, SetPageState
    <3>2. PICK d \in LiveChains : chain[d].of = visit
      BY <1>6, <2>1, <3>1 DEF NobodyLeftWaiting
    <3>3. chain'[d] = chain[d]
      BY <1>6, <2>1, <2>4, <3>2
         DEF ChainStep, TimerFires, EntryReady, EntryNotReady, EntryStops, EntryDisabled, End, LiveChains
    <3> QED BY <2>1, <3>2, <3>3 DEF LiveChains, Live
  <2> QED BY <2>3, <2>4
<1> QED BY <1>2, <1>3, <1>4, <1>5, <1>6 DEF EntryNext, NobodyLeftWaiting

-----------------------------------------------------------------------------
(* stopPolling leaves nothing of a visit but what is loose or asking.            *)
LEMMA StopsAll ==
  ASSUME EntryInv, NEW v \in Visits, v \notin loose, NEW d \in LiveChains, chain[d].of = v
  PROVE  d \in Asking(v) \/ StopPolling(v)[d] = Idle
<1> USE DEF EntryInv, EntryTypeOK
<1>1. CASE chain[d].at = "asked"
  BY <1>1 DEF Asking, ChainRecs, LiveChains
<1>2. CASE chain[d].at = "timer"
  <2>1. latest[v] = d
    BY <1>2 DEF TimerIsLatest, LiveChains
  <2> QED BY <1>2, <2>1, StopEffect DEF LiveChains
<1> QED BY <1>1, <1>2 DEF LiveChains, Live, ChainRecs

Tidy == OneChain /\ TimerIsLatest /\ LeavingStopsPolling

LEMMA StartTidy ==
  ASSUME EntryInv, NEW v \in Visits, StartPolling(v), v = visit', here', loose \subseteq loose',
         v \notin loose' => \/ v \notin {chain[d].of : d \in LiveChains}
                            \/ Asking(v) = {},
         \A d \in LiveChains : chain[d].of # v => chain[d].of \in loose
  PROVE  Tidy'
<1> USE DEF EntryInv, EntryTypeOK
<1>1. PICK c \in Chains : chain' = [StopPolling(v) EXCEPT ![c] = [at |-> "asked", of |-> v]]
  BY DEF StartPolling
<1>2. latest' = [latest EXCEPT ![v] = NoChain]
  BY DEF StartPolling
<1>3. /\ StopPolling(v) \in [Chains -> ChainRecs]
      /\ \A d \in Chains : StopPolling(v)[d] = chain[d] \/ StopPolling(v)[d] = Idle
  BY StopEffect
<1>4. chain'[c].at = "asked" /\ chain'[c].of = v
  BY <1>1, <1>3
<1>5. ASSUME NEW d \in LiveChains', d # c
      PROVE  d \in LiveChains /\ chain'[d] = chain[d] /\ (chain[d].of \in loose')
  <2>1. d \in LiveChains /\ chain'[d] = chain[d] /\ StopPolling(v)[d] # Idle
    BY <1>1, <1>3, <1>5, IdleRecord DEF LiveChains, Live
  <2>2. CASE chain[d].of = v /\ v \notin loose'
    BY <2>1, <2>2, StopsAll
  <2> QED BY <2>1, <2>2
<1>6. OneChain'
  BY <1>4, <1>5 DEF OneChain
<1>7. TimerIsLatest'
  <2>1. \A d \in Chains : chain'[d].at = "timer" => d \in LiveChains' /\ d # c
    BY <1>4 DEF LiveChains, Live
  <2> QED BY <1>5, <2>1 DEF TimerIsLatest
<1>8. LeavingStopsPolling'
  BY <1>4, <1>5 DEF LeavingStopsPolling
<1> QED BY <1>6, <1>7, <1>8 DEF Tidy

LEMMA StepTidy ==
  ASSUME EntryInv, [EntryNext]_entryVars
  PROVE  Tidy'
<1> USE DEF EntryInv, EntryTypeOK
<1>1. CASE Enter
  <2>1. visit' = visit + 1 /\ visit' \in Visits /\ loose' = loose /\ here'
    BY <1>1, SomeStarts DEF Enter, Visits
  <2>2. \A d \in LiveChains : chain[d].of # visit' /\ chain[d].of \in loose
    BY <1>1, <2>1 DEF ChainsOfVisits, LeavingStopsPolling, Enter
  <2> QED BY <1>1, <2>1, <2>2, StartTidy DEF Enter
<1>2. CASE ManualRefresh
  <2>1. visit' = visit /\ visit \in Visits /\ here' /\ loose \subseteq loose'
    BY <1>2 DEF ManualRefresh, HereIsAVisit
  <2>2. visit \notin loose' => Asking(visit) = {}
    BY <1>2 DEF ManualRefresh
  <2>3. \A d \in LiveChains : chain[d].of # visit => chain[d].of \in loose
    BY DEF LeavingStopsPolling
  <2> QED BY <1>2, <2>1, <2>2, <2>3, StartTidy DEF ManualRefresh
<1>3. ASSUME visit \in Visits, ~ here', latest' = [latest EXCEPT ![visit] = NoChain], loose \subseteq loose',
             NEW c \in Chains \cup {NoChain}, visit \notin loose' => Asking(visit) \subseteq {c},
             \A d \in LiveChains' : /\ d # c /\ d \in LiveChains /\ chain'[d] = chain[d]
                                     /\ StopPolling(visit)[d] # Idle
      PROVE  Tidy'
  <2>1. ASSUME NEW d \in LiveChains', chain[d].of = visit PROVE visit \in loose'
    BY <1>3, <2>1, StopsAll
  <2>2. \A d \in LiveChains' : chain'[d].of \in loose'
    BY <1>3, <2>1 DEF LeavingStopsPolling
  <2>3. \A d \in Chains : chain'[d].at = "timer" => d \in LiveChains'
    BY DEF LiveChains, Live
  <2> QED BY <2>2, <2>3 DEF Tidy, OneChain, TimerIsLatest, LeavingStopsPolling
<1>4. CASE Leave
  <2>1. \A d \in LiveChains' : d \in LiveChains /\ chain'[d] = chain[d] /\ StopPolling(visit)[d] # Idle
    BY <1>4, StopEffect, IdleRecord DEF Leave, LiveChains, Live
  <2>2. NoChain \notin LiveChains'
    BY FiniteChains DEF LiveChains
  <2>3. /\ visit \in Visits /\ ~ here' /\ latest' = [latest EXCEPT ![visit] = NoChain]
        /\ loose \subseteq loose' /\ (visit \notin loose' => Asking(visit) = {})
    BY <1>4 DEF Leave, Unmount, HereIsAVisit
  <2> QED BY <1>3, <2>1, <2>2, <2>3
<1>5. ASSUME NEW c \in Chains, EntryDisabled(c), here PROVE Tidy'
  <2>1. chain' = [StopPolling(visit) EXCEPT ![c] = Idle]
    BY <1>5 DEF EntryDisabled
  <2>2. \A d \in LiveChains' : /\ d # c /\ d \in LiveChains /\ chain'[d] = chain[d]
                                /\ StopPolling(visit)[d] # Idle
    BY <2>1, StopEffect, IdleRecord DEF LiveChains, Live
  <2>3. /\ visit \in Visits /\ ~ here' /\ latest' = [latest EXCEPT ![visit] = NoChain]
        /\ loose \subseteq loose' /\ (visit \notin loose' => Asking(visit) \subseteq {c})
    BY <1>5 DEF EntryDisabled, HereIsAVisit
  <2> QED BY <1>3, <2>2, <2>3
<1>6. ASSUME NEW c \in Chains, ChainStep(c), ~ (EntryDisabled(c) /\ here) PROVE Tidy'
  <2>1. UNCHANGED <<here, loose, visit>>
    BY <1>6 DEF ChainStep, TimerFires, EntryReady, EntryNotReady, EntryStops, EntryDisabled
  <2>2. \A d \in LiveChains' : d \in LiveChains /\ chain'[d].of = chain[d].of
    BY <1>6, ChainStepKeeps
  <2>3. OneChain' /\ LeavingStopsPolling'
    BY <2>1, <2>2 DEF OneChain, LeavingStopsPolling
  <2>4. ASSUME NEW d \in Chains, chain'[d].at = "timer", chain'[d].of \notin loose'
        PROVE  latest'[chain'[d].of] = d
    <3>1. /\ d \in LiveChains' /\ d \in LiveChains /\ chain'[d].of = chain[d].of
          /\ chain[d].of \notin loose /\ chain[d].of \in Visits
      BY <2>1, <2>2, <2>4, SomeStarts DEF LiveChains, Live, ChainsOfVisits, Visits
    <3>2. CASE EntryNotReady(c)
      <4>1. c \in LiveChains /\ latest' = [latest EXCEPT ![chain[c].of] = c]
        BY <3>2 DEF EntryNotReady, LiveChains, Live
      <4>2. chain[c].of = chain[d].of => c = d
        BY <3>1, <4>1 DEF OneChain
      <4>3. d # c => chain'[d] = chain[d]
        BY <3>2 DEF EntryNotReady
      <4> QED BY <2>4, <3>1, <4>1, <4>2, <4>3 DEF TimerIsLatest
    <3>3. CASE ~ EntryNotReady(c)
      <4>1. latest' = latest
        BY <1>6, <3>3 DEF ChainStep, TimerFires, EntryReady, EntryStops, EntryDisabled
      <4>2. d # c
        BY <1>6, <2>4, <3>3, IdleRecord
           DEF ChainStep, TimerFires, EntryReady, EntryStops, EntryDisabled, End, ChainRecs
      <4>3. chain'[d] = chain[d]
        BY <1>6, <3>1, <4>2, ChainStepKeeps, IdleRecord DEF LiveChains, Live
      <4> QED BY <2>4, <3>1, <4>1, <4>3 DEF TimerIsLatest
    <3> QED BY <3>2, <3>3
  <2>5. TimerIsLatest'
    BY <2>4 DEF TimerIsLatest
  <2> QED BY <2>3, <2>5 DEF Tidy
<1>7. CASE TimePasses \/ UNCHANGED entryVars
  BY <1>7 DEF TimePasses, entryVars, Tidy, OneChain, TimerIsLatest, LeavingStopsPolling, LiveChains, Live
<1> QED BY <1>1, <1>2, <1>4, <1>5, <1>6, <1>7 DEF EntryNext, ChainStep

LEMMA EntryStepInv == EntryInv /\ [EntryNext]_entryVars => EntryInv'
BY StepType, StepCounts, StepVisits, StepWaits, StepTidy DEF EntryInv, Tidy

LEMMA EntryInvariant == EntrySpec => []EntryInv
BY EntryInitInv, EntryStepInv, PTL DEF EntrySpec

(* Every variable keeps its type.                                             *)
THEOREM EntryTypeCorrect == EntrySpec => []EntryTypeOK
<1>1. EntryInv => EntryTypeOK
  BY DEF EntryInv
<1> QED BY <1>1, EntryInvariant, PTL

(* The page opens no more tabs than the person began waits.                     *)
THEOREM NoMoreTabsThanStarts == EntrySpec => []OneTabPerStart
<1>1. EntryInv => OneTabPerStart
  BY DEF EntryInv
<1> QED BY <1>1, EntryInvariant, PTL

(* A page that says that it waits has a chain that asks.                        *)
THEOREM WaitersAreServed == EntrySpec => []NobodyLeftWaiting
<1>1. EntryInv => NobodyLeftWaiting
  BY DEF EntryInv
<1> QED BY <1>1, EntryInvariant, PTL

(* Leaving the page between two requests leaves no chain behind.                 *)
THEOREM LeavingStops == EntrySpec => []LeavingStopsPolling
<1>1. EntryInv => LeavingStopsPolling
  BY DEF EntryInv
<1> QED BY <1>1, EntryInvariant, PTL
=============================================================================
