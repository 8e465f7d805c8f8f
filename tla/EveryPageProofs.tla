---------------------------- MODULE EveryPageProofs ----------------------------
(***************************************************************************)
(* Theorems about what runs in every page: the text fields of the dialogs and *)
(* the debug collector.                                                      *)
(*                                                                         *)
(* Composition: what carries the theorem is that the timers set at the end of *)
(* a composition outlive the key that ended it.                              *)
(*                                                                         *)
(* DebugCollector, for any limits, files, number of entries and reports under *)
(* way: what carries the theorems is that the buffers and the reports under   *)
(* way never share an entry - whatever becomes of a report - so that together *)
(* they hold no more than was logged, and a failed report fits back.          *)
(***************************************************************************)
EXTENDS Composition, DebugCollector, FiniteSetTheorems, TLAPS

(* Composition: until the key that ended a composition has come, the dialog       *)
(* remembers that one has ended; and, unless two compositions came within 100 ms,  *)
(* it still holds a composition to be under way.                               *)
Remembers ==
  /\ owed # NoKey => justEnded /\ ends = 1
  /\ ~ hurried => /\ native => composing /\ lates = 0
                  /\ owed # NoKey => composing /\ lates = 1

CompositionInv == CompositionTypeOK /\ KeyEndsOnlyItsComposition /\ (inDialog => Remembers)

LEMMA CompositionTypes ==
  CompositionTypeOK <=>
    /\ field \in {"input", "textarea"}
    /\ inDialog \in BOOLEAN /\ opened \in BOOLEAN /\ native \in BOOLEAN /\ composed \in BOOLEAN
    /\ composing \in BOOLEAN /\ justEnded \in BOOLEAN /\ hurried \in BOOLEAN
    /\ zeros \in 0 .. 2 /\ lates \in 0 .. MaxPending /\ ends \in 0 .. MaxPending
    /\ owed \in Keys \cup {NoKey}
    /\ strayed \subseteq {"closed", "handed"}
BY DEF CompositionTypeOK

LEMMA CompositionInitInv == CompositionInit => CompositionInv
<1> SUFFICES ASSUME CompositionInit PROVE CompositionInv
  OBVIOUS
<1>1. zeros \in 0 .. 2 /\ lates \in 0 .. MaxPending /\ ends \in 0 .. MaxPending
  BY SomePending DEF CompositionInit
<1>2. CompositionTypeOK
  BY <1>1, CompositionTypes DEF CompositionInit
<1> QED BY <1>2 DEF CompositionInit, CompositionInv, KeyEndsOnlyItsComposition, Remembers

LEMMA CompositionStepTypes == CompositionTypeOK /\ [CompositionNext]_compositionVars => CompositionTypeOK'
<1> SUFFICES ASSUME CompositionTypeOK, [CompositionNext]_compositionVars PROVE CompositionTypeOK'
  OBVIOUS
<1>0. /\ field \in {"input", "textarea"}
      /\ inDialog \in BOOLEAN /\ opened \in BOOLEAN /\ native \in BOOLEAN /\ composed \in BOOLEAN
      /\ composing \in BOOLEAN /\ justEnded \in BOOLEAN /\ hurried \in BOOLEAN
      /\ zeros \in 0 .. 2 /\ lates \in 0 .. MaxPending /\ ends \in 0 .. MaxPending
      /\ owed \in Keys \cup {NoKey}
      /\ strayed \subseteq {"closed", "handed"}
  BY CompositionTypes
<1> USE <1>0, SomePending DEF CompositionTypeOK
<1>1. CASE CompositionStart
  BY <1>1 DEF CompositionStart
<1>2. CASE CompositionEnd
  <2>1. zeros' \in 0 .. 2 /\ lates' \in 0 .. MaxPending /\ ends' \in 0 .. MaxPending
    BY <1>2 DEF CompositionEnd, MarkCompositionEnd
  <2>2. native' = FALSE /\ justEnded' \in BOOLEAN
    BY <1>2 DEF CompositionEnd, MarkCompositionEnd
  <2> QED BY <1>2, <2>1, <2>2 DEF CompositionEnd
<1>3. CASE ZeroTimeout \/ OpenAgain
  <2>1. zeros' \in 0 .. 2 /\ UNCHANGED <<lates, ends>>
    BY <1>3 DEF ZeroTimeout, OpenAgain
  <2>2. composed' \in BOOLEAN /\ opened' \in BOOLEAN
    BY <1>3 DEF ZeroTimeout, OpenAgain
  <2> QED BY <1>3, <2>1, <2>2 DEF ZeroTimeout, OpenAgain
<1>4. CASE SetComposingFalse \/ EndTimeout
  <2>1. ASSUME NEW n \in 0 .. MaxPending, Due(n) PROVE n - 1 \in 0 .. MaxPending
    BY <2>1 DEF Due
  <2> QED BY <1>4, <2>1 DEF SetComposingFalse, EndTimeout
<1>5. ASSUME NEW k \in Keys, KeyDown(k) PROVE CompositionTypeOK'
  BY <1>5 DEF KeyDown, EscapeCloses
<1>6. CASE UNCHANGED compositionVars
  BY <1>6 DEF compositionVars
<1> QED BY <1>1, <1>2, <1>3, <1>4, <1>5, <1>6 DEF CompositionNext

LEMMA CompositionStepInv == CompositionInv /\ [CompositionNext]_compositionVars => CompositionInv'
<1> SUFFICES ASSUME CompositionInv, [CompositionNext]_compositionVars PROVE CompositionInv'
  OBVIOUS
<1>0. CompositionTypeOK /\ CompositionTypeOK' /\ KeyEndsOnlyItsComposition /\ (inDialog => Remembers)
  BY CompositionStepTypes DEF CompositionInv
<1>01. lates \in Nat /\ ends \in Nat
  BY <1>0, CompositionTypes
<1>02. SUFFICES KeyEndsOnlyItsComposition' /\ (inDialog' => Remembers')
  BY <1>0 DEF CompositionInv
<1>03. ASSUME UNCHANGED strayed, hurried => hurried', UNCHANGED inDialog
       PROVE  KeyEndsOnlyItsComposition'
  BY <1>0, <1>03 DEF KeyEndsOnlyItsComposition
<1>1. CASE CompositionStart
  <2>0. /\ owed' = NoKey /\ composing' = inDialog' /\ lates' = lates
        /\ ~ hurried' => ~ (lates > 0)
    BY <1>1 DEF CompositionStart
  <2>1. inDialog' => Remembers'
    BY <1>01, <2>0 DEF Remembers
  <2> QED BY <1>1, <1>03, <2>1 DEF CompositionStart
<1>2. CASE CompositionEnd
  <2>1. inDialog' => Remembers'
    BY <1>0, <1>2 DEF CompositionEnd, MarkCompositionEnd, Remembers
  <2> QED BY <1>2, <1>03, <2>1 DEF CompositionEnd
<1>3. CASE ZeroTimeout \/ OpenAgain \/ UNCHANGED compositionVars
  <2>1. UNCHANGED <<inDialog, native, composing, lates, justEnded, ends, owed, hurried, strayed>>
    BY <1>3 DEF ZeroTimeout, OpenAgain, compositionVars
  <2> QED BY <1>0, <1>03, <2>1 DEF Remembers
<1>4. CASE SetComposingFalse
  <2>1. lates # 0 /\ (owed # NoKey => lates # 1)
    BY <1>4 DEF SetComposingFalse, Due
  <2>2. inDialog' => Remembers'
    BY <1>0, <1>4, <2>1 DEF SetComposingFalse, Remembers
  <2> QED BY <1>4, <1>03, <2>2 DEF SetComposingFalse
<1>5. CASE EndTimeout
  <2>1. owed # NoKey => ends # 1
    BY <1>5 DEF EndTimeout, Due
  <2>2. inDialog' => Remembers'
    BY <1>0, <1>5, <2>1 DEF EndTimeout, Remembers
  <2> QED BY <1>5, <1>03, <2>2 DEF EndTimeout
<1>6. ASSUME NEW k \in Keys, KeyDown(k)
      PROVE  KeyEndsOnlyItsComposition' /\ (inDialog' => Remembers')
  <2>1. /\ owed' = NoKey
        /\ UNCHANGED <<inDialog, native, composing, lates, justEnded, ends, hurried>>
        /\ strayed' = IF ~ native /\ owed = NoKey THEN strayed
             ELSE strayed \cup {s \in {"closed", "handed"} :
                                  \/ s = "closed" /\ EscapeCloses(k)
                                  \/ s = "handed" /\ k = "Enter" /\ Handed(k)}
    BY <1>6 DEF KeyDown
  <2>2. field \in {"input", "textarea"}
    BY <1>0, CompositionTypes
  <2>3. inDialog /\ (native \/ owed # NoKey) => ~ (k = "Enter" /\ Handed(k))
    BY <1>0, <2>2 DEF Remembers, Handed, InputWithholds, TextareaWithholds
  <2>4. inDialog /\ (native \/ owed # NoKey) /\ ~ hurried => ~ EscapeCloses(k)
    BY <1>0 DEF Remembers, EscapeCloses
  <2>5. KeyEndsOnlyItsComposition'
    BY <1>0, <2>1, <2>3, <2>4 DEF KeyEndsOnlyItsComposition
  <2>6. inDialog' => Remembers'
    BY <1>0, <2>1 DEF Remembers
  <2> QED BY <2>5, <2>6
<1> QED BY <1>1, <1>2, <1>3, <1>4, <1>5, <1>6 DEF CompositionNext

(* Type correctness of the field, the flags and the timers, however many timers    *)
(* may be pending.                                                               *)
THEOREM CompositionTyped == CompositionSpec => []CompositionTypeOK
<1>1. CompositionInv => CompositionTypeOK
  BY DEF CompositionInv
<1> QED BY <1>1, CompositionInitInv, CompositionStepInv, PTL DEF CompositionSpec

(* In a dialog, the key that ends a composition neither reaches the page nor -     *)
(* unless another composition followed within 100 ms - closes the dialog, however *)
(* many timers are pending and in whichever order the browser delivers events.    *)
THEOREM CompositionKeepsItsKey == CompositionSpec => []KeyEndsOnlyItsComposition
<1>1. CompositionInv => KeyEndsOnlyItsComposition
  BY DEF CompositionInv
<1> QED BY <1>1, CompositionInitInv, CompositionStepInv, PTL DEF CompositionSpec
-----------------------------------------------------------------------------
(* DebugCollector: what its helpers do to a sequence of entries.                  *)
Apart(s, t) == \A e \in Members(s) : e \notin Members(t)

LEMMA EmptyEntries == Members(<< >>) = {} /\ IsInjective(<< >>) /\ Len(<< >>) = 0
BY DEF Members, IsInjective

LEMMA PruneKeeps ==
  ASSUME NEW S, NEW s \in Seq(S), NEW n \in Nat
  PROVE  /\ PruneBuffer(s, n) \in Seq(S) /\ Len(PruneBuffer(s, n)) <= n
         /\ Members(PruneBuffer(s, n)) \subseteq Members(s)
         /\ IsInjective(s) => IsInjective(PruneBuffer(s, n))
         /\ Len(s) <= n => PruneBuffer(s, n) = s
<1>1. CASE Len(s) <= n
  BY <1>1 DEF PruneBuffer
<1>2. CASE Len(s) > n
  <2> DEFINE t == SubSeq(s, Len(s) - n + 1, Len(s))
  <2>1. PruneBuffer(s, n) = t /\ ~ (Len(s) <= n)
    BY <1>2 DEF PruneBuffer
  <2>2. t \in Seq(S) /\ Len(t) = n
    BY <1>2
  <2>3. \A i \in DOMAIN t : Len(s) - n + i \in DOMAIN s /\ t[i] = s[Len(s) - n + i]
    BY <1>2, <2>2
  <2>4. \A i \in DOMAIN t : i \in Int
    BY <2>2
  <2> HIDE DEF t
  <2>5. Members(t) \subseteq Members(s)
    BY <2>3 DEF Members
  <2>6. IsInjective(s) => IsInjective(t)
    BY <2>3, <2>4 DEF IsInjective
  <2> QED BY <2>1, <2>2, <2>5, <2>6
<1> QED BY <1>1, <1>2

LEMMA JoinKeeps ==
  ASSUME NEW S, NEW s \in Seq(S), NEW t \in Seq(S)
  PROVE  /\ s \o t \in Seq(S) /\ Members(s \o t) = Members(s) \cup Members(t)
         /\ IsInjective(s) /\ IsInjective(t) /\ Apart(s, t) => IsInjective(s \o t)
<1> DEFINE u == s \o t
<1>1. u \in Seq(S) /\ Len(u) = Len(s) + Len(t)
  OBVIOUS
<1>2. \A i \in DOMAIN s : i \in DOMAIN u /\ u[i] = s[i]
  OBVIOUS
<1>3. \A i \in DOMAIN t : Len(s) + i \in DOMAIN u /\ u[Len(s) + i] = t[i]
  OBVIOUS
<1>4. \A i \in DOMAIN u : \/ i \in DOMAIN s /\ u[i] = s[i]
                          \/ i - Len(s) \in DOMAIN t /\ u[i] = t[i - Len(s)]
  OBVIOUS
<1>5. (\A i \in DOMAIN u : i \in Int) /\ Len(s) \in Int
  OBVIOUS
<1> HIDE DEF u
<1>6. Members(u) = Members(s) \cup Members(t)
  BY <1>2, <1>3, <1>4 DEF Members
<1>7. ASSUME IsInjective(s), IsInjective(t), Apart(s, t) PROVE IsInjective(u)
  <2> SUFFICES ASSUME NEW i \in DOMAIN u, NEW j \in DOMAIN u, u[i] = u[j] PROVE i = j
    BY DEF IsInjective
  <2>1. \A a \in DOMAIN s, b \in DOMAIN t : s[a] # t[b]
    BY <1>7 DEF Apart, Members
  <2>2. i \in Int /\ j \in Int
    BY <1>5
  <2> QED BY <1>4, <1>5, <1>7, <2>1, <2>2 DEF IsInjective
<1> QED BY <1>1, <1>6, <1>7 DEF u

LEMMA AppendKeeps ==
  ASSUME NEW S, NEW s \in Seq(S), NEW e \in S
  PROVE  /\ Append(s, e) \in Seq(S) /\ Members(Append(s, e)) = Members(s) \cup {e}
         /\ IsInjective(s) /\ e \notin Members(s) => IsInjective(Append(s, e))
<1>1. Append(s, e) = s \o <<e>> /\ <<e>> \in Seq(S)
  OBVIOUS
<1>2. Members(<<e>>) = {e} /\ IsInjective(<<e>>)
  BY DEF Members, IsInjective
<1>3. e \notin Members(s) => Apart(s, <<e>>)
  BY <1>2 DEF Apart
<1>4. /\ s \o <<e>> \in Seq(S) /\ Members(s \o <<e>>) = Members(s) \cup Members(<<e>>)
      /\ IsInjective(s) /\ IsInjective(<<e>>) /\ Apart(s, <<e>>) => IsInjective(s \o <<e>>)
  BY <1>1, JoinKeeps
<1> QED BY <1>1, <1>2, <1>3, <1>4

LEMMA TrimKeeps ==
  ASSUME NEW S, NEW s \in Seq(S)
  PROVE  /\ TrimLogFile(s) \in Seq(S) /\ Len(TrimLogFile(s)) <= FileLimit
         /\ Members(TrimLogFile(s)) \subseteq Members(s)
         /\ IsInjective(s) => IsInjective(TrimLogFile(s))
<1>1. FileLimit \in Nat /\ TrimTarget \in Nat /\ TrimTarget <= FileLimit /\ Len(s) \in Nat
  BY TrimTrims
<1>2. CASE Len(s) <= FileLimit
  BY <1>2 DEF TrimLogFile
<1>3. CASE ~ (Len(s) <= FileLimit)
  <2>1. TrimLogFile(s) = PruneBuffer(s, TrimTarget)
    BY <1>3 DEF TrimLogFile
  <2>2. /\ PruneBuffer(s, TrimTarget) \in Seq(S) /\ Len(PruneBuffer(s, TrimTarget)) <= TrimTarget
        /\ Members(PruneBuffer(s, TrimTarget)) \subseteq Members(s)
        /\ IsInjective(s) => IsInjective(PruneBuffer(s, TrimTarget))
    BY <1>1, PruneKeeps
  <2>3. Len(PruneBuffer(s, TrimTarget)) \in Nat
    BY <2>2
  <2> QED BY <1>1, <2>1, <2>2, <2>3
<1> QED BY <1>2, <1>3

(* Entries that differ fit where what was logged fits.                           *)
LEMMA DistinctFit ==
  ASSUME NEW S, NEW s \in Seq(S), IsInjective(s), NEW T, IsFiniteSet(T), Members(s) \subseteq T
  PROVE  Len(s) <= Cardinality(T)
<1>1. s \in [1 .. Len(s) -> T] /\ Len(s) \in Nat
  BY DEF Members
<1>2. s \in Injection(1 .. Len(s), T)
  BY <1>1 DEF Injection
<1>3. Cardinality(1 .. Len(s)) <= Cardinality(T)
  BY <1>2, FS_Injection
<1>4. Cardinality(1 .. Len(s)) = Len(s)
  <2>1. 1 \in Int /\ Len(s) \in Int
    BY <1>1
  <2>2. Cardinality(1 .. Len(s)) = IF 1 > Len(s) THEN 0 ELSE Len(s) - 1 + 1
    BY <2>1, FS_Interval
  <2> QED BY <1>1, <2>2
<1> QED BY <1>3, <1>4

LEMMA TimesOnce ==
  ASSUME NEW S, NEW s \in Seq(S), IsInjective(s), NEW e
  PROVE  /\ Times(e, s) \in {0, 1}
         /\ e \notin Members(s) => Times(e, s) = 0
<1> DEFINE places == {i \in DOMAIN s : s[i] = e}
<1>1. CASE places = {}
  BY <1>1, FS_EmptySet DEF Times
<1>2. CASE places # {}
  <2>1. PICK i \in DOMAIN s : s[i] = e
    BY <1>2
  <2>2. places = {i}
    BY <2>1 DEF IsInjective
  <2>3. Times(e, s) = 1
    BY <2>2, FS_Singleton DEF Times
  <2>4. e \in Members(s)
    BY <2>1 DEF Members
  <2> QED BY <2>3, <2>4
<1> QED BY <1>1, <1>2
-----------------------------------------------------------------------------
(* DebugCollector: the buffers and the reports under way share no entry, and hold *)
(* logged ones only; a report that was kept is written.                          *)
Carries(r, k) == report[r].carries[k]

InMemory(k) ==
  /\ IsInjective(store[k]) /\ Members(store[k]) \subseteq logged[k]
  /\ \A r \in Reports :
       /\ IsInjective(Carries(r, k)) /\ Members(Carries(r, k)) \subseteq logged[k]
       /\ Apart(Carries(r, k), store[k])
       /\ \A s \in Reports : s # r => Apart(Carries(r, k), Carries(s, k))
       /\ report[r].at = "kept" => Members(Carries(r, k)) \subseteq written

(* Unless an entry may have been reported twice, a file has neither what is        *)
(* buffered nor what a report brings.                                          *)
OnFile(k) ==
  /\ Members(file[k]) \subseteq logged[k]
  /\ ~ doubled =>
       /\ IsInjective(file[k]) /\ Apart(store[k], file[k])
       /\ \A r \in Reports : report[r].at = "sent" => Apart(Carries(r, k), file[k])

Bounded(k) == Len(store[k]) <= Limit[k] /\ (Len(file[k]) > FileLimit => k \in untrimmed)

Kept(k) == ~ spoiled /\ Cardinality(logged[k]) <= Limit[k] => logged[k] \subseteq Under(k) \cup written

BufferInv(k) ==
  logged[k] \subseteq 1 .. counted /\ InMemory(k) /\ OnFile(k) /\ Bounded(k) /\ Kept(k)

CollectorInv == CollectorTypeOK /\ \A k \in Buffers : BufferInv(k)

ReportRecs == [at : {"idle", "sent", "kept", "refused"}, carries : [Buffers -> Seq(Entries)]]

LEMMA CollectorTypes ==
  CollectorTypeOK <=>
    /\ store \in [Buffers -> Seq(Entries)] /\ file \in [Buffers -> Seq(Entries)]
    /\ bodies \in Nat /\ report \in [Reports -> ReportRecs]
    /\ logged \in [Buffers -> SUBSET Entries] /\ written \subseteq Entries
    /\ counted \in 0 .. MaxEntries /\ untrimmed \subseteq Buffers
    /\ spoiled \in BOOLEAN /\ doubled \in BOOLEAN
BY DEF CollectorTypeOK, ReportRecs

LEMMA NoReportTypes == NoEntries \in [Buffers -> Seq(Entries)] /\ NoReport \in ReportRecs
BY DEF NoEntries, NoReport, ReportRecs

(* One buffer, and what is kept of it.                                           *)
LEMMA BufferTypes ==
  ASSUME CollectorTypeOK, NEW k \in Buffers
  PROVE  /\ store[k] \in Seq(Entries) /\ file[k] \in Seq(Entries)
         /\ \A r \in Reports : Carries(r, k) \in Seq(Entries)
         /\ logged[k] \subseteq Entries /\ IsFiniteSet(logged[k])
         /\ Cardinality(logged[k]) \in Nat /\ Limit[k] \in Nat
<1>1. /\ store[k] \in Seq(Entries) /\ file[k] \in Seq(Entries) /\ logged[k] \subseteq Entries
      /\ \A r \in Reports : Carries(r, k) \in Seq(Entries)
  BY CollectorTypes DEF ReportRecs, Carries
<1>2. IsFiniteSet(Entries)
  BY SomeEntries, FS_Interval DEF Entries
<1>3. IsFiniteSet(logged[k])
  BY <1>1, <1>2, FS_Subset
<1>4. Cardinality(logged[k]) \in Nat
  BY <1>3, FS_CardinalityType
<1>5. Limit[k] \in Nat
  BY LimitsAreSizes
<1> QED BY <1>1, <1>3, <1>4, <1>5

LEMMA CollectorInitInv == CollectorInit => CollectorInv
<1> SUFFICES ASSUME CollectorInit PROVE CollectorInv
  OBVIOUS
<1>0. counted \in 0 .. MaxEntries /\ bodies \in Nat
  BY SomeEntries DEF CollectorInit
<1>1. CollectorTypeOK
  <2>1. report \in [Reports -> ReportRecs] /\ logged \in [Buffers -> SUBSET Entries]
    BY NoReportTypes DEF CollectorInit
  <2> QED BY <1>0, <2>1, CollectorTypes, NoReportTypes DEF CollectorInit
<1>2. ASSUME NEW k \in Buffers PROVE BufferInv(k)
  <2>1. store[k] = << >> /\ file[k] = << >> /\ logged[k] = {} /\ ~ doubled
        /\ \A r \in Reports : Carries(r, k) = << >> /\ report[r].at = "idle"
    BY DEF CollectorInit, NoEntries, NoReport, Carries
  <2>2. Limit[k] \in Nat /\ FileLimit \in Nat
    BY LimitsAreSizes, TrimTrims
  <2>3. InMemory(k) /\ OnFile(k)
    BY <2>1, EmptyEntries DEF InMemory, OnFile, Apart
  <2>4. Bounded(k)
    BY <2>1, <2>2, EmptyEntries DEF Bounded
  <2> QED BY <2>1, <2>3, <2>4 DEF BufferInv, Kept
<1> QED BY <1>1, <1>2 DEF CollectorInv

(* An entry is pushed, to some buffers.                                          *)
LEMMA PushStep ==
  ASSUME CollectorInv, NEW ks, Push(ks), UNCHANGED <<report, file, written, untrimmed, spoiled, doubled>>,
         bodies' \in Nat
  PROVE  CollectorInv'
<1>1. /\ CollectorTypeOK /\ counted \in 0 .. MaxEntries /\ MaxEntries \in Nat
      /\ \A k \in Buffers : BufferInv(k)
  BY CollectorTypes, SomeEntries DEF CollectorInv
<1>2. /\ counted' = counted + 1 /\ counted' \in Entries /\ counted' \in 0 .. MaxEntries
      /\ 1 .. counted \subseteq 1 .. counted' /\ counted' \in 1 .. counted' /\ counted' \notin 1 .. counted
  BY <1>1 DEF Push, Entries
<1>3. ASSUME NEW k \in Buffers PROVE BufferInv(k)' /\ store'[k] \in Seq(Entries) /\ logged'[k] \subseteq Entries
  <2> DEFINE a == Append(store[k], counted')
  <2>1. /\ store[k] \in Seq(Entries) /\ file[k] \in Seq(Entries)
        /\ logged[k] \subseteq Entries /\ IsFiniteSet(logged[k])
        /\ Cardinality(logged[k]) \in Nat /\ Limit[k] \in Nat
    BY <1>1, BufferTypes
  <2>2. /\ logged[k] \subseteq 1 .. counted /\ InMemory(k) /\ OnFile(k) /\ Bounded(k) /\ Kept(k)
        /\ \A r \in Reports : Carries(r, k)' = Carries(r, k)
    BY <1>1 DEF BufferInv, Carries
  <2>3. CASE k \in ks
    <3>1. store'[k] = PruneBuffer(a, Limit[k]) /\ logged'[k] = logged[k] \cup {counted'}
      BY <2>3 DEF Push
    <3>2. counted' \notin Members(store[k]) /\ counted' \notin logged[k]
      BY <1>2, <2>2 DEF InMemory
    <3>3. a \in Seq(Entries) /\ Members(a) = Members(store[k]) \cup {counted'} /\ IsInjective(a)
      BY <1>2, <2>1, <2>2, <3>2, AppendKeeps DEF InMemory
    <3> HIDE DEF a
    <3>4. /\ store'[k] \in Seq(Entries) /\ Len(store'[k]) <= Limit[k]
          /\ Members(store'[k]) \subseteq Members(a) /\ IsInjective(store'[k])
          /\ Len(a) <= Limit[k] => store'[k] = a
      BY <2>1, <3>1, <3>3, PruneKeeps
    <3>5. logged'[k] \subseteq 1 .. counted' /\ logged'[k] \subseteq Entries
      BY <1>2, <2>1, <2>2, <3>1
    <3>6. InMemory(k)'
      BY <2>2, <3>1, <3>2, <3>3, <3>4 DEF InMemory, Apart
    <3>7. OnFile(k)'
      BY <2>2, <3>1, <3>2, <3>3, <3>4 DEF OnFile, Apart
    <3>8. Bounded(k)'
      BY <2>2, <3>4 DEF Bounded
    <3>9. Kept(k)'
      <4>1. IsFiniteSet(logged'[k]) /\ Cardinality(logged'[k]) \in Nat
            /\ Cardinality(logged[k]) <= Cardinality(logged'[k])
        <5>1. IsFiniteSet(logged'[k])
          <6>1. IsFiniteSet(logged[k] \cup {counted'})
            BY <2>1, FS_AddElement
          <6> QED BY <3>1, <6>1
        <5>2. logged[k] \in SUBSET logged'[k]
          BY <3>1
        <5> QED BY <5>1, <5>2, FS_Subset, FS_CardinalityType
      <4>2. Len(a) <= Cardinality(logged'[k])
        BY <2>2, <3>1, <3>3, <4>1, DistinctFit DEF InMemory
      <4> SUFFICES ASSUME ~ spoiled, Cardinality(logged'[k]) <= Limit[k]
                   PROVE  logged'[k] \subseteq Under(k)' \cup written
        BY DEF Kept
      <4>3. Cardinality(logged[k]) <= Limit[k] /\ Len(a) <= Limit[k]
        <5>1. Len(a) \in Nat
          BY <3>3
        <5> QED BY <2>1, <4>1, <4>2, <5>1
      <4>4. logged[k] \subseteq Under(k) \cup written
        BY <2>2, <4>3 DEF Kept
      <4>5. Members(store'[k]) = Members(store[k]) \cup {counted'}
        BY <3>3, <3>4, <4>3
      <4> QED BY <3>1, <4>4, <4>5 DEF Under
    <3> QED BY <3>4, <3>5, <3>6, <3>7, <3>8, <3>9 DEF BufferInv
  <2>4. CASE k \notin ks
    <3>1. store'[k] = store[k] /\ logged'[k] = logged[k]
      BY <2>4 DEF Push
    <3>2. logged'[k] \subseteq 1 .. counted'
      BY <1>2, <2>2, <3>1
    <3>3. InMemory(k)' /\ OnFile(k)' /\ Bounded(k)'
      BY <2>2, <3>1 DEF InMemory, OnFile, Bounded
    <3>4. Kept(k)'
      BY <2>2, <3>1 DEF Kept, Under
    <3> QED BY <2>1, <3>1, <3>2, <3>3, <3>4 DEF BufferInv
  <2> QED BY <2>3, <2>4
<1>4. store' \in [Buffers -> Seq(Entries)] /\ logged' \in [Buffers -> SUBSET Entries]
  BY <1>3 DEF Push
<1>5. CollectorTypeOK'
  BY <1>1, <1>2, <1>4, CollectorTypes DEF CollectorTypeOK, ReportRecs
<1> QED BY <1>3, <1>5 DEF CollectorInv

(* A report takes all that is buffered.                                          *)
LEMMA ReportStep ==
  ASSUME CollectorInv, NEW r \in Reports, ReportLogs(r)
  PROVE  CollectorInv'
<1>1. /\ CollectorTypeOK /\ report \in [Reports -> ReportRecs] /\ store \in [Buffers -> Seq(Entries)]
      /\ \A k \in Buffers : BufferInv(k)
  BY CollectorTypes DEF CollectorInv
<1>2. /\ report[r] = NoReport /\ report' = [report EXCEPT ![r] = [at |-> "sent", carries |-> store]]
      /\ store' = NoEntries
      /\ UNCHANGED <<bodies, file, logged, written, counted, untrimmed, spoiled, doubled>>
  BY DEF ReportLogs
<1>3. CollectorTypeOK'
  <2>1. report' \in [Reports -> ReportRecs]
    BY <1>1, <1>2 DEF ReportRecs
  <2> QED BY <1>1, <1>2, <2>1, NoReportTypes, CollectorTypes DEF CollectorTypeOK, ReportRecs
<1>4. ASSUME NEW k \in Buffers PROVE BufferInv(k)'
  <2>1. /\ store'[k] = << >> /\ Carries(r, k) = << >> /\ Carries(r, k)' = store[k]
        /\ report'[r].at = "sent" /\ \A s \in Reports : s # r => report'[s] = report[s]
        /\ \A s \in Reports : s # r => Carries(s, k)' = Carries(s, k)
    BY <1>1, <1>2 DEF NoEntries, NoReport, Carries
  <2>2. logged[k] \subseteq 1 .. counted /\ InMemory(k) /\ OnFile(k) /\ Bounded(k) /\ Kept(k)
    BY <1>1 DEF BufferInv
  <2>3. InMemory(k)'
    BY <1>2, <2>1, <2>2, EmptyEntries DEF InMemory, Apart
  <2>4. OnFile(k)'
    BY <1>2, <2>1, <2>2, EmptyEntries DEF OnFile, Apart
  <2>5. Bounded(k)'
    BY <1>2, <2>1, <2>2, EmptyEntries, LimitsAreSizes DEF Bounded
  <2>6. Under(k) \subseteq Under(k)'
    <3>1. \A s \in Reports : Members(Carries(s, k)) \subseteq Under(k)'
      BY <2>1, EmptyEntries DEF Under, Carries
    <3>2. Members(store[k]) \subseteq Under(k)'
      BY <2>1 DEF Under, Carries
    <3> QED BY <3>1, <3>2 DEF Under, Carries
  <2>7. Kept(k)'
    BY <1>2, <2>2, <2>6 DEF Kept
  <2> QED BY <1>2, <2>2, <2>3, <2>4, <2>5, <2>7 DEF BufferInv
<1> QED BY <1>3, <1>4 DEF CollectorInv

(* What writing to a log file does to it, whether it can be trimmed or not.          *)
LEMMA WriteKeeps ==
  ASSUME CollectorTypeOK, NEW k \in Buffers, NEW p, WriteToLogFile(p), p[k] \in Seq(Entries)
  PROVE  /\ file'[k] \in Seq(Entries)
         /\ Members(file'[k]) \subseteq Members(file[k]) \cup Members(p[k])
         /\ IsInjective(file[k]) /\ IsInjective(p[k]) /\ Apart(file[k], p[k]) => IsInjective(file'[k])
         /\ (Len(file[k]) > FileLimit => k \in untrimmed)
              => (Len(file'[k]) > FileLimit => k \in untrimmed')
         /\ Members(p[k]) \subseteq written' /\ written \subseteq written'
<1> DEFINE f == file[k] \o p[k]
<1>1. PICK fails \in SUBSET TooLong(p) :
        /\ file' = [j \in Buffers |-> IF p[j] = << >> \/ j \in fails THEN file[j] \o p[j]
                                      ELSE TrimLogFile(file[j] \o p[j])]
        /\ untrimmed' = {j \in untrimmed : p[j] = << >>} \cup fails
  BY DEF WriteToLogFile
<1>2. file[k] \in Seq(Entries) /\ Len(file[k]) \in Nat /\ FileLimit \in Nat
  BY BufferTypes, TrimTrims
<1>3. /\ f \in Seq(Entries) /\ Members(f) = Members(file[k]) \cup Members(p[k])
      /\ IsInjective(file[k]) /\ IsInjective(p[k]) /\ Apart(file[k], p[k]) => IsInjective(f)
  BY <1>2, JoinKeeps
<1>4. p[k] = << >> => f = file[k]
  BY <1>2
<1>5. file'[k] = IF p[k] = << >> \/ k \in fails THEN f ELSE TrimLogFile(f)
  BY <1>1
<1> HIDE DEF f
<1>6. /\ TrimLogFile(f) \in Seq(Entries) /\ Len(TrimLogFile(f)) <= FileLimit
      /\ Members(TrimLogFile(f)) \subseteq Members(f)
      /\ IsInjective(f) => IsInjective(TrimLogFile(f))
  BY <1>3, TrimKeeps
<1>7. Members(p[k]) \subseteq written' /\ written \subseteq written'
  BY DEF WriteToLogFile
<1>8. ASSUME Len(file[k]) > FileLimit => k \in untrimmed, Len(file'[k]) > FileLimit
      PROVE  k \in untrimmed'
  <2>1. CASE p[k] = << >>
    BY <1>1, <1>4, <1>5, <1>8, <2>1
  <2>2. CASE k \in fails
    BY <1>1, <2>2
  <2>3. CASE file'[k] = TrimLogFile(f)
    <3>1. Len(file'[k]) \in Nat
      BY <1>6, <2>3
    <3> QED BY <1>2, <1>6, <1>8, <2>3, <3>1
  <2> QED BY <1>5, <2>1, <2>2, <2>3
<1>9. file'[k] = f \/ file'[k] = TrimLogFile(f)
  BY <1>5
<1>10. /\ file'[k] \in Seq(Entries) /\ Members(file'[k]) \subseteq Members(f)
       /\ IsInjective(f) => IsInjective(file'[k])
  BY <1>3, <1>6, <1>9
<1> QED BY <1>3, <1>7, <1>8, <1>10

LEMMA WriteTypes ==
  ASSUME CollectorTypeOK, NEW p, WriteToLogFile(p), \A k \in Buffers : p[k] \in Seq(Entries)
  PROVE  file' \in [Buffers -> Seq(Entries)] /\ written' \subseteq Entries /\ untrimmed' \subseteq Buffers
<1>1. written \subseteq Entries /\ untrimmed \subseteq Buffers
  BY CollectorTypes
<1>2. \A k \in Buffers : Members(p[k]) \subseteq Entries
  BY DEF Members
<1>3. written' \subseteq Entries
  BY <1>1, <1>2 DEF WriteToLogFile
<1>4. untrimmed' \subseteq Buffers
  BY <1>1 DEF WriteToLogFile, TooLong
<1>5. \A k \in Buffers : file'[k] \in Seq(Entries)
  BY WriteKeeps
<1>6. file' = [k \in Buffers |-> file'[k]]
  BY DEF WriteToLogFile
<1> QED BY <1>3, <1>4, <1>5, <1>6

(* The server writes what a report brings, or some kinds of it.                    *)
LEMMA ServeStep ==
  ASSUME CollectorInv, NEW r \in Reports, ServeReport(r)
  PROVE  CollectorInv'
<1>1. /\ CollectorTypeOK /\ report \in [Reports -> ReportRecs]
      /\ written \subseteq Entries /\ doubled \in BOOLEAN
      /\ \A k \in Buffers : BufferInv(k)
  BY CollectorTypes DEF CollectorInv
<1>2. /\ report[r].at = "sent"
      /\ UNCHANGED <<store, bodies, logged, counted, spoiled, doubled>>
  BY DEF ServeReport
<1>3. PICK p, x :
        /\ WriteToLogFile(p) /\ report' = [report EXCEPT ![r].at = x] /\ x \in {"kept", "refused"}
        /\ \A k \in Buffers : p[k] = Carries(r, k) \/ p[k] = << >>
        /\ x = "kept" => \A k \in Buffers : p[k] = Carries(r, k)
  <2>1. CASE WriteToLogFile(report[r].carries) /\ report' = [report EXCEPT ![r].at = "kept"]
    BY <2>1 DEF Carries
  <2>2. CASE /\ \E ks \in {{}, {"console"}, {"console", "network"}} :
                  WriteToLogFile([k \in Buffers |-> IF k \in ks THEN report[r].carries[k] ELSE << >>])
             /\ report' = [report EXCEPT ![r].at = "refused"]
    <3>1. PICK ks : WriteToLogFile([k \in Buffers |-> IF k \in ks THEN report[r].carries[k] ELSE << >>])
      BY <2>2
    <3> DEFINE p == [k \in Buffers |-> IF k \in ks THEN report[r].carries[k] ELSE << >>]
    <3>2. \A k \in Buffers : p[k] = Carries(r, k) \/ p[k] = << >>
      BY DEF Carries
    <3>3. WriteToLogFile(p)
      BY <3>1
    <3> HIDE DEF p
    <3>4. /\ WriteToLogFile(p) /\ report' = [report EXCEPT ![r].at = "refused"]
          /\ "refused" \in {"kept", "refused"}
          /\ \A k \in Buffers : p[k] = Carries(r, k) \/ p[k] = << >>
          /\ "refused" = "kept" => \A k \in Buffers : p[k] = Carries(r, k)
      BY <2>2, <3>2, <3>3
    <3> QED BY <3>4
  <2> QED BY <2>1, <2>2 DEF ServeReport
<1>4. /\ report'[r].at = x /\ \A s \in Reports : s # r => report'[s] = report[s]
      /\ \A s \in Reports, k \in Buffers : Carries(s, k)' = Carries(s, k)
      /\ report' \in [Reports -> ReportRecs]
  BY <1>1, <1>3 DEF ReportRecs, Carries
<1>5. ASSUME NEW k \in Buffers
      PROVE  BufferInv(k)' /\ p[k] \in Seq(Entries)
  <2>1. /\ file[k] \in Seq(Entries) /\ Carries(r, k) \in Seq(Entries) /\ logged[k] \subseteq Entries
    BY <1>1, BufferTypes
  <2>2. logged[k] \subseteq 1 .. counted /\ InMemory(k) /\ OnFile(k) /\ Bounded(k) /\ Kept(k)
    BY <1>1 DEF BufferInv
  <2>3. /\ p[k] \in Seq(Entries) /\ Members(p[k]) \subseteq Members(Carries(r, k)) /\ IsInjective(p[k])
    <3>1. CASE p[k] = Carries(r, k)
      BY <2>1, <2>2, <3>1 DEF InMemory
    <3>2. CASE p[k] = << >>
      BY <3>2, EmptyEntries
    <3> QED BY <1>3, <3>1, <3>2
  <2>4. /\ Members(file'[k]) \subseteq Members(file[k]) \cup Members(p[k])
        /\ IsInjective(file[k]) /\ IsInjective(p[k]) /\ Apart(file[k], p[k]) => IsInjective(file'[k])
        /\ (Len(file[k]) > FileLimit => k \in untrimmed)
             => (Len(file'[k]) > FileLimit => k \in untrimmed')
        /\ Members(p[k]) \subseteq written' /\ written \subseteq written'
    BY <1>1, <1>3, <2>3, WriteKeeps
  <2>6. /\ Members(file'[k]) \subseteq Members(file[k]) \cup Members(Carries(r, k))
        /\ IsInjective(file[k]) /\ Apart(file[k], p[k]) => IsInjective(file'[k])
    BY <2>3, <2>4
  <2>7. Members(p[k]) \subseteq written' /\ written \subseteq written'
    BY <2>4
  <2>8. InMemory(k)'
    <3>1. \A s \in Reports : report'[s].at = "kept" => Members(Carries(s, k)) \subseteq written'
      BY <1>3, <1>4, <2>2, <2>7 DEF InMemory
    <3> QED BY <1>2, <1>4, <2>2, <3>1 DEF InMemory
  <2>9. OnFile(k)'
    <3>1. Members(file'[k]) \subseteq logged[k]
      BY <2>2, <2>6 DEF OnFile, InMemory
    <3>2. ASSUME ~ doubled
          PROVE  /\ IsInjective(file'[k]) /\ Apart(store[k], file'[k])
                 /\ \A s \in Reports : report'[s].at = "sent" => Apart(Carries(s, k), file'[k])
      <4>1. Apart(Carries(r, k), file[k])
        BY <1>2, <2>2, <3>2 DEF OnFile
      <4>2. IsInjective(file'[k])
        BY <2>2, <2>3, <2>6, <3>2, <4>1 DEF OnFile, Apart
      <4>3. Apart(store[k], file'[k])
        BY <2>2, <2>6, <3>2 DEF OnFile, InMemory, Apart
      <4>4. ASSUME NEW s \in Reports, report'[s].at = "sent" PROVE Apart(Carries(s, k), file'[k])
        <5>1. s # r /\ report[s].at = "sent"
          BY <1>3, <1>4, <4>4
        <5> QED BY <2>2, <2>6, <3>2, <5>1 DEF OnFile, InMemory, Apart
      <4> QED BY <4>2, <4>3, <4>4
    <3> QED BY <1>2, <1>4, <3>1, <3>2 DEF OnFile
  <2>10. Bounded(k)'
    BY <1>2, <2>2, <2>4 DEF Bounded
  <2>11. Under(k)' = Under(k)
    <3>1. {Members(report'[s].carries[k]) : s \in Reports} = {Members(report[s].carries[k]) : s \in Reports}
      BY <1>4 DEF Carries
    <3> QED BY <1>2, <3>1 DEF Under
  <2>12. Kept(k)'
    BY <1>2, <2>2, <2>7, <2>11 DEF Kept
  <2> QED BY <1>2, <2>2, <2>3, <2>8, <2>9, <2>10, <2>12 DEF BufferInv
<1>6. CollectorTypeOK'
  <2>1. file' \in [Buffers -> Seq(Entries)] /\ written' \subseteq Entries /\ untrimmed' \subseteq Buffers
    BY <1>1, <1>3, <1>5, WriteTypes
  <2> QED BY <1>1, <1>2, <1>4, <2>1, CollectorTypes DEF CollectorTypeOK, ReportRecs
<1> QED BY <1>5, <1>6 DEF CollectorInv

(* A report ends with an answer, after which its entries are nowhere but on file.   *)
LEMMA AnsweredStep ==
  ASSUME CollectorInv, NEW r \in Reports, ReportAnswered(r)
  PROVE  CollectorInv'
<1>1. /\ CollectorTypeOK /\ report \in [Reports -> ReportRecs] /\ spoiled \in BOOLEAN
      /\ \A k \in Buffers : BufferInv(k)
  BY CollectorTypes DEF CollectorInv
<1>2. /\ report[r].at \in {"kept", "refused"} /\ report' = [report EXCEPT ![r] = NoReport]
      /\ spoiled' = (spoiled \/ report[r].at = "refused")
      /\ UNCHANGED <<store, bodies, file, logged, written, counted, untrimmed, doubled>>
  BY DEF ReportAnswered
<1>3. CollectorTypeOK'
  <2>1. report' \in [Reports -> ReportRecs] /\ spoiled' \in BOOLEAN
    BY <1>1, <1>2, NoReportTypes
  <2> QED BY <1>1, <1>2, <2>1, CollectorTypes DEF CollectorTypeOK, ReportRecs
<1>4. ASSUME NEW k \in Buffers PROVE BufferInv(k)'
  <2>1. /\ Carries(r, k)' = << >> /\ report'[r].at = "idle"
        /\ \A s \in Reports : s # r => report'[s] = report[s] /\ Carries(s, k)' = Carries(s, k)
    BY <1>1, <1>2 DEF NoEntries, NoReport, Carries
  <2>2. logged[k] \subseteq 1 .. counted /\ InMemory(k) /\ OnFile(k) /\ Bounded(k) /\ Kept(k)
    BY <1>1 DEF BufferInv
  <2>3. InMemory(k)'
    BY <1>2, <2>1, <2>2, EmptyEntries DEF InMemory, Apart
  <2>4. OnFile(k)'
    BY <1>2, <2>1, <2>2, EmptyEntries DEF OnFile
  <2>5. Bounded(k)'
    BY <1>2, <2>2 DEF Bounded
  <2>6. ASSUME report[r].at = "kept" PROVE Under(k) \subseteq Under(k)' \cup written
    <3>1. \A s \in Reports : s # r => Members(Carries(s, k)) \subseteq Under(k)'
      BY <2>1 DEF Under, Carries
    <3>2. Members(store[k]) \subseteq Under(k)'
      BY <1>2 DEF Under
    <3>3. Members(Carries(r, k)) \subseteq written
      BY <2>2, <2>6 DEF InMemory
    <3> QED BY <3>1, <3>2, <3>3 DEF Under, Carries
  <2>7. Kept(k)'
    BY <1>2, <2>2, <2>6 DEF Kept
  <2> QED BY <1>2, <2>2, <2>3, <2>4, <2>5, <2>7 DEF BufferInv
<1> QED BY <1>3, <1>4 DEF CollectorInv

(* A report fails: what it carries goes back before what was logged meanwhile.     *)
LEMMA FailsStep ==
  ASSUME CollectorInv, NEW r \in Reports, ReportFails(r)
  PROVE  CollectorInv'
<1>1. /\ CollectorTypeOK /\ report \in [Reports -> ReportRecs] /\ doubled \in BOOLEAN
      /\ \A k \in Buffers : BufferInv(k)
  BY CollectorTypes DEF CollectorInv
<1>2. /\ report[r].at # "idle" /\ report' = [report EXCEPT ![r] = NoReport]
      /\ doubled' = (doubled \/ report[r].at # "sent")
      /\ store' = [k \in Buffers |-> PruneBuffer(PutBack(r)[k], Limit[k])]
      /\ UNCHANGED <<bodies, file, logged, written, counted, untrimmed, spoiled>>
  BY DEF ReportFails
<1>3. ASSUME NEW k \in Buffers PROVE BufferInv(k)' /\ store'[k] \in Seq(Entries)
  <2>1. /\ Carries(r, k)' = << >> /\ report'[r].at = "idle"
        /\ \A s \in Reports : s # r => report'[s] = report[s] /\ Carries(s, k)' = Carries(s, k)
    BY <1>1, <1>2 DEF NoEntries, NoReport, Carries
  <2>2. logged[k] \subseteq 1 .. counted /\ InMemory(k) /\ OnFile(k) /\ Bounded(k) /\ Kept(k)
    BY <1>1 DEF BufferInv
  <2>3. /\ store[k] \in Seq(Entries) /\ Carries(r, k) \in Seq(Entries)
        /\ IsFiniteSet(logged[k]) /\ Cardinality(logged[k]) \in Nat /\ Limit[k] \in Nat
    BY <1>1, BufferTypes
  <2> DEFINE c == Carries(r, k) \o store[k]
  <2>4. store'[k] = PruneBuffer(c, Limit[k])
    BY <1>2 DEF PutBack, Carries
  <2>5. /\ c \in Seq(Entries) /\ Members(c) = Members(Carries(r, k)) \cup Members(store[k])
        /\ IsInjective(c)
    BY <2>2, <2>3, JoinKeeps DEF InMemory
  <2> HIDE DEF c
  <2>6. /\ store'[k] \in Seq(Entries) /\ Len(store'[k]) <= Limit[k]
        /\ Members(store'[k]) \subseteq Members(c) /\ IsInjective(store'[k])
        /\ Len(c) <= Limit[k] => store'[k] = c
    <3>1. c \in Seq(Entries) /\ Limit[k] \in Nat
      BY <2>3, <2>5
    <3>2. /\ PruneBuffer(c, Limit[k]) \in Seq(Entries) /\ Len(PruneBuffer(c, Limit[k])) <= Limit[k]
          /\ Members(PruneBuffer(c, Limit[k])) \subseteq Members(c)
          /\ IsInjective(c) => IsInjective(PruneBuffer(c, Limit[k]))
          /\ Len(c) <= Limit[k] => PruneBuffer(c, Limit[k]) = c
      BY <3>1, PruneKeeps
    <3> QED BY <2>4, <2>5, <3>2, Zenon
  <2>7. InMemory(k)'
    BY <1>2, <2>1, <2>2, <2>5, <2>6, EmptyEntries DEF InMemory, Apart
  <2>8. OnFile(k)'
    BY <1>2, <2>1, <2>2, <2>5, <2>6 DEF OnFile, Apart
  <2>9. Bounded(k)'
    BY <1>2, <2>2, <2>6 DEF Bounded
  <2>10. Kept(k)'
    <3> SUFFICES ASSUME ~ spoiled, Cardinality(logged[k]) <= Limit[k]
                 PROVE  logged[k] \subseteq Under(k)' \cup written
      BY <1>2 DEF Kept
    <3>1. Members(c) \subseteq logged[k]
      BY <2>2, <2>5 DEF InMemory
    <3>2. Len(c) <= Cardinality(logged[k]) /\ Len(c) \in Nat
      BY <2>3, <2>5, <3>1, DistinctFit
    <3>3. Len(c) <= Limit[k]
      BY <2>3, <3>2
    <3>4. Members(store'[k]) = Members(Carries(r, k)) \cup Members(store[k])
      BY <2>5, <2>6, <3>3
    <3>5. \A s \in Reports : s # r => Members(Carries(s, k)) \subseteq Under(k)'
      BY <2>1 DEF Under, Carries
    <3>6. Members(store'[k]) \subseteq Under(k)'
      BY DEF Under
    <3>7. Under(k) \subseteq Under(k)'
      BY <3>4, <3>5, <3>6 DEF Under, Carries
    <3> QED BY <2>2, <3>7 DEF Kept
  <2> QED BY <1>2, <2>2, <2>6, <2>7, <2>8, <2>9, <2>10 DEF BufferInv
<1>4. CollectorTypeOK'
  <2>1. report' \in [Reports -> ReportRecs] /\ doubled' \in BOOLEAN
    BY <1>1, <1>2, NoReportTypes
  <2>2. store' \in [Buffers -> Seq(Entries)]
    BY <1>2, <1>3
  <2> QED BY <1>1, <1>2, <2>1, <2>2, CollectorTypes DEF CollectorTypeOK, ReportRecs
<1> QED BY <1>3, <1>4 DEF CollectorInv

(* The page is about to be left.                                                 *)
LEMMA BeaconTypes ==
  ASSUME CollectorTypeOK, NEW k \in Buffers
  PROVE  /\ Beacon[k] \in Seq(Entries) /\ Members(Beacon[k]) \subseteq Members(store[k])
         /\ IsInjective(store[k]) => IsInjective(Beacon[k])
<1>1. store[k] \in Seq(Entries) /\ BeaconKeeps \in Nat
  BY BufferTypes, BeaconSizes
<1>2. Beacon[k] = store[k] \/ Beacon[k] = PruneBuffer(store[k], BeaconKeeps)
  BY DEF Beacon
<1>3. /\ PruneBuffer(store[k], BeaconKeeps) \in Seq(Entries)
      /\ Members(PruneBuffer(store[k], BeaconKeeps)) \subseteq Members(store[k])
      /\ IsInjective(store[k]) => IsInjective(PruneBuffer(store[k], BeaconKeeps))
  BY <1>1, PruneKeeps
<1> QED BY <1>1, <1>2, <1>3

LEMMA UnloadStep ==
  ASSUME CollectorInv, BeforeUnload
  PROVE  CollectorInv'
<1>1. /\ CollectorTypeOK /\ report \in [Reports -> ReportRecs]
      /\ \A k \in Buffers : BufferInv(k)
  BY CollectorTypes DEF CollectorInv
<1>2. /\ WriteToLogFile(Beacon) \/ UNCHANGED <<file, written, untrimmed>>
      /\ Leaves \/ (Stays /\ WriteToLogFile(Beacon))
      /\ UNCHANGED <<logged, counted>>
  BY DEF BeforeUnload
<1>3. ASSUME NEW k \in Buffers
      PROVE  /\ Members(file'[k]) \subseteq logged[k]
             /\ ~ doubled => IsInjective(file'[k])
             /\ Len(file'[k]) > FileLimit => k \in untrimmed'
             /\ written \subseteq written'
  <2>1. OnFile(k) /\ InMemory(k) /\ Bounded(k)
    BY <1>1 DEF BufferInv
  <2>2. CASE WriteToLogFile(Beacon)
    <3>1. /\ Beacon[k] \in Seq(Entries) /\ Members(Beacon[k]) \subseteq Members(store[k])
          /\ IsInjective(Beacon[k])
      BY <1>1, <2>1, BeaconTypes DEF InMemory
    <3>2. /\ Members(file'[k]) \subseteq Members(file[k]) \cup Members(Beacon[k])
          /\ IsInjective(file[k]) /\ IsInjective(Beacon[k]) /\ Apart(file[k], Beacon[k])
               => IsInjective(file'[k])
          /\ (Len(file[k]) > FileLimit => k \in untrimmed)
               => (Len(file'[k]) > FileLimit => k \in untrimmed')
          /\ written \subseteq written'
      BY <1>1, <2>2, <3>1, WriteKeeps
    <3>3. ~ doubled => IsInjective(file[k]) /\ Apart(file[k], Beacon[k])
      BY <2>1, <3>1 DEF OnFile, Apart
    <3>4. Members(file'[k]) \subseteq logged[k]
      BY <2>1, <3>1, <3>2 DEF OnFile, InMemory
    <3>5. Len(file'[k]) > FileLimit => k \in untrimmed'
      BY <2>1, <3>2 DEF Bounded
    <3> QED BY <3>1, <3>2, <3>3, <3>4, <3>5
  <2>3. CASE UNCHANGED <<file, written, untrimmed>>
    BY <2>1, <2>3 DEF OnFile, Bounded
  <2> QED BY <1>2, <2>2, <2>3
<1>4. ASSUME NEW k \in Buffers PROVE BufferInv(k)'
  <2>1. logged[k] \subseteq 1 .. counted /\ InMemory(k) /\ OnFile(k) /\ Bounded(k) /\ Kept(k)
    BY <1>1 DEF BufferInv
  <2>2. CASE Stays
    <3>1. InMemory(k)' /\ OnFile(k)'
      BY <1>2, <1>3, <2>1, <2>2 DEF InMemory, OnFile, Carries, Stays
    <3>2. Bounded(k)'
      BY <1>3, <2>1, <2>2 DEF Bounded, Stays
    <3>3. Kept(k)'
      BY <1>2, <1>3, <2>1, <2>2 DEF Kept, Under, Stays
    <3> QED BY <1>2, <2>1, <3>1, <3>2, <3>3 DEF BufferInv
  <2>3. CASE Leaves
    <3>1. store'[k] = << >> /\ \A r \in Reports : Carries(r, k)' = << >> /\ report'[r].at = "idle"
      BY <2>3 DEF Leaves, NoEntries, NoReport, Carries
    <3>2. InMemory(k)'
      BY <3>1, EmptyEntries DEF InMemory, Apart
    <3>3. OnFile(k)'
      BY <1>2, <1>3, <2>1, <2>3, <3>1, EmptyEntries DEF OnFile, Apart, Leaves
    <3>4. Bounded(k)'
      <4>1. Limit[k] \in Nat
        BY <1>1, BufferTypes
      <4> QED BY <1>3, <3>1, <4>1, EmptyEntries DEF Bounded
    <3> QED BY <1>2, <2>1, <2>3, <3>2, <3>3, <3>4 DEF BufferInv, Kept, Leaves
  <2> QED BY <1>2, <2>2, <2>3
<1>5. CollectorTypeOK'
  <2>1. file' \in [Buffers -> Seq(Entries)] /\ written' \subseteq Entries /\ untrimmed' \subseteq Buffers
    <3>1. CASE WriteToLogFile(Beacon)
      BY <1>1, <3>1, BeaconTypes, WriteTypes
    <3>2. CASE UNCHANGED <<file, written, untrimmed>>
      BY <1>1, <3>2, CollectorTypes
    <3> QED BY <1>2, <3>1, <3>2
  <2>2. /\ store' \in [Buffers -> Seq(Entries)] /\ report' \in [Reports -> ReportRecs]
        /\ bodies' \in Nat /\ spoiled' \in BOOLEAN /\ doubled' \in BOOLEAN
    <3>1. CASE Stays
      BY <1>1, <3>1, CollectorTypes DEF Stays
    <3>2. CASE Leaves
      BY <1>1, <3>2, NoReportTypes, CollectorTypes DEF Leaves
    <3> QED BY <1>2, <3>1, <3>2
  <2> QED BY <1>1, <1>2, <2>1, <2>2, CollectorTypes DEF CollectorTypeOK, ReportRecs
<1> QED BY <1>4, <1>5 DEF CollectorInv

(* What cannot be turned into JSON goes with all that was buffered.                 *)
LEMMA ThrowsStep ==
  ASSUME CollectorInv, ReportThrows
  PROVE  CollectorInv'
<1>1. /\ CollectorTypeOK /\ \A k \in Buffers : BufferInv(k)
      /\ store' = NoEntries /\ spoiled' = TRUE
      /\ UNCHANGED <<bodies, report, file, logged, written, counted, untrimmed, doubled>>
  BY DEF CollectorInv, ReportThrows
<1>2. CollectorTypeOK'
  BY <1>1, CollectorTypes, NoReportTypes DEF CollectorTypeOK, ReportRecs
<1>3. ASSUME NEW k \in Buffers PROVE BufferInv(k)'
  <2>1. logged[k] \subseteq 1 .. counted /\ InMemory(k) /\ OnFile(k) /\ Bounded(k) /\ Limit[k] \in Nat
    BY <1>1, BufferTypes DEF BufferInv
  <2>2. store'[k] = << >> /\ \A r \in Reports : Carries(r, k)' = Carries(r, k)
    BY <1>1 DEF NoEntries, Carries
  <2>3. InMemory(k)' /\ OnFile(k)'
    BY <1>1, <2>1, <2>2, EmptyEntries DEF InMemory, OnFile, Apart
  <2>4. Bounded(k)'
    BY <1>1, <2>1, <2>2, EmptyEntries DEF Bounded
  <2> QED BY <1>1, <2>1, <2>3, <2>4 DEF BufferInv, Kept
<1> QED BY <1>2, <1>3 DEF CollectorInv

LEMMA CollectorStepInv == CollectorInv /\ [CollectorNext]_collectorVars => CollectorInv'
<1> SUFFICES ASSUME CollectorInv, [CollectorNext]_collectorVars PROVE CollectorInv'
  OBVIOUS
<1>0. bodies \in Nat
  BY CollectorTypes DEF CollectorInv
<1>1. ASSUME NEW ks, Logs(ks) PROVE CollectorInv'
  BY <1>0, <1>1, PushStep DEF Logs
<1>2. CASE ConsoleCall \/ UncaughtError \/ UiEvent \/ XhrDone
  BY <1>1, <1>2 DEF ConsoleCall, UncaughtError, UiEvent, XhrDone
<1>3. ASSUME UNCHANGED <<store, report, file, logged, written, counted, untrimmed, spoiled, doubled>>,
             bodies' \in Nat
      PROVE  CollectorInv'
  BY <1>3 DEF CollectorInv, CollectorTypeOK, BufferInv, InMemory, OnFile, Bounded, Kept, Under, Carries
<1>4. CASE FetchAnswered
  <2>1. bodies' \in Nat /\ UNCHANGED <<report, file, written, untrimmed, spoiled, doubled>>
    BY <1>0, <1>4 DEF FetchAnswered
  <2>2. UNCHANGED <<store, logged, counted>> \/ Push({"ui"})
    BY <1>4 DEF FetchAnswered
  <2> QED BY <1>3, <2>1, <2>2, PushStep
<1>5. CASE BodyRead
  <2>1. bodies' \in Nat /\ Push({"network"}) /\ UNCHANGED <<report, file, written, untrimmed, spoiled, doubled>>
    BY <1>0, <1>5 DEF BodyRead
  <2> QED BY <2>1, PushStep
<1>6. CASE UNCHANGED collectorVars
  BY <1>0, <1>3, <1>6 DEF collectorVars
<1> QED BY <1>2, <1>4, <1>5, <1>6, ReportStep, ServeStep, AnsweredStep, FailsStep, UnloadStep,
        ThrowsStep DEF CollectorNext

LEMMA CollectorInvariant == CollectorSpec => []CollectorInv
BY CollectorInitInv, CollectorStepInv, PTL DEF CollectorSpec

(* Type correctness of the buffers, the reports under way and the log files, for     *)
(* any number of each.                                                           *)
THEOREM CollectorTyped == CollectorSpec => []CollectorTypeOK
<1>1. CollectorInv => CollectorTypeOK
  BY DEF CollectorInv
<1> QED BY <1>1, CollectorInvariant, PTL

(* The buffers keep to their sizes although reports fail and put back what they     *)
(* took, in any order; and a log file to its own, unless its last trim failed.    *)
THEOREM CollectorIsBounded == CollectorSpec => []BuffersBounded
<1>1. CollectorInv => BuffersBounded
  BY DEF CollectorInv, BufferInv, Bounded, BuffersBounded
<1> QED BY <1>1, CollectorInvariant, PTL

(* As long as a buffer could hold all that was logged, every entry is buffered,    *)
(* under way or written, whatever reports overlap, fail and are put back; unless   *)
(* the server refused one, it could not be turned into JSON, or the page was left. *)
THEOREM CollectorKeepsEntries == CollectorSpec => []EntriesAreKept
<1>1. CollectorInv => EntriesAreKept
  BY DEF CollectorInv, BufferInv, Kept, EntriesAreKept
<1> QED BY <1>1, CollectorInvariant, PTL

(* Nothing is reported twice, whatever reports overlap, fail and are put back,      *)
(* unless an answer was lost or a beacon sent from a page that is not left.       *)
THEOREM CollectorReportsOnce == CollectorSpec => []OncePerEntry
<1>1. ASSUME CollectorInv PROVE OncePerEntry
  <2> SUFFICES ASSUME ~ doubled, NEW e \in Entries, NEW k \in Buffers
               PROVE  /\ Times(e, store[k]) + Times(e, file[k]) <= 1
                      /\ e \in Members(store[k]) => e \notin Members(file[k])
                      /\ \A r \in Reports : e \in Members(report[r].carries[k]) =>
                           /\ e \notin Members(store[k])
                           /\ \A s \in Reports \ {r} : e \notin Members(report[s].carries[k])
                           /\ report[r].at = "sent" => e \notin Members(file[k])
    BY DEF OncePerEntry
  <2>1. store[k] \in Seq(Entries) /\ file[k] \in Seq(Entries)
    BY <1>1, BufferTypes DEF CollectorInv
  <2>2. InMemory(k) /\ OnFile(k)
    BY <1>1 DEF CollectorInv, BufferInv
  <2>3. /\ Times(e, store[k]) \in {0, 1} /\ Times(e, file[k]) \in {0, 1}
        /\ e \notin Members(store[k]) => Times(e, store[k]) = 0
        /\ e \notin Members(file[k]) => Times(e, file[k]) = 0
    BY <2>1, <2>2, TimesOnce DEF InMemory, OnFile
  <2>4. e \in Members(store[k]) => e \notin Members(file[k])
    BY <2>2 DEF OnFile, Apart
  <2>5. Times(e, store[k]) + Times(e, file[k]) <= 1
    BY <2>3, <2>4
  <2>6. ASSUME NEW r \in Reports, e \in Members(report[r].carries[k])
        PROVE  /\ e \notin Members(store[k])
               /\ \A s \in Reports \ {r} : e \notin Members(report[s].carries[k])
               /\ report[r].at = "sent" => e \notin Members(file[k])
    BY <2>2, <2>6 DEF InMemory, OnFile, Apart, Carries
  <2> QED BY <2>4, <2>5, <2>6
<1> QED BY <1>1, CollectorInvariant, PTL
=============================================================================
