------------------------- MODULE InvitationsProofs -------------------------
(***************************************************************************)
(* Theorems about Invitations for every set of links and usernames.         *)
(* LinkInv holds whatever commit fails; OneInv needs acceptances that run   *)
(* to their end, and with it a link brings in one account and the three     *)
(* commits of accept_invitation implement SingleUse.                        *)
(***************************************************************************)
EXTENDS Invitations, TLAPS

Rows == [status : Status, login : Names \cup {None}, expired : BOOLEAN,
         consumedBy : Names \cup {None}]

(* What the body executing has established *)
LoopInv ==
  /\ loop.at = "idle" => loop = Idle
  /\ loop.at # "idle" =>
       /\ loop.link \in Links /\ loop.name \in Names
       /\ account[loop.name] = loop.link
  /\ loop.at = "session" => invitation[loop.link].consumedBy = loop.name

(* What the rows say of one another *)
RowInv ==
  \A l \in Links :
    /\ invitation[l].status \in {"absent", "pending"} => invitation[l].consumedBy = None
    /\ invitation[l].consumedBy # None => account[invitation[l].consumedBy] = l
    /\ invitation[l].status = "consumed" => invitation[l].consumedBy # None
    /\ invitation[l].status # "absent" => account[Admin] = Seeded

LinkInv ==
  /\ TypeOK /\ LoopInv /\ RowInv
  /\ SessionBelongsToConsumer /\ RecordStillCurrent /\ AdminIsSeeded

(* Every account that came through a link has consumed it or is about to *)
OneInv ==
  \A n \in Names : account[n] \in Links =>
    \/ invitation[account[n]].consumedBy = n
    \/ loop.at = "consume" /\ loop.name = n

LEMMA InitLinkInv == Init => LinkInv /\ OneInv
<1> SUFFICES ASSUME Init PROVE LinkInv /\ OneInv
  OBVIOUS
<1>1. TypeOK
  BY DEF Init, TypeOK, Status, Idle, NoAnswer, Answers
<1>2. LoopInv /\ RowInv /\ RecordStillCurrent /\ OneInv
  BY NoneIsNoName DEF Init, LoopInv, RowInv, RecordStillCurrent, OneInv, Idle, Status
<1>3. SessionBelongsToConsumer /\ AdminIsSeeded
  BY AdminIsName DEF Init, SessionBelongsToConsumer, AdminIsSeeded
<1>4. QED
  BY <1>1, <1>2, <1>3 DEF LinkInv

-----------------------------------------------------------------------------
(* What each step does to the rows *)

LEMMA ChecksPassed ==
  ASSUME NEW l \in Links, NEW n \in Names, NEW pw \in Password, Passes(l, n, pw)
  PROVE  invitation[l].status \notin {"absent", "revoked"} /\ ~ invitation[l].expired
<1>1. ~ Checks(l, n, pw)[1].fails /\ ~ Checks(l, n, pw)[2].fails
      /\ ~ Checks(l, n, pw)[3].fails
  BY DEF Passes
<1>2. QED
  BY <1>1 DEF Checks

(* An answer without effect: a preview or a refused acceptance *)
LEMMA AnswerType ==
  ASSUME NEW l \in Links, NEW n \in Names \cup {None}, NEW what \in Answers,
         Says(l, n, what)
  PROVE  answer' \in [link : Links \cup {None}, name : Names \cup {None}, says : Answers]
BY DEF Says

LEMMA QuietStep ==
  ASSUME TypeOK, NEW l \in Links,
         \/ Preview(l)
         \/ \E n \in Names, pw \in Password : AcceptRefused(l, n, pw)
                                              \/ AcceptTaken(l, n, pw)
  PROVE  /\ UNCHANGED <<invitation, account, sessions, loop>>
         /\ answer' \in [link : Links \cup {None}, name : Names \cup {None},
                         says : Answers]
<1>1. CASE Preview(l)
  <2>1. PreviewVerdict(l) \in Answers
    BY DEF PreviewVerdict, Answers
  <2>2. QED
    BY <1>1, <2>1, AnswerType DEF Preview
<1>2. ASSUME NEW n \in Names, NEW pw \in Password, AcceptRefused(l, n, pw)
      PROVE  /\ UNCHANGED <<invitation, account, sessions, loop>>
             /\ \E what \in Answers : Says(l, n, what)
  <2>1. PICK k \in 1..6 : Says(l, n, Checks(l, n, pw)[k].says)
    BY <1>2 DEF AcceptRefused
  <2>2. Checks(l, n, pw)[k].says \in Answers
    BY DEF Checks, Answers
  <2>3. QED
    BY <1>2, <2>1, <2>2 DEF AcceptRefused
<1>3. ASSUME NEW n \in Names, NEW pw \in Password, AcceptTaken(l, n, pw)
      PROVE  /\ UNCHANGED <<invitation, account, sessions, loop>>
             /\ \E what \in Answers : Says(l, n, what)
  BY <1>3 DEF AcceptTaken, Answers
<1>4. QED
  BY <1>1, <1>2, <1>3, AnswerType

LEMMA RowConsumed ==
  ASSUME NEW r \in Rows, NEW n \in Names
  PROVE  LET row == [r EXCEPT !.status = "consumed", !.consumedBy = n]
         IN row \in Rows /\ row.status = "consumed" /\ row.consumedBy = n
BY DEF Rows, Status

(* The row Consume finds is pending, so it always consumes it. *)
LEMMA ConsumeEffect ==
  ASSUME LinkInv, Consume
  PROVE  /\ loop.at = "consume" /\ loop.link \in Links /\ loop.name \in Names
         /\ account[loop.name] = loop.link
         /\ invitation' = [invitation EXCEPT
              ![loop.link] = [invitation[loop.link] EXCEPT !.status = "consumed",
                                                           !.consumedBy = loop.name]]
         /\ loop' = [loop EXCEPT !.at = "session"]
         /\ UNCHANGED <<account, sessions, answer>>
<1>1. /\ loop.at = "consume" /\ loop.link \in Links /\ loop.name \in Names
      /\ account[loop.name] = loop.link /\ invitation[loop.link].status = "pending"
      /\ invitation[loop.link] \in Rows
  BY DEF LinkInv, LoopInv, RecordStillCurrent, Consume, TypeOK, Rows
<1> DEFINE row == [invitation[loop.link] EXCEPT !.status = "consumed",
                                                !.consumedBy = loop.name]
<1>2. Consumed(invitation[loop.link], loop.name) = row
  BY <1>1 DEF Consumed
<1>3. row.status = "consumed" /\ row.consumedBy = loop.name
  BY <1>1 DEF Rows
<1>4. QED
  BY <1>1, <1>2, <1>3 DEF Consume

-----------------------------------------------------------------------------
(* The invariant *)
LEMMA NextLinkInv ==
  ASSUME LinkInv, [Next]_vars
  PROVE  LinkInv'
<1> USE DEF LinkInv
<1>0. Admin \in Names /\ None \notin Names /\ None \notin Links /\ None # Seeded
      /\ Seeded \notin Links
  BY AdminIsName, NoneIsNoName, SeededIsNoLink
<1>1. ASSUME UNCHANGED <<invitation, account, sessions, loop>>,
             answer' \in [link : Links \cup {None}, name : Names \cup {None},
                          says : Answers]
      PROVE  LinkInv'
  BY <1>1 DEF TypeOK, LoopInv, RowInv, SessionBelongsToConsumer,
              RecordStillCurrent, AdminIsSeeded
<1>2. CASE UNCHANGED vars
  BY <1>1, <1>2 DEF vars, TypeOK
<1>3. CASE SeedAdmin
  <2>1. TypeOK'
    BY <1>0, <1>3 DEF SeedAdmin, TypeOK
  <2>2. QED
    BY <1>0, <1>3, <2>1 DEF SeedAdmin, TypeOK, LoopInv, RowInv,
         SessionBelongsToConsumer, RecordStillCurrent, AdminIsSeeded, Idle
<1>4. ASSUME NEW l \in Links, AdminCreate(l)  PROVE LinkInv'
  <2>1. PICK n \in Names \cup {None} :
          invitation' = [invitation EXCEPT ![l].status = "pending", ![l].login = n]
    BY <1>4 DEF AdminCreate
  <2>2. TypeOK'
    <3>1. invitation \in [Links -> Rows]
      BY DEF TypeOK, Rows
    <3>2. [[invitation[l] EXCEPT !.status = "pending"] EXCEPT !.login = n] \in Rows
      BY <3>1 DEF Rows, Status
    <3>3. invitation' \in [Links -> Rows]
      BY <2>1, <3>1, <3>2
    <3>4. QED
      BY <1>4, <3>3 DEF AdminCreate, TypeOK, Rows
  <2>3. QED
    BY <1>0, <1>4, <2>1, <2>2 DEF AdminCreate, TypeOK, LoopInv, RowInv,
         SessionBelongsToConsumer, RecordStillCurrent, AdminIsSeeded, Idle
<1>5. ASSUME NEW l \in Links, AdminRevoke(l)  PROVE LinkInv'
  <2>1. TypeOK'
    BY <1>5 DEF AdminRevoke, TypeOK, Status
  <2>2. QED
    BY <1>0, <1>5, <2>1 DEF AdminRevoke, TypeOK, LoopInv, RowInv,
         SessionBelongsToConsumer, RecordStillCurrent, AdminIsSeeded, Idle
<1>6. ASSUME NEW l \in Links, Expire(l)  PROVE LinkInv'
  <2>1. TypeOK'
    BY <1>6 DEF Expire, TypeOK
  <2>2. QED
    BY <1>0, <1>6, <2>1 DEF Expire, TypeOK, LoopInv, RowInv,
         SessionBelongsToConsumer, RecordStillCurrent, AdminIsSeeded
<1>7. ASSUME NEW l \in Links, NEW n \in Names, NEW pw \in Password, loop = Idle,
             AcceptReplay(l, n, pw)
      PROVE  LinkInv'
  <2>1. TypeOK' /\ account[n] = l
    BY <1>0, <1>7 DEF AcceptReplay, TypeOK, RowInv
  <2>2. QED
    BY <1>0, <1>7, <2>1 DEF AcceptReplay, TypeOK, LoopInv, RowInv,
         SessionBelongsToConsumer, RecordStillCurrent, AdminIsSeeded
<1>8. ASSUME NEW l \in Links, NEW n \in Names, NEW pw \in Password, loop = Idle,
             AcceptFirst(l, n, pw)
      PROVE  LinkInv'
  <2>1. invitation[l].status = "pending" /\ account[Admin] = Seeded /\ n # Admin
        /\ account[n] = None
    BY <1>0, <1>8, ChecksPassed DEF AcceptFirst, TypeOK, Status, RowInv
  <2>2. TypeOK'
    BY <1>8 DEF AcceptFirst, TypeOK
  <2>3. account' = [account EXCEPT ![n] = l]
        /\ loop' = [at |-> "consume", link |-> l, name |-> n, replay |-> FALSE]
        /\ UNCHANGED <<invitation, sessions>>
    BY <1>8 DEF AcceptFirst
  <2>4. LoopInv' /\ RecordStillCurrent' /\ AdminIsSeeded'
    BY <1>0, <2>1, <2>3 DEF TypeOK, LoopInv, RowInv, RecordStillCurrent, AdminIsSeeded
  <2>5. RowInv'
    BY <1>0, <2>1, <2>3 DEF TypeOK, RowInv
  <2>6. SessionBelongsToConsumer'
    <3>1. \A s \in sessions : s[2] \in Names /\ account[s[2]] \in Links
      BY DEF SessionBelongsToConsumer, TypeOK
    <3>2. \A s \in sessions : s[2] # n
      BY <1>0, <2>1, <3>1
    <3>3. QED
      BY <2>3, <3>1, <3>2 DEF SessionBelongsToConsumer, TypeOK
  <2>7. QED
    BY <2>2, <2>4, <2>5, <2>6
<1>9. ASSUME NEW l \in Links, NEW n \in Names, NEW pw \in Password, Accept(l, n, pw)
      PROVE  LinkInv'
  BY <1>1, <1>7, <1>8, <1>9, QuietStep DEF Accept
<1>10. CASE Consume
  <2> DEFINE row == [invitation[loop.link] EXCEPT !.status = "consumed",
                                                  !.consumedBy = loop.name]
  <2>0. /\ loop.at = "consume" /\ loop.link \in Links /\ loop.name \in Names
        /\ invitation' = [invitation EXCEPT ![loop.link] = row]
        /\ invitation \in [Links -> Rows]
        /\ row \in Rows /\ row.status = "consumed" /\ row.consumedBy = loop.name
    <3>1. /\ loop.at = "consume" /\ loop.link \in Links /\ loop.name \in Names
          /\ invitation' = [invitation EXCEPT ![loop.link] = row]
      BY <1>10, ConsumeEffect
    <3>2. invitation \in [Links -> Rows]
      BY DEF TypeOK, Rows
    <3>3. row \in Rows /\ row.status = "consumed" /\ row.consumedBy = loop.name
      BY <3>1, <3>2, RowConsumed
    <3>4. QED
      BY <3>1, <3>2, <3>3
  <2> HIDE DEF row
  <2>1. TypeOK'
    <3>1. invitation' \in [Links -> Rows]
      BY <2>0
    <3>2. QED
      BY <1>10, <3>1, ConsumeEffect DEF TypeOK, Rows
  <2>2. RecordStillCurrent' /\ AdminIsSeeded'
    BY <1>10, ConsumeEffect DEF TypeOK, RecordStillCurrent, AdminIsSeeded
  <2>3. LoopInv' /\ RowInv'
    <3>1. LoopInv'
      BY <1>0, <1>10, <2>0, ConsumeEffect DEF TypeOK, LoopInv
    <3>2. ASSUME NEW l \in Links, l # loop.link
          PROVE  invitation'[l] = invitation[l]
      BY <2>0, <3>2
    <3>3. invitation'[loop.link] = row /\ account' = account
          /\ invitation[loop.link].status = "pending"
      BY <1>10, <2>0, ConsumeEffect DEF RecordStillCurrent
    <3>4. account[loop.name] = loop.link /\ account[Admin] = Seeded
      BY <1>10, <2>0, <3>3, ConsumeEffect DEF RowInv
    <3>5. RowInv'
      BY <1>0, <2>0, <3>2, <3>3, <3>4 DEF RowInv
    <3>6. QED
      BY <3>1, <3>5
  <2>4. SessionBelongsToConsumer'
    <3>1. invitation[loop.link].consumedBy = None
      BY <1>10, ConsumeEffect DEF RecordStillCurrent
    <3>2. \A s \in sessions : s[1] \in Links /\ s[2] \in Names /\ s[1] # loop.link
      BY <1>0, <3>1 DEF SessionBelongsToConsumer, TypeOK
    <3>3. \A l \in Links : l # loop.link => invitation'[l] = invitation[l]
      BY <2>0
    <3>4. QED
      BY <1>10, <3>2, <3>3, ConsumeEffect DEF SessionBelongsToConsumer
  <2>5. QED
    BY <2>1, <2>2, <2>3, <2>4
<1>11. CASE OpenSession
  <2>1. loop.at = "session" /\ loop.link \in Links /\ loop.name \in Names
        /\ account[loop.name] = loop.link
        /\ invitation[loop.link].consumedBy = loop.name
    BY <1>11 DEF OpenSession, LoopInv
  <2>2. TypeOK'
    BY <1>11, <2>1 DEF OpenSession, TypeOK, Says, Answers, Idle
  <2>3. QED
    BY <1>0, <1>11, <2>1, <2>2 DEF OpenSession, LoopInv, RowInv,
         SessionBelongsToConsumer, RecordStillCurrent, AdminIsSeeded, Idle
<1>12. CASE Abort
  <2>1. TypeOK'
    BY <1>12 DEF Abort, TypeOK, Idle
  <2>2. QED
    BY <1>0, <1>12, <2>1 DEF Abort, LoopInv, RowInv,
         SessionBelongsToConsumer, RecordStillCurrent, AdminIsSeeded, Idle
<1>13. ASSUME NEW l \in Links, Preview(l)  PROVE LinkInv'
  BY <1>1, <1>13, QuietStep
<1>14. QED
  BY <1>2, <1>3, <1>4, <1>5, <1>6, <1>9, <1>10, <1>11, <1>12, <1>13 DEF Next

LEMMA LinkInvariant == Spec => []LinkInv
BY InitLinkInv, NextLinkInv, PTL DEF Spec

(* The variables stay in their domains. *)
THEOREM InvitationsTypeCorrect == Spec => []TypeOK
<1>1. LinkInv => TypeOK
  BY DEF LinkInv
<1>2. QED
  BY <1>1, LinkInvariant, PTL

(* Whatever commit fails and whatever is revoked, a session opened through a *)
(* link belongs to the user who consumed it, and to the account it created. *)
THEOREM SessionsBelongToConsumers == Spec => []SessionBelongsToConsumer
<1>1. LinkInv => SessionBelongsToConsumer
  BY DEF LinkInv
<1>2. QED
  BY <1>1, LinkInvariant, PTL

(* The record read before the first commit is current when the invitation is *)
(* consumed: this is why accept_invitation needs no second look at it.      *)
THEOREM RecordsStayCurrent == Spec => []RecordStillCurrent
<1>1. LinkInv => RecordStillCurrent
  BY DEF LinkInv
<1>2. QED
  BY <1>1, LinkInvariant, PTL

(* "admin" is never the account of an invited user. *)
THEOREM AdminStaysSeeded == Spec => []AdminIsSeeded
<1>1. LinkInv => AdminIsSeeded
  BY DEF LinkInv
<1>2. QED
  BY <1>1, LinkInvariant, PTL

-----------------------------------------------------------------------------
(* Revocation *)

RevokedStep ==
  \A l \in Links :
    /\ invitation[l].status = "revoked" =>
         /\ invitation'[l].status = "revoked"
         /\ invitation'[l].consumedBy = invitation[l].consumedBy
         /\ \A n \in Names : account'[n] = l => account[n] = l
    /\ invitation[l].consumedBy # None =>
         invitation'[l].consumedBy = invitation[l].consumedBy

LEMMA NextRevoked ==
  ASSUME LinkInv, [Next]_vars
  PROVE  RevokedStep
<1>0. TypeOK /\ Seeded \notin Links
  BY SeededIsNoLink DEF LinkInv
<1>1. ASSUME UNCHANGED <<invitation, account>>  PROVE RevokedStep
  BY <1>1 DEF RevokedStep
<1>2. CASE SeedAdmin
  BY <1>0, <1>2 DEF SeedAdmin, RevokedStep, TypeOK
<1>3. ASSUME NEW l \in Links, AdminCreate(l) \/ AdminRevoke(l) \/ Expire(l)
      PROVE  RevokedStep
  <2>1. account' = account /\ invitation \in [Links -> Rows]
    BY <1>0, <1>3 DEF AdminCreate, AdminRevoke, Expire, TypeOK, Rows
  <2>2. \A m \in Links : m # l => invitation'[m] = invitation[m]
    BY <1>3, <2>1 DEF AdminCreate, AdminRevoke, Expire
  <2>3. /\ invitation[l].status = "revoked" => invitation'[l].status = "revoked"
        /\ invitation'[l].consumedBy = invitation[l].consumedBy
    BY <1>3, <2>1 DEF AdminCreate, AdminRevoke, Expire, Rows
  <2>4. QED
    BY <2>1, <2>2, <2>3 DEF RevokedStep
<1>4. ASSUME NEW l \in Links, NEW n \in Names, NEW pw \in Password, Accept(l, n, pw)
      PROVE  RevokedStep
  <2>1. CASE AcceptFirst(l, n, pw)
    <3>1. invitation[l].status # "revoked"
      BY <2>1, ChecksPassed DEF AcceptFirst
    <3>2. QED
      BY <1>0, <2>1, <3>1 DEF AcceptFirst, RevokedStep, TypeOK
  <2>2. CASE AcceptReplay(l, n, pw)
    BY <1>1, <2>2 DEF AcceptReplay
  <2>3. CASE AcceptRefused(l, n, pw) \/ AcceptTaken(l, n, pw)
    BY <1>0, <1>1, <2>3, QuietStep
  <2>4. QED
    BY <1>4, <2>1, <2>2, <2>3 DEF Accept
<1>5. CASE Consume
  <2>1. /\ loop.link \in Links /\ account' = account
        /\ \A l \in Links : l # loop.link => invitation'[l] = invitation[l]
    BY <1>0, <1>5, ConsumeEffect DEF TypeOK
  <2>2. invitation[loop.link].status = "pending"
        /\ invitation[loop.link].consumedBy = None
    BY <1>5, ConsumeEffect DEF LinkInv, RecordStillCurrent
  <2>3. QED
    BY <2>1, <2>2 DEF RevokedStep
<1>6. QED
  BY <1>0, <1>1, <1>2, <1>3, <1>4, <1>5, QuietStep
  DEF Next, OpenSession, Abort, vars

(* A revocation is final and takes nothing from the consumer. *)
THEOREM RevocationIsFinal == Spec => RevokedStaysUnused
<1>1. LinkInv /\ [Next]_vars => RevokedStep
  BY NextRevoked
<1>2. Spec => [][RevokedStep]_vars
  BY <1>1, LinkInvariant, PTL DEF Spec
<1>3. QED
  BY <1>2 DEF RevokedStaysUnused, RevokedStep

-----------------------------------------------------------------------------
(* Acceptances that run to their end *)

LEMMA NextOneInv ==
  ASSUME ~ Aborts, LinkInv, OneInv, [Next]_vars
  PROVE  OneInv'
<1>0. TypeOK /\ Seeded \notin Links /\ None \notin Links /\ None \notin Names
  BY SeededIsNoLink, NoneIsNoName DEF LinkInv
<1>1. ASSUME UNCHANGED account, loop' = loop \/ loop.at # "consume",
             \A l \in Links : invitation'[l].consumedBy = invitation[l].consumedBy
      PROVE  OneInv'
  BY <1>1 DEF OneInv
<1>2. CASE SeedAdmin
  BY <1>0, <1>2 DEF SeedAdmin, OneInv, TypeOK
<1>3. ASSUME NEW l \in Links, AdminCreate(l) \/ AdminRevoke(l) \/ Expire(l)
      PROVE  OneInv'
  <2>1. UNCHANGED <<account, loop>> /\ invitation \in [Links -> Rows]
    BY <1>0, <1>3 DEF AdminCreate, AdminRevoke, Expire, TypeOK, Rows
  <2>2. \A m \in Links : invitation'[m].consumedBy = invitation[m].consumedBy
    BY <1>3, <2>1 DEF AdminCreate, AdminRevoke, Expire, Rows
  <2>3. QED
    BY <1>1, <2>1, <2>2
<1>4. ASSUME NEW l \in Links, NEW n \in Names, NEW pw \in Password, Accept(l, n, pw)
      PROVE  OneInv'
  <2>1. CASE AcceptFirst(l, n, pw)
    BY <1>0, <1>4, <2>1 DEF Accept, AcceptFirst, OneInv, TypeOK, Idle
  <2>2. CASE AcceptReplay(l, n, pw)
    BY <1>1, <1>4, <2>2 DEF Accept, AcceptReplay, Idle
  <2>3. CASE AcceptRefused(l, n, pw) \/ AcceptTaken(l, n, pw)
    BY <1>0, <1>1, <2>3, QuietStep
  <2>4. QED
    BY <1>4, <2>1, <2>2, <2>3 DEF Accept
<1>5. CASE Consume
  <2>1. /\ loop.link \in Links /\ loop.name \in Names /\ account' = account
        /\ account[loop.name] = loop.link
        /\ \A l \in Links : l # loop.link => invitation'[l] = invitation[l]
    BY <1>0, <1>5, ConsumeEffect DEF TypeOK
  <2>2. invitation'[loop.link].consumedBy = loop.name
        /\ invitation[loop.link].consumedBy = None
    <3> DEFINE row == [invitation[loop.link] EXCEPT !.status = "consumed",
                                                    !.consumedBy = loop.name]
    <3>1. invitation \in [Links -> Rows]
      BY <1>0 DEF TypeOK, Rows
    <3>2. row.consumedBy = loop.name
      BY <2>1, <3>1, RowConsumed
    <3>3. invitation' = [invitation EXCEPT ![loop.link] = row]
      BY <1>5, ConsumeEffect
    <3> HIDE DEF row
    <3>4. invitation'[loop.link] = row
      BY <2>1, <3>1, <3>3
    <3>5. QED
      BY <1>5, <3>2, <3>4, ConsumeEffect DEF LinkInv, RecordStillCurrent
  <2>3. QED
    BY <1>0, <2>1, <2>2 DEF OneInv
<1>6. CASE OpenSession
  BY <1>1, <1>6 DEF OpenSession
<1>7. CASE UNCHANGED vars
  BY <1>1, <1>7 DEF vars
<1>8. ASSUME NEW l \in Links, Preview(l)  PROVE OneInv'
  BY <1>0, <1>1, <1>8, QuietStep
<1>9. QED
  BY <1>2, <1>3, <1>4, <1>5, <1>6, <1>7, <1>8 DEF Next, Abort

LEMMA OneInvImplies ==
  ASSUME LinkInv, OneInv
  PROVE  OneAccountPerLink
BY NoneIsNoName DEF LinkInv, OneInv, OneAccountPerLink, RecordStillCurrent, LoopInv, TypeOK

(* When no acceptance is cut off between its commits, a link brings in one   *)
(* account, whoever tries it, however often and under which names.          *)
THEOREM LinksBringInOne ==
  ASSUME ~ Aborts
  PROVE  Spec => []OneAccountPerLink
<1>1. LinkInv /\ OneInv => OneAccountPerLink
  BY OneInvImplies
<1>2. LinkInv /\ OneInv /\ [Next]_vars => OneInv'
  BY NextOneInv
<1>3. Init => OneInv
  BY InitLinkInv
<1>4. QED
  BY <1>1, <1>2, <1>3, LinkInvariant, PTL DEF Spec

-----------------------------------------------------------------------------
(* Refinement of SingleUse *)

(* The member of a link is the one account it created. *)
LEMMA ChosenOne ==
  ASSUME NEW acc, NEW l, NEW n \in Names, acc[n] = l,
         \A m \in Names : acc[m] = l => m = n
  PROVE  (CHOOSE m \in Names : acc[m] = l) = n
OBVIOUS

LEMMA MemberIs ==
  ASSUME OneAccountPerLink, NEW l \in Links, NEW n \in Names, account[n] = l
  PROVE  memberOf[l] = n
<1>1. \A m \in Names : account[m] = l => m = n
  BY DEF OneAccountPerLink
<1>2. QED
  BY <1>1, ChosenOne DEF memberOf

LEMMA MemberNone ==
  ASSUME NEW l \in Links, \A n \in Names : account[n] # l
  PROVE  memberOf[l] = None
BY DEF memberOf

LEMMA LinkStateIs ==
  ASSUME NEW l \in Links
  PROVE  /\ invitation[l].status = "absent" => linkState[l] = "unissued"
         /\ invitation[l].status = "pending" /\ ~ Accepting(l) => linkState[l] = "open"
         /\ invitation[l].status = "pending" /\ Accepting(l) => linkState[l] = "used"
         /\ invitation[l].status = "consumed" => linkState[l] = "used"
         /\ invitation[l].status = "revoked" => linkState[l] = "withdrawn"
BY DEF linkState

LEMMA LinkStateNext ==
  ASSUME NEW l \in Links
  PROVE  /\ invitation'[l].status = "absent" => linkState'[l] = "unissued"
         /\ invitation'[l].status = "pending" /\ ~ Accepting(l)' => linkState'[l] = "open"
         /\ invitation'[l].status = "pending" /\ Accepting(l)' => linkState'[l] = "used"
         /\ invitation'[l].status = "consumed" => linkState'[l] = "used"
         /\ invitation'[l].status = "revoked" => linkState'[l] = "withdrawn"
BY DEF linkState

LEMMA InitOneUse == Init => OneUse!SingleUseInit
<1> SUFFICES ASSUME Init PROVE linkState = [l \in Links |-> "unissued"]
                               /\ memberOf = [l \in Links |-> None]
  BY DEF OneUse!SingleUseInit
<1>1. \A l \in Links : linkState[l] = "unissued"
  BY LinkStateIs DEF Init
<1>2. \A l \in Links : memberOf[l] = None
  BY MemberNone, NoneIsNoName DEF Init
<1>3. QED
  BY <1>1, <1>2 DEF linkState, memberOf

(* A step that keeps every link's state and every account is a stutter. *)
LEMMA SameLinks ==
  ASSUME account' = account, \A l \in Links : linkState'[l] = linkState[l]
  PROVE  UNCHANGED OneUse!linkVars
BY DEF OneUse!linkVars, linkState, memberOf

LEMMA PointUpdate ==
  ASSUME NEW S, NEW f, NEW g, f = [x \in S |-> f[x]], g = [x \in S |-> g[x]],
         NEW a \in S, NEW b, g[a] = b, \A x \in S : x # a => g[x] = f[x]
  PROVE  g = [f EXCEPT ![a] = b]
OBVIOUS

LEMMA MappedAreFunctions ==
  /\ linkState = [l \in Links |-> linkState[l]]
  /\ linkState' = [l \in Links |-> linkState'[l]]
  /\ memberOf = [l \in Links |-> memberOf[l]]
  /\ memberOf' = [l \in Links |-> memberOf'[l]]
BY DEF linkState, memberOf

(* One link changes from one state to another, the others and all accounts  *)
(* stay as they are.                                                       *)
LEMMA OneLinkMoves ==
  ASSUME NEW l \in Links, NEW to, account' = account, linkState'[l] = to,
         \A m \in Links : m # l => linkState'[m] = linkState[m]
  PROVE  linkState' = [linkState EXCEPT ![l] = to] /\ memberOf' = memberOf
<1>1. linkState' = [linkState EXCEPT ![l] = to]
  BY MappedAreFunctions, PointUpdate
<1>2. memberOf' = memberOf
  BY DEF memberOf
<1>3. QED
  BY <1>1, <1>2

(* A link's state depends on its own row and on whether it is being accepted. *)
LEMMA SameRowSameState ==
  ASSUME TypeOK, NEW l \in Links,
         invitation'[l].status = invitation[l].status, Accepting(l)' <=> Accepting(l)
  PROVE  linkState'[l] = linkState[l]
<1>1. invitation[l].status \in Status
  BY DEF TypeOK
<1>2. QED
  BY <1>1, LinkStateIs, LinkStateNext DEF Status

LEMMA JoinStep ==
  ASSUME LinkInv, OneInv, NEW l \in Links, NEW n \in Names, NEW pw \in Password,
         loop = Idle, AcceptFirst(l, n, pw)
  PROVE  OneUse!Join(l, n)
<1>0. TypeOK /\ None \notin Names /\ None \notin Links /\ ~ Accepting(l)
      /\ OneAccountPerLink
  BY NoneIsNoName, OneInvImplies DEF LinkInv, Accepting, Idle
<1>1. /\ invitation[l].status = "pending" /\ account[n] = None
      /\ account' = [account EXCEPT ![n] = l] /\ invitation' = invitation
      /\ loop' = [at |-> "consume", link |-> l, name |-> n, replay |-> FALSE]
  BY <1>0, ChecksPassed DEF AcceptFirst, TypeOK, Status
<1>2. \A m \in Names : account[m] # l
  BY <1>0, <1>1 DEF OneInv, LinkInv, RowInv, TypeOK, Idle
<1>3. linkState[l] = "open" /\ memberOf[l] = None
  BY <1>0, <1>1, <1>2, LinkStateIs, MemberNone
<1>4. \A k \in Links : memberOf[k] # n
  <2> SUFFICES ASSUME NEW k \in Links PROVE memberOf[k] # n
    OBVIOUS
  <2>1. CASE \E m \in Names : account[m] = k
    BY <1>0, <1>1, <2>1, MemberIs
  <2>2. CASE \A m \in Names : account[m] # k
    BY <1>0, <2>2, MemberNone
  <2>3. QED  BY <2>1, <2>2
<1>5. linkState' = [linkState EXCEPT ![l] = "used"]
  <2>1. linkState'[l] = "used"
    BY <1>1, LinkStateNext DEF Accepting
  <2>2. ASSUME NEW m \in Links, m # l  PROVE linkState'[m] = linkState[m]
    <3>1. ~ Accepting(m) /\ ~ Accepting(m)'
      BY <1>1, <2>2 DEF Accepting, Idle
    <3>2. QED
      BY <1>0, <1>1, <3>1, SameRowSameState
  <2>3. QED
    BY <2>1, <2>2, MappedAreFunctions, PointUpdate
<1>6. memberOf' = [memberOf EXCEPT ![l] = n]
  <2>1. \A m \in Names : account'[m] = l => m = n
    BY <1>0, <1>1, <1>2 DEF TypeOK
  <2>2. account'[n] = l
    BY <1>0, <1>1 DEF TypeOK
  <2>3. memberOf'[l] = n
    BY <2>1, <2>2, ChosenOne DEF memberOf
  <2>4. ASSUME NEW k \in Links, k # l  PROVE memberOf'[k] = memberOf[k]
    <3>1. \A m \in Names : account'[m] = k <=> account[m] = k
      BY <1>0, <1>1, <2>4 DEF TypeOK
    <3>2. CASE \E m \in Names : account[m] = k
      <4>1. PICK m \in Names : account[m] = k
        BY <3>2
      <4>2. \A j \in Names : account'[j] = k => j = m
        BY <1>0, <3>1, <4>1 DEF OneAccountPerLink
      <4>3. memberOf'[k] = m
        BY <3>1, <4>1, <4>2, ChosenOne DEF memberOf
      <4>4. QED
        BY <1>0, <4>1, <4>3, MemberIs
    <3>3. CASE \A m \in Names : account[m] # k
      BY <3>1, <3>3 DEF memberOf
    <3>4. QED  BY <3>2, <3>3
  <2>5. QED
    BY <2>3, <2>4, MappedAreFunctions, PointUpdate
<1>7. QED
  BY <1>3, <1>4, <1>5, <1>6 DEF OneUse!Join

LEMMA NextOneUse ==
  ASSUME ~ Aborts, LinkInv, OneInv, [Next]_vars
  PROVE  [OneUse!SingleUseNext]_(OneUse!linkVars)
<1>0. TypeOK /\ None \notin Names /\ None \notin Links /\ Seeded \notin Links
  BY NoneIsNoName, SeededIsNoLink DEF LinkInv
<1>1. ASSUME UNCHANGED <<invitation, account>>,
             loop' = loop \/ (loop.at # "consume" /\ loop'.at # "consume")
      PROVE  UNCHANGED OneUse!linkVars
  <2>1. \A l \in Links : Accepting(l)' <=> Accepting(l)
    BY <1>1 DEF Accepting
  <2>2. QED
    BY <1>0, <1>1, <2>1, SameRowSameState, SameLinks
<1>2. CASE SeedAdmin
  <2>1. account' = [account EXCEPT ![Admin] = Seeded] /\ account[Admin] = None
        /\ UNCHANGED <<invitation, loop>>
    BY <1>2 DEF SeedAdmin
  <2>2. \A n \in Names, l \in Links : account'[n] = l <=> account[n] = l
    BY <1>0, <2>1 DEF TypeOK
  <2>3. OneAccountPerLink
    BY OneInvImplies
  <2>4. ASSUME NEW l \in Links  PROVE memberOf'[l] = memberOf[l]
    <3>1. CASE \E n \in Names : account[n] = l
      <4>1. PICK n \in Names : account[n] = l
        BY <3>1
      <4>2. \A m \in Names : account'[m] = l => m = n
        BY <2>2, <2>3, <4>1 DEF OneAccountPerLink
      <4>3. memberOf'[l] = n
        BY <2>2, <4>1, <4>2, ChosenOne DEF memberOf
      <4>4. QED
        BY <2>3, <4>1, <4>3, MemberIs
    <3>2. CASE \A n \in Names : account[n] # l
      BY <2>2, <3>2 DEF memberOf
    <3>3. QED  BY <3>1, <3>2
  <2>5. \A l \in Links : linkState'[l] = linkState[l]
    BY <1>0, <2>1, SameRowSameState DEF Accepting
  <2>6. QED
    BY <2>4, <2>5 DEF OneUse!linkVars, linkState, memberOf
<1>3. ASSUME NEW l \in Links, AdminCreate(l) \/ AdminRevoke(l)
      PROVE  OneUse!Issue(l) \/ OneUse!Withdraw(l)
  <2>1. /\ loop = Idle /\ UNCHANGED <<account, loop>>
        /\ \A m \in Links : m # l => invitation'[m] = invitation[m]
    BY <1>0, <1>3 DEF AdminCreate, AdminRevoke, TypeOK
  <2>2. \A m \in Links : ~ Accepting(m) /\ ~ Accepting(m)'
    BY <2>1 DEF Accepting, Idle
  <2>3. \A m \in Links : m # l => linkState'[m] = linkState[m]
    BY <1>0, <2>1, <2>2, SameRowSameState
  <2>4. CASE AdminCreate(l)
    <3>1. invitation[l].status = "absent" /\ invitation'[l].status = "pending"
      BY <1>0, <2>4 DEF AdminCreate, TypeOK
    <3>2. linkState[l] = "unissued" /\ linkState'[l] = "open"
      BY <2>2, <3>1, LinkStateIs, LinkStateNext
    <3>3. OneUse!Issue(l)
      BY <2>1, <2>3, <3>2, OneLinkMoves DEF OneUse!Issue
    <3>4. QED  BY <3>3
  <2>5. CASE AdminRevoke(l)
    <3>1. /\ invitation[l].status \in Status \ {"absent"}
          /\ invitation'[l].status = "revoked"
      BY <1>0, <2>5 DEF AdminRevoke, TypeOK
    <3>2. linkState[l] # "unissued" /\ linkState'[l] = "withdrawn"
      BY <2>2, <3>1, LinkStateIs, LinkStateNext DEF Status
    <3>3. OneUse!Withdraw(l)
      BY <2>1, <2>3, <3>2, OneLinkMoves DEF OneUse!Withdraw
    <3>4. QED  BY <3>3
  <2>6. QED  BY <1>3, <2>4, <2>5
<1>4. ASSUME NEW l \in Links, Expire(l)  PROVE UNCHANGED OneUse!linkVars
  <2>1. /\ UNCHANGED <<account, loop>>
        /\ \A m \in Links : invitation'[m].status = invitation[m].status
    BY <1>0, <1>4 DEF Expire, TypeOK
  <2>2. QED
    BY <1>0, <2>1, SameRowSameState, SameLinks DEF Accepting
<1>5. ASSUME NEW l \in Links, NEW n \in Names, NEW pw \in Password, Accept(l, n, pw)
      PROVE  OneUse!Join(l, n) \/ UNCHANGED OneUse!linkVars
  <2>1. CASE AcceptFirst(l, n, pw)
    BY <1>5, <2>1, JoinStep DEF Accept
  <2>2. CASE AcceptReplay(l, n, pw)
    BY <1>1, <1>5, <2>2 DEF Accept, AcceptReplay, Idle
  <2>3. CASE AcceptRefused(l, n, pw) \/ AcceptTaken(l, n, pw)
    BY <1>0, <1>1, <2>3, QuietStep
  <2>4. QED
    BY <1>5, <2>1, <2>2, <2>3 DEF Accept
<1>6. CASE Consume
  <2>1. /\ loop.at = "consume" /\ loop.link \in Links /\ account' = account
        /\ invitation[loop.link].status = "pending"
        /\ \A m \in Links : m # loop.link => invitation'[m] = invitation[m]
        /\ loop' = [loop EXCEPT !.at = "session"]
    BY <1>0, <1>6, ConsumeEffect DEF TypeOK, LinkInv, RecordStillCurrent
  <2>2. invitation'[loop.link].status = "consumed"
    <3> DEFINE row == [invitation[loop.link] EXCEPT !.status = "consumed",
                                                    !.consumedBy = loop.name]
    <3>1. invitation \in [Links -> Rows]
      BY <1>0 DEF TypeOK, Rows
    <3>2. row.status = "consumed"
      BY <1>6, <3>1, ConsumeEffect, RowConsumed
    <3>3. invitation' = [invitation EXCEPT ![loop.link] = row]
      BY <1>6, ConsumeEffect
    <3> HIDE DEF row
    <3>4. QED
      BY <2>1, <3>1, <3>2, <3>3
  <2>3. linkState'[loop.link] = linkState[loop.link]
    BY <2>1, <2>2, LinkStateIs, LinkStateNext DEF Accepting
  <2>4. ASSUME NEW m \in Links, m # loop.link  PROVE linkState'[m] = linkState[m]
    <3>1. ~ Accepting(m) /\ ~ Accepting(m)'
      BY <1>0, <2>1, <2>4 DEF Accepting, TypeOK
    <3>2. QED
      BY <1>0, <2>1, <2>4, <3>1, SameRowSameState
  <2>5. QED
    BY <2>1, <2>3, <2>4, SameLinks
<1>7. CASE OpenSession
  BY <1>1, <1>7 DEF OpenSession, Idle
<1>8. CASE UNCHANGED vars
  BY <1>1, <1>8 DEF vars
<1>9. ASSUME NEW l \in Links, Preview(l)  PROVE UNCHANGED OneUse!linkVars
  BY <1>0, <1>1, <1>9, QuietStep
<1>10. QED
  BY <1>2, <1>3, <1>4, <1>5, <1>6, <1>7, <1>8, <1>9
  DEF Next, Abort, OneUse!SingleUseNext

(* When no acceptance is cut off, its three commits implement the single     *)
(* step in which somebody joins through a link that is open.                *)
THEOREM InvitationsImplementSingleUse ==
  ASSUME ~ Aborts
  PROVE  Spec => LinkRefined
<1>1. LinkInv /\ OneInv /\ [Next]_vars => OneInv'
  BY NextOneInv
<1>2. Init => OneInv /\ OneUse!SingleUseInit
  BY InitLinkInv, InitOneUse
<1>3. LinkInv /\ OneInv /\ [Next]_vars => [OneUse!SingleUseNext]_(OneUse!linkVars)
  BY NextOneUse
<1>4. Spec => OneUse!SingleUseSpec
  BY <1>1, <1>2, <1>3, LinkInvariant, PTL DEF Spec, OneUse!SingleUseSpec
<1>5. QED
  BY <1>4 DEF LinkRefined
=============================================================================
