--------------------------- MODULE WebSessionProofs ---------------------------
(***************************************************************************)
(* Theorems about WebSession, for any accounts, administrators, number of    *)
(* overlapping bootstraps and troubles: the guards' redirects end, a forced   *)
(* change of password comes before any business page, logging out is final    *)
(* once the document has been loaded anew.                                   *)
(*                                                                         *)
(* None of them is inductive by itself.  What carries them: an answer in      *)
(* flight is about an account of seen, an allowance in flight is about an      *)
(* account that need not change its password, and without a cookie nothing in *)
(* flight can allow anything.                                               *)
(***************************************************************************)
EXTENDS WebSession, TLAPS

(* A login or an acceptance names an account.                                 *)
PostNames == post.kind \in {"login", "accept"} => post.as \in Accounts

(* An answer about somebody is about an account of seen.                       *)
AnswersSeen ==
  \A c \in Calls : call[c].answer \in {"must", "disabled", "allowed"} => call[c].as \in seen

(* Access is allowed to accounts that need not change their password.         *)
AllowedIsClean ==
  \A c \in Calls : call[c].at = "access" /\ call[c].answer = "allowed" => call[c].as \notin must

UserSeen == user \in seen \cup {None}

ReadySeen == boot = "authenticatedReady" => \E a \in seen : a \notin must

(* Without a cookie nobody is signed in, nor will be by an answer in flight,     *)
(* but for the old document of a tab that is logging out.                      *)
SignedOut ==
  cookie = None /\ ~ LoggingOut =>
    /\ boot # "authenticatedReady"
    /\ \A c \in Calls : call[c].as = None /\ call[c].answer \in {"none", "error", "nobody"}

IInv ==
  /\ TypeOK /\ RedirectsEnd
  /\ PostNames /\ AnswersSeen /\ AllowedIsClean /\ UserSeen /\ ReadySeen /\ SignedOut

-----------------------------------------------------------------------------
(* A guard sends to a path of the application, waits or renders.               *)
LEMMA GuardTo ==
  ASSUME NEW p \in Paths, NEW b \in BootStates, NEW u
  PROVE  Guard(p, b, u) \in Paths \cup {"wait", "render"}
BY DEF Guard, RequireAuth, RequireAdmin, RequireForcePasswordChange, RedirectIfAuthenticated,
       Home, Paths, BootStates

LEMMA FollowIsPath ==
  ASSUME NEW p \in Paths, NEW b \in BootStates, NEW u
  PROVE  Follow(p, b, u) \in Paths
BY DEF Follow

(* From a page, one redirect is enough; two paths stand for pages.              *)
Aliases == {"/", "/error/disabled"}

LEMMA OneRedirect ==
  ASSUME NEW p \in Paths \ Aliases, NEW b \in BootStates, NEW u
  PROVE  Guard(Follow(p, b, u), b, u) \notin Paths
<1> DEFINE g == Guard(p, b, u)
<1> USE DEF RequireAuth, RequireAdmin, RequireForcePasswordChange, RedirectIfAuthenticated,
            Home, BootStates
<1>1. CASE g \notin Paths
  BY <1>1 DEF Follow
<1>2. CASE g \in Paths
  <2>1. Follow(p, b, u) = g
    BY <1>2 DEF Follow
  <2>2. Guard(g, b, u) \notin Paths
    <3>1. CASE p = "/app"
      BY <1>2, <3>1 DEF Guard, Paths
    <3>2. CASE p = "/admin"
      BY <1>2, <3>2 DEF Guard, Paths
    <3>3. CASE p = "/force-password-change"
      BY <1>2, <3>3 DEF Guard, Paths
    <3>4. CASE p = "/login"
      BY <1>2, <3>4 DEF Guard, Paths
    <3>5. CASE p \in {"/invite", "/403", "/disabled"}
      BY <1>2, <3>5 DEF Guard, Paths
    <3> QED BY <3>1, <3>2, <3>3, <3>4, <3>5 DEF Paths, Aliases
  <2> QED BY <2>1, <2>2
<1> QED BY <1>1, <1>2

LEMMA AliasLeads ==
  ASSUME NEW p \in Aliases, NEW b \in BootStates, NEW u
  PROVE  Follow(p, b, u) \in Paths \ Aliases
BY DEF Aliases, Follow, Guard, Paths

(* So that three are enough from every path, in every boot state.              *)
LEMMA ArriveEnds ==
  ASSUME NEW p \in Paths, NEW b \in BootStates, NEW u
  PROVE  Arrive(p, b, u) \in Paths /\ Guard(Arrive(p, b, u), b, u) \notin Paths
<1> DEFINE q == Follow(p, b, u)
           r == Follow(q, b, u)
<1>1. q \in Paths /\ r \in Paths
  BY FollowIsPath
<1>2. Guard(r, b, u) \notin Paths
  <2>1. CASE p \in Aliases
    BY <2>1, AliasLeads, OneRedirect
  <2>2. CASE p \notin Aliases
    <3>1. Guard(q, b, u) \notin Paths
      BY <2>2, OneRedirect
    <3>2. r = q
      BY <3>1 DEF Follow
    <3> QED BY <3>1, <3>2
  <2> QED BY <2>1, <2>2
<1>3. Arrive(p, b, u) = r
  BY <1>2 DEF Arrive, Follow
<1> QED BY <1>1, <1>2, <1>3

LEMMA ShowEnds ==
  ASSUME NEW p \in Paths, NEW b \in BootStates, NEW u \in Someone, Show(p, b, u)
  PROVE  /\ path' \in Paths /\ boot' \in BootStates /\ user' \in Someone
         /\ boot' = b /\ user' = u
         /\ RedirectsEnd'
BY ArriveEnds DEF Show, RedirectsEnd

(* The records that bootstraps and posts begin with and end in.                *)
LEMMA Records ==
  /\ \A as \in Someone, g \in Paths \cup {None} : AskMe(as, g) \in CallRecs
  /\ NoCall \in CallRecs /\ NoPost \in PostRecs
BY DEF AskMe, NoCall, NoPost, CallRecs, PostRecs, Someone, Answers

LEMMA InitIInv == Init => IInv
<1> SUFFICES ASSUME Init PROVE IInv
  OBVIOUS
<1>1. TypeOK
  <2>1. cookie \in Someone /\ None \in Paths \cup {None} /\ None \in Someone
    BY DEF Init, Someone
  <2>2. call \in [Calls -> CallRecs] /\ post \in PostRecs
    BY <2>1, Records DEF Init
  <2>3. path \in Paths /\ boot \in BootStates /\ user \in Someone
    BY DEF Init, Paths, BootStates, Someone
  <2>4. open \subseteq Accounts /\ must \subseteq Accounts /\ disabled \subseteq Accounts
    BY AdminsAreAccounts DEF Init
  <2>5. timer \in BOOLEAN /\ seen \subseteq Accounts
    BY DEF Init
  <2>6. troubles \in 0 .. MaxTrouble
    BY BoundedTrouble DEF Init
  <2> QED BY <2>1, <2>2, <2>3, <2>4, <2>5, <2>6 DEF TypeOK
<1>2. RedirectsEnd
  BY DEF Init, RedirectsEnd, Guard, RequireAuth, RequireAdmin, RedirectIfAuthenticated, Paths
<1>3. PostNames /\ AnswersSeen /\ AllowedIsClean /\ UserSeen /\ ReadySeen
  BY DEF Init, PostNames, AnswersSeen, AllowedIsClean, UserSeen, ReadySeen, NoPost, NoCall, AskMe
<1>4. SignedOut
  BY DEF Init, SignedOut, NoCall, AskMe
<1> QED BY <1>1, <1>2, <1>3, <1>4 DEF IInv

-----------------------------------------------------------------------------
(* The home of an account, and the page a login goes on to, are paths.         *)
LEMMA HomeIsPath == \A u : Home(u) \in Paths
BY DEF Home, Paths

(* What a call begun or ended carries.                                        *)
LEMMA Fresh ==
  /\ NoCall.at = "idle" /\ NoCall.as = None /\ NoCall.answer = "none"
  /\ \A as, g : AskMe(as, g).at = "me" /\ AskMe(as, g).as = as /\ AskMe(as, g).answer = "none"
BY DEF NoCall, AskMe

(* What is in flight after a document is loaded, with the cookie it finds.      *)
LEMMA LoadIInv ==
  ASSUME TypeOK', NEW p \in Paths, Load(p, cookie')
  PROVE  IInv'
<1>1. RedirectsEnd' /\ boot' = "checkingSession" /\ user' = None
  BY ShowEnds DEF Load, Someone, BootStates
<1>2. ASSUME NEW c \in Calls
      PROVE  call'[c].answer = "none" /\ (call'[c].as = cookie' \/ call'[c].as = None)
  <2>1. call'[c] = AskMe(cookie', None) \/ call'[c] = NoCall
    BY DEF Load
  <2> QED BY <2>1, Fresh
<1>3. PostNames' /\ UserSeen' /\ ReadySeen'
  BY <1>1 DEF Load, PostNames, NoPost, UserSeen, ReadySeen
<1>4. AnswersSeen' /\ AllowedIsClean'
  BY <1>2 DEF AnswersSeen, AllowedIsClean
<1>5. SignedOut'
  BY <1>1, <1>2 DEF SignedOut
<1> QED BY <1>1, <1>3, <1>4, <1>5 DEF IInv

(* A bootstrap that is begun, over a session that is not nobody's.              *)
LEMMA RefreshEffect ==
  ASSUME TypeOK, NEW as \in Accounts, NEW g \in Paths \cup {None}, Refresh(as, g)
  PROVE  /\ path' \in Paths /\ boot' = "checkingSession" /\ user' = user
         /\ RedirectsEnd'
         /\ call' \in [Calls -> CallRecs]
         /\ \A c \in Calls : call'[c] = call[c] \/ call'[c] = AskMe(as, g)
<1>1. user \in Someone /\ path \in Paths
  BY DEF TypeOK
<1>2. path' \in Paths /\ boot' = "checkingSession" /\ user' = user /\ RedirectsEnd'
  BY <1>1, ShowEnds DEF Refresh, BootStates
<1>3. PICK d \in Calls : call' = [call EXCEPT ![d] = AskMe(as, g)]
  BY DEF Refresh, Free
<1>4. AskMe(as, g) \in CallRecs
  BY Records DEF Someone
<1> QED BY <1>2, <1>3, <1>4 DEF TypeOK

LEMMA StepType ==
  ASSUME IInv, [Next]_wsVars
  PROVE  TypeOK'
<1> USE DEF IInv
<1>1. ASSUME NEW c \in Calls, Serve(c) PROVE TypeOK'
  <2>1. \A x : MeAnswer(x) \in Answers /\ AccessAnswer(x) \in Answers
    BY DEF MeAnswer, AccessAnswer, Answers
  <2>2. PICK x \in Answers : call' = [call EXCEPT ![c].answer = x]
    BY <1>1, <2>1 DEF Serve, Answers
  <2>3. call' \in [Calls -> CallRecs]
    BY <2>2 DEF TypeOK, CallRecs
  <2>4. troubles' \in 0 .. MaxTrouble /\ seen' \subseteq Accounts
    BY <1>1, BoundedTrouble DEF Serve, Trouble, TypeOK
  <2> QED BY <1>1, <2>3, <2>4 DEF Serve, serverVars, tabVars, TypeOK
<1>2. ASSUME NEW c \in Calls, ApplyMe(c) PROVE TypeOK'
  <2>1. call' \in [Calls -> CallRecs]
    BY <1>2, Records DEF ApplyMe, Finish, TypeOK, CallRecs, Answers
  <2> QED BY <1>2, <2>1, ShowEnds DEF ApplyMe, Finish, TypeOK, serverVars, CallRecs, BootStates, Someone
<1>3. ASSUME NEW c \in Calls, ApplyAccess(c) PROVE TypeOK'
  <2>1. call' \in [Calls -> CallRecs]
    BY <1>3, Records DEF ApplyAccess, Finish, TypeOK
  <2> QED BY <1>3, <2>1, ShowEnds
          DEF ApplyAccess, Finish, TypeOK, serverVars, CallRecs, BootStates, Someone
<1>4. ASSUME NEW p \in Paths, Go(p) PROVE TypeOK'
  BY <1>4, ArriveEnds DEF Go, TypeOK, serverVars
<1>5. ASSUME NEW p \in Paths, NEW as \in Someone, Load(p, as) PROVE
        /\ path' \in Paths /\ boot' \in BootStates /\ user' \in Someone
        /\ call' \in [Calls -> CallRecs] /\ post' \in PostRecs
        /\ timer' \in BOOLEAN /\ seen' \subseteq Accounts
  <2>1. path' \in Paths /\ boot' \in BootStates /\ user' \in Someone
    BY <1>5, ShowEnds DEF Load, BootStates, Someone
  <2> QED BY <1>5, <2>1, Records DEF Load
<1>6. ASSUME NEW p \in Paths, Reload(p) PROVE TypeOK'
  BY <1>5, <1>6 DEF Reload, TypeOK, serverVars
<1>7. CASE ServeLogout \/ LogoutDone \/ Unload
  <2>1. CASE ServeLogout
    <3>1. cookie' \in Someone /\ open' \subseteq Accounts /\ troubles' \in 0 .. MaxTrouble
      BY <2>1, BoundedTrouble DEF ServeLogout, Trouble, TypeOK, Someone
    <3>2. post' \in PostRecs
      BY <2>1 DEF ServeLogout, TypeOK, PostRecs
    <3> QED BY <2>1, <3>1, <3>2 DEF ServeLogout, tabVars, TypeOK
  <2>2. CASE LogoutDone
    <3>1. post' \in PostRecs
      BY <2>2 DEF LogoutDone, TypeOK, PostRecs
    <3>2. path' \in Paths /\ boot' \in BootStates /\ user' \in Someone
      BY <2>2, ShowEnds DEF LogoutDone, TypeOK, BootStates, Someone
    <3> QED BY <2>2, <3>1, <3>2 DEF LogoutDone, serverVars, TypeOK
  <2>3. CASE Unload
    <3>1. "/login" \in Paths /\ cookie \in Someone
      BY DEF Paths, TypeOK
    <3> QED BY <1>5, <2>3, <3>1 DEF Unload, serverVars, TypeOK
  <2> QED BY <1>7, <2>1, <2>2, <2>3
<1>8. ASSUME NEW a \in Accounts, SubmitLogin(a) \/ SubmitAccept(a) PROVE TypeOK'
  <2>1. post' \in PostRecs
    BY <1>8 DEF SubmitLogin, SubmitAccept, Submit, TypeOK, PostRecs, Someone
  <2> QED BY <1>8, <2>1 DEF SubmitLogin, SubmitAccept, Submit, TypeOK, serverVars, tabVars
<1>9. CASE SubmitChange \/ Logout
  <2>1. post' \in PostRecs
    BY <1>9 DEF SubmitChange, Logout, Submit, TypeOK, PostRecs, Someone
  <2> QED BY <1>9, <2>1 DEF SubmitChange, Logout, Submit, TypeOK, serverVars, tabVars
<1>10. CASE Refused
  BY <1>10, Records DEF Refused, TypeOK, serverVars, tabVars
<1>11. CASE AcceptOk
  BY <1>11, Records DEF AcceptOk, PostNames, TypeOK, tabVars, Someone
<1>12. CASE LoginOk
  <2>1. post.as \in Accounts
    BY <1>12 DEF LoginOk, PostNames
  <2>2. (IF post.as \in must THEN "/force-password-change" ELSE Home(post.as)) \in Paths \cup {None}
    BY HomeIsPath DEF Paths
  <2> QED BY <1>12, <2>1, <2>2, RefreshEffect, Records DEF LoginOk, TypeOK, Someone, BootStates
<1>13. CASE ChangeOk
  BY <1>13, HomeIsPath, RefreshEffect, Records DEF ChangeOk, TypeOK, Someone, BootStates
<1>14. CASE ChangeSignedOut
  BY <1>14, ArriveEnds, Records DEF ChangeSignedOut, TypeOK, serverVars, Paths
<1>15. CASE AcceptNavigates
  BY <1>15, ArriveEnds DEF AcceptNavigates, TypeOK, serverVars, Paths
<1>16. CASE Elsewhere
  BY <1>16, BoundedTrouble DEF Elsewhere, Trouble, TypeOK, tabVars, Someone
<1>17. CASE UNCHANGED wsVars
  BY <1>17 DEF wsVars, TypeOK
<1>18. {"/", "/admin", "/login", "/invite", "/error/disabled", "/app"} \subseteq Paths
  BY DEF Paths
<1>19. CASE Next
  <2>1. CASE \E p \in {"/", "/admin", "/login", "/invite", "/error/disabled"} : Go(p)
    BY <1>4, <1>18, <2>1
  <2>2. CASE \E p \in {"/app", "/login", "/invite"} : Reload(p)
    BY <1>6, <1>18, <2>2
  <2> QED BY <1>19, <1>1, <1>2, <1>3, <1>7, <1>8, <1>9, <1>10, <1>11, <1>12, <1>13, <1>14, <1>15,
             <1>16, <2>1, <2>2 DEF Next, PostAnswered
<1> QED BY <1>17, <1>19

-----------------------------------------------------------------------------
(* Every step ends where the guards redirect no further.                       *)
LEMMA StepRedirects ==
  ASSUME IInv, [Next]_wsVars
  PROVE  RedirectsEnd'
<1> USE DEF IInv
<1>1. path \in Paths /\ boot \in BootStates /\ user \in Someone
  BY DEF TypeOK
<1>2. CASE UNCHANGED tabVars
  BY <1>2 DEF tabVars, RedirectsEnd
<1>3. ASSUME NEW p \in Paths, NEW b \in BootStates, NEW u \in Someone, Show(p, b, u)
      PROVE  RedirectsEnd'
  BY <1>3, ShowEnds
<1>4. ASSUME NEW p \in Paths, path' = Arrive(p, boot, user), boot' = boot, user' = user
      PROVE  RedirectsEnd'
  BY <1>1, <1>4, ArriveEnds DEF RedirectsEnd
<1>5. ASSUME NEW c \in Calls, NEW b \in BootStates, NEW u \in Someone, Finish(c, b, u)
      PROVE  RedirectsEnd'
  <2>1. (IF call[c].goal = None THEN path ELSE call[c].goal) \in Paths
    BY DEF TypeOK, CallRecs
  <2> QED BY <1>3, <1>5, <2>1 DEF Finish
<1>6. ASSUME NEW c \in Calls, ApplyMe(c) PROVE RedirectsEnd'
  <2>1. call[c].as \in Someone /\ None \in Someone
    BY DEF TypeOK, CallRecs, Someone
  <2>2. {"unauthenticated", "mustChangePasswordBlocked", "checkingAccess"} \subseteq BootStates
    BY DEF BootStates
  <2> QED BY <1>1, <1>3, <1>5, <1>6, <2>1, <2>2 DEF ApplyMe
<1>7. ASSUME NEW c \in Calls, ApplyAccess(c) PROVE RedirectsEnd'
  <2>1. None \in Someone
    BY DEF Someone
  <2>2. {"unauthenticated", "mustChangePasswordBlocked", "disabledBlocked", "authenticatedReady"}
          \subseteq BootStates
    BY DEF BootStates
  <2> QED BY <1>1, <1>5, <1>7, <2>1, <2>2 DEF ApplyAccess
<1>8. ASSUME NEW as, NEW g, Refresh(as, g) PROVE RedirectsEnd'
  BY <1>1, <1>3, <1>8 DEF Refresh, BootStates
<1>9. ASSUME NEW p \in Paths, NEW as, Load(p, as) PROVE RedirectsEnd'
  BY <1>3, <1>9 DEF Load, BootStates, Someone
<1>10. {"/", "/admin", "/login", "/invite", "/error/disabled", "/app"} \subseteq Paths
  BY DEF Paths
<1>11. CASE \E p \in {"/", "/admin", "/login", "/invite", "/error/disabled"} : Go(p)
  BY <1>4, <1>10, <1>11 DEF Go
<1>12. CASE \E p \in {"/app", "/login", "/invite"} : Reload(p)
  BY <1>9, <1>10, <1>12 DEF Reload
<1>13. CASE LoginOk \/ ChangeOk
  BY <1>8, <1>13 DEF LoginOk, ChangeOk
<1>14. CASE ChangeSignedOut \/ AcceptNavigates
  BY <1>4, <1>10, <1>14 DEF ChangeSignedOut, AcceptNavigates
<1>15. CASE LogoutDone \/ Unload
  <2>1. "unauthenticated" \in BootStates /\ None \in Someone
    BY DEF BootStates, Someone
  <2> QED BY <1>1, <1>3, <1>9, <1>10, <1>15, <2>1 DEF LogoutDone, Unload
<1>16. CASE \/ \E c \in Calls : Serve(c)
            \/ \E a \in Accounts : SubmitLogin(a) \/ SubmitAccept(a)
            \/ SubmitChange \/ Logout \/ Refused \/ AcceptOk \/ ServeLogout \/ Elsewhere
  BY <1>2, <1>16 DEF Serve, SubmitLogin, SubmitAccept, SubmitChange, Logout, Submit, Refused, AcceptOk,
                     ServeLogout, Elsewhere
<1>17. CASE UNCHANGED wsVars
  BY <1>2, <1>17 DEF wsVars, tabVars
<1> QED BY <1>6, <1>7, <1>11, <1>12, <1>13, <1>14, <1>15, <1>16, <1>17 DEF Next, PostAnswered

(* The conjuncts about what is in flight and what it has brought.              *)
InFlight == PostNames /\ AnswersSeen /\ AllowedIsClean /\ UserSeen /\ ReadySeen /\ SignedOut

LEMMA ServeInFlight ==
  ASSUME IInv, NEW c \in Calls, Serve(c)
  PROVE  InFlight'
<1> USE DEF IInv
<1>1. PICK x : /\ call' = [call EXCEPT ![c].answer = x]
               /\ x \in {"must", "disabled", "allowed"} => call[c].as \in open /\ call[c].as \in seen'
               /\ call[c].at = "access" /\ x = "allowed" => call[c].as \notin must
               /\ x \in {"must", "disabled", "allowed", "nobody", "error"}
  <2>1. CASE call' = [call EXCEPT ![c].answer = "error"]
    BY <2>1
  <2>2. CASE /\ call[c].at = "me" /\ seen' = seen \cup ({call[c].as} \cap open)
             /\ call' = [call EXCEPT ![c].answer = MeAnswer(call[c].as)]
    <3>1. MeAnswer(call[c].as) \in {"nobody", "must", "allowed"}
      BY DEF MeAnswer
    <3>2. MeAnswer(call[c].as) # "nobody" => call[c].as \in open
      BY DEF MeAnswer
    <3> QED BY <2>2, <3>1, <3>2
  <2>3. CASE /\ call[c].at = "access" /\ seen' = seen \cup ({call[c].as} \cap open)
             /\ call' = [call EXCEPT ![c].answer = AccessAnswer(call[c].as)]
    <3>1. AccessAnswer(call[c].as) \in {"nobody", "disabled", "must", "allowed"}
      BY DEF AccessAnswer
    <3>2. call[c].as \notin open => AccessAnswer(call[c].as) = "nobody"
      BY DEF AccessAnswer
    <3>3. call[c].as \in must => AccessAnswer(call[c].as) # "allowed"
      BY DEF AccessAnswer
    <3> QED BY <2>3, <3>1, <3>2, <3>3
  <2>4. call[c].at \in {"idle", "me", "access"}
    BY DEF TypeOK, CallRecs
  <2> QED BY <2>1, <2>2, <2>3, <2>4 DEF Serve
<1>2. seen \subseteq seen' /\ UNCHANGED <<open, must, disabled, cookie, boot, user, path, post, timer>>
  BY DEF Serve, serverVars, tabVars
<1>3. \A d \in Calls : /\ call'[d].as = call[d].as /\ call'[d].at = call[d].at
                       /\ call'[d].answer = IF d = c THEN x ELSE call[d].answer
  BY <1>1 DEF TypeOK, CallRecs
<1>4. PostNames' /\ UserSeen' /\ ReadySeen'
  BY <1>2 DEF PostNames, UserSeen, ReadySeen
<1>5. AnswersSeen' /\ AllowedIsClean'
  BY <1>1, <1>2, <1>3 DEF AnswersSeen, AllowedIsClean
<1>6. SignedOut'
  <2>1. None \notin open
    BY NoneIsNobody DEF TypeOK
  <2> QED BY <1>1, <1>2, <1>3, <2>1 DEF SignedOut, LoggingOut
<1> QED BY <1>4, <1>5, <1>6 DEF InFlight

LEMMA ApplyInFlight ==
  ASSUME IInv, NEW c \in Calls, ApplyMe(c) \/ ApplyAccess(c)
  PROVE  InFlight'
<1> USE DEF IInv
<1>1. UNCHANGED <<open, must, disabled, cookie, post, seen>>
  BY DEF ApplyMe, ApplyAccess, serverVars
<1>2. ASSUME NEW d \in Calls
      PROVE \/ call'[d] = call[d]
            \/ call'[d] = NoCall
            \/ /\ call'[d].at = "access" /\ call'[d].answer = "none" /\ call'[d].as = cookie
  BY DEF ApplyMe, ApplyAccess, Finish, TypeOK, CallRecs
<1>3. user' \in {user, None, call[c].as}
  BY DEF ApplyMe, ApplyAccess, Finish, Show
<1>4. user' = call[c].as => user' = user \/ call[c].answer \in {"must", "allowed"} \/ user' = None
  BY DEF ApplyMe, ApplyAccess, Finish, Show
<1>5. boot' = "authenticatedReady" => call[c].at = "access" /\ call[c].answer = "allowed"
  BY DEF ApplyMe, ApplyAccess, Finish, Show
<1>6. PostNames'
  BY <1>1 DEF PostNames
<1>7. AnswersSeen' /\ AllowedIsClean'
  BY <1>1, <1>2, Fresh DEF AnswersSeen, AllowedIsClean
<1>8. UserSeen'
  BY <1>1, <1>3, <1>4 DEF UserSeen, AnswersSeen
<1>9. ReadySeen'
  BY <1>1, <1>5 DEF ReadySeen, AnswersSeen, AllowedIsClean
<1>10. SignedOut'
  BY <1>1, <1>2, <1>5, Fresh DEF SignedOut, LoggingOut
<1> QED BY <1>6, <1>7, <1>8, <1>9, <1>10 DEF InFlight

LEMMA RefreshInFlight ==
  ASSUME IInv, NEW as \in Accounts, NEW g \in Paths \cup {None}, Refresh(as, g),
         post' = NoPost, cookie' = as, must' \subseteq must, seen' = seen
  PROVE  InFlight'
<1> USE DEF IInv
<1>1. /\ boot' = "checkingSession" /\ user' = user
      /\ \A c \in Calls : call'[c] = call[c] \/ call'[c] = AskMe(as, g)
  BY RefreshEffect
<1>2. PostNames' /\ UserSeen' /\ ReadySeen' /\ SignedOut'
  BY <1>1, NoneIsNobody DEF PostNames, NoPost, UserSeen, ReadySeen, SignedOut
<1>3. ASSUME NEW c \in Calls
      PROVE  /\ call'[c].answer \in {"must", "disabled", "allowed"} => call'[c].as \in seen'
             /\ call'[c].at = "access" /\ call'[c].answer = "allowed" => call'[c].as \notin must'
  <2>1. CASE call'[c] = call[c]
    BY <2>1 DEF AnswersSeen, AllowedIsClean
  <2>2. CASE call'[c] = AskMe(as, g)
    <3>1. call'[c].at = "me" /\ call'[c].answer = "none"
      BY <2>2 DEF AskMe
    <3> QED BY <3>1
  <2> QED BY <1>1, <2>1, <2>2
<1>4. AnswersSeen' /\ AllowedIsClean'
  BY <1>3 DEF AnswersSeen, AllowedIsClean
<1> QED BY <1>2, <1>4 DEF InFlight

LEMMA StepInFlight ==
  ASSUME IInv, [Next]_wsVars
  PROVE  InFlight'
<1> USE DEF IInv
<1>1. CASE /\ UNCHANGED <<cookie, boot, user, call, seen>>
           /\ must' = must /\ PostNames' /\ (LoggingOut => LoggingOut')
  BY <1>1 DEF InFlight, AnswersSeen, AllowedIsClean, UserSeen, ReadySeen, SignedOut
<1>2. CASE \E p \in {"/", "/admin", "/login", "/invite", "/error/disabled"} : Go(p)
  BY <1>1, <1>2 DEF Go, serverVars, PostNames, LoggingOut
<1>3. CASE \E p \in {"/app", "/login", "/invite"} : Reload(p)
  <2>1. PICK p \in Paths : Reload(p)
    BY <1>3 DEF Paths
  <2>2. cookie \in Someone /\ cookie' = cookie /\ TypeOK'
    BY <2>1, StepType DEF Reload, TypeOK
  <2> QED BY <2>1, <2>2, LoadIInv DEF Reload, IInv, InFlight
<1>4. CASE ServeLogout \/ LogoutDone \/ Unload
  <2>1. CASE ServeLogout
    <3>1. PostNames' /\ LoggingOut'
      BY <2>1 DEF ServeLogout, TypeOK, PostRecs, PostNames, LoggingOut
    <3>2. UNCHANGED <<boot, user, call, seen, must>>
      BY <2>1 DEF ServeLogout, tabVars
    <3> QED BY <3>1, <3>2
            DEF InFlight, AnswersSeen, AllowedIsClean, UserSeen, ReadySeen, SignedOut
  <2>2. CASE LogoutDone
    <3>1. PostNames' /\ LoggingOut'
      BY <2>2 DEF LogoutDone, TypeOK, PostRecs, PostNames, LoggingOut
    <3>2. boot' = "unauthenticated" /\ user' = None /\ UNCHANGED <<call, seen, must>>
      BY <2>2 DEF LogoutDone, Show, serverVars
    <3> QED BY <3>1, <3>2
            DEF InFlight, AnswersSeen, AllowedIsClean, UserSeen, ReadySeen, SignedOut
  <2>3. CASE Unload
    <3>1. "/login" \in Paths /\ TypeOK' /\ cookie' = cookie
      BY <2>3, StepType DEF Unload, Paths
    <3>2. Load("/login", cookie')
      BY <2>3, <3>1 DEF Unload
    <3> QED BY <3>1, <3>2, LoadIInv DEF IInv, InFlight
  <2> QED BY <1>4, <2>1, <2>2, <2>3
<1>5. CASE \/ \E a \in Accounts : SubmitLogin(a) \/ SubmitAccept(a)
           \/ SubmitChange \/ Logout \/ Refused
  <2>1. PostNames'
    BY <1>5 DEF PostNames, SubmitLogin, SubmitAccept, SubmitChange, Logout, Submit, Refused, NoPost
  <2>2. ~ LoggingOut
    BY <1>5 DEF LoggingOut, SubmitLogin, SubmitAccept, SubmitChange, Logout, Submit, Refused, NoPost
  <2> QED BY <1>1, <1>5, <2>1, <2>2 DEF SubmitLogin, SubmitAccept, SubmitChange, Logout, Submit, Refused,
                                  serverVars, tabVars
<1>6. CASE ChangeSignedOut \/ AcceptNavigates
  <2>1. PostNames'
    BY <1>6 DEF PostNames, ChangeSignedOut, AcceptNavigates, NoPost
  <2>2. LoggingOut => LoggingOut'
    BY <1>6 DEF LoggingOut, ChangeSignedOut, AcceptNavigates
  <2> QED BY <1>1, <1>6, <2>1, <2>2 DEF ChangeSignedOut, AcceptNavigates, serverVars
<1>7. CASE LoginOk
  <2>1. post.as \in Accounts
    BY <1>7 DEF LoginOk, PostNames
  <2>2. (IF post.as \in must THEN "/force-password-change" ELSE Home(post.as)) \in Paths \cup {None}
    BY HomeIsPath DEF Paths
  <2> QED BY <1>7, <2>1, <2>2, RefreshInFlight DEF LoginOk
<1>8. CASE ChangeOk
  <2>1. post.as \in Accounts /\ Home(post.as) \in Paths \cup {None}
    BY <1>8, HomeIsPath DEF ChangeOk, TypeOK
  <2> QED BY <1>8, <2>1, RefreshInFlight DEF ChangeOk
<1>9. CASE AcceptOk \/ Elsewhere
  <2>1. cookie' = cookie \/ cookie' # None
    BY <1>9, NoneIsNobody DEF AcceptOk, PostNames, Elsewhere
  <2>2. PostNames'
    BY <1>9 DEF AcceptOk, Elsewhere, PostNames, NoPost
  <2>3. UNCHANGED <<boot, user, call, seen, must>>
    BY <1>9 DEF AcceptOk, Elsewhere, tabVars
  <2>4. LoggingOut => LoggingOut'
    BY <1>9 DEF LoggingOut, AcceptOk, Elsewhere
  <2> QED BY <2>1, <2>2, <2>3, <2>4
          DEF InFlight, AnswersSeen, AllowedIsClean, UserSeen, ReadySeen, SignedOut
<1>10. CASE UNCHANGED wsVars
  BY <1>1, <1>10 DEF wsVars, PostNames, LoggingOut
<1> QED BY <1>2, <1>3, <1>4, <1>5, <1>6, <1>7, <1>8, <1>9, <1>10, ServeInFlight, ApplyInFlight
        DEF Next, PostAnswered

LEMMA StepIInv == IInv /\ [Next]_wsVars => IInv'
BY StepType, StepRedirects, StepInFlight DEF IInv, InFlight

LEMMA Invariant == Spec => []IInv
BY InitIInv, StepIInv, PTL DEF Spec

(* Every variable keeps its type.                                             *)
THEOREM SessionTypeCorrect == Spec => []TypeOK
<1>1. IInv => TypeOK
  BY DEF IInv
<1> QED BY <1>1, Invariant, PTL

(* The guards (RouteGuard.tsx) never redirect for ever.                         *)
THEOREM RedirectionEnds == Spec => []RedirectsEnd
<1>1. IInv => RedirectsEnd
  BY DEF IInv
<1> QED BY <1>1, Invariant, PTL

(* A business page is rendered in one boot state only.                         *)
LEMMA BusinessNeedsReady == Shown \in Business => boot = "authenticatedReady" \/ boot \notin BootStates
BY DEF Shown, Business, Guard, RequireAuth, RequireAdmin, BootStates

(* While the answers of a page load are about one account, no business page is  *)
(* shown to a user who must still change the password.                         *)
THEOREM ForcedChangeFirst == Spec => []ForcedChangeComesFirst
<1>1. IInv => ForcedChangeComesFirst
  BY BusinessNeedsReady, NoneIsNobody
     DEF IInv, ForcedChangeComesFirst, ReadySeen, UserSeen, TypeOK
<1> QED BY <1>1, Invariant, PTL

(* Once the cookie is cleared and the login page loaded anew, no answer that     *)
(* was asked for before brings a business page back (AuthContext.tsx:122-132).   *)
THEOREM LoggedOutForGood == Spec => []LogoutIsFinal
<1>1. IInv => LogoutIsFinal
  BY BusinessNeedsReady DEF IInv, LogoutIsFinal, SignedOut, TypeOK
<1> QED BY <1>1, Invariant, PTL
=============================================================================
