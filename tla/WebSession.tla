------------------------------ MODULE WebSession ------------------------------
(***************************************************************************)
(* The session of one browser tab of the web client: AuthContext and its   *)
(* bootstraps, the route guards, and the pages that change who is signed    *)
(* in (login, forced change of password, acceptance of an invitation,       *)
(* logout), against the sessions of the API.                               *)
(*                                                                         *)
(* A bootstrap is two calls one after the other, me and access.  Nothing     *)
(* cancels one or orders two of them, so several may be under way; each     *)
(* answer is computed when the API serves the request (Serve...) and takes   *)
(* effect when it reaches the tab (Apply...).  The guards' redirects run in  *)
(* the same turn as the state change that causes them.                      *)
(*                                                                         *)
(* A session is named by the account it belongs to.  "/app" and "/admin"     *)
(* stand for all pages behind RequireAuth and RequireAdmin.                 *)
(***************************************************************************)
EXTENDS Naturals, FiniteSets

CONSTANTS
  Accounts,     \* people who sign in at this browser
  Admins,       \* those of them who are administrators
  Calls,        \* bootstraps that may be under way at once (a bound)
  None,         \* no account, no path
  MaxTrouble    \* calls lost and events elsewhere in a behaviour (a bound)

ASSUME SomeCall == Calls # {}
ASSUME AdminsAreAccounts == Admins \subseteq Accounts
ASSUME NoneIsNobody == None \notin Accounts
ASSUME BoundedTrouble == MaxTrouble \in Nat

VARIABLES
  open,         \* API: accounts with a valid session
  must,         \* API: accounts that must change their password
  disabled,     \* API: disabled accounts
  cookie,       \* browser: the account whose session the cookie carries
  boot,         \* AuthContext: bootState
  user,         \* AuthContext: user
  path,         \* the tab's location
  call,         \* bootstraps under way
  post,         \* the request of the form being submitted, or the way out of a logout
  timer,        \* the invitation page is about to navigate
  seen,         \* history: accounts the answers of this page load were about
  troubles      \* calls lost and events elsewhere so far

serverVars == <<open, must, disabled>>
tabVars == <<boot, user, path>>
wsVars == <<open, must, disabled, cookie, boot, user, path, call, post, timer, seen, troubles>>

-----------------------------------------------------------------------------
BootStates == {"booting", "checkingSession", "unauthenticated", "checkingAccess",
               "disabledBlocked", "mustChangePasswordBlocked", "authenticatedReady"}
Paths == {"/", "/app", "/admin", "/login", "/force-password-change", "/invite",
          "/403", "/disabled", "/error/disabled"}
Someone == Accounts \cup {None}

IsAdmin(u) == u \in Admins          \* user?.isAdmin ?? false

Home(u) == IF IsAdmin(u) THEN "/admin" ELSE "/app"

(* Mutant: no branch for a user who must change the password. *)
RequireAuth_NoChange(b) ==
  CASE b \in {"booting", "checkingSession", "checkingAccess"} -> "wait"
    [] b = "unauthenticated" -> "/login"
    [] b = "disabledBlocked" -> "/disabled"
    [] OTHER                 -> "render"

(* The guards: the path they redirect to, "wait" (boot screen) or "render".  *)
RequireAuth(b) ==
  CASE b \in {"booting", "checkingSession", "checkingAccess"} -> "wait"
    [] b = "unauthenticated"           -> "/login"
    [] b = "mustChangePasswordBlocked" -> "/force-password-change"
    [] b = "disabledBlocked"           -> "/disabled"
    [] OTHER                           -> "render"

RequireAdmin(b, u) ==
  IF RequireAuth(b) = "render" /\ ~ IsAdmin(u) THEN "/403" ELSE RequireAuth(b)

RequireForcePasswordChange(b, u) ==
  CASE b = "mustChangePasswordBlocked" -> "render"
    [] b = "authenticatedReady"        -> Home(u)
    [] OTHER                           -> RequireAuth(b)

(* Mutant: the login page sends blocked users on as well. *)
RedirectIfAuthenticated_Disabled(b, u) ==
  CASE b \in {"booting", "checkingSession"} -> "wait"
    [] b = "mustChangePasswordBlocked"      -> "/force-password-change"
    [] b \in {"authenticatedReady", "disabledBlocked", "unauthenticated"} -> Home(u)
    [] OTHER                                -> "render"

RedirectIfAuthenticated(b, u) ==
  CASE b \in {"booting", "checkingSession"} -> "wait"
    [] b = "mustChangePasswordBlocked"      -> "/force-password-change"
    [] b = "authenticatedReady"             -> Home(u)
    [] OTHER                                -> "render"

Guard(p, b, u) ==
  CASE p = "/"                      -> "/app"
    [] p = "/error/disabled"        -> "/disabled"
    [] p = "/app"                   -> RequireAuth(b)
    [] p = "/admin"                 -> RequireAdmin(b, u)
    [] p = "/force-password-change" -> RequireForcePasswordChange(b, u)
    [] p = "/login"                 -> RedirectIfAuthenticated(b, u)
    [] OTHER                        -> "render"

Follow(p, b, u) == IF Guard(p, b, u) \in Paths THEN Guard(p, b, u) ELSE p

(* Where a navigation to p ends: no chain of redirects is longer than three.  *)
Arrive(p, b, u) == Follow(Follow(Follow(p, b, u), b, u), b, u)

Show(p, b, u) == boot' = b /\ user' = u /\ path' = Arrive(p, b, u)

Shown == IF Guard(path, boot, user) = "render" THEN path ELSE "wait"
Business == {"/app", "/admin"}

-----------------------------------------------------------------------------
NoCall == [at |-> "idle", as |-> None, answer |-> "none", goal |-> None]
NoPost == [kind |-> "none", as |-> None]
Answers == {"none", "error", "nobody", "must", "disabled", "allowed"}

CallRecs == [at : {"idle", "me", "access"}, as : Someone, answer : Answers, goal : Paths \cup {None}]
PostRecs == [kind : {"none", "login", "change", "accept", "logout", "loggedout", "unloading"},
             as : Someone]

TypeOK ==
  /\ open \subseteq Accounts /\ must \subseteq Accounts /\ disabled \subseteq Accounts
  /\ cookie \in Someone /\ user \in Someone
  /\ boot \in BootStates /\ path \in Paths
  /\ call \in [Calls -> CallRecs]
  /\ post \in PostRecs
  /\ timer \in BOOLEAN
  /\ seen \subseteq Accounts
  /\ troubles \in 0 .. MaxTrouble

(* Something goes wrong, as often as the bound allows.                        *)
Trouble == troubles < MaxTrouble /\ troubles' = troubles + 1

(* bootstrap up to its first await, for a caller that will go on to g.       *)
AskMe(as, g) == [at |-> "me", as |-> as, answer |-> "none", goal |-> g]

AnyCall == CHOOSE c \in Calls : TRUE
Free == {c \in Calls : call[c] = NoCall}

(* A document is loaded: a new AuthProvider, whose effect bootstraps.         *)
Load(p, as) ==
  /\ Show(p, "checkingSession", None)
  /\ call' = [c \in Calls |-> IF c = AnyCall THEN AskMe(as, None) ELSE NoCall]
  /\ post' = NoPost
  /\ timer' = FALSE
  /\ seen' = {}

Init ==
  /\ cookie \in Someone
  /\ open = {cookie} \cap Accounts
  /\ must \in SUBSET Admins        \* the seeded administrator, and nobody else
  /\ disabled = {}
  /\ boot = "checkingSession" /\ user = None
  /\ path \in {"/app", "/admin", "/login", "/invite"}
  /\ call = [c \in Calls |-> IF c = AnyCall THEN AskMe(cookie, None) ELSE NoCall]
  /\ post = NoPost /\ timer = FALSE /\ seen = {} /\ troubles = 0

(* The person reloads, or opens a link in this tab.                          *)
Reload(p) ==
  /\ Load(p, cookie)
  /\ UNCHANGED <<serverVars, cookie, troubles>>

(* In-app navigation: a link, back or forward.                               *)
Go(p) ==
  /\ path # p
  /\ path' = Arrive(p, boot, user)
  /\ UNCHANGED <<serverVars, cookie, boot, user, call, post, timer, seen, troubles>>

-----------------------------------------------------------------------------
(* GET /auth/me and GET /auth/access, answered by the API or lost.            *)
MeAnswer(a) ==
  IF a \notin open THEN "nobody" ELSE IF a \in must THEN "must" ELSE "allowed"

AccessAnswer(a) ==
  IF a \notin open THEN "nobody" ELSE IF a \in disabled THEN "disabled"
  ELSE IF a \in must THEN "must" ELSE "allowed"

Serve(c) ==
  /\ call[c].at # "idle" /\ call[c].answer = "none"
  /\ \/ /\ call' = [call EXCEPT ![c].answer =
                      IF call[c].at = "me" THEN MeAnswer(call[c].as)
                                           ELSE AccessAnswer(call[c].as)]
        /\ seen' = seen \cup ({call[c].as} \cap open)
        /\ UNCHANGED troubles
     \/ /\ Trouble
        /\ call' = [call EXCEPT ![c].answer = "error"]
        /\ UNCHANGED seen
  /\ UNCHANGED <<serverVars, cookie, tabVars, post, timer>>

(* The bootstrap is over; whoever awaited it navigates to its goal.           *)
Finish(c, b, u) ==
  /\ Show(IF call[c].goal = None THEN path ELSE call[c].goal, b, u)
  /\ call' = [call EXCEPT ![c] = NoCall]

(* Mutant: an error leaves the boot state as it is. *)
ApplyMe_ErrorsIgnored(c) ==
  /\ call[c].at = "me"
  /\ \/ call[c].answer = "nobody" /\ Finish(c, "unauthenticated", None)
     \/ call[c].answer = "error" /\ Finish(c, boot, user)
     \/ call[c].answer = "must" /\ Finish(c, "mustChangePasswordBlocked", call[c].as)
     \/ /\ call[c].answer = "allowed"
        /\ Show(path, "checkingAccess", call[c].as)
        /\ call' = [call EXCEPT ![c].at = "access", ![c].as = cookie, ![c].answer = "none"]
  /\ UNCHANGED <<serverVars, cookie, post, timer, seen, troubles>>

ApplyMe(c) ==
  /\ call[c].at = "me"
  /\ \/ call[c].answer \in {"nobody", "error"} /\ Finish(c, "unauthenticated", None)
     \/ call[c].answer = "must" /\ Finish(c, "mustChangePasswordBlocked", call[c].as)
     \/ /\ call[c].answer = "allowed"
        /\ Show(path, "checkingAccess", call[c].as)
        /\ call' = [call EXCEPT ![c].at = "access", ![c].as = cookie, ![c].answer = "none"]
  /\ UNCHANGED <<serverVars, cookie, post, timer, seen, troubles>>

(* setUser is not called again: the user stays whoever me named last.         *)
ApplyAccess(c) ==
  /\ call[c].at = "access"
  /\ \/ call[c].answer \in {"nobody", "error"} /\ Finish(c, "unauthenticated", None)
     \/ call[c].answer = "disabled" /\ Finish(c, "disabledBlocked", user)
     \/ call[c].answer = "must" /\ Finish(c, "mustChangePasswordBlocked", user)
     \/ call[c].answer = "allowed" /\ Finish(c, "authenticatedReady", user)
  /\ UNCHANGED <<serverVars, cookie, post, timer, seen, troubles>>

-----------------------------------------------------------------------------
(* A form posts.  It is disabled while its own request is under way; one post  *)
(* at a time is a bound.                                                     *)
Submit(page, kind, as) ==
  /\ Shown = page
  /\ post = NoPost
  /\ post' = [kind |-> kind, as |-> as]
  /\ UNCHANGED <<serverVars, cookie, tabVars, call, timer, seen, troubles>>

SubmitLogin(a)  == Submit("/login", "login", a)
SubmitChange    == Submit("/force-password-change", "change", cookie)
SubmitAccept(a) == ~ timer /\ a \notin Admins /\ Submit("/invite", "accept", a)
Logout          == \E page \in Business \cup {"/force-password-change"} :
                     Submit(page, "logout", cookie)

(* refresh(): the caller starts a bootstrap of its own and awaits it.          *)
Refresh(as, g) ==
  /\ Show(path, "checkingSession", user)
  /\ Free # {}
  /\ call' = [call EXCEPT ![CHOOSE c \in Free : TRUE] = AskMe(as, g)]

(* Any refusal or failure: the form is idle again.                            *)
Refused ==
  /\ post.kind \in {"login", "change", "accept"}
  /\ post' = NoPost
  /\ UNCHANGED <<serverVars, cookie, tabVars, call, timer, seen, troubles>>

(* A session, then refresh(), then the page the answer names.                  *)
LoginOk ==
  /\ post.kind = "login" /\ post.as \notin disabled
  /\ open' = open \cup {post.as}
  /\ cookie' = post.as
  /\ Refresh(post.as, IF post.as \in must THEN "/force-password-change" ELSE Home(post.as))
  /\ post' = NoPost
  /\ UNCHANGED <<must, disabled, timer, seen, troubles>>

(* The password of the session's account is changed and the session replaced. *)
ChangeOk ==
  /\ post.kind = "change" /\ post.as \in open
  /\ must' = must \ {post.as}
  /\ cookie' = post.as
  /\ Refresh(post.as, Home(post.as))
  /\ post' = NoPost
  /\ UNCHANGED <<open, disabled, timer, seen, troubles>>

(* 401: the form navigates to /login, and the guard there decides.            *)
ChangeSignedOut ==
  /\ post.kind = "change" /\ post.as \notin open
  /\ post' = NoPost
  /\ path' = Arrive("/login", boot, user)
  /\ UNCHANGED <<serverVars, cookie, boot, user, call, timer, seen, troubles>>

(* The acceptance opens a session; the page navigates 1.5 s later, and does    *)
(* not refresh the context.                                                  *)
AcceptOk ==
  /\ post.kind = "accept" /\ post.as \notin disabled
  /\ open' = open \cup {post.as}
  /\ cookie' = post.as
  /\ post' = NoPost
  /\ timer' = TRUE
  /\ UNCHANGED <<must, disabled, tabVars, call, seen, troubles>>

AcceptNavigates ==
  /\ timer
  /\ timer' = FALSE
  /\ path' = Arrive("/app", boot, user)
  /\ UNCHANGED <<serverVars, cookie, boot, user, call, post, seen, troubles>>

(* POST /auth/logout: the session is revoked and the cookie cleared, or the     *)
(* request fails, which the client ignores.                                   *)
ServeLogout ==
  /\ post.kind = "logout"
  /\ \/ open' = open \ {post.as} /\ cookie' = None /\ UNCHANGED troubles
     \/ Trouble /\ UNCHANGED <<open, cookie>>
  /\ post' = [post EXCEPT !.kind = "loggedout"]
  /\ UNCHANGED <<must, disabled, tabVars, call, timer, seen>>

(* Mutant: the client navigates to /login without loading it anew. *)
LogoutDone_Navigates ==
  /\ post.kind = "loggedout"
  /\ Show("/login", "unauthenticated", None)
  /\ post' = NoPost
  /\ UNCHANGED <<serverVars, cookie, call, timer, seen, troubles>>

(* The rest of logout: the client is cleared, and the browser told to load       *)
(* /login.                                                                   *)
LogoutDone ==
  /\ post.kind = "loggedout"
  /\ Show(path, "unauthenticated", None)
  /\ post' = [post EXCEPT !.kind = "unloading"]
  /\ UNCHANGED <<serverVars, cookie, call, timer, seen, troubles>>

(* The browser does: until then the old document runs on, and what its           *)
(* bootstraps have under way still takes effect.                              *)
Unload ==
  /\ post.kind = "unloading"
  /\ Load("/login", cookie)
  /\ UNCHANGED <<serverVars, cookie, troubles>>

-----------------------------------------------------------------------------
(* Elsewhere: a session expires or is revoked, an administrator disables or     *)
(* enables an account, another tab of the browser signs in.                    *)
Elsewhere ==
  /\ Trouble
  /\ \/ /\ \E a \in open : open' = open \ {a}
        /\ UNCHANGED <<disabled, cookie>>
     \/ /\ \E a \in Accounts \ Admins :
             disabled' = IF a \in disabled THEN disabled \ {a} ELSE disabled \cup {a}
        /\ UNCHANGED <<open, cookie>>
     \/ /\ \E a \in Accounts \ disabled : cookie' = a /\ open' = open \cup {a}
        /\ UNCHANGED disabled
  /\ UNCHANGED <<must, tabVars, call, post, timer, seen>>

PostAnswered == LoginOk \/ ChangeOk \/ ChangeSignedOut \/ AcceptOk \/ ServeLogout

Next ==
  \/ \E c \in Calls : Serve(c) \/ ApplyMe(c) \/ ApplyAccess(c)
  \/ \E p \in {"/", "/admin", "/login", "/invite", "/error/disabled"} : Go(p)
  \/ \E p \in {"/app", "/login", "/invite"} : Reload(p)
  \/ \E a \in Accounts : SubmitLogin(a) \/ SubmitAccept(a)
  \/ SubmitChange \/ Logout
  \/ Refused \/ PostAnswered \/ LogoutDone \/ Unload \/ AcceptNavigates
  \/ Elsewhere

Spec == Init /\ [][Next]_wsVars

(* The API answers and the tab handles the answers; people need never do       *)
(* anything.                                                                 *)
FairSpec ==
  Spec /\ \A c \in Calls : WF_wsVars(Serve(c) \/ ApplyMe(c) \/ ApplyAccess(c))

-----------------------------------------------------------------------------
(* "mustChangePassword blocks all business pages" (RouteGuard.tsx:66, 100):    *)
(* as long as the answers of a page load are about one account, a business    *)
(* page is never shown to a user who must still change the password, whatever  *)
(* bootstraps overlap, fail or arrive late.                                  *)
ForcedChangeComesFirst ==
  Shown \in Business /\ (\A a, b \in seen : a = b) => user \notin must

(* No guard sends a page on for ever: where a navigation ends, the guards       *)
(* redirect no further, in every boot state.                                 *)
RedirectsEnd == Guard(path, boot, user) \notin Paths

(* The boot screen goes away: every check of the session ends in a page,        *)
(* whatever fails and however checks overlap, unless the person reloads for ever.*)
BootScreenGoesAway ==
  <>[][\A p \in Paths : ~ Reload(p)]_wsVars => (Shown = "wait" ~> Shown # "wait")

(* A logout in this tab has not yet loaded the login page.                      *)
LoggingOut == post.kind \in {"loggedout", "unloading"}

(* Logging out is final: once the cookie is cleared and the document loaded      *)
(* anew, no answer that was asked for before brings a business page back.  (Until *)
(* the browser has loaded it, one can: "setUser(null)", AuthContext.tsx:128, is   *)
(* not the last word.)                                                       *)
LogoutIsFinal == cookie = None /\ ~ LoggingOut => Shown \notin Business
=============================================================================
