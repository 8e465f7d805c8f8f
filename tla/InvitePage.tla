------------------------------ MODULE InvitePage ------------------------------
(***************************************************************************)
(* The invitation page of the web client (Invite.tsx): it previews a link,   *)
(* and its form accepts it under a username, as often as the person tries.   *)
(*                                                                         *)
(* An answer is computed when the API serves a request and takes effect when *)
(* it reaches the page; it may be lost after the request had its effect.     *)
(* Meanwhile the link is revoked, expires, or is accepted in another tab.    *)
(* Invitations.tla has the detail of an acceptance; WebSession.tla has what  *)
(* becomes of the session it opens.                                         *)
(***************************************************************************)
EXTENDS Naturals, FiniteSets

CONSTANTS
  Usernames,    \* what may be typed
  Nobody        \* no username required, nobody has accepted

ASSUME NobodyIsNoName == Nobody \notin Usernames

VARIABLES
  link,         \* API: status, consumer, required username, expiry of the link
  taken,        \* API: usernames that have an account
  view,         \* pageState; "left" when the page is unmounted
  reason,       \* invalidCode
  username,     \* the username of the form
  fly,          \* the request under way and its answer
  leaving       \* the timer of an acceptance is set

inviteVars == <<link, taken, view, reason, username, fly, leaving>>

LinkCodes == {"not_found", "expired", "revoked", "already_consumed"}
FormCodes == {"username_mismatch", "password_invalid"}
Codes == LinkCodes \cup FormCodes \cup {"unknown"}
Answers == Codes \cup {"none", "preview", "accepted"}

NoFly == [what |-> "none", answer |-> "none"]

InviteTypeOK ==
  /\ link \in [status : {"pending", "revoked", "consumed"}, by : Usernames \cup {Nobody},
               login : Usernames \cup {Nobody}, expired : BOOLEAN]
  /\ taken \subseteq Usernames
  /\ view \in {"loadingPreview", "previewValid", "previewInvalid", "submitting", "accepted", "left"}
  /\ reason \in Codes
  /\ username \in Usernames \cup {Nobody}
  /\ fly \in [what : {"none", "preview", "accept"}, answer : Answers]
  /\ leaving \in BOOLEAN

(* A document is loaded: the effect asks for the preview.                     *)
Mount ==
  /\ view' = "loadingPreview" /\ reason' = "not_found" /\ username' = Nobody
  /\ fly' = [what |-> "preview", answer |-> "none"]
  /\ leaving' = FALSE

InviteInit ==
  /\ link \in [status : {"pending"}, by : {Nobody}, login : Usernames \cup {Nobody},
               expired : {FALSE}]
  /\ taken \in SUBSET Usernames
  /\ view = "loadingPreview" /\ reason = "not_found" /\ username = Nobody
  /\ fly = [what |-> "preview", answer |-> "none"]
  /\ leaving = FALSE

ReloadInvite ==
  /\ Mount
  /\ UNCHANGED <<link, taken>>

-----------------------------------------------------------------------------
(* The API: the preview,                                                     *)
PreviewCode ==
  CASE link.status = "revoked"  -> "revoked"
    [] link.status = "consumed" -> "already_consumed"
    [] link.status = "pending" /\ link.expired -> "expired"
    [] OTHER                    -> "preview"

(* Mutant: a link that is consumed is refused to its consumer as well. *)
AcceptCode_NoReplay(n) ==
  IF link.expired THEN "expired" ELSE IF link.status = "revoked" THEN "revoked"
  ELSE IF link.login \notin {Nobody, n} THEN "username_mismatch"
  ELSE IF \/ link.status = "consumed"
          \/ link.status = "pending" /\ n \in taken THEN "already_consumed"
  ELSE "accepted"

(* and the verdict on an acceptance; the consumer's is replayed.              *)
AcceptCode(n) ==
  IF link.expired THEN "expired" ELSE IF link.status = "revoked" THEN "revoked"
  ELSE IF link.login \notin {Nobody, n} THEN "username_mismatch"
  ELSE IF \/ link.status = "consumed" /\ link.by # n
          \/ link.status = "pending" /\ n \in taken THEN "already_consumed"
  ELSE "accepted"

TakeEffect(n) ==
  IF AcceptCode(n) = "accepted"
    THEN link' = [link EXCEPT !.status = "consumed", !.by = n] /\ taken' = taken \cup {n}
    ELSE UNCHANGED <<link, taken>>

(* The API serves the request, and its answer may be lost.                    *)
ServeInvite ==
  /\ fly.what # "none" /\ fly.answer = "none"
  /\ \/ /\ fly.what = "preview"
        /\ \E a \in {PreviewCode, "unknown"} : fly' = [fly EXCEPT !.answer = a]
        /\ UNCHANGED <<link, taken>>
     \/ /\ fly.what = "accept"
        /\ TakeEffect(username)
        /\ \E a \in {AcceptCode(username), "unknown"} : fly' = [fly EXCEPT !.answer = a]
     \/ /\ fly.what = "accept" /\ link.login \in {Nobody, username}
        /\ ~ link.expired /\ link.status # "revoked"
        /\ fly' = [fly EXCEPT !.answer = "password_invalid"]
        /\ UNCHANGED <<link, taken>>
     \/ /\ fly' = [fly EXCEPT !.answer = "unknown"]
        /\ UNCHANGED <<link, taken>>
  /\ UNCHANGED <<view, reason, username, leaving>>

(* Elsewhere: a revocation, the expiry, an acceptance in another tab, an       *)
(* account made from another link.                                           *)
ElsewhereInvite ==
  /\ \/ link' = [link EXCEPT !.status = "revoked"] /\ UNCHANGED taken
     \/ link' = [link EXCEPT !.expired = TRUE] /\ UNCHANGED taken
     \/ \E n \in Usernames : TakeEffect(n)
     \/ \E n \in Usernames : taken' = taken \cup {n} /\ UNCHANGED link
  /\ UNCHANGED <<view, reason, username, fly, leaving>>

-----------------------------------------------------------------------------
(* The effect's answer: without effect once the page is left.                 *)
PreviewShown ==
  /\ fly.what = "preview" /\ fly.answer # "none"
  /\ fly' = NoFly
  /\ CASE view = "left" -> UNCHANGED <<view, reason, username>>
       [] view # "left" /\ fly.answer = "preview" ->
            view' = "previewValid" /\ username' = link.login /\ UNCHANGED reason
       [] OTHER ->
            view' = "previewInvalid" /\ reason' = fly.answer /\ UNCHANGED username
  /\ UNCHANGED <<link, taken, leaving>>

(* The form: shown when the preview is valid, disabled while it submits.       *)
FormIsShown == view \in {"previewValid", "submitting"}
FormIsIdle  == view = "previewValid"

(* handleAccept up to its await; validate demands a username.                 *)
HandleAccept(n) ==
  /\ FormIsShown /\ FormIsIdle /\ fly = NoFly
  /\ view' = "submitting" /\ username' = n
  /\ fly' = [what |-> "accept", answer |-> "none"]
  /\ UNCHANGED <<link, taken, reason, leaving>>

(* The rest of handleAccept: it goes on when the page has been left, and then   *)
(* only its timer has an effect.                                             *)
AcceptShown ==
  /\ fly.what = "accept" /\ fly.answer # "none"
  /\ fly' = NoFly
  /\ leaving' = (leaving \/ fly.answer = "accepted")
  /\ IF view = "left" THEN UNCHANGED <<view, reason>>
     ELSE /\ view' = CASE fly.answer = "accepted"   -> "accepted"
                       [] fly.answer \in LinkCodes -> "previewInvalid"
                       [] OTHER                    -> "previewValid"
          /\ reason' = IF fly.answer \in LinkCodes THEN fly.answer ELSE reason
  /\ UNCHANGED <<link, taken, username>>

(* "Back to the login page": from the invalid link and from the form, also     *)
(* while it submits.                                                         *)
InvalidIsShown == view = "previewInvalid"

BackToLogin ==
  /\ InvalidIsShown \/ FormIsShown
  /\ view' = "left"
  /\ UNCHANGED <<link, taken, reason, username, fly, leaving>>

(* The browser's own buttons, from any view.                                  *)
LeaveInvite ==
  /\ view # "left"
  /\ view' = "left"
  /\ UNCHANGED <<link, taken, reason, username, fly, leaving>>

(* 1.5 seconds after an acceptance the tab goes to the workspace, from         *)
(* whatever page it is at.                                                   *)
SuccessIsShown == view = "accepted"

GoToWorkspace ==
  /\ leaving /\ leaving' = FALSE
  /\ SuccessIsShown \/ view = "left"
  /\ view' = "left"
  /\ UNCHANGED <<link, taken, reason, username, fly>>

InviteNext ==
  \/ ServeInvite \/ PreviewShown \/ AcceptShown
  \/ \E n \in Usernames : HandleAccept(n)
  \/ BackToLogin \/ LeaveInvite \/ GoToWorkspace \/ ReloadInvite
  \/ ElsewhereInvite

InviteSpec == InviteInit /\ [][InviteNext]_inviteVars

-----------------------------------------------------------------------------
(* "accepted=true (including replayed=true) -> success" (Invite.tsx:229): an    *)
(* acceptance that took effect and whose answer was lost can be submitted        *)
(* again: the form never tells the consumer of a link that it has been used.   *)
OwnAcceptanceIsNotRefused ==
  [][AcceptShown /\ view = "submitting" /\ link.by = username
       => view' # "previewInvalid" \/ reason' # "already_consumed"]_inviteVars

(* Three things the page says of its link are so: accepted means that it was      *)
(* consumed under the username of the form, revoked and expired that it is.      *)
(* "Already used" is not among them: the API answers that as well when somebody  *)
(* else has the username that was typed, of a link that nobody has used.        *)
VerdictIsTrue ==
  /\ view = "accepted" => link.by = username
  /\ view = "previewInvalid" /\ reason = "revoked" => link.status = "revoked"
  /\ view = "previewInvalid" /\ reason = "expired" => link.expired
=============================================================================
