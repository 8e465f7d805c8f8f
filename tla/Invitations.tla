---------------------------- MODULE Invitations ----------------------------
(***************************************************************************)
(* Invitations of clawloops-api: the administrator creates and revokes      *)
(* them, a newcomer previews and accepts one.                              *)
(*                                                                         *)
(* Every handler here is "async def" with a synchronous body, so bodies run *)
(* one after the other on the single event loop (variable loop); but        *)
(* accepting commits three times - the user, the invitation, the session -  *)
(* and a failed commit or a restart of the process between two of them      *)
(* keeps the earlier ones.  Passwords and tokens are abstracted: a          *)
(* request's password is acceptable, refused by the policy or unconfirmed.  *)
(* user_id is a function of the user, so an account is named by its         *)
(* username, which is unique in the database.                              *)
(***************************************************************************)
EXTENDS Naturals, Sequences, FiniteSets

CONSTANTS
  Links,       \* invitations the administrator may create
  Names,       \* usernames
  Admin,       \* the username "admin" of the seeded administrator
  None,        \* no username, no account
  Seeded,      \* origin of the administrator's account
  Aborts       \* TRUE when a commit may fail or the process restart in a body

ASSUME AdminIsName     == Admin \in Names
ASSUME NoneIsNoName    == None \notin Names \cup Links \cup {Seeded}
ASSUME SeededIsNoLink  == Seeded \notin Links
ASSUME AbortsIsBoolean == Aborts \in BOOLEAN

VARIABLES
  invitation,  \* rows of invitations
  account,     \* the link an account with this username was created through
  sessions,    \* sessions opened by accepting: <<link, username>>
  loop,        \* the handler body the event loop is executing
  answer       \* what the last body told its client

vars == <<invitation, account, sessions, loop, answer>>

Status   == {"absent", "pending", "consumed", "revoked"}
Password == {"good", "unconfirmed", "weak"}
Answers  == {"none", "preview", "accepted", "replayed", "not_found", "expired",
             "revoked", "already_consumed", "password_invalid",
             "username_mismatch"}

Idle     == [at |-> "idle", link |-> None, name |-> None, replay |-> FALSE]
NoAnswer == [link |-> None, name |-> None, says |-> "none"]

TypeOK ==
  /\ invitation \in [Links -> [status : Status, login : Names \cup {None},
                               expired : BOOLEAN, consumedBy : Names \cup {None}]]
  /\ account \in [Names -> Links \cup {None, Seeded}]
  /\ sessions \subseteq Links \X Names
  /\ loop \in [at : {"idle", "consume", "session"}, link : Links \cup {None},
               name : Names \cup {None}, replay : BOOLEAN]
  /\ answer \in [link : Links \cup {None}, name : Names \cup {None}, says : Answers]

Init ==
  /\ invitation = [l \in Links |-> [status |-> "absent", login |-> None,
                                    expired |-> FALSE, consumedBy |-> None]]
  /\ account  = [n \in Names |-> None]
  /\ sessions = {}
  /\ loop     = Idle
  /\ answer   = NoAnswer

Says(l, n, what) == answer' = [link |-> l, name |-> n, says |-> what]

-----------------------------------------------------------------------------
(* The administrator                                                        *)

(* Logging in as "admin" creates the administrator when there is no user of *)
(* that name (_ensure_seed_admin); nothing else makes an administrator.     *)
SeedAdmin ==
  /\ loop = Idle /\ account[Admin] = None
  /\ account' = [account EXCEPT ![Admin] = Seeded]
  /\ UNCHANGED <<invitation, sessions, loop, answer>>

(* Mutant: invitations could be created before there is an administrator    *)
AdminCreate_Unchecked(l) ==
  /\ loop = Idle
  /\ invitation[l].status = "absent"
  /\ \E n \in Names \cup {None} :
       invitation' = [invitation EXCEPT ![l].status = "pending", ![l].login = n]
  /\ UNCHANGED <<account, sessions, loop, answer>>

(* create_admin_invitation, behind _require_admin; loginUsername is optional *)
AdminCreate(l) ==
  /\ loop = Idle /\ account[Admin] = Seeded
  /\ invitation[l].status = "absent"
  /\ \E n \in Names \cup {None} :
       invitation' = [invitation EXCEPT ![l].status = "pending", ![l].login = n]
  /\ UNCHANGED <<account, sessions, loop, answer>>

(* Mutant: the handler is a plain function, which FastAPI runs in a thread  *)
AdminRevoke_InThread(l) ==
  /\ account[Admin] = Seeded
  /\ invitation[l].status # "absent"
  /\ invitation' = [invitation EXCEPT ![l].status = "revoked"]
  /\ UNCHANGED <<account, sessions, loop, answer>>

(* revoke_admin_invitation sets the status whatever it was and leaves       *)
(* consumed_by_user_id alone.                                               *)
AdminRevoke(l) ==
  /\ loop = Idle /\ account[Admin] = Seeded
  /\ invitation[l].status # "absent"
  /\ invitation' = [invitation EXCEPT ![l].status = "revoked"]
  /\ UNCHANGED <<account, sessions, loop, answer>>

Expire(l) ==
  /\ invitation[l].status # "absent" /\ ~ invitation[l].expired
  /\ invitation' = [invitation EXCEPT ![l].expired = TRUE]
  /\ UNCHANGED <<account, sessions, loop, answer>>

-----------------------------------------------------------------------------
(* Preview                                                                  *)

PreviewVerdict(l) ==
  LET row == invitation[l]
  IN CASE row.status = "absent"   -> "not_found"
       [] row.status = "revoked"  -> "revoked"
       [] row.status = "consumed" -> "already_consumed"
       [] row.status = "pending" /\ row.expired -> "expired"
       [] OTHER                   -> "preview"

Preview(l) ==
  /\ loop = Idle
  /\ Says(l, None, PreviewVerdict(l))
  /\ UNCHANGED <<invitation, account, sessions, loop>>

-----------------------------------------------------------------------------
(* Accept                                                                   *)

(* Mutant: the check of the revocation is lost                              *)
Checks_RevokedForgotten(l, n, pw) ==
  LET row == invitation[l]
  IN << [fails |-> row.status = "absent",                  says |-> "not_found"],
        [fails |-> row.expired,                            says |-> "expired"],
        [fails |-> FALSE,                                  says |-> "revoked"],
        [fails |-> pw = "unconfirmed",                     says |-> "password_invalid"],
        [fails |-> row.login \notin {None, n},             says |-> "username_mismatch"],
        [fails |-> pw = "weak",                            says |-> "password_invalid"] >>

(* The early returns of accept_invitation, in their order                   *)
Checks(l, n, pw) ==
  LET row == invitation[l]
  IN << [fails |-> row.status = "absent",                  says |-> "not_found"],
        [fails |-> row.expired,                            says |-> "expired"],
        [fails |-> row.status = "revoked",                 says |-> "revoked"],
        [fails |-> pw = "unconfirmed",                     says |-> "password_invalid"],
        [fails |-> row.login \notin {None, n},             says |-> "username_mismatch"],
        [fails |-> pw = "weak",                            says |-> "password_invalid"] >>

AcceptRefused(l, n, pw) ==
  /\ \E k \in 1..6 : /\ Checks(l, n, pw)[k].fails
                     /\ \A m \in 1..(k - 1) : ~ Checks(l, n, pw)[m].fails
                     /\ Says(l, n, Checks(l, n, pw)[k].says)
  /\ UNCHANGED <<invitation, account, sessions, loop>>

Passes(l, n, pw) == \A k \in 1..6 : ~ Checks(l, n, pw)[k].fails

(* Mutant: any existing user is taken for the consumer                      *)
AcceptReplay_AnyUser(l, n, pw) ==
  /\ Passes(l, n, pw)
  /\ invitation[l].status = "consumed"
  /\ account[n] # None
  /\ loop' = [at |-> "session", link |-> l, name |-> n, replay |-> TRUE]
  /\ UNCHANGED <<invitation, account, sessions, answer>>

(* The invitation is consumed: its consumer gets another session.           *)
AcceptReplay(l, n, pw) ==
  /\ Passes(l, n, pw)
  /\ invitation[l].status = "consumed"
  /\ account[n] # None /\ invitation[l].consumedBy = n
  /\ loop' = [at |-> "session", link |-> l, name |-> n, replay |-> TRUE]
  /\ UNCHANGED <<invitation, account, sessions, answer>>

(* Consumed by somebody else, or the username already has a password: every *)
(* account with a username has one, the internal user sync gives neither.   *)
AcceptTaken(l, n, pw) ==
  /\ Passes(l, n, pw)
  /\ \/ /\ invitation[l].status = "consumed"
        /\ account[n] = None \/ invitation[l].consumedBy # n
     \/ invitation[l].status # "consumed" /\ account[n] # None
  /\ Says(l, n, "already_consumed")
  /\ UNCHANGED <<invitation, account, sessions, loop>>

(* Mutant: the status of the record is not looked at                        *)
AcceptFirst_AnyStatus(l, n, pw) ==
  /\ Passes(l, n, pw)
  /\ account[n] = None
  /\ account' = [account EXCEPT ![n] = l]
  /\ loop' = [at |-> "consume", link |-> l, name |-> n, replay |-> FALSE]
  /\ UNCHANGED <<invitation, sessions, answer>>

(* First use: the new user is saved.                                        *)
AcceptFirst(l, n, pw) ==
  /\ Passes(l, n, pw)
  /\ invitation[l].status # "consumed" /\ account[n] = None
  /\ account' = [account EXCEPT ![n] = l]
  /\ loop' = [at |-> "consume", link |-> l, name |-> n, replay |-> FALSE]
  /\ UNCHANGED <<invitation, sessions, answer>>

Accept(l, n, pw) ==
  /\ loop = Idle
  /\ \/ AcceptRefused(l, n, pw)
     \/ AcceptReplay(l, n, pw)
     \/ AcceptTaken(l, n, pw)
     \/ AcceptFirst(l, n, pw)

(* Mutant: the consumer is not written                                      *)
Consumed_StatusOnly(row, n) ==
  IF row.status \in {"consumed", "revoked"} THEN row
  ELSE [row EXCEPT !.status = "consumed"]

(* The row after consume_idempotent: one that is consumed or revoked is     *)
(* returned as it is.                                                       *)
Consumed(row, n) ==
  IF row.status \in {"consumed", "revoked"} THEN row
  ELSE [row EXCEPT !.status = "consumed", !.consumedBy = n]

(* Mutant: the session does not wait for the invitation                     *)
Consume_Skipped ==
  /\ loop.at = "consume"
  /\ loop' = [loop EXCEPT !.at = "session"]
  /\ UNCHANGED <<invitation, account, sessions, answer>>

Consume ==
  /\ loop.at = "consume"
  /\ LET row == Consumed(invitation[loop.link], loop.name)
     IN /\ invitation' = [invitation EXCEPT ![loop.link] = row]
        /\ IF row.status = "consumed" /\ row.consumedBy # loop.name
           THEN /\ loop' = Idle
                /\ Says(loop.link, loop.name, "already_consumed")
           ELSE /\ loop' = [loop EXCEPT !.at = "session"]
                /\ UNCHANGED answer
  /\ UNCHANGED <<account, sessions>>

OpenSession ==
  /\ loop.at = "session"
  /\ sessions' = sessions \cup {<<loop.link, loop.name>>}
  /\ Says(loop.link, loop.name, IF loop.replay THEN "replayed" ELSE "accepted")
  /\ loop' = Idle
  /\ UNCHANGED <<invitation, account>>

(* A commit fails or the process restarts: no answer, nothing undone.       *)
Abort ==
  /\ Aborts /\ loop # Idle
  /\ loop' = Idle
  /\ UNCHANGED <<invitation, account, sessions, answer>>

-----------------------------------------------------------------------------
Next ==
  \/ SeedAdmin
  \/ \E l \in Links : AdminCreate(l) \/ AdminRevoke(l) \/ Expire(l) \/ Preview(l)
  \/ \E l \in Links, n \in Names, pw \in Password : Accept(l, n, pw)
  \/ Consume \/ OpenSession \/ Abort

Spec == Init /\ [][Next]_vars

(* A body runs to its end; the newcomer named by a link keeps trying.       *)
Fairness ==
  /\ WF_vars(Consume) /\ WF_vars(OpenSession)
  /\ \A l \in Links, n \in Names :
       SF_vars(invitation[l].login = n /\ Accept(l, n, "good"))

FairSpec == Spec /\ Fairness

-----------------------------------------------------------------------------
(* Properties                                                               *)

(* A link brings in one account.  Two accounts need two bodies that create  *)
(* a user before the link is consumed: commits of one acceptance and the    *)
(* checks of the next must not come in that order.                          *)
OneAccountPerLink ==
  \A m, n \in Names : account[m] \in Links /\ account[m] = account[n] => m = n

(* A session was opened through a link only for the user who consumed it,   *)
(* whatever commits failed in between and whatever was revoked later.       *)
SessionBelongsToConsumer ==
  \A s \in sessions : /\ invitation[s[1]].consumedBy = s[2]
                      /\ account[s[2]] = s[1]

(* The record accept_invitation read before its first commit is still what  *)
(* the database holds when it consumes the invitation.                      *)
RecordStillCurrent ==
  loop.at = "consume" =>
    invitation[loop.link].status = "pending" /\ invitation[loop.link].consumedBy = None

(* "admin" never becomes the account of an invited user: invitations exist  *)
(* only after the administrator, so that accepting finds the name taken.    *)
AdminIsSeeded == account[Admin] \in {None, Seeded}

(* Once an invitation is revoked unused, it creates no account, is not      *)
(* consumed ("Revoked invitations should not be consumed") and stays        *)
(* revoked; a consumer once written is never replaced, even by a revocation. *)
RevokedStaysUnused ==
  [][\A l \in Links :
       /\ invitation[l].status = "revoked" =>
            /\ invitation'[l].status = "revoked"
            /\ invitation'[l].consumedBy = invitation[l].consumedBy
            /\ \A n \in Names : account'[n] = l => account[n] = l
       /\ invitation[l].consumedBy # None =>
            invitation'[l].consumedBy = invitation[l].consumedBy]_vars

(* A person the administrator named gets in by trying, unless the link is   *)
(* revoked or expires, or the name turns out to be somebody else's.         *)
NamedPersonGetsIn ==
  \A l \in Links, n \in Names :
    (invitation[l].status = "pending" /\ invitation[l].login = n)
      ~> \/ invitation[l].consumedBy = n
         \/ invitation[l].status = "revoked" \/ invitation[l].expired
         \/ account[n] \notin {None, l}

(* An acceptance takes effect at its first commit: the three commits look   *)
(* like one step of SingleUse.                                              *)
Accepting(l) == loop.at = "consume" /\ loop.link = l

linkState == [l \in Links |->
  CASE invitation[l].status = "absent"                      -> "unissued"
    [] invitation[l].status = "pending" /\ ~ Accepting(l)   -> "open"
    [] invitation[l].status = "pending" /\ Accepting(l)     -> "used"
    [] invitation[l].status = "consumed"                    -> "used"
    [] OTHER                                                -> "withdrawn"]

memberOf == [l \in Links |->
  IF \E n \in Names : account[n] = l THEN CHOOSE n \in Names : account[n] = l ELSE None]

OneUse == INSTANCE SingleUse WITH Links <- Links, People <- Names, Nobody <- None,
                                  link <- linkState, member <- memberOf

(* Accepting in three commits implements a link that is used once.          *)
LinkRefined == OneUse!SingleUseSpec
=============================================================================
