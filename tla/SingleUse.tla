----------------------------- MODULE SingleUse -----------------------------
(***************************************************************************)
(* What an invitation link promises: while it is open one person may join   *)
(* through it, at once and once only; a link that is withdrawn lets nobody  *)
(* in any more; whoever joined stays the link's member.                     *)
(***************************************************************************)
CONSTANTS Links, People, Nobody

VARIABLES
  link,      \* "unissued", "open", "used" or "withdrawn"
  member     \* who joined through the link, or Nobody

linkVars == <<link, member>>

SingleUseInit ==
  /\ link   = [l \in Links |-> "unissued"]
  /\ member = [l \in Links |-> Nobody]

Issue(l) ==
  /\ link[l] = "unissued"
  /\ link' = [link EXCEPT ![l] = "open"]
  /\ UNCHANGED member

Join(l, p) ==
  /\ link[l] = "open" /\ member[l] = Nobody
  /\ \A m \in Links : member[m] # p
  /\ link'   = [link EXCEPT ![l] = "used"]
  /\ member' = [member EXCEPT ![l] = p]

Withdraw(l) ==
  /\ link[l] # "unissued"
  /\ link' = [link EXCEPT ![l] = "withdrawn"]
  /\ UNCHANGED member

SingleUseNext ==
  \E l \in Links : \/ Issue(l) \/ Withdraw(l)
                   \/ \E p \in People : Join(l, p)

SingleUseSpec == SingleUseInit /\ [][SingleUseNext]_linkVars
=============================================================================
