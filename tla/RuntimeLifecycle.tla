-------------------------- MODULE RuntimeLifecycle --------------------------
(***************************************************************************)
(* What the control plane promises about one user's runtime: operations run *)
(* one at a time, the desired state is the target of the last operation     *)
(* that finished, the observed state is that target or "error" when it      *)
(* finishes and follows the host in between, and an operation that a        *)
(* restart cuts off leaves the recorded state alone.                        *)
(***************************************************************************)
VARIABLES
  busy,      \* the operation in progress, or "none"
  stuck,     \* an operation was abandoned and its task never finished
  desired,   \* what the user or the administrator asked for
  observed   \* what was last seen of the runtime

lifecycleVars == <<busy, stuck, desired, observed>>

LifecycleActions == {"ensure_running", "stop", "delete"}

Target(a) == CASE a = "ensure_running" -> "running"
               [] a = "stop"           -> "stopped"
               [] OTHER                -> "deleted"

LifecycleInit ==
  /\ busy = "none" /\ stuck = FALSE
  /\ desired = "stopped" /\ observed = "stopped"

Begin ==
  /\ busy = "none" /\ ~ stuck
  /\ busy' \in LifecycleActions
  /\ UNCHANGED <<stuck, desired, observed>>

Finish ==
  /\ busy \in LifecycleActions
  /\ busy' = "none"
  /\ desired' = Target(busy)
  /\ observed' \in {Target(busy), "error"}
  /\ UNCHANGED stuck

Observe ==
  /\ busy = "none"
  /\ observed' \in {"creating", "running", "stopped", "error", "deleted"}
  /\ UNCHANGED <<busy, stuck, desired>>

(* The outcome could not be recorded: the task stays in progress forever. *)
Abandon ==
  /\ busy \in LifecycleActions
  /\ busy' = "none" /\ stuck' = TRUE
  /\ UNCHANGED <<desired, observed>>

(* Tasks are kept in memory only. *)
Restart ==
  /\ busy' = "none" /\ stuck' = FALSE
  /\ UNCHANGED <<desired, observed>>

LifecycleNext == Begin \/ Finish \/ Observe \/ Abandon \/ Restart

LifecycleSpec == LifecycleInit /\ [][LifecycleNext]_lifecycleVars
=============================================================================
