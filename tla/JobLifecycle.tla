--------------------------- MODULE JobLifecycle ---------------------------
(***************************************************************************)
(* What the unified jobs queue promises to everyone who only looks at the  *)
(* status column: the life of one job, whatever clients, workers, crashes  *)
(* and database failures do to it.                                         *)
(*                                                                         *)
(*    absent -> queued -> running -> complete | failed                     *)
(*                 |         |                                             *)
(*                 |         +--> cancel_requested -> cancelled            *)
(*                 +--> cancelled                                          *)
(*    running -> queued  (one more attempt, after its worker restarted)    *)
(*                                                                         *)
(* A running job is never cancelled by the system on its own: cancelled    *)
(* is reached only from queued or through cancel_requested.                *)
(***************************************************************************)
EXTENDS Naturals

CONSTANT Job             \* the rows of the jobs table, in creation order

VARIABLES
    phase,               \* phase[j]: the status column of job j
    tries                \* tries[j]: the attempts column of job j

Phase ==
    {"absent", "queued", "running", "cancel_requested",
     "complete", "failed", "cancelled"}

Init ==
    /\ phase = [j \in Job |-> "absent"]
    /\ tries = [j \in Job |-> 0]

(* Job j moves from status a to status b and keeps its attempts. *)
Move(j, a, b) ==
    /\ phase[j] = a
    /\ phase' = [phase EXCEPT ![j] = b]
    /\ UNCHANGED tries

Submit(j) == Move(j, "absent", "queued")

Take(j) == Move(j, "queued", "running")

Cancel(j) ==
    \/ Move(j, "queued", "cancelled")
    \/ Move(j, "running", "cancel_requested")

Finish(j) ==
    \/ Move(j, "running", "complete")
    \/ Move(j, "running", "failed")
    \/ Move(j, "cancel_requested", "cancelled")

(* A restarted worker gives a set of interrupted jobs back to the queue,   *)
(* each with its attempts increased by one.                                *)
GiveBack(S) ==
    /\ \A j \in S : phase[j] = "running"
    /\ phase' = [j \in Job |-> IF j \in S THEN "queued" ELSE phase[j]]
    /\ tries' = [j \in Job |-> IF j \in S THEN tries[j] + 1 ELSE tries[j]]

Next ==
    \/ \E j \in Job : Submit(j) \/ Take(j) \/ Cancel(j) \/ Finish(j)
    \/ \E S \in SUBSET Job : GiveBack(S)

Spec == Init /\ [][Next]_<<phase, tries>>
=============================================================================
