---------------------------- MODULE AtomicEdit ----------------------------
(***************************************************************************)
(* What an in-place dataset operation promises: the dataset has one        *)
(* content, a job replaces it by the edited content in a single step, and  *)
(* a job is complete only if it did.  A job whose worker died may run, and *)
(* edit, again.  Nothing is promised once an edit that was made is taken   *)
(* back because what it replaced could not be removed.                     *)
(***************************************************************************)
EXTENDS Naturals

CONSTANTS
    Job,                \* the queued in-place operations
    Op                  \* Op[j]: "delete", "stamp" or "restamp"

VARIABLES
    content,            \* the one version of the dataset that counts
    verdict,            \* verdict[j]: the status of job j
    applied,            \* applied[j]: how often job j has edited the content
    undone              \* an edit was taken back after it was made

(* A version: how many deletions it went through, and whether its rows     *)
(* carry the cycle columns.                                                *)
Edited(op, v) ==
    IF op = "delete" THEN [v EXCEPT !.cuts = @ + 1]
                     ELSE [v EXCEPT !.stamped = TRUE]

Init ==
    /\ content = [cuts |-> 0, stamped |-> FALSE]
    /\ verdict = [j \in Job |-> "new"]
    /\ applied = [j \in Job |-> 0]
    /\ undone = FALSE

Turn(j, from, to) ==
    /\ verdict[j] = from
    /\ verdict' = [verdict EXCEPT ![j] = to]
    /\ UNCHANGED <<content, applied>>

Apply(j) ==
    /\ verdict[j] = "running"
    /\ content' = Edited(Op[j], content)
    /\ applied' = [applied EXCEPT ![j] = @ + 1]
    /\ UNCHANGED verdict

Complete(j) == applied[j] > 0 /\ Turn(j, "running", "complete")

(* A restarted worker gives every interrupted job back.                    *)
GiveBack ==
    /\ verdict' = [j \in Job |-> IF verdict[j] = "running" THEN "queued"
                                 ELSE verdict[j]]
    /\ UNCHANGED <<content, applied>>

Work ==
    \/ \E j \in Job :
           \/ Turn(j, "new", "queued")
           \/ Turn(j, "queued", "running")
           \/ Apply(j)
           \/ Complete(j)
           \/ Turn(j, "running", "failed")
    \/ GiveBack

Next ==
    \/ ~ undone' /\ Work
    \/ undone'

Spec == Init /\ [][Next]_<<content, verdict, applied, undone>>
=============================================================================
