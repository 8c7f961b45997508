--------------------------- MODULE PartitionState ---------------------------
(***************************************************************************)
(* convert_state.json over the raw partitions: the plans that partition    *)
(* the tasks, and what their reconciliation must keep of the converter's   *)
(* entries, whatever it does (module StateReconcile).                      *)
(*                                                                         *)
(* A plan is one partition: it distributes the recordings of a source task *)
(* over the source and its destinations.  A later plan may split a task    *)
(* again.                                                                  *)
(***************************************************************************)
EXTENDS Integers

CONSTANTS
    Task,
    Serial,           \* the recordings
    Plan,
    SourceOf,         \* the task a plan distributes
    Share,            \* Share[p][t]: what plan p gives task t; {} if nothing
    Uploaded,         \* the recordings of each raw task at first
    Attempted,        \* the recordings the converter has worked on at first
    MaxConversions    \* bound: recordings the converter works on

ASSUME PlanAssumption ==
    /\ Plan # {}
    /\ SourceOf \in [Plan -> Task]
    /\ Share \in [Plan -> [Task -> SUBSET Serial]]
    /\ Uploaded \in [Task -> SUBSET Serial]
ASSUME StampAssumption == Plan \cap Int = {}
ASSUME ConversionsAssumption == MaxConversions \in Nat

VARIABLES
    output,         \* the serials each converted data set holds
    state,          \* convert_state.json
    last,           \* history: the entry the converter last wrote
    backup          \* the backup of each plan

Scope(p) == {SourceOf[p]} \cup {t \in Task : Share[p][t] # {}}

Destinations(p) == Scope(p) \ {SourceOf[p]}

MovedOut(p) == UNION {Share[p][t] : t \in Destinations(p)}

(* No command loses what the converter wrote: an entry counts at least the *)
(* recordings of the converter's last entry for that task, and has its     *)
(* failures, but for those that are converted by now or were moved away by *)
(* a plan that was applied.  In particular the entries of other tasks, and *)
(* those written after a plan was applied, survive its commands.           *)
ConverterKept ==
    \A t \in Task :
        /\ last[t].done \subseteq state[t].done
        /\ state[t].failed \subseteq last[t].failed
        /\ \A s \in last[t].failed \ state[t].failed :
               \/ s \in output[t]
               \/ \E p \in Plan : /\ backup[p].kind = "whole"
                                  /\ t = SourceOf[p] /\ s \in MovedOut(p)

(* The backup of a plan holds nothing of the plan: however often commands  *)
(* stop and are repeated in either direction, a rollback leads back to     *)
(* before the first apply.  And an entry of the plan stands in the file    *)
(* only if the backup is there to undo it.                                 *)
BackupPrecedes ==
    \A p \in Plan, t \in Task :
        /\ backup[p].kind = "whole" => backup[p].was[t].stamp # p
        /\ state[t].stamp = p => backup[p].kind = "whole" /\ t \in Scope(p)
=============================================================================
