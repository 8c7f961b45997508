--------------------------- MODULE StateReconcile ---------------------------
(***************************************************************************)
(* scripts/reconcile_partition_convert_state.py: after a committed raw     *)
(* partition, the entries of its source and its destinations in the shared *)
(* convert_state.json are replaced by ones that fit the new distribution;  *)
(* a rollback puts the former entries back.                                *)
(*                                                                         *)
(* The journal of a plan is authority for the two commands while it is     *)
(* committed and the tasks hold what it says (module RawPartition).        *)
(*                                                                         *)
(* Commands run one at a time, under the state lock and with the converter *)
(* stopped, but may be killed anywhere or end by a raising call; then the  *)
(* converter may run again before the command is repeated.  An installation*)
(* is one rename; the backup is written under its final name.              *)
(***************************************************************************)
EXTENDS PartitionState

CONSTANT MaxStops     \* bound: how often a command is killed or raises

ASSUME BoundsAssumption == MaxStops \in Nat

(* last_updated: what the converter writes is new each time, what a plan   *)
(* writes is the moment its journal was committed.                         *)
Stamp == (0..MaxConversions) \cup Plan

(* converted_count and last_serial come from one set of serials; a failure *)
(* is in failed_serials or in transient_failed.                            *)
Missing == [done |-> {}, failed |-> {}, stamp |-> -1]

Entry == [done : SUBSET Serial, failed : SUBSET Serial, stamp : Stamp]
             \cup {Missing}

VARIABLES
    raw, partition, \* the recordings of the raw tasks; the journal's phase
    asked,          \* the command the operator gives, and gives again
    pc, plan,       \* the running command and its plan
    conversions, stops

raws == <<raw, partition>>
converter == <<output, last, conversions>>
files == <<state, backup>>
command == <<pc, plan>>
vars == <<raws, converter, files, asked, command, stops>>

TypeOK ==
    /\ raw \in [Task -> SUBSET Serial]
    /\ partition \in [Plan -> {"none", "committed", "rolled_back"}]
    /\ output \in [Task -> SUBSET Serial]
    /\ state \in [Task -> Entry] /\ last \in [Task -> Entry]
    /\ backup \in [Plan -> [kind : {"none", "torn", "whole"},
                            was : [Task -> Entry]]]
    /\ asked \in {"apply", "rollback"}
    /\ pc \in {"idle", "create", "fill", "install"}
    /\ plan \in Plan
    /\ conversions \in 0..MaxConversions /\ stops \in 0..MaxStops

(* The value of plan while no command runs.                                *)
NoPlan == CHOOSE p \in Plan : TRUE

Init ==
    /\ raw = Uploaded
    /\ partition = [p \in Plan |-> "none"]
    /\ output \in [Task -> SUBSET Serial]
    /\ \A t \in Task : output[t] \subseteq raw[t] \cap Attempted
    /\ \E failed \in [Task -> SUBSET Serial], seen \in SUBSET Task :
           /\ \A t \in Task : failed[t] \subseteq raw[t] \cap Attempted
           /\ \A t \in Task \ seen : output[t] = {} /\ failed[t] = {}
           /\ state = [t \in Task |->
                          IF t \in seen THEN [done |-> output[t],
                                              failed |-> failed[t], stamp |-> 0]
                          ELSE Missing]
    /\ last = state
    /\ backup = [p \in Plan |->
                    [kind |-> "none", was |-> [t \in Task |-> Missing]]]
    /\ asked = "apply"
    /\ pc = "idle" /\ plan = NoPlan
    /\ conversions = 0 /\ stops = 0
-----------------------------------------------------------------------------
(* What a command decides from what it reads.                              *)

(* _validate_authority.                                                    *)
Authority(p) ==
    /\ partition[p] = "committed"
    /\ \A t \in Scope(p) : raw[t] = Share[p][t]

(* _derive_replacement raises when an output or a failure is not of the    *)
(* task's share.                                                           *)
Derivable(p, base) ==
    /\ \A t \in Scope(p) : output[t] \subseteq Share[p][t]
    /\ \A t \in Destinations(p) : base[t].failed \subseteq Share[p][t]

(* The entries a plan asks for, from those before it and the outputs.  The *)
(* count of a source without output is left alone.                         *)
Replacement(p, base) ==
    [t \in Task |->
        CASE t \in Destinations(p) ->
                [done |-> output[t], failed |-> base[t].failed \ output[t],
                 stamp |-> p]
          [] t = SourceOf[p] /\ (base[t] # Missing \/ output[t] # {}) ->
                [done |-> IF output[t] = {} THEN base[t].done ELSE output[t],
                 failed |-> base[t].failed \ (output[t] \cup MovedOut(p)),
                 stamp |-> p]
          [] OTHER -> base[t]]

(* _entry_is_admissible: the entry is the old or the new one, or mixes the *)
(* fields of both.                                                         *)
Admissible(current, before, desired) ==
    \/ current \in {before, desired}
    \/ /\ Missing \notin {current, before, desired}
       /\ current.done \in {before.done, desired.done}
       /\ current.failed \in {before.failed, desired.failed}
       /\ current.stamp \in {before.stamp, desired.stamp}

(* Mutant: a change of any task's entry is a conflict.                     *)
ComposableWhole(p) ==
    LET before == backup[p].was
    IN  /\ Derivable(p, before)
        /\ \A t \in Task :
               Admissible(state[t], before[t], Replacement(p, before)[t])

(* _validate_composable_scope, against the backup.                         *)
Composable(p) ==
    LET before == backup[p].was
    IN  /\ Derivable(p, before)
        /\ \A t \in Scope(p) :
               Admissible(state[t], before[t], Replacement(p, before)[t])

(* Mutant: the whole file is put back.                                     *)
ComposedWhole(p, scoped) == scoped

(* _compose_scope: the plan's entries are exchanged in the current state.  *)
Composed(p, scoped) ==
    [t \in Task |-> IF t \in Scope(p) THEN scoped[t] ELSE state[t]]

(* What the command on the plan installs.                                  *)
Target(p) ==
    Composed(p, IF asked = "apply" THEN Replacement(p, backup[p].was)
                ELSE backup[p].was)

-----------------------------------------------------------------------------
(* The raw partition, as its own module has it: committed or reversed as a *)
(* whole, while the task it distributes is as it found it.                 *)
Commit(p) ==
    /\ pc = "idle"
    /\ partition[p] = "none"
    /\ raw[SourceOf[p]] = UNION {Share[p][t] : t \in Task}
    /\ \A t \in Destinations(p) : raw[t] = {}
    /\ partition' = [partition EXCEPT ![p] = "committed"]
    /\ raw' = [t \in Task |-> IF t \in Scope(p) THEN Share[p][t] ELSE raw[t]]
    /\ UNCHANGED <<converter, files, asked, command, stops>>

Reverse(p) ==
    /\ pc = "idle"
    /\ Authority(p)
    /\ partition' = [partition EXCEPT ![p] = "rolled_back"]
    /\ raw' = [t \in Task |->
                  CASE t \in Destinations(p) -> {}
                    [] t = SourceOf[p] -> UNION {Share[p][u] : u \in Task}
                    [] OTHER -> raw[t]]
    /\ UNCHANGED <<converter, files, asked, command, stops>>

(* The converter works on a recording: it converts it, it fails, or it is  *)
(* killed when the output is durable and the entry is not yet written.     *)
Convert(t, s) ==
    /\ pc = "idle"
    /\ conversions < MaxConversions
    /\ s \in raw[t] \ output[t]
    /\ conversions' = conversions + 1
    /\ \/ /\ output' = [output EXCEPT ![t] = @ \cup {s}]
          /\ \/ UNCHANGED <<state, last>>
             \/ /\ state' = [state EXCEPT ![t] =
                      [done |-> output'[t], failed |-> @.failed \ {s},
                       stamp |-> conversions']]
                /\ last' = [last EXCEPT ![t] = state'[t]]
       \/ /\ state' = [state EXCEPT ![t] =
                [done |-> output[t], failed |-> @.failed \cup {s},
                 stamp |-> conversions']]
          /\ last' = [last EXCEPT ![t] = state'[t]]
          /\ UNCHANGED output
    /\ UNCHANGED <<raws, backup, asked, command, stops>>

(* The operator turns to the other command.                                *)
Ask ==
    /\ pc = "idle"
    /\ asked' = IF asked = "apply" THEN "rollback" ELSE "apply"
    /\ UNCHANGED <<raws, converter, files, command, stops>>
-----------------------------------------------------------------------------
(* A command reads everything under the lock.  It refuses, and changes     *)
(* nothing, without authority, with a torn backup, or in a conflict.       *)
Run(p, step) ==
    /\ pc = "idle"
    /\ Authority(p)
    /\ pc' = step /\ plan' = p
    /\ UNCHANGED <<raws, converter, files, asked, stops>>

FirstApply(p) ==
    /\ asked = "apply"
    /\ backup[p].kind = "none"
    /\ Derivable(p, state)
    /\ Run(p, "create")

Again(p) ==
    /\ backup[p].kind = "whole"
    /\ Composable(p)
    /\ Target(p) # state
    /\ Run(p, "install")

(* Mutant: the backup is taken after the replacement was installed.        *)
CreateLate ==
    /\ pc = "create"
    /\ state' = Composed(plan, Replacement(plan, state))
    /\ backup' = [backup EXCEPT ![plan].kind = "torn"]
    /\ pc' = "fill"
    /\ UNCHANGED <<raws, converter, asked, plan, stops>>

(* _write_new_regular: the backup exists before it is filled.              *)
Create ==
    /\ pc = "create"
    /\ backup' = [backup EXCEPT ![plan].kind = "torn"]
    /\ pc' = "fill"
    /\ UNCHANGED <<raws, converter, state, asked, plan, stops>>

Fill ==
    /\ pc = "fill"
    /\ backup' = [backup EXCEPT ![plan] = [kind |-> "whole", was |-> state]]
    /\ pc' = "install"
    /\ UNCHANGED <<raws, converter, state, asked, plan, stops>>

(* _install_bytes: a temporary file takes the place of the state.          *)
Install ==
    /\ pc = "install"
    /\ state' = Target(plan)
    /\ pc' = "idle" /\ plan' = NoPlan
    /\ UNCHANGED <<raws, converter, backup, asked, stops>>

(* The command is killed.                                                  *)
Kill ==
    /\ pc # "idle"
    /\ stops < MaxStops
    /\ stops' = stops + 1
    /\ pc' = "idle" /\ plan' = NoPlan
    /\ UNCHANGED <<raws, converter, files, asked>>

(* A call raises: a backup that is not whole is removed again.             *)
Raise ==
    /\ pc # "idle"
    /\ stops < MaxStops
    /\ stops' = stops + 1
    /\ pc' = "idle" /\ plan' = NoPlan
    /\ backup' = [backup EXCEPT ![plan].kind = IF @ = "torn" THEN "none" ELSE @]
    /\ UNCHANGED <<raws, converter, state, asked>>

Step == Create \/ Fill \/ Install \/ \E p \in Plan : FirstApply(p) \/ Again(p)

Next ==
    \/ Step \/ Kill \/ Raise \/ Ask
    \/ \E p \in Plan : Commit(p) \/ Reverse(p)
    \/ \E t \in Task, s \in Serial : Convert(t, s)

Spec == Init /\ [][Next]_vars
-----------------------------------------------------------------------------
(* The converter, or another plan, has been at the tasks of the plan since *)
(* its backup was taken or its replacement installed.                      *)
Overtaken(p) ==
    \E t \in Scope(p) :
        \/ state[t].stamp \notin {backup[p].was[t].stamp, p}
        \/ output[t] # state[t].done

(* Reconciled, or restored, as the operator asked.                         *)
Settled(p) ==
    IF asked = "apply"
    THEN \A t \in Scope(p) : t = SourceOf[p] \/ state[t].stamp = p
    ELSE backup[p].kind = "none" \/ \A t \in Scope(p) : state[t].stamp # p

LiveSpec == Spec /\ WF_vars(Step)

(* A command that is repeated ends with what it was asked for, unless its  *)
(* authority is gone, a kill left a torn backup, or the tasks were         *)
(* converted since, or before in a way that does not fit the plan.         *)
Converges ==
    \A p \in Plan :
        <>[][~Ask]_vars =>
            <>[]( \/ Settled(p)
                  \/ ~Authority(p)
                  \/ backup[p].kind = "torn"
                  \/ backup[p].kind = "whole" /\ Overtaken(p)
                  \/ backup[p].kind = "none" /\ ~Derivable(p, state) )
=============================================================================
