---------------------- MODULE ConversionRecoveryProofs ----------------------
(***************************************************************************)
(* Proofs about ConversionRecovery for every set of tasks and scenes, every *)
(* number of recovery processes that die, and every order in which         *)
(* interrupted recoveries are resumed; and, in the last part, about        *)
(* ConverterControl, which has the same convert_state.json between two     *)
(* recoveries, for every set of recordings and of retries.                 *)
(***************************************************************************)
EXTENDS ConversionRecovery, StateFile, TLAPS

Unplanned == {"output_quarantine_pending", "archive_restore_pending",
              "candidate_verify_pending", "state_replacement_pending"}

(* The plan for the shared state file is written on leaving the phase      *)
(* state_replacement_pending; before, the intent has no state backup.      *)
Planned ==
    \A t \in Task : intent[t] # None =>
        IF intent[t].phase \in Unplanned
        THEN intent[t].plan = None /\ sback[t] = None
        ELSE intent[t].plan # None

(* The recovery that holds the lock has written its intent.                *)
ActiveHasIntent == active # None => intent[active] # None

(* What the phase, plan and evidence of an intent are after a rewrite.     *)
LEMMA Advanced ==
    ASSUME TypeOK, NEW t \in Task, intent[t] # None,
           NEW p \in Phase, Advance(t, p)
    PROVE  /\ intent' \in [Task -> Intent \cup {None}]
           /\ intent'[t] # None
           /\ intent'[t].phase = p
           /\ intent'[t].plan = intent[t].plan
           /\ \A u \in Task \ {t} : intent'[u] = intent[u]
<1>1. intent[t] \in Intent
  BY DEF TypeOK
<1>2. [intent[t] EXCEPT !.phase = p] \in Intent
  BY <1>1 DEF Intent
<1>3. intent' = [intent EXCEPT ![t] = [intent[t] EXCEPT !.phase = p]]
  BY DEF Advance, TypeOK
<1> QED
  BY <1>1, <1>2, <1>3, NoneAssumption DEF TypeOK, Intent

LEMMA DerivedIsFile ==
    ASSUME NEW f \in File, NEW t \in Task
    PROVE  Derived(f, t) \in File
BY DEF Derived, File, Entry

LEMMA PlanWritten ==
    ASSUME TypeOK, NEW t \in Task, In(t, "state_replacement_pending"),
           intent[t] # None, PlanState(t)
    PROVE  /\ canon \in File /\ srepl[t] \in File
           /\ intent' \in [Task -> Intent \cup {None}]
           /\ intent'[t] # None
           /\ intent'[t].phase = "state_backup_pending"
           /\ intent'[t].plan = [orig |-> canon, repl |-> srepl[t]]
           /\ \A u \in Task \ {t} : intent'[u] = intent[u]
<1> DEFINE plan == [orig |-> canon, repl |-> srepl[t]]
           new == [[intent[t] EXCEPT !.plan = plan]
                       EXCEPT !.phase = "state_backup_pending"]
<1>1. intent[t] \in Intent /\ canon \in File /\ srepl[t] \in File
  BY DEF TypeOK, PlanState
<1>2. plan \in Plan
  BY <1>1 DEF Plan
<1>3. new \in Intent /\ new.plan = plan /\ new.phase = "state_backup_pending"
  BY <1>1, <1>2 DEF Intent, Phase
<1>4. intent' = [intent EXCEPT ![t] = new]
  BY DEF PlanState, TypeOK
<1> QED
  BY <1>1, <1>3, <1>4, NoneAssumption DEF TypeOK

-----------------------------------------------------------------------------
(* Type correctness.                                                       *)
TypeInv == TypeOK /\ Planned /\ ActiveHasIntent

LEMMA NewIntentTyped ==
    ASSUME TypeOK, NEW t \in Task, NEW mode \in Mode
    PROVE  /\ NewIntent(t, mode) \in Intent
           /\ NewIntent(t, mode).phase \in Unplanned
           /\ NewIntent(t, mode).plan = None
<1>1. dirs[t].output \in Tree \cup {None} /\ dirs[t].archive \in Tree \cup {None}
  BY DEF TypeOK, Name
<1>2. {k \in Kind : At(t, k)} \in SUBSET Kind
  OBVIOUS
<1> QED
  BY <1>1, <1>2 DEF NewIntent, Intent, Phase, Unplanned

LEMMA TypeInit == Init => TypeInv
<1> SUFFICES ASSUME Init PROVE TypeInv
  OBVIOUS
<1>1. scene \in [Task -> AnyScene]
  BY SceneAssumption DEF Init
<1>2. \A t \in Task : Left(scene[t]) \in [Name -> Tree \cup {None}]
  BY <1>1 DEF Left, AnyScene, Name, Tree
<1>3. \A t \in Task : LeftMarks(scene[t]) \in [Kind -> {"absent", "source", "audit"}]
  BY <1>1 DEF LeftMarks, AnyScene, Kind
<1>4. canon \in File /\ latest \in [Task -> Entry]
  BY DEF Init, File, Entry
<1> QED
  BY <1>2, <1>3, <1>4, BoundsAssumption
  DEF Init, TypeInv, TypeOK, Planned, ActiveHasIntent

(* Only the recovery that holds the lock takes steps.                      *)
LEMMA StepIsActive ==
    ASSUME NEW t \in Task, Step(t)
    PROVE  active = t
BY Zenon DEF Step, In, QuarantineOutput, OutputQuarantined, RestoreArchive,
   ArchiveRestored, VerifyCandidate, WriteReplacement, PlanState, BackUpState,
   StateBackedUp, InstallState, StateInstalled, AuditMarker, MarkersAudited,
   CompleteIntent, PublishReceipt

LEMMA TypeStep == TypeInv /\ [Next]_vars => TypeInv'
<1> SUFFICES ASSUME TypeInv, [Next]_vars PROVE TypeInv'
  OBVIOUS
<1> USE DEF TypeInv
<1>1. CASE UNCHANGED vars
  BY <1>1 DEF vars, state, bounds, TypeOK, Planned, ActiveHasIntent
<1>2. ASSUME NEW t \in Task, NEW mode \in Mode, Create(t, mode) PROVE TypeInv'
  <2>1. NewIntent(t, mode) # None
    BY NewIntentTyped, NoneAssumption
  <2>2. intent' \in [Task -> Intent \cup {None}]
    BY <1>2, NewIntentTyped DEF Create, TypeOK
  <2>3. TypeOK'
    BY <1>2, <2>2 DEF Create, TypeOK, bounds
  <2>4. Planned' /\ ActiveHasIntent'
    BY <1>2, <2>1, NewIntentTyped DEF Create, TypeOK, Planned, ActiveHasIntent
  <2> QED
    BY <2>3, <2>4
<1>3. ASSUME NEW t \in Task, NEW mode \in Mode, Resume(t, mode) PROVE TypeInv'
  BY <1>3 DEF Resume, state, bounds, TypeOK, Planned, ActiveHasIntent
<1>4. ASSUME NEW t \in Task, Step(t) PROVE TypeInv'
  <2>1. active = t /\ intent[t] # None /\ intent[t] \in Intent
    BY <1>4, StepIsActive, NoneAssumption DEF ActiveHasIntent, TypeOK
  <2>2. ASSUME NEW p \in Phase, Advance(t, p), PhaseOnly,
               p \in Unplanned <=> intent[t].phase \in Unplanned
        PROVE  TypeInv'
    <3>1. TypeOK'
      BY <2>1, <2>2, Advanced DEF PhaseOnly, TypeOK, state, bounds
    <3>2. Planned'
      BY <2>1, <2>2, Advanced DEF PhaseOnly, Planned, state
    <3>3. ActiveHasIntent'
      BY <2>1, <2>2, Advanced DEF PhaseOnly, ActiveHasIntent
    <3> QED
      BY <3>1, <3>2, <3>3
  <2>3. ASSUME NEW from \in Name, NEW to \in Name, NEW tree,
               MoveDir(t, from, to, tree)
        PROVE  TypeInv'
    <3>1. dirs[t][from] \in Tree \cup {None}
      BY DEF TypeOK
    <3>2. dirs' \in [Task -> [Name -> Tree \cup {None}]]
      BY <2>3, <3>1 DEF MoveDir, Rename, TypeOK
    <3> QED
      BY <2>3, <3>2 DEF MoveDir, state, bounds, TypeOK, Planned, ActiveHasIntent
  <2>4. CASE QuarantineOutput(t)
    BY <2>3, <2>4 DEF QuarantineOutput, Name
  <2>5. CASE OutputQuarantined(t)
    BY <2>2, <2>5 DEF OutputQuarantined, In, Phase, Unplanned
  <2>6. CASE RestoreArchive(t)
    BY <2>3, <2>6 DEF RestoreArchive, Name
  <2>7. CASE ArchiveRestored(t)
    BY <2>2, <2>7 DEF ArchiveRestored, In, Phase, Unplanned
  <2>8. CASE VerifyCandidate(t)
    BY <2>2, <2>8 DEF VerifyCandidate, In, Phase, Unplanned
  <2>9. CASE WriteReplacement(t)
    <3>1. Derived(canon, t) \in File
      BY <2>9, DerivedIsFile DEF WriteReplacement, TypeOK
    <3> QED
      BY <2>9, <3>1 DEF WriteReplacement, bounds, TypeOK, Planned, ActiveHasIntent
  <2>10. CASE PlanState(t)
    <3>1. /\ intent' \in [Task -> Intent \cup {None}] /\ intent'[t] # None
          /\ intent'[t].phase = "state_backup_pending"
          /\ intent'[t].plan \in Plan
          /\ \A u \in Task \ {t} : intent'[u] = intent[u]
      <4>1. In(t, "state_replacement_pending")
        BY <2>10 DEF PlanState
      <4>2. /\ canon \in File /\ srepl[t] \in File
            /\ intent'[t].plan = [orig |-> canon, repl |-> srepl[t]]
        BY <2>1, <2>10, <4>1, PlanWritten
      <4>3. intent'[t].plan \in Plan
        BY <4>2 DEF Plan
      <4> QED
        BY <2>1, <2>10, <4>1, <4>3, PlanWritten
    <3>2. TypeOK'
      BY <2>10, <3>1 DEF PlanState, PhaseOnly, TypeOK, state, bounds
    <3>3. sback' = sback /\ active' = active
      BY <2>10 DEF PlanState, PhaseOnly, state
    <3>4. Planned'
      BY <3>1, <3>3, NoneAssumption DEF Planned, Unplanned
    <3>5. ActiveHasIntent'
      BY <2>1, <3>1, <3>3 DEF ActiveHasIntent
    <3> QED
      BY <3>2, <3>4, <3>5
  <2>11. CASE BackUpState(t)
    <3>1. intent[t].phase \notin Unplanned
      BY <2>11 DEF BackUpState, In, Unplanned
    <3> QED
      BY <2>11, <3>1 DEF BackUpState, bounds, TypeOK, Planned, ActiveHasIntent
  <2>12. CASE StateBackedUp(t)
    BY <2>2, <2>12 DEF StateBackedUp, In, Phase, Unplanned
  <2>13. CASE InstallState(t)
    <3>1. intent[t].plan \in Plan /\ intent[t].plan.repl \in File
      BY <2>1, <2>13, NoneAssumption
      DEF InstallState, In, Planned, Intent, Unplanned, Plan
    <3>2. srepl[t] # None
      BY <2>13, <3>1, NoneAssumption
      DEF InstallState, In, Stands, StateStands, Early, Late
    <3>3. srepl[t] \in File /\ srepl[t].entries \in [Task -> Entry]
      BY <3>2 DEF TypeOK, File
    <3> QED
      BY <2>13, <3>3 DEF InstallState, bounds, TypeOK, Planned, ActiveHasIntent
  <2>14. CASE StateInstalled(t)
    BY <2>2, <2>14 DEF StateInstalled, In, Phase, Unplanned
  <2>15. ASSUME NEW k \in Kind, AuditMarker(t, k) PROVE TypeInv'
    BY <2>15 DEF AuditMarker, state, bounds, TypeOK, Planned, ActiveHasIntent
  <2>16. CASE MarkersAudited(t)
    BY <2>2, <2>16 DEF MarkersAudited, In, Phase, Unplanned
  <2>17. CASE CompleteIntent(t)
    BY <2>2, <2>17 DEF CompleteIntent, In, Phase, Unplanned
  <2>18. CASE PublishReceipt(t)
    BY <2>1, <2>18 DEF PublishReceipt, state, bounds, TypeOK, Planned,
       ActiveHasIntent
  <2> QED
    BY <1>4, <2>4, <2>5, <2>6, <2>7, <2>8, <2>9, <2>10, <2>11, <2>12, <2>13,
       <2>14, <2>15, <2>16, <2>17, <2>18 DEF Step
<1>5. ASSUME NEW t \in Task, Refuse(t) PROVE TypeInv'
  BY <1>5 DEF Refuse, state, bounds, TypeOK, Planned, ActiveHasIntent
<1>6. ASSUME NEW t \in Task, Convert(t) PROVE TypeInv'
  <2>1. canon # None => canon.entries \in [Task -> Entry]
    BY DEF TypeOK, File
  <2>2. latest' \in [Task -> Entry]
    BY <1>6, <2>1 DEF Convert, Entry
  <2>3. canon' \in File
    BY <1>6, <2>2 DEF Convert, File
  <2>4. dirs' \in [Task -> [Name -> Tree \cup {None}]]
    BY <1>6 DEF Convert, TypeOK, Name, Tree
  <2>5. conversions' \in 0..MaxConversions
    BY <1>6, BoundsAssumption DEF Convert, TypeOK
  <2> QED
    BY <1>6, <2>2, <2>3, <2>4, <2>5 DEF Convert, TypeOK, Planned, ActiveHasIntent
<1>7. CASE Crash
  BY <1>7, BoundsAssumption DEF Crash, state, TypeOK, Planned, ActiveHasIntent
<1> QED
  BY <1>1, <1>2, <1>3, <1>4, <1>5, <1>6, <1>7 DEF Next, Recover

(* TypeOK: the state of disk and recoveries keeps its type.                *)
THEOREM TypeCorrect == Spec => []TypeOK
<1>1. Spec => []TypeInv
  BY TypeInit, TypeStep, PTL DEF Spec
<1> QED
  BY <1>1, PTL DEF TypeInv

-----------------------------------------------------------------------------
(* The state file of all tasks.  A recovery is swapping while its backup   *)
(* is made and its replacement not yet installed.                          *)
Swapping(t) ==
    /\ intent[t] # None
    /\ intent[t].plan # None
    /\ sback[t] # None
    /\ srepl[t] # None

(* The strengthening of EntriesKept: the file, or while a recovery swaps   *)
(* it the original of that recovery, has the latest entries, and no two    *)
(* recoveries swap at once.                                                *)
SwapInv ==
    /\ canon # None => latest = canon.entries
    /\ \A t \in Task : Swapping(t) =>
           /\ canon = None
           /\ intent[t].plan.orig.entries = latest
           /\ srepl[t] = intent[t].plan.repl
    /\ \A t, u \in Task : Swapping(t) /\ Swapping(u) => t = u

PlanDerived ==
    \A t \in Task : intent[t] # None /\ intent[t].plan # None =>
        intent[t].plan.repl.entries =
            [intent[t].plan.orig.entries EXCEPT ![t] = "recovered"]

EntryInv == PlanDerived /\ (conversions = 0 => SwapInv)

LEMMA EntryInit == Init => EntryInv
BY DEF Init, EntryInv, PlanDerived, SwapInv, Swapping

(* An active recovery whose plan is written has a well-formed plan.        *)
LEMMA PlanTyped ==
    ASSUME TypeInv, NEW t \in Task, intent[t] # None, intent[t].plan # None
    PROVE  /\ intent[t].plan \in Plan
           /\ intent[t].plan.orig \in File /\ intent[t].plan.repl \in File
           /\ intent[t].plan.orig # None /\ intent[t].plan.repl # None
<1>1. intent[t].plan \in Plan
  BY DEF TypeInv, TypeOK, Intent
<1> QED
  BY <1>1, NoneAssumption DEF Plan

(* What the check of the state evidence gives the two renames.             *)
LEMMA BackUpFacts ==
    ASSUME TypeInv, NEW t \in Task, BackUpState(t)
    PROVE  /\ intent[t] # None /\ intent[t].plan # None
           /\ canon = intent[t].plan.orig /\ canon # None
           /\ srepl[t] = intent[t].plan.repl
<1>1. intent[t] # None /\ intent[t].plan # None
  BY NoneAssumption DEF BackUpState, In, TypeInv, ActiveHasIntent, Planned, Unplanned
<1>2. intent[t].plan.orig # None
  BY <1>1, PlanTyped
<1>3. intent[t].phase \in Early /\ StateStands(t) /\ sback[t] = None
  BY DEF BackUpState, In, Stands, Early
<1> QED
  BY <1>1, <1>2, <1>3 DEF StateStands

LEMMA InstallFacts ==
    ASSUME TypeInv, NEW t \in Task, InstallState(t)
    PROVE  Swapping(t) /\ srepl[t] = intent[t].plan.repl
<1>1. intent[t] # None /\ intent[t].plan # None
  BY NoneAssumption DEF InstallState, In, TypeInv, ActiveHasIntent, Planned, Unplanned
<1>2. intent[t].plan.repl # None
  BY <1>1, PlanTyped
<1>3. intent[t].phase = "state_install_pending" /\ StateStands(t) /\ canon = None
  BY DEF InstallState, In, Stands
<1> QED
  BY <1>1, <1>2, <1>3 DEF StateStands, Swapping

(* A step that writes neither state files nor plans keeps the invariant.   *)
LEMMA EntryKeptBy ==
    ASSUME EntryInv, NEW t \in Task, UNCHANGED <<canon, latest, conversions>>,
           \A u \in Task : /\ Swapping(u)' => Swapping(u)
                           /\ Swapping(u)' => srepl'[u] = srepl[u]
                           /\ intent'[u] # None /\ intent'[u].plan # None =>
                                  /\ intent[u] # None
                                  /\ intent'[u].plan = intent[u].plan
    PROVE  EntryInv'
<1>1. PlanDerived'
  BY DEF EntryInv, PlanDerived
<1>2. ASSUME SwapInv PROVE SwapInv'
  <2>1. canon' # None => latest' = canon'.entries
    BY <1>2 DEF SwapInv
  <2>2. ASSUME NEW u \in Task, Swapping(u)'
        PROVE  /\ canon' = None
               /\ intent'[u].plan.orig.entries = latest'
               /\ srepl'[u] = intent'[u].plan.repl
    <3>1. Swapping(u) /\ srepl'[u] = srepl[u] /\ intent'[u].plan = intent[u].plan
      BY <2>2 DEF Swapping
    <3> QED
      BY <1>2, <3>1 DEF SwapInv
  <2>3. \A u, v \in Task : Swapping(u)' /\ Swapping(v)' => u = v
    BY <1>2 DEF SwapInv
  <2> QED
    BY <2>1, <2>2, <2>3 DEF SwapInv
<1> QED
  BY <1>1, <1>2 DEF EntryInv

LEMMA EntryStep ==
    ASSUME TypeInv, EntryInv, [Next]_vars
    PROVE  /\ EntryInv'
           /\ conversions' = 0 =>
                \A u \in Task : latest'[u] # latest[u] => OwnEntry(u)
<1> DEFINE Own == conversions' = 0 =>
                      \A u \in Task : latest'[u] # latest[u] => OwnEntry(u)
<1>1. CASE UNCHANGED vars
  BY <1>1 DEF vars, state, bounds, EntryInv, PlanDerived, SwapInv, Swapping
<1>2. ASSUME NEW t \in Task, NEW mode \in Mode, Create(t, mode) PROVE EntryInv' /\ Own
  <2>1. intent'[t].plan = None /\ sback'[t] = None
    BY <1>2, NewIntentTyped DEF Create, TypeInv, TypeOK
  <2>2. \A u \in Task \ {t} : intent'[u] = intent[u] /\ sback'[u] = sback[u]
                              /\ srepl'[u] = srepl[u]
    BY <1>2 DEF Create, TypeInv, TypeOK
  <2>3. UNCHANGED <<canon, latest, conversions>>
    BY <1>2 DEF Create, bounds
  <2> QED
    BY <2>1, <2>2, <2>3, EntryKeptBy DEF Swapping
<1>3. ASSUME NEW t \in Task, NEW mode \in Mode, Resume(t, mode) PROVE EntryInv' /\ Own
  BY <1>3 DEF Resume, state, bounds, EntryInv, PlanDerived, SwapInv, Swapping
<1>4. ASSUME NEW t \in Task, Step(t) PROVE EntryInv' /\ Own
  <2>1. active = t /\ intent[t] # None /\ intent[t] \in Intent
    BY <1>4, StepIsActive, NoneAssumption DEF TypeInv, ActiveHasIntent, TypeOK
  <2>2. ASSUME NEW p \in Phase, Advance(t, p), PhaseOnly PROVE EntryInv' /\ Own
    <3>1. \A u \in Task : intent'[u] # None => /\ intent[u] # None
                                               /\ intent'[u].plan = intent[u].plan
      BY <2>1, <2>2, Advanced DEF TypeInv
    <3>2. UNCHANGED <<canon, latest, conversions, sback, srepl>>
      BY <2>2 DEF PhaseOnly, state, bounds
    <3> QED
      BY <3>1, <3>2, EntryKeptBy DEF Swapping
  <2>3. ASSUME UNCHANGED <<state, intent, bounds>> PROVE EntryInv' /\ Own
    BY <2>3 DEF state, bounds, EntryInv, PlanDerived, SwapInv, Swapping
  <2>4. CASE QuarantineOutput(t)
    BY <2>3, <2>4 DEF QuarantineOutput, MoveDir
  <2>5. CASE OutputQuarantined(t)
    BY <2>2, <2>5 DEF OutputQuarantined, Phase
  <2>6. CASE RestoreArchive(t)
    BY <2>3, <2>6 DEF RestoreArchive, MoveDir
  <2>7. CASE ArchiveRestored(t)
    BY <2>2, <2>7 DEF ArchiveRestored, Phase
  <2>8. CASE VerifyCandidate(t)
    BY <2>2, <2>8 DEF VerifyCandidate, Phase
  <2>9. CASE WriteReplacement(t)
    <3>1. intent[t].plan = None
      BY <2>1, <2>9 DEF WriteReplacement, In, TypeInv, Planned, Unplanned
    <3>2. \A u \in Task \ {t} : srepl'[u] = srepl[u]
      BY <2>9 DEF WriteReplacement, TypeInv, TypeOK
    <3>3. UNCHANGED <<canon, latest, conversions, sback, intent>>
      BY <2>9 DEF WriteReplacement, bounds
    <3> QED
      BY <3>1, <3>2, <3>3, EntryKeptBy DEF Swapping
  <2>10. CASE PlanState(t)
    <3>1. In(t, "state_replacement_pending") /\ srepl[t].entries = Derived(canon, t).entries
      BY <2>10 DEF PlanState
    <3>2. /\ intent'[t] # None
          /\ intent'[t].plan = [orig |-> canon, repl |-> srepl[t]]
          /\ \A u \in Task \ {t} : intent'[u] = intent[u]
      BY <2>1, <2>10, <3>1, PlanWritten DEF TypeInv
    <3>3. UNCHANGED <<canon, latest, conversions, sback, srepl>>
      BY <2>10 DEF PlanState, PhaseOnly, state, bounds
    <3>4. sback[t] = None
      BY <2>1, <3>1 DEF In, TypeInv, Planned, Unplanned
    <3>5. PlanDerived'
      <4>1. intent'[t].plan.repl.entries =
                [intent'[t].plan.orig.entries EXCEPT ![t] = "recovered"]
        BY <3>1, <3>2 DEF Derived
      <4>2. ASSUME NEW u \in Task \ {t}, intent'[u] # None, intent'[u].plan # None
            PROVE  intent'[u].plan.repl.entries =
                       [intent'[u].plan.orig.entries EXCEPT ![u] = "recovered"]
        BY <3>2, <4>2 DEF EntryInv, PlanDerived
      <4> QED
        BY <4>1, <4>2 DEF PlanDerived
    <3>6. \A u \in Task : Swapping(u)' => u # t /\ Swapping(u)
      BY <3>2, <3>3, <3>4 DEF Swapping
    <3>7. SwapInv => SwapInv'
      BY <3>2, <3>3, <3>6 DEF SwapInv
    <3> QED
      BY <3>3, <3>5, <3>7 DEF EntryInv
  <2>11. CASE BackUpState(t)
    <3>1. /\ intent[t].plan # None
          /\ canon = intent[t].plan.orig /\ canon # None
          /\ srepl[t] = intent[t].plan.repl
      BY <2>11, BackUpFacts
    <3>2. /\ canon' = None /\ UNCHANGED <<latest, conversions, srepl, intent>>
          /\ \A u \in Task \ {t} : sback'[u] = sback[u]
      BY <2>11 DEF BackUpState, bounds, TypeInv, TypeOK
    <3>3. PlanDerived'
      BY <3>2 DEF EntryInv, PlanDerived
    <3>4. ASSUME SwapInv PROVE SwapInv'
      <4>1. \A u \in Task : Swapping(u)' => u = t
        BY <3>1, <3>2, <3>4 DEF SwapInv, Swapping
      <4> QED
        BY <3>1, <3>2, <3>4, <4>1 DEF SwapInv
    <3> QED
      BY <3>2, <3>3, <3>4 DEF EntryInv
  <2>12. CASE StateBackedUp(t)
    BY <2>2, <2>12 DEF StateBackedUp, Phase
  <2>13. CASE InstallState(t)
    <3>1. Swapping(t) /\ srepl[t] = intent[t].plan.repl
      BY <2>13, InstallFacts
    <3>2. /\ canon' = srepl[t] /\ latest' = srepl[t].entries /\ srepl'[t] = None
          /\ UNCHANGED <<conversions, sback, intent>>
          /\ \A u \in Task \ {t} : srepl'[u] = srepl[u]
      BY <2>13 DEF InstallState, bounds, TypeInv, TypeOK
    <3>3. PlanDerived'
      BY <3>2 DEF EntryInv, PlanDerived
    <3>4. ASSUME SwapInv
          PROVE  SwapInv' /\ \A u \in Task : latest'[u] # latest[u] => OwnEntry(u)
      <4>1. \A u \in Task : ~ Swapping(u)'
        BY <3>1, <3>2, <3>4 DEF SwapInv, Swapping
      <4>2. latest' = [latest EXCEPT ![t] = "recovered"]
        BY <2>1, <3>1, <3>2, <3>4 DEF SwapInv, EntryInv, PlanDerived, Swapping
      <4>3. latest \in [Task -> Entry]
        BY DEF TypeInv, TypeOK
      <4> QED
        BY <2>1, <3>2, <4>1, <4>2, <4>3 DEF SwapInv, OwnEntry
    <3> QED
      BY <3>2, <3>3, <3>4 DEF EntryInv
  <2>14. CASE StateInstalled(t)
    BY <2>2, <2>14 DEF StateInstalled, Phase
  <2>15. ASSUME NEW k \in Kind, AuditMarker(t, k) PROVE EntryInv' /\ Own
    BY <2>3, <2>15 DEF AuditMarker
  <2>16. CASE MarkersAudited(t)
    BY <2>2, <2>16 DEF MarkersAudited, Phase
  <2>17. CASE CompleteIntent(t)
    BY <2>2, <2>17 DEF CompleteIntent, Phase
  <2>18. CASE PublishReceipt(t)
    <3>1. intent'[t] = None /\ \A u \in Task \ {t} : intent'[u] = intent[u]
      BY <2>18 DEF PublishReceipt, TypeInv, TypeOK
    <3>2. UNCHANGED <<canon, latest, conversions, sback, srepl>>
      BY <2>18 DEF PublishReceipt, state, bounds
    <3> QED
      BY <3>1, <3>2, EntryKeptBy DEF Swapping
  <2> QED
    BY <1>4, <2>4, <2>5, <2>6, <2>7, <2>8, <2>9, <2>10, <2>11, <2>12, <2>13,
       <2>14, <2>15, <2>16, <2>17, <2>18 DEF Step
<1>5. ASSUME NEW t \in Task, Refuse(t) PROVE EntryInv' /\ Own
  BY <1>5 DEF Refuse, state, bounds, EntryInv, PlanDerived, SwapInv, Swapping
<1>6. ASSUME NEW t \in Task, Convert(t) PROVE EntryInv' /\ Own
  <2>1. conversions' # 0
    BY <1>6 DEF Convert, TypeInv, TypeOK
  <2>2. intent' = intent
    BY <1>6 DEF Convert
  <2> QED
    BY <2>1, <2>2 DEF EntryInv, PlanDerived
<1>7. CASE Crash
  BY <1>7 DEF Crash, state, EntryInv, PlanDerived, SwapInv, Swapping
<1> QED
  BY <1>1, <1>2, <1>3, <1>4, <1>5, <1>6, <1>7 DEF Next, Recover

(* EntriesKept: interrupted recoveries, in any number and order, never     *)
(* lose each other's updates of the state file they share.                 *)
THEOREM UpdatesAreNotLost == Spec => EntriesKept
<1>1. Spec => []TypeInv
  BY TypeInit, TypeStep, PTL DEF Spec
<1>2. TypeInv /\ EntryInv /\ [Next]_vars => EntryInv'
  BY EntryStep
<1>3. TypeInv /\ EntryInv /\ [Next]_vars =>
          [conversions' = 0 =>
               \A t \in Task : latest'[t] # latest[t] => OwnEntry(t)]_vars
  BY EntryStep
<1> QED
  BY <1>1, <1>2, <1>3, EntryInit, PTL DEF Spec, EntriesKept
-----------------------------------------------------------------------------
(* What an intent and a receipt say of their task.  From the verification  *)
(* on, the trees are where the receipt will say they are (Settled); and    *)
(* what a receipt leaves meets no mode's preconditions, so that no later   *)
(* intent gives the name of its state backup up.                           *)
Settled(t, r) ==
    /\ r.mode \in Quarantines => dirs[t].quarantine = r.out
    /\ dirs[t].output = CASE r.mode = "rollback" -> r.arc
                          [] r.mode = "quarantine-restart" -> None
                          [] OTHER -> r.out
    /\ r.mode # "quarantine-restart" => Passed(t, dirs[t].output)

Audited(t) == \A k \in Kind : marks[t][k] # "source"

Quarantined(t) ==
    intent[t].mode = "rollback" => dirs[t].quarantine = intent[t].out

Before == {"output_quarantine_pending", "archive_restore_pending",
           "candidate_verify_pending"}

IntentInv(t) ==
    /\ receipt[t] = None
    /\ \A k \in Kind : marks[t][k] = "source" => k \in intent[t].marked
    /\ intent[t].phase = "output_quarantine_pending" =>
           intent[t].mode \in Quarantines
    /\ intent[t].phase = "archive_restore_pending" =>
           intent[t].mode = "rollback" /\ Quarantined(t)
    /\ intent[t].phase = "candidate_verify_pending" =>
           intent[t].mode # "quarantine-restart" /\ Quarantined(t)
    /\ intent[t].phase \notin Before => Settled(t, intent[t])
    /\ intent[t].phase \in {"receipt_pending", "receipt_durable"} => Audited(t)

ReceiptInv(t) ==
    /\ intent[t] = None
    /\ sback[t] = receipt[t].plan.orig
    /\ Audited(t)
    /\ dirs[t].output = None \/ Passed(t, dirs[t].output)
    /\ conversions = 0 => Settled(t, receipt[t])

TaskInv(t) ==
    /\ intent[t] # None => IntentInv(t)
    /\ receipt[t] # None => ReceiptInv(t)

(* The entry of a task stays reconciled from the installation on.          *)
Reconciled ==
    conversions = 0 => \A t \in Task :
        (intent[t] # None /\ intent[t].phase \in Late) \/ receipt[t] # None =>
            latest[t] = "recovered"

(* The first two parts of NothingRemoved.                                  *)
TreesKept ==
    \A t \in Task : \A tree \in {"built", "kept"} :
        scene[t][tree] # "none" => \E n \in Name : Places(t, tree) = {n}

MarkersKept ==
    \A t \in Task : \A k \in Kind :
        LeftMarks(scene[t])[k] = "source" => marks[t][k] # "absent"

RecInv == (\A t \in Task : TaskInv(t)) /\ Reconciled /\ TreesKept /\ MarkersKept

(* A task none of whose files and marks changes keeps its invariant.       *)
LEMMA TaskUntouched ==
    ASSUME NEW t \in Task, TaskInv(t), scene' = scene,
           dirs'[t] = dirs[t], marks'[t] = marks[t], sback'[t] = sback[t],
           intent'[t] = intent[t], receipt'[t] = receipt[t],
           conversions' = 0 => conversions = 0
    PROVE  TaskInv(t)'
BY DEF TaskInv, IntentInv, ReceiptInv, Settled, Audited, Quarantined, Passed,
   Validation

LEMMA RecInit == Init => RecInv
<1> SUFFICES ASSUME Init PROVE RecInv
  OBVIOUS
<1>1. scene \in [Task -> AnyScene] /\ dirs = [t \in Task |-> Left(scene[t])]
      /\ marks = [t \in Task |-> LeftMarks(scene[t])]
  BY SceneAssumption DEF Init
<1>2. (\A t \in Task : TaskInv(t)) /\ Reconciled
  BY DEF Init, TaskInv, Reconciled
<1>3. ASSUME NEW t \in Task, NEW tree \in {"built", "kept"}, scene[t][tree] # "none"
      PROVE  \E n \in Name : Places(t, tree) = {n}
  <2>1. dirs[t] = Left(scene[t]) /\ None \notin {"built", "kept"}
    BY <1>1, NoneAssumption DEF Tree
  <2>2. CASE tree = "built"
    <3>1. Places(t, tree) = {"output"}
      BY <1>3, <2>1, <2>2 DEF Places, Left, Name
    <3> QED
      BY <3>1 DEF Name
  <2>3. CASE tree = "kept"
    <3>1. Places(t, tree) = {"archive"}
      BY <1>3, <2>1, <2>3 DEF Places, Left, Name
    <3> QED
      BY <3>1 DEF Name
  <2> QED
    BY <2>2, <2>3
<1>4. MarkersKept
  BY <1>1 DEF MarkersKept
<1> QED
  BY <1>2, <1>3, <1>4 DEF RecInv, TreesKept

(* A rename takes one tree from one name to another.                       *)
LEMMA TreesMoved ==
    ASSUME TypeInv, TreesKept, NEW t \in Task, NEW from \in Name, NEW to \in Name,
           NEW tree, MoveDir(t, from, to, tree), from # to
    PROVE  TreesKept'
<1>1. /\ scene' = scene /\ dirs[t][to] = None
      /\ \A u \in Task \ {t} : dirs'[u] = dirs[u]
      /\ dirs'[t][from] = None /\ dirs'[t][to] = dirs[t][from]
      /\ \A n \in Name \ {from, to} : dirs'[t][n] = dirs[t][n]
  BY DEF MoveDir, Rename, TypeInv, TypeOK
<1> SUFFICES ASSUME NEW u \in Task, NEW x \in {"built", "kept"},
                    scene[u][x] # "none"
             PROVE  \E n \in Name : Places(u, x)' = {n}
  BY <1>1 DEF TreesKept
<1>2. PICK n \in Name : Places(u, x) = {n}
  BY DEF TreesKept
<1>3. CASE u # t
  BY <1>1, <1>2, <1>3 DEF Places
<1>4. CASE u = t
  <2>1. x # None
    BY NoneAssumption DEF Tree
  <2>2. \A m \in Name : dirs[t][m] = x <=> m = n
    BY <1>2, <1>4 DEF Places
  <2>3. \A m \in Name : dirs'[t][m] = x <=> m = (IF n = from THEN to ELSE n)
    BY <1>1, <2>1, <2>2
  <2>4. Places(u, x)' = {IF n = from THEN to ELSE n}
    BY <1>4, <2>3 DEF Places
  <2> QED
    BY <2>4
<1> QED
  BY <1>3, <1>4

(* A rewrite of the intent, which leaves all else alone.                   *)
LEMMA TaskAdvanced ==
    ASSUME TypeInv, NEW t \in Task, TaskInv(t), intent[t] # None,
           NEW p \in Phase, p # "output_quarantine_pending",
           NEW new \in Intent, new.phase = p, intent'[t] = new,
           new.mode = intent[t].mode, new.out = intent[t].out,
           new.arc = intent[t].arc, new.marked = intent[t].marked,
           UNCHANGED <<scene, dirs, marks, receipt, conversions>>,
           p = "archive_restore_pending" =>
               intent[t].mode = "rollback" /\ Quarantined(t),
           p = "candidate_verify_pending" =>
               intent[t].mode # "quarantine-restart" /\ Quarantined(t),
           p \notin Before => Settled(t, intent[t]),
           p \in {"receipt_pending", "receipt_durable"} => Audited(t)
    PROVE  TaskInv(t)'
<1>1. new # None
  BY NoneAssumption
<1>2. receipt'[t] = None
  BY DEF TaskInv, IntentInv
<1>3. p \notin Before => Settled(t, intent[t])'
  <2>1. Settled(t, intent[t])' <=> Settled(t, intent[t])
    BY DEF Settled, Passed, Validation
  <2> QED
    BY <2>1
<1>4. /\ Quarantined(t)' <=> Quarantined(t)
      /\ Audited(t)' <=> Audited(t)
  BY DEF Quarantined, Audited
<1> QED
  BY <1>1, <1>2, <1>3, <1>4 DEF TaskInv, IntentInv

LEMMA AdvancedRest ==
    ASSUME TypeOK, NEW t \in Task, intent[t] # None, NEW p \in Phase, Advance(t, p)
    PROVE  /\ intent'[t] \in Intent /\ intent'[t].phase = p
           /\ intent'[t].mode = intent[t].mode /\ intent'[t].out = intent[t].out
           /\ intent'[t].arc = intent[t].arc
           /\ intent'[t].marked = intent[t].marked
<1>1. intent[t] \in Intent
  BY DEF TypeOK
<1>2. intent'[t] = [intent[t] EXCEPT !.phase = p]
  BY DEF Advance, TypeOK
<1> QED
  BY <1>1, <1>2 DEF Intent

(* The step of a recovery, as its own task sees it.                        *)
LEMMA TaskStep ==
    ASSUME TypeInv, NEW t \in Task, TaskInv(t), Step(t)
    PROVE  TaskInv(t)'
<1>1. active = t /\ intent[t] # None /\ intent[t] \in Intent
  BY StepIsActive, NoneAssumption DEF TypeInv, ActiveHasIntent, TypeOK
<1>2. IntentInv(t) /\ receipt[t] = None
  BY <1>1 DEF TaskInv, IntentInv
<1>3. ASSUME NEW p \in Phase, Advance(t, p), PhaseOnly,
             p # "output_quarantine_pending",
             p = "archive_restore_pending" =>
                 intent[t].mode = "rollback" /\ Quarantined(t),
             p = "candidate_verify_pending" =>
                 intent[t].mode # "quarantine-restart" /\ Quarantined(t),
             p \notin Before => Settled(t, intent[t]),
             p \in {"receipt_pending", "receipt_durable"} => Audited(t)
      PROVE  TaskInv(t)'
  <2>1. UNCHANGED <<scene, dirs, marks, receipt, conversions>>
    BY <1>3 DEF PhaseOnly, bounds
  <2> QED
    BY <1>1, <1>3, <2>1, AdvancedRest, TaskAdvanced DEF TypeInv
<1>4. ASSUME UNCHANGED <<scene, dirs, marks, intent, receipt>> PROVE TaskInv(t)'
  BY <1>1, <1>2, <1>4 DEF TaskInv, IntentInv, Settled, Audited, Quarantined,
     Passed, Validation
<1>5. CASE QuarantineOutput(t)
  <2>1. /\ intent[t].phase = "output_quarantine_pending"
        /\ UNCHANGED <<scene, marks, intent, receipt>>
    BY <1>5 DEF QuarantineOutput, In, MoveDir
  <2> QED
    BY <1>1, <1>2, <2>1 DEF TaskInv, IntentInv, Before
<1>6. CASE OutputQuarantined(t)
  <2>1. /\ intent[t].phase = "output_quarantine_pending"
        /\ dirs[t].output = None /\ dirs[t].quarantine = intent[t].out
        /\ intent[t].mode \in Quarantines
    BY <1>2, <1>6 DEF OutputQuarantined, In, Moved, IntentInv
  <2>2. intent[t].mode # "rollback" => intent[t].mode = "quarantine-restart"
    BY <2>1 DEF Quarantines
  <2>3. intent[t].mode # "rollback" => Settled(t, intent[t])
    BY <2>1, <2>2 DEF Settled
  <2>4. Quarantined(t)
    BY <2>1 DEF Quarantined
  <2> QED
    BY <1>3, <1>6, <2>3, <2>4 DEF OutputQuarantined, Phase, Before
<1>7. CASE RestoreArchive(t)
  <2>1. /\ intent[t].phase = "archive_restore_pending"
        /\ UNCHANGED <<scene, marks, intent, receipt>>
        /\ dirs'[t].quarantine = dirs[t].quarantine
    BY <1>7 DEF RestoreArchive, In, MoveDir, Rename, TypeInv, TypeOK, Name
  <2> QED
    BY <1>1, <1>2, <2>1 DEF TaskInv, IntentInv, Before, Quarantined
<1>8. CASE ArchiveRestored(t)
  <2>1. intent[t].mode = "rollback" /\ Quarantined(t)
    BY <1>2, <1>8 DEF ArchiveRestored, In, IntentInv
  <2> QED
    BY <1>3, <1>8, <2>1 DEF ArchiveRestored, Phase, Before
<1>9. CASE VerifyCandidate(t)
  <2>1. /\ dirs[t].output = Candidate(t) /\ Passed(t, dirs[t].output)
        /\ intent[t].mode # "quarantine-restart" /\ Quarantined(t)
    BY <1>2, <1>9 DEF VerifyCandidate, In, IntentInv
  <2>2. Settled(t, intent[t])
    BY <2>1 DEF Settled, Candidate, Quarantined, Quarantines
  <2> QED
    BY <1>3, <1>9, <2>2 DEF VerifyCandidate, Phase
<1>10. CASE WriteReplacement(t)
  BY <1>4, <1>10 DEF WriteReplacement
<1>11. CASE PlanState(t)
  <2>1. /\ intent[t].phase = "state_replacement_pending"
        /\ In(t, "state_replacement_pending")
    BY <1>11 DEF PlanState, In
  <2> DEFINE new == [[intent[t] EXCEPT !.plan = [orig |-> canon, repl |-> srepl[t]]]
                         EXCEPT !.phase = "state_backup_pending"]
  <2>2. intent'[t] = new
    BY <1>11 DEF PlanState, TypeInv, TypeOK
  <2>3. intent'[t] # None /\ intent' \in [Task -> Intent \cup {None}]
    BY <1>1, <1>11, <2>1, PlanWritten DEF TypeInv
  <2>4. /\ new.phase = "state_backup_pending" /\ new.mode = intent[t].mode
        /\ new.out = intent[t].out /\ new.arc = intent[t].arc
        /\ new.marked = intent[t].marked
    BY <1>1 DEF Intent
  <2>5. new \in Intent
    BY <2>2, <2>3
  <2>6. UNCHANGED <<scene, dirs, marks, receipt, conversions>>
    BY <1>11 DEF PlanState, PhaseOnly, bounds
  <2>7. Settled(t, intent[t])
    BY <1>2, <2>1 DEF IntentInv, Before
  <2> HIDE DEF new
  <2> QED
    BY <1>1, <2>2, <2>4, <2>5, <2>6, <2>7, TaskAdvanced DEF Phase
<1>12. CASE BackUpState(t)
  BY <1>4, <1>12 DEF BackUpState
<1>13. CASE StateBackedUp(t)
  <2>1. Settled(t, intent[t])
    BY <1>2, <1>13 DEF StateBackedUp, In, IntentInv, Before
  <2> QED
    BY <1>3, <1>13, <2>1 DEF StateBackedUp, Phase
<1>14. CASE InstallState(t)
  BY <1>4, <1>14 DEF InstallState
<1>15. CASE StateInstalled(t)
  <2>1. Settled(t, intent[t])
    BY <1>2, <1>15 DEF StateInstalled, In, IntentInv, Before
  <2> QED
    BY <1>3, <1>15, <2>1 DEF StateInstalled, Phase
<1>16. ASSUME NEW k \in Kind, AuditMarker(t, k) PROVE TaskInv(t)'
  <2>1. /\ intent[t].phase = "marker_audit_pending"
        /\ UNCHANGED <<scene, dirs, intent, receipt>>
        /\ \A j \in Kind : marks'[t][j] = "source" => marks[t][j] = "source"
    BY <1>16 DEF AuditMarker, In, TypeInv, TypeOK
  <2>2. Settled(t, intent[t])'
    BY <1>2, <2>1 DEF IntentInv, Before, Settled, Passed, Validation
  <2> QED
    BY <1>1, <1>2, <2>1, <2>2 DEF TaskInv, IntentInv
<1>17. CASE MarkersAudited(t)
  <2>1. Settled(t, intent[t])
    BY <1>2, <1>17 DEF MarkersAudited, In, IntentInv, Before
  <2>2. Audited(t)
    BY <1>2, <1>17 DEF MarkersAudited, IntentInv, Audited
  <2> QED
    BY <1>3, <1>17, <2>1, <2>2 DEF MarkersAudited, Phase
<1>18. CASE CompleteIntent(t)
  <2>1. Settled(t, intent[t]) /\ Audited(t)
    BY <1>2, <1>18 DEF CompleteIntent, In, IntentInv, Before
  <2> QED
    BY <1>3, <1>18, <2>1 DEF CompleteIntent, Phase
<1>19. CASE PublishReceipt(t)
  <2>1. /\ intent[t].phase = "receipt_durable" /\ StateStands(t)
        /\ intent'[t] = None /\ receipt'[t] = intent[t]
        /\ UNCHANGED <<scene, dirs, marks, sback, conversions>>
    BY <1>1, <1>19 DEF PublishReceipt, In, Stands, state, bounds, TypeInv, TypeOK
  <2>2. intent[t].plan # None
    BY <1>1, <2>1 DEF TypeInv, Planned, Unplanned
  <2>3. sback[t] = intent[t].plan.orig
    BY <2>1, <2>2 DEF StateStands, Late
  <2>4. Settled(t, intent[t]) /\ Audited(t)
    BY <1>2, <2>1 DEF IntentInv, Before
  <2>5. dirs[t].output = None \/ Passed(t, dirs[t].output)
    BY <2>4 DEF Settled
  <2>6. Settled(t, receipt[t])'
    BY <2>1, <2>4 DEF Settled, Passed, Validation
  <2>7. ReceiptInv(t)'
    BY <2>1, <2>3, <2>4, <2>5, <2>6 DEF ReceiptInv, Audited, Passed, Validation
  <2> QED
    BY <2>1, <2>7 DEF TaskInv
<1> QED
  BY <1>5, <1>6, <1>7, <1>8, <1>9, <1>10, <1>11, <1>12, <1>13, <1>14, <1>15,
     <1>16, <1>17, <1>18, <1>19 DEF Step

(* A recovery touches its own task only.                                   *)
LEMMA StepElsewhere ==
    ASSUME TypeInv, NEW t \in Task, Step(t), NEW u \in Task \ {t}
    PROVE  /\ scene' = scene /\ conversions' = conversions
           /\ dirs'[u] = dirs[u] /\ marks'[u] = marks[u] /\ sback'[u] = sback[u]
           /\ intent'[u] = intent[u] /\ receipt'[u] = receipt[u]
<1> USE DEF state, bounds, TypeInv, TypeOK
<1>1. CASE QuarantineOutput(t)
  BY <1>1 DEF QuarantineOutput, MoveDir, Rename
<1>2. CASE OutputQuarantined(t)
  BY <1>2 DEF OutputQuarantined, PhaseOnly, Advance
<1>3. CASE RestoreArchive(t)
  BY <1>3 DEF RestoreArchive, MoveDir, Rename
<1>4. CASE ArchiveRestored(t)
  BY <1>4 DEF ArchiveRestored, PhaseOnly, Advance
<1>5. CASE VerifyCandidate(t)
  BY <1>5 DEF VerifyCandidate, PhaseOnly, Advance
<1>6. CASE WriteReplacement(t)
  BY <1>6 DEF WriteReplacement
<1>7. CASE PlanState(t)
  BY <1>7 DEF PlanState, PhaseOnly
<1>8. CASE BackUpState(t)
  BY <1>8 DEF BackUpState
<1>9. CASE StateBackedUp(t)
  BY <1>9 DEF StateBackedUp, PhaseOnly, Advance
<1>10. CASE InstallState(t)
  BY <1>10 DEF InstallState
<1>11. CASE StateInstalled(t)
  BY <1>11 DEF StateInstalled, PhaseOnly, Advance
<1>12. ASSUME NEW k \in Kind, AuditMarker(t, k)
       PROVE  /\ scene' = scene /\ conversions' = conversions
              /\ dirs'[u] = dirs[u] /\ marks'[u] = marks[u] /\ sback'[u] = sback[u]
              /\ intent'[u] = intent[u] /\ receipt'[u] = receipt[u]
  BY <1>12 DEF AuditMarker
<1>13. CASE MarkersAudited(t)
  BY <1>13 DEF MarkersAudited, PhaseOnly, Advance
<1>14. CASE CompleteIntent(t)
  BY <1>14 DEF CompleteIntent, PhaseOnly, Advance
<1>15. CASE PublishReceipt(t)
  BY <1>15 DEF PublishReceipt
<1> QED
  BY <1>1, <1>2, <1>3, <1>4, <1>5, <1>6, <1>7, <1>8, <1>9, <1>10, <1>11, <1>12,
     <1>13, <1>14, <1>15 DEF Step

(* No mode has its preconditions where a receipt was published.            *)
LEMMA ReceiptEndsIt ==
    ASSUME NEW t \in Task, NEW mode \in Mode, TaskInv(t), Create(t, mode)
    PROVE  receipt[t] = None
<1>1. Preconditions(t, mode)
  BY DEF Create
<1> SUFFICES ASSUME ReceiptInv(t) PROVE FALSE
  BY DEF TaskInv
<1>2. ~ At(t, "rebuild") /\ ~ At(t, "finalization")
  BY DEF ReceiptInv, Audited, At, Kind
<1>3. CASE mode = "quarantine-restart"
  <2>1. dirs[t].output # None /\ Validation(t, dirs[t].output) = "failed"
    BY <1>1, <1>3 DEF Preconditions
  <2> QED
    BY <2>1 DEF ReceiptInv, Passed
<1>4. CASE mode # "quarantine-restart"
  BY <1>1, <1>2, <1>4 DEF Preconditions, Mode
<1> QED
  BY <1>3, <1>4

LEMMA TasksStep ==
    ASSUME TypeInv, \A t \in Task : TaskInv(t), Next
    PROVE  \A t \in Task : TaskInv(t)'
<1>1. ASSUME NEW t \in Task, NEW mode \in Mode, Create(t, mode), NEW u \in Task
      PROVE  TaskInv(u)'
  <2>1. /\ UNCHANGED <<scene, dirs, marks, receipt, conversions>>
        /\ intent'[t] = NewIntent(t, mode)
        /\ \A v \in Task \ {t} : intent'[v] = intent[v] /\ sback'[v] = sback[v]
    BY <1>1 DEF Create, bounds, TypeInv, TypeOK
  <2>2. CASE u # t
    BY <2>1, <2>2, TaskUntouched
  <2>3. CASE u = t
    <3>1. receipt[t] = None
      BY <1>1, ReceiptEndsIt
    <3>2. \A k \in Kind : marks[t][k] = "source" => k \in NewIntent(t, mode).marked
      BY DEF NewIntent, At
    <3>3. /\ NewIntent(t, mode).mode = mode
          /\ NewIntent(t, mode).phase =
                 IF mode \in Quarantines THEN "output_quarantine_pending"
                 ELSE "candidate_verify_pending"
      BY DEF NewIntent
    <3>4. IntentInv(t)'
      BY <2>1, <3>1, <3>2, <3>3 DEF IntentInv, Quarantined, Quarantines, Before
    <3> QED
      BY <2>1, <2>3, <3>1, <3>4 DEF TaskInv
  <2> QED
    BY <2>2, <2>3
<1>2. ASSUME NEW t \in Task, Step(t), NEW u \in Task PROVE TaskInv(u)'
  <2>1. CASE u = t
    BY <1>2, <2>1, TaskStep
  <2>2. CASE u # t
    BY <1>2, <2>2, StepElsewhere, TaskUntouched
  <2> QED
    BY <2>1, <2>2
<1>3. ASSUME NEW t \in Task, Convert(t), NEW u \in Task PROVE TaskInv(u)'
  <2>1. /\ UNCHANGED <<scene, marks, sback, intent, receipt>>
        /\ conversions' # 0 /\ intent[t] = None
        /\ dirs'[t].output = IF dirs[t].output = None THEN "fresh"
                             ELSE dirs[t].output
        /\ \A v \in Task \ {t} : dirs'[v] = dirs[v]
    BY <1>3 DEF Convert, Blocked, TypeInv, TypeOK, Name
  <2>2. CASE u # t
    BY <2>1, <2>2, TaskUntouched
  <2>3. CASE u = t
    <3>1. receipt[t] # None => Passed(t, dirs[t].output)'
      BY <2>1, NoneAssumption DEF TaskInv, ReceiptInv, Passed, Validation, Tree
    <3> QED
      BY <2>1, <2>3, <3>1 DEF TaskInv, ReceiptInv, Audited
  <2> QED
    BY <2>2, <2>3
<1>4. ASSUME UNCHANGED <<scene, dirs, marks, sback, intent, receipt, conversions>>,
             NEW u \in Task
      PROVE  TaskInv(u)'
  BY <1>4, TaskUntouched
<1>5. ASSUME NEW t \in Task, NEW mode \in Mode, Resume(t, mode), NEW u \in Task
      PROVE  TaskInv(u)'
  BY <1>4, <1>5 DEF Resume, state, bounds
<1>6. ASSUME NEW t \in Task, Refuse(t), NEW u \in Task PROVE TaskInv(u)'
  BY <1>4, <1>6 DEF Refuse, state, bounds
<1>7. ASSUME Crash, NEW u \in Task PROVE TaskInv(u)'
  BY <1>4, <1>7 DEF Crash, state
<1> QED
  BY <1>1, <1>2, <1>3, <1>5, <1>6, <1>7 DEF Next, Recover

LEMMA TreesStep == ASSUME TypeInv, TreesKept, Next PROVE TreesKept'
<1>1. ASSUME UNCHANGED <<scene, dirs>> PROVE TreesKept'
  BY <1>1 DEF TreesKept, Places
<1>2. ASSUME NEW t \in Task, Step(t) PROVE TreesKept'
  <2>1. CASE QuarantineOutput(t)
    BY <2>1, TreesMoved DEF QuarantineOutput, Name
  <2>2. CASE RestoreArchive(t)
    BY <2>2, TreesMoved DEF RestoreArchive, Name
  <2>3. CASE ~ QuarantineOutput(t) /\ ~ RestoreArchive(t)
    <3>1. UNCHANGED <<scene, dirs>>
      BY <1>2, <2>3 DEF Step, OutputQuarantined, ArchiveRestored, VerifyCandidate,
         WriteReplacement, PlanState, BackUpState, StateBackedUp, InstallState,
         StateInstalled, AuditMarker, MarkersAudited, CompleteIntent,
         PublishReceipt, PhaseOnly
    <3> QED
      BY <1>1, <3>1
  <2> QED
    BY <2>1, <2>2, <2>3
<1>3. ASSUME NEW t \in Task, Convert(t) PROVE TreesKept'
  <2>1. /\ scene' = scene
        /\ dirs' = [dirs EXCEPT ![t].output = IF @ = None THEN "fresh" ELSE @]
    BY <1>3 DEF Convert
  <2>2. ASSUME NEW u \in Task, NEW x \in {"built", "kept"}
        PROVE  \A n \in Name : dirs'[u][n] = x <=> dirs[u][n] = x
    <3>1. x # None
      BY NoneAssumption DEF Tree
    <3> QED
      BY <2>1, <3>1 DEF TypeInv, TypeOK, Name
  <2>3. \A u \in Task : \A x \in {"built", "kept"} : Places(u, x)' = Places(u, x)
    BY <2>2 DEF Places
  <2> QED
    BY <2>1, <2>3 DEF TreesKept
<1> QED
  BY <1>1, <1>2, <1>3 DEF Next, Recover, Create, Resume, Refuse, Crash

LEMMA MarkersStep == ASSUME TypeInv, MarkersKept, Next PROVE MarkersKept'
<1>1. ASSUME UNCHANGED <<scene, marks>> PROVE MarkersKept'
  BY <1>1 DEF MarkersKept
<1>2. ASSUME NEW t \in Task, NEW k \in Kind, AuditMarker(t, k) PROVE MarkersKept'
  BY <1>2 DEF AuditMarker, MarkersKept, TypeInv, TypeOK
<1>3. ASSUME NEW t \in Task, Step(t), \A k \in Kind : ~ AuditMarker(t, k)
      PROVE  UNCHANGED <<scene, marks>>
  BY <1>3 DEF Step, QuarantineOutput, OutputQuarantined, RestoreArchive,
     ArchiveRestored, VerifyCandidate, WriteReplacement, PlanState, BackUpState,
     StateBackedUp, InstallState, StateInstalled, MarkersAudited, CompleteIntent,
     PublishReceipt, PhaseOnly, MoveDir
<1> QED
  BY <1>1, <1>2, <1>3 DEF Next, Recover, Create, Resume, Refuse, Convert, Crash

(* An entry is reconciled by the installation, and stays.                  *)
LEMMA ReconciledStep ==
    ASSUME TypeInv, EntryInv, Reconciled, Next PROVE Reconciled'
<1> SUFFICES ASSUME conversions' = 0, NEW u \in Task,
                    (intent'[u] # None /\ intent'[u].phase \in Late)
                        \/ receipt'[u] # None
             PROVE  latest'[u] = "recovered"
  BY DEF Reconciled
<1>1. conversions = 0 /\ SwapInv
  <2>1. conversions = 0
    <3>1. \A t \in Task : Step(t) => conversions' = conversions
      BY DEF Step, QuarantineOutput, OutputQuarantined, RestoreArchive,
         ArchiveRestored, VerifyCandidate, WriteReplacement, PlanState,
         BackUpState, StateBackedUp, InstallState, StateInstalled, AuditMarker,
         MarkersAudited, CompleteIntent, PublishReceipt, PhaseOnly, MoveDir, bounds
    <3>2. \A t \in Task : ~ Convert(t)
      BY DEF Convert, TypeInv, TypeOK
    <3> QED
      BY <3>1, <3>2 DEF Next, Recover, Create, Resume, Refuse, Crash, bounds
  <2> QED
    BY <2>1 DEF EntryInv
<1>2. latest'[u] = latest[u] \/ latest'[u] = "recovered"
  BY EntryStep DEF OwnEntry
<1>3. CASE (intent[u] # None /\ intent[u].phase \in Late) \/ receipt[u] # None
  BY <1>1, <1>2, <1>3 DEF Reconciled
<1>4. CASE ~ ((intent[u] # None /\ intent[u].phase \in Late) \/ receipt[u] # None)
  <2>1. StateInstalled(u)
    <3>1. ASSUME NEW t \in Task, NEW mode \in Mode, Create(t, mode) PROVE FALSE
      <4>1. receipt' = receipt /\ intent'[u] \in {intent[u], NewIntent(t, mode)}
        BY <3>1 DEF Create, TypeInv, TypeOK
      <4>2. NewIntent(t, mode).phase \notin Late
        BY <3>1, NewIntentTyped DEF TypeInv, Unplanned, Late
      <4> QED
        BY <1>4, <4>1, <4>2
    <3>2. ASSUME UNCHANGED <<intent, receipt>> PROVE FALSE
      BY <1>4, <3>2
    <3>3. ASSUME NEW t \in Task, Step(t), ~ StateInstalled(u) PROVE FALSE
      <4>1. t = u
        BY <1>4, <3>3, StepElsewhere
      <4>2. intent[u] # None /\ intent[u].phase \notin Late /\ receipt[u] = None
        BY <1>4, <3>3, <4>1, StepIsActive, NoneAssumption
        DEF TypeInv, ActiveHasIntent
      <4>3. ASSUME NEW p \in Phase, Advance(u, p), PhaseOnly PROVE p \in Late
        BY <4>2, <4>3, AdvancedRest DEF PhaseOnly, TypeInv
      <4>4. ~ PlanState(u)
        <5>1. ASSUME PlanState(u) PROVE FALSE
          <6>1. intent'[u].phase = "state_backup_pending" /\ receipt' = receipt
            BY <4>2, <5>1, PlanWritten DEF PlanState, PhaseOnly, TypeInv
          <6> QED
            BY <4>2, <6>1 DEF Late
        <5> QED
          BY <5>1
      <4>5. \/ UNCHANGED <<intent, receipt>>
            \/ OutputQuarantined(u) \/ ArchiveRestored(u) \/ VerifyCandidate(u)
            \/ StateBackedUp(u) \/ MarkersAudited(u) \/ CompleteIntent(u)
            \/ PublishReceipt(u)
        BY <3>3, <4>1, <4>4 DEF Step, QuarantineOutput, RestoreArchive, MoveDir,
           WriteReplacement, BackUpState, InstallState, AuditMarker
      <4>6. /\ ~ OutputQuarantined(u) /\ ~ ArchiveRestored(u)
            /\ ~ VerifyCandidate(u) /\ ~ StateBackedUp(u)
        BY <4>3 DEF OutputQuarantined, ArchiveRestored, VerifyCandidate,
           StateBackedUp, Phase, Late
      <4>7. ~ MarkersAudited(u) /\ ~ CompleteIntent(u) /\ ~ PublishReceipt(u)
        BY <4>2 DEF MarkersAudited, CompleteIntent, PublishReceipt, In, Late
      <4> QED
        BY <3>2, <4>5, <4>6, <4>7
    <3> QED
      BY <3>1, <3>2, <3>3 DEF Next, Recover, Resume, Refuse, Convert, Crash
  <2>2. /\ canon = intent[u].plan.repl /\ intent[u] # None /\ intent[u].plan # None
        /\ latest' = latest
    BY <2>1, NoneAssumption DEF StateInstalled, In, TypeInv, ActiveHasIntent,
       Planned, Unplanned, PhaseOnly, state
  <2>3. canon # None /\ intent[u].plan.orig \in File
    BY <2>2, PlanTyped
  <2>4. latest = intent[u].plan.repl.entries
    BY <1>1, <2>2, <2>3 DEF SwapInv
  <2>5. latest = [intent[u].plan.orig.entries EXCEPT ![u] = "recovered"]
    BY <2>2, <2>4 DEF EntryInv, PlanDerived
  <2>6. intent[u].plan.orig.entries \in [Task -> Entry]
    BY <2>3 DEF File
  <2> QED
    BY <2>2, <2>5, <2>6
<1> QED
  BY <1>3, <1>4

LEMMA RecStep == TypeInv /\ EntryInv /\ RecInv /\ [Next]_vars => RecInv'
<1> SUFFICES ASSUME TypeInv, EntryInv, RecInv, [Next]_vars PROVE RecInv'
  OBVIOUS
<1>1. CASE UNCHANGED vars
  <2>1. \A t \in Task : TaskInv(t)'
    BY <1>1, TaskUntouched DEF vars, state, bounds, RecInv
  <2> QED
    BY <1>1, <2>1 DEF vars, state, bounds, RecInv, Reconciled, TreesKept, Places,
       MarkersKept
<1>2. CASE Next
  BY <1>2, TasksStep, ReconciledStep, TreesStep, MarkersStep DEF RecInv
<1> QED
  BY <1>1, <1>2

LEMMA RecInvariant == Spec => [](TypeInv /\ RecInv)
<1>1. TypeInv /\ EntryInv /\ [Next]_vars => EntryInv'
  BY EntryStep
<1> QED
  BY <1>1, TypeInit, TypeStep, EntryInit, RecInit, RecStep, PTL DEF Spec

(* NothingRemoved: every tree and marker of an interrupted conversion, and *)
(* the state file a published recovery replaced, can still be found.       *)
THEOREM EvidenceIsKept == Spec => []NothingRemoved
<1>1. TypeInv /\ RecInv => NothingRemoved
  BY DEF RecInv, TreesKept, MarkersKept, NothingRemoved, TaskInv, ReceiptInv
<1> QED
  BY <1>1, RecInvariant, PTL

(* ReceiptTruthful: what a published receipt says of the candidate, of the *)
(* replaced output, of the markers and of the state entry is so.           *)
THEOREM ReceiptsAreTrue == Spec => []ReceiptTruthful
<1>1. TypeInv /\ RecInv => ReceiptTruthful
  BY DEF RecInv, Reconciled, ReceiptTruthful, TaskInv, ReceiptInv, Settled, Audited
<1> QED
  BY <1>1, RecInvariant, PTL
-----------------------------------------------------------------------------
(* ConverterControl.  Its bounds are two natural numbers, as are those of  *)
(* ConversionRecovery.                                                     *)
CONSTANT Request
VARIABLES tmp, req, job, cache, scan, errors, stops

Control == INSTANCE ConverterControl
    WITH MaxErrors <- MaxCrashes, MaxStops <- MaxConversions

(* One retry at a time between its read and its rename: it alone has the   *)
(* temporary file, which is whole once it is filled.                       *)
Alone == \A q, r \in Request :
    Control!Rewriting(q) /\ Control!Rewriting(r) => q = r
InHand == \A r \in Request : Control!Mid(r, "open") => req[r].on = "tmp"
Whole == \A r \in Request :
    Control!Mid(r, "filled") => tmp # Control!NoFile /\ ~tmp.part

(* What a retry is about to write is a state of every recording.           *)
Reads == \A r \in Request :
    req[r].pc \in {"read", "open"} => req[r].copy \in Control!State

(* What the one that rewrites is about to put in place has every outcome.  *)
Remembers == \A r \in Request, s \in Serial : file.says[s] = "done" =>
    /\ req[r].pc \in {"read", "open"} => req[r].copy[s] = "done"
    /\ Control!Mid(r, "filled") => tmp.says[s] = "done"

(* The inductive invariant: where no two retries overlapped, the one that  *)
(* rewrites has the temporary file for itself and the state file is whole; *)
(* where no outcome crossed it either, its copy is as good as the file.    *)
RetryInv ==
    /\ Control!TypeOK
    /\ Reads
    /\ ~overlap => Alone /\ InHand /\ Whole /\ ~file.part
    /\ ~overlap /\ ~crossed => Remembers

(* A retry request. *)
Req == [pc : {"new", "read", "open", "filled", "moved", "cleared", "ended"},
        on : {"none", "tmp", "file", "gone"},
        copy : Control!State \cup {Control!Empty}]

(* A progress snapshot that is there. *)
Shown == [fresh : BOOLEAN, shows : Control!State \cup {Control!Empty}]

LEMMA Typing ==
    Control!TypeOK =>
        /\ req \in [Request -> Req] /\ file \in Control!File
        /\ tmp \in Control!File \cup {Control!NoFile}
BY DEF Control!TypeOK, Req

(* A request between two of its steps. *)
LEMMA AtTyped ==
    ASSUME NEW pc \in {"new", "read", "open", "filled", "moved", "cleared",
                       "ended"}
    PROVE  Control!At(pc) \in Req /\ Control!At(pc).pc = pc
           /\ Control!At(pc).on = "none"
BY DEF Control!At, Req

(* The invariant, step by step. *)
LEMMA RetryInit == Control!Init => RetryInv
<1> SUFFICES ASSUME Control!Init PROVE RetryInv
  OBVIOUS
<1>1. file \in Control!File
  BY DEF Control!Init, Control!File, Control!State, Control!Said
<1>2. req \in [Request -> Req]
  BY AtTyped DEF Control!Init
<1>3. errors \in 0..MaxCrashes /\ stops \in 0..MaxConversions
  BY BoundsAssumption DEF Control!Init
<1>4. Control!TypeOK
  BY <1>1, <1>2, <1>3 DEF Control!Init, Control!TypeOK, Req
<1>5. \A r \in Request : req[r].pc = "new"
  BY AtTyped DEF Control!Init
<1> QED
  BY <1>1, <1>4, <1>5 DEF Control!Init, RetryInv, Reads, Alone, InHand, Whole,
     Remembers, Control!Mid, Control!Rewriting, Control!File

LEMMA ReadKeeps ==
    ASSUME RetryInv, NEW r \in Request, Control!Read(r)
    PROVE  RetryInv'
<1>1. req \in [Request -> Req] /\ file \in Control!File
  BY Typing DEF RetryInv
<1>2. CASE req' = [req EXCEPT ![r] = Control!At("ended")]
      /\ UNCHANGED <<file, tmp, job, cache, scan, overlap, crossed, errors,
                        stops>>
  <2>1. req' \in [Request -> Req] /\ req'[r] = Control!At("ended")
        /\ \A q \in Request \ {r} : req'[q] = req[q]
    BY <1>1, <1>2, AtTyped
  <2>2. Control!At("ended").pc = "ended"
    BY AtTyped
  <2>3. Control!TypeOK'
    BY <1>2, <2>1 DEF RetryInv, Control!TypeOK, Req
  <2> QED
    BY <1>2, <2>1, <2>2, <2>3 DEF RetryInv, Reads, Alone, InHand, Whole,
       Remembers, Control!Mid, Control!Rewriting
<1>3. CASE /\ Control!To(r, [Control!At("read") EXCEPT
                                !.copy = Control!Retryable(file.says)])
           /\ overlap' = (overlap \/ \E q \in Request : Control!Rewriting(q))
           /\ UNCHANGED <<file, tmp, job, cache, scan, crossed, errors, stops>>
  <2> DEFINE copy == Control!Retryable(file.says)
  <2>1. /\ copy \in Control!State
        /\ \A s \in Serial : file.says[s] = "done" => copy[s] = "done"
    BY <1>1 DEF Control!Retryable, Control!Failures, Control!File,
       Control!State, Control!Said
  <2> HIDE DEF copy
  <2>2. req'[r] = [Control!At("read") EXCEPT !.copy = copy]
        /\ \A q \in Request \ {r} : req'[q] = req[q]
    BY <1>1, <1>3 DEF Control!To, copy
  <2>3. req'[r] \in Req /\ req'[r].pc = "read" /\ req'[r].on = "none"
        /\ req'[r].copy = copy
    BY <2>1, <2>2 DEF Control!At, Req
  <2>4. req' \in [Request -> Req]
    BY <1>1, <1>3, <2>2, <2>3 DEF Control!To
  <2>5. Control!TypeOK'
    BY <1>3, <2>4 DEF RetryInv, Control!TypeOK, Req
  <2>6. ~overlap' => ~overlap /\ \A q \in Request : ~Control!Rewriting(q)
    BY <1>3 DEF RetryInv, Control!TypeOK
  <2>7. Reads'
    BY <2>1, <2>2, <2>3 DEF RetryInv, Reads
  <2>8. ASSUME ~overlap' PROVE \A q \in Request \ {r} : ~Control!Rewriting(q)'
    BY <2>2, <2>6, <2>8 DEF Control!Rewriting
  <2>9. ~overlap' => Alone'
    BY <2>8 DEF Alone
  <2>10. ~overlap' => (InHand /\ Whole)'
    BY <2>3, <2>8 DEF InHand, Whole, Control!Rewriting, Control!Mid
  <2>11. ~overlap' => ~file'.part
    BY <1>3, <2>6 DEF RetryInv
  <2>12. ~overlap' => Remembers'
    BY <1>3, <2>1, <2>3, <2>8 DEF Remembers, Control!Rewriting, Control!Mid
  <2> QED
    BY <2>5, <2>7, <2>9, <2>10, <2>11, <2>12 DEF RetryInv
<1> QED
  BY <1>2, <1>3 DEF Control!Read, Control!To, Control!progress, Control!bounds

LEMMA OpenKeeps ==
    ASSUME RetryInv, NEW r \in Request, Control!Open(r)
    PROVE  RetryInv'
<1>1. req \in [Request -> Req] /\ file \in Control!File
      /\ req[r].pc = "read" /\ req[r].copy \in Control!State
  BY Typing DEF RetryInv, Control!Open, Control!Mid, Reads
<1>2. req'[r] = [req[r] EXCEPT !.pc = "open", !.on = "tmp"]
      /\ \A q \in Request \ {r} : req'[q] = req[q]
  BY <1>1 DEF Control!Open, Control!To
<1>3. req'[r] \in Req /\ req'[r].pc = "open" /\ req'[r].on = "tmp"
      /\ req'[r].copy = req[r].copy
  BY <1>1, <1>2 DEF Req
<1>4. req' \in [Request -> Req]
  BY <1>1, <1>2, <1>3 DEF Control!Open, Control!To
<1>5. tmp' \in Control!File
  BY <1>1 DEF Control!Open, Control!File
<1>6. UNCHANGED <<file, job, cache, scan, overlap, crossed, errors, stops>>
  BY DEF Control!Open, Control!progress, Control!ghosts, Control!bounds
<1>7. Control!TypeOK'
  BY <1>4, <1>5, <1>6 DEF RetryInv, Control!TypeOK, Req
<1>8. Reads'
  BY <1>1, <1>2, <1>3 DEF RetryInv, Reads
<1>9. ~overlap => \A q \in Request \ {r} : ~Control!Rewriting(q)'
  BY <1>1, <1>2 DEF RetryInv, Alone, Control!Rewriting
<1>10. ~overlap => Alone' /\ InHand' /\ Whole'
  BY <1>3, <1>9 DEF Alone, InHand, Whole, Control!Rewriting, Control!Mid
<1>11. ~overlap /\ ~crossed => Remembers'
  <2>1. ~overlap /\ ~crossed => \A s \in Serial :
            file'.says[s] = "done" => req'[r].copy[s] = "done"
    BY <1>1, <1>3, <1>6 DEF RetryInv, Remembers
  <2> QED
    BY <1>3, <1>9, <2>1 DEF Remembers, Control!Rewriting, Control!Mid
<1> QED
  BY <1>6, <1>7, <1>8, <1>10, <1>11 DEF RetryInv

(* Filling touches the state file only where two retries overlapped.       *)
LEMMA FillKeeps ==
    ASSUME RetryInv, NEW r \in Request, Control!Fill(r)
    PROVE  RetryInv' /\ (~overlap => file' = file)
<1>1. req \in [Request -> Req] /\ file \in Control!File
      /\ tmp \in Control!File \cup {Control!NoFile}
      /\ req[r].pc = "open" /\ req[r].copy \in Control!State
  BY Typing DEF RetryInv, Control!Fill, Control!Mid, Reads
<1>2. req'[r] = Control!At("filled")
      /\ \A q \in Request \ {r} : req'[q] = req[q]
  BY <1>1 DEF Control!Fill, Control!To
<1>3. req'[r] \in Req /\ req'[r].pc = "filled" /\ req'[r].on = "none"
  BY <1>2, AtTyped
<1>4. req' \in [Request -> Req]
  BY <1>1, <1>2, <1>3 DEF Control!Fill, Control!To
<1>5. UNCHANGED <<job, cache, scan, overlap, crossed, errors, stops>>
  BY DEF Control!Fill, Control!progress, Control!ghosts, Control!bounds
<1>6. PICK part \in BOOLEAN :
        /\ ~overlap => (part <=> \E q \in Request \ {r} :
                            Control!Mid(q, "open") /\ req[q].on = req[r].on)
        /\ \/ /\ req[r].on = "tmp"
              /\ tmp' = [says |-> req[r].copy, part |-> part] /\ UNCHANGED file
           \/ /\ req[r].on = "file"
              /\ file' = [says |-> req[r].copy, part |-> part] /\ UNCHANGED tmp
           \/ req[r].on = "gone" /\ UNCHANGED <<file, tmp>>
  BY DEF Control!Fill
<1>7. file' \in Control!File /\ tmp' \in Control!File \cup {Control!NoFile}
  BY <1>1, <1>6 DEF Control!File
<1>8. Control!TypeOK'
  BY <1>4, <1>5, <1>7 DEF RetryInv, Control!TypeOK, Req
<1>9. Reads'
  BY <1>2, <1>3 DEF RetryInv, Reads
<1>10. ASSUME ~overlap
       PROVE  /\ \A q \in Request \ {r} : ~Control!Rewriting(q)
              /\ file' = file /\ tmp' = [says |-> req[r].copy, part |-> FALSE]
  <2>1. \A q \in Request \ {r} : ~Control!Rewriting(q)
    BY <1>1, <1>10 DEF RetryInv, Alone, Control!Rewriting
  <2>2. req[r].on = "tmp"
    BY <1>1, <1>10 DEF RetryInv, InHand, Control!Mid
  <2>3. part = FALSE
    BY <1>6, <1>10, <2>1 DEF Control!Mid, Control!Rewriting
  <2> QED
    BY <1>6, <2>1, <2>2, <2>3
<1>11. tmp' = [says |-> req[r].copy, part |-> FALSE]
       => tmp' # Control!NoFile /\ ~tmp'.part /\ tmp'.says = req[r].copy
  <2>1. DOMAIN [says |-> req[r].copy, part |-> FALSE] # DOMAIN Control!NoFile
    BY DEF Control!NoFile
  <2> QED
    BY <2>1
<1>12. ~overlap => (Alone /\ InHand /\ Whole /\ ~file.part)'
  BY <1>2, <1>3, <1>10, <1>11 DEF RetryInv, Alone, InHand, Whole,
     Control!Rewriting, Control!Mid
<1>13. ~overlap /\ ~crossed => Remembers'
  BY <1>1, <1>2, <1>3, <1>10, <1>11 DEF RetryInv, Remembers,
     Control!Rewriting, Control!Mid
<1> QED
  BY <1>5, <1>8, <1>9, <1>10, <1>12, <1>13 DEF RetryInv

(* A request that goes on or ends, and is not between read and rename.     *)
LEMMA LeavingKeeps ==
    ASSUME RetryInv, NEW r \in Request,
           NEW pc \in {"moved", "cleared", "ended"},
           Control!To(r, Control!At(pc)),
           UNCHANGED <<file, tmp, overlap, crossed>>,
           job' \in {"none", "queued", "running"},
           cache' \in Shown \cup {Control!NoCache},
           UNCHANGED <<scan, errors, stops>>
    PROVE  RetryInv'
<1>1. req \in [Request -> Req]
  BY Typing DEF RetryInv
<1>2. req'[r] = Control!At(pc) /\ \A q \in Request \ {r} : req'[q] = req[q]
  BY <1>1 DEF Control!To
<1>3. req'[r] \in Req /\ req'[r].pc = pc
  BY <1>2, AtTyped
<1>4. req' \in [Request -> Req]
  BY <1>1, <1>2, <1>3 DEF Control!To
<1>5. Control!TypeOK'
  BY <1>4 DEF RetryInv, Control!TypeOK, Req, Shown
<1> QED
  BY <1>2, <1>3, <1>5 DEF RetryInv, Reads, Alone, InHand, Whole, Remembers,
     Control!Mid, Control!Rewriting

(* What the renaming does to the requests that have a file open.           *)
LEMMA Carrying ==
    ASSUME req \in [Request -> Req], NEW r \in Request,
           req' = [Control!Carried EXCEPT ![r] = Control!At("moved")]
    PROVE  /\ req' \in [Request -> Req] /\ req'[r].pc = "moved"
           /\ \A q \in Request \ {r} :
                  req'[q].pc = req[q].pc /\ req'[q].copy = req[q].copy
<1> DEFINE on(q) == CASE req[q].on = "tmp" -> "file"
                      [] req[q].on = "file" -> "gone"
                      [] OTHER -> req[q].on
<1>1. \A q \in Request : on(q) \in {"none", "tmp", "file", "gone"}
  BY DEF Req
<1> HIDE DEF on
<1>2. \A q \in Request : [req[q] EXCEPT !.on = on(q)] \in Req
  BY <1>1 DEF Req
<1>3. \A q \in Request : [req[q] EXCEPT !.on = on(q)].pc = req[q].pc
                         /\ [req[q] EXCEPT !.on = on(q)].copy = req[q].copy
  BY DEF Req
<1>4. Control!Carried = [q \in Request |-> [req[q] EXCEPT !.on = on(q)]]
  BY DEF Control!Carried, on
<1>5. Control!Carried \in [Request -> Req]
  BY <1>2, <1>4
<1>6. req'[r] = Control!At("moved")
      /\ \A q \in Request \ {r} : req'[q] = Control!Carried[q]
  BY <1>5
<1>7. req' \in [Request -> Req]
  BY <1>5, AtTyped
<1> QED
  BY <1>3, <1>4, <1>6, <1>7, AtTyped

(* Renaming brings no outcome back, and a filled file.                     *)
LEMMA ReplaceKeeps ==
    ASSUME RetryInv, NEW r \in Request, Control!Replace(r)
    PROVE  /\ RetryInv'
           /\ ~overlap /\ ~crossed => \A s \in Serial :
                  file.says[s] = "done" => file'.says[s] = "done"
<1>1. req \in [Request -> Req]
      /\ tmp \in Control!File \cup {Control!NoFile} /\ req[r].pc = "filled"
  BY Typing DEF RetryInv, Control!Replace, Control!Mid
<1>2. UNCHANGED <<job, cache, scan, overlap, crossed, errors, stops>>
  BY DEF Control!Replace, Control!progress, Control!ghosts, Control!bounds
<1>3. CASE tmp = Control!NoFile
  <2>1. Control!To(r, Control!At("ended")) /\ UNCHANGED <<file, tmp>>
    BY <1>3 DEF Control!Replace
  <2>2. job' \in {"none", "queued", "running"}
        /\ cache' \in Shown \cup {Control!NoCache}
    BY <1>2 DEF RetryInv, Control!TypeOK, Shown
  <2> QED
    BY <1>2, <2>1, <2>2, LeavingKeeps
<1>4. CASE tmp # Control!NoFile
  <2>1. file' = tmp /\ tmp' = Control!NoFile
        /\ req' = [Control!Carried EXCEPT ![r] = Control!At("moved")]
    BY <1>4 DEF Control!Replace, Control!Renamed
  <2>2. /\ req' \in [Request -> Req] /\ req'[r].pc = "moved"
        /\ \A q \in Request \ {r} :
               req'[q].pc = req[q].pc /\ req'[q].copy = req[q].copy
    BY <1>1, <2>1, Carrying
  <2>3. Control!TypeOK'
    BY <1>1, <1>2, <1>4, <2>1, <2>2 DEF RetryInv, Control!TypeOK, Req
  <2>4. Reads'
    BY <2>2 DEF RetryInv, Reads
  <2>5. ~overlap => \A q \in Request : ~Control!Rewriting(q)'
    BY <1>1, <2>2 DEF RetryInv, Alone, Control!Rewriting
  <2>6. ~overlap => Alone' /\ InHand' /\ Whole' /\ Remembers'
    BY <2>5 DEF Alone, InHand, Whole, Remembers, Control!Rewriting, Control!Mid
  <2>7. ~overlap => ~file'.part
    BY <1>1, <2>1 DEF RetryInv, Whole, Control!Mid
  <2>8. ~overlap /\ ~crossed => \A s \in Serial :
            file.says[s] = "done" => file'.says[s] = "done"
    BY <1>1, <2>1 DEF RetryInv, Remembers, Control!Mid
  <2> QED
    BY <1>2, <2>3, <2>4, <2>6, <2>7, <2>8 DEF RetryInv
<1> QED
  BY <1>3, <1>4

(* The converter records an outcome; it is never one already recorded.     *)
LEMMA ConvertKeeps ==
    ASSUME RetryInv, NEW s \in Serial, Control!Convert(s)
    PROVE  /\ RetryInv'
           /\ \A u \in Serial : file.says[u] = "done" => file'.says[u] = "done"
<1>1. req \in [Request -> Req] /\ file \in Control!File /\ ~file.part
  BY Typing DEF RetryInv, Control!Convert
<1>2. PICK outcome \in {"done", "failed"} :
          file' = [file EXCEPT !.says[s] = outcome]
  BY DEF Control!Convert
<1>3. /\ file' \in Control!File /\ ~file'.part
      /\ \A u \in Serial \ {s} : file'.says[u] = file.says[u]
      /\ file.says[s] # "done"
  BY <1>1, <1>2 DEF Control!File, Control!State, Control!Said, Control!Convert
<1>4. UNCHANGED <<tmp, job, cache, scan, overlap, errors, stops>>
  BY DEF Control!Convert, Control!progress, Control!bounds
<1>5. crossed' = (crossed \/ \E r \in Request : Control!Rewriting(r))
  BY DEF Control!Convert
<1>6. \A r \in Request : /\ req'[r] \in Req
                         /\ req'[r].pc = req[r].pc
                         /\ req'[r].copy = req[r].copy
                         /\ req[r].on # "file" => req'[r] = req[r]
  BY <1>1 DEF Control!Convert, Req
<1>7. req' \in [Request -> Req]
  BY <1>6 DEF Control!Convert
<1>8. Control!TypeOK'
  BY <1>3, <1>4, <1>5, <1>7 DEF RetryInv, Control!TypeOK, Req
<1>9. Reads'
  BY <1>6 DEF RetryInv, Reads
<1>10. ~overlap => Alone' /\ InHand' /\ Whole'
  BY <1>4, <1>6 DEF RetryInv, Alone, InHand, Whole, Control!Rewriting,
     Control!Mid
<1>11. ~crossed' => Remembers'
  <2>1. ~crossed' => \A r \in Request : ~Control!Rewriting(r)'
    BY <1>5, <1>6 DEF Control!Rewriting
  <2> QED
    BY <2>1 DEF Remembers, Control!Rewriting, Control!Mid
<1> QED
  BY <1>3, <1>4, <1>8, <1>9, <1>10, <1>11 DEF RetryInv

(* A step that touches neither the two files nor the retries.              *)
LEMMA ElsewhereKeeps ==
    ASSUME RetryInv, Control!TypeOK',
           UNCHANGED <<file, tmp, req, overlap, crossed>>
    PROVE  RetryInv'
BY DEF RetryInv, Reads, Alone, InHand, Whole, Remembers, Control!Mid,
   Control!Rewriting

(* The jobs and the refresh of the snapshot leave both files alone.        *)
LEMMA ScansKeep ==
    ASSUME RetryInv, Control!Jobs \/ Control!Poll \/ Control!Install
        \/ Control!ScanFails \/ Control!Expire
    PROVE  RetryInv' /\ file' = file
<1>1. UNCHANGED <<file, tmp, req, overlap, crossed>>
  BY DEF Control!Jobs, Control!Poll, Control!Install, Control!ScanFails,
     Control!Expire, Control!ghosts
<1>2. Control!ReadState \in Control!State \cup {Control!Empty}
  BY Typing DEF RetryInv, Control!ReadState, Control!File
<1>3. ASSUME Control!Jobs PROVE Control!TypeOK'
  BY <1>1, <1>3 DEF Control!Jobs, Control!JobMoves, Control!progress,
     Control!ghosts, Control!bounds, RetryInv, Control!TypeOK
<1>4. ASSUME Control!Poll PROVE Control!TypeOK'
  BY <1>1, <1>2, <1>4 DEF Control!Poll, Control!ghosts, Control!bounds,
     RetryInv, Control!TypeOK
<1>5. ASSUME Control!Install PROVE Control!TypeOK'
  <2>1. scan \in [on : {TRUE}, read : Control!State \cup {Control!Empty}]
    <3>1. scan # Control!NoScan
      BY <1>5 DEF Control!Install, Control!NoScan
    <3> QED
      BY <3>1 DEF RetryInv, Control!TypeOK
  <2>2. cache' \in Shown /\ scan' = Control!NoScan
    BY <1>5, <2>1 DEF Control!Install, Shown
  <2> QED
    BY <1>1, <1>5, <2>2 DEF Control!Install, Control!ghosts, Control!bounds,
       RetryInv, Control!TypeOK, Shown
<1>6. ASSUME Control!ScanFails PROVE Control!TypeOK'
  <2>1. cache' \in Shown /\ scan' = Control!NoScan
    BY <1>6 DEF Control!ScanFails, RetryInv, Control!TypeOK, Shown
  <2>2. errors' \in 0..MaxCrashes /\ stops' = stops /\ job' = job
    BY <1>6, BoundsAssumption DEF Control!ScanFails, RetryInv, Control!TypeOK
  <2> QED
    BY <1>1, <2>1, <2>2 DEF RetryInv, Control!TypeOK, Shown
<1>7. ASSUME Control!Expire PROVE Control!TypeOK'
  <2>1. cache' \in Shown
    <3>1. cache # Control!NoCache
      BY <1>7 DEF Control!Expire, Control!NoCache
    <3>2. cache \in Shown
      BY <3>1 DEF RetryInv, Control!TypeOK, Shown
    <3> QED
      BY <1>7, <3>2 DEF Control!Expire, Shown
  <2> QED
    BY <1>1, <1>7, <2>1 DEF Control!Expire, Control!ghosts, Control!bounds,
       RetryInv, Control!TypeOK, Shown
<1> QED
  BY <1>1, <1>3, <1>4, <1>5, <1>6, <1>7, ElsewhereKeeps DEF RetryInv

LEMMA StopKeeps ==
    ASSUME RetryInv, Control!Stop
    PROVE  RetryInv' /\ file' = file
<1>1. req \in [Request -> Req]
  BY Typing DEF RetryInv
<1>2. \A r \in Request :
          req'[r] \in Req /\ (req'[r] = req[r] \/ req'[r].pc = "ended")
  BY <1>1, AtTyped DEF Control!Stop
<1>3. req' \in [Request -> Req]
  BY <1>2 DEF Control!Stop
<1>4. /\ UNCHANGED <<file, tmp, job, overlap, crossed, errors>>
      /\ cache' = Control!NoCache /\ scan' = Control!NoScan
      /\ stops' \in 0..MaxConversions
  BY BoundsAssumption DEF Control!Stop, Control!ghosts, RetryInv,
     Control!TypeOK
<1>5. Control!TypeOK'
  BY <1>3, <1>4 DEF RetryInv, Control!TypeOK, Req
<1> QED
  BY <1>2, <1>4, <1>5 DEF RetryInv, Reads, Alone, InHand, Whole, Remembers,
     Control!Mid, Control!Rewriting

(* What OutcomesKept says of one step. *)
OutcomesStay == \A s \in Serial : file.says[s] = "done" /\ ~overlap /\ ~crossed
                                   => file'.says[s] = "done"

LEMMA RetryStep ==
    ASSUME RetryInv, [Control!Next]_(Control!vars)
    PROVE  RetryInv' /\ OutcomesStay
<1>1. ASSUME NEW r \in Request, Control!Retry(r)
      PROVE RetryInv' /\ OutcomesStay
  <2>1. CASE Control!Read(r)
    BY <2>1, ReadKeeps DEF Control!Read, OutcomesStay
  <2>2. CASE Control!Open(r)
    BY <2>2, OpenKeeps DEF Control!Open, OutcomesStay
  <2>3. CASE Control!Fill(r)
    BY <2>3, FillKeeps DEF OutcomesStay
  <2>4. CASE Control!Replace(r)
    BY <2>4, ReplaceKeeps DEF OutcomesStay
  <2>5. CASE Control!ClearProgress(r)
    <3>1. /\ UNCHANGED <<file, tmp, job, scan, overlap, crossed, errors,
                        stops>>
          /\ cache' = Control!NoCache /\ Control!To(r, Control!At("cleared"))
      BY <2>5 DEF Control!ClearProgress, Control!ghosts, Control!bounds
    <3> QED
      BY <3>1, LeavingKeeps DEF RetryInv, Control!TypeOK, Shown, OutcomesStay
  <2>6. CASE Control!Enqueue(r)
    <3>1. /\ UNCHANGED <<file, tmp, cache, scan, overlap, crossed, errors,
                        stops>>
          /\ job' \in {"none", "queued", "running"}
          /\ Control!To(r, Control!At("ended"))
      BY <2>6 DEF Control!Enqueue, Control!progress, Control!ghosts,
         Control!bounds, RetryInv, Control!TypeOK
    <3> QED
      BY <3>1, LeavingKeeps DEF RetryInv, Control!TypeOK, Shown, OutcomesStay
  <2> QED
    BY <1>1, <2>1, <2>2, <2>3, <2>4, <2>5, <2>6 DEF Control!Retry
<1>2. ASSUME NEW s \in Serial, Control!Convert(s)
      PROVE RetryInv' /\ OutcomesStay
  BY <1>2, ConvertKeeps DEF OutcomesStay
<1>3. CASE Control!Jobs \/ Control!Poll \/ Control!Install
      \/ Control!ScanFails \/ Control!Expire
  BY <1>3, ScansKeep DEF OutcomesStay
<1>4. CASE Control!Stop
  BY <1>4, StopKeeps DEF OutcomesStay
<1>5. CASE UNCHANGED (Control!vars)
  BY <1>5, ElsewhereKeeps DEF Control!vars, Control!progress, Control!ghosts,
     Control!bounds, RetryInv, Control!TypeOK, OutcomesStay
<1> QED
  BY <1>1, <1>2, <1>3, <1>4, <1>5 DEF Control!Next

LEMMA RetryInvariant == Control!Spec => []RetryInv
BY RetryInit, RetryStep, PTL DEF Control!Spec

(* Type correctness of the files, the retries and the progress snapshot.   *)
THEOREM ControlTypeCorrect == Control!Spec => []Control!TypeOK
<1>1. RetryInv => Control!TypeOK
  BY DEF RetryInv
<1> QED
  BY <1>1, RetryInvariant, PTL

(* convert_state.json can be parsed at every moment, whatever is killed,   *)
(* unless two retries filled the one temporary file at once (_write_state).*)
THEOREM StateIsReadable == Control!Spec => []StateReadable
<1>1. RetryInv => StateReadable
  BY DEF RetryInv, StateReadable
<1> QED
  BY <1>1, RetryInvariant, PTL

(* No retry takes a recorded outcome back, unless it read the state before *)
(* the outcome was recorded (mark_failed_recordings_retryable), whatever   *)
(* is killed and however many retries there are, one after the other.      *)
THEOREM OutcomesAreKept == Control!Spec => OutcomesKept
<1>1. RetryInv /\ [Control!Next]_(Control!vars) => [OutcomesStay]_file
  BY RetryStep DEF OutcomesStay
<1>2. Control!Spec => [][OutcomesStay]_file
  BY <1>1, RetryInvariant, PTL DEF Control!Spec
<1> QED
  BY <1>2, PTL DEF OutcomesKept, OutcomesStay
=============================================================================
