-------------------------- MODULE JobQueueProofs --------------------------
(***************************************************************************)
(* Theorems about JobQueue for any number of jobs, clients, workers,       *)
(* crashes and failed statements.                                          *)
(***************************************************************************)
EXTENDS JobQueue, TLAPS

(* The table, the worker processes and the API requests keep their types.  *)
THEOREM TypeCorrect == Spec => []TypeOK
<1> USE JobAssumption, BoundsAssumption, WorkerAssumption, NullAssumption,
        ClientAssumption
<1>1. Init => TypeOK
  BY DEF Init, TypeOK, Status, Active, Terminal, PC, Desired
<1>2. TypeOK /\ [Next]_vars => TypeOK'
  <2> SUFFICES ASSUME TypeOK, [Next]_vars PROVE TypeOK'
    OBVIOUS
  <2> USE DEF TypeOK, Status, Active, Terminal, InHand, PC, Busy,
              table, workers, clients, history
  <2>1. ASSUME NEW c \in Client, NEW r \in Request, EnqueueCheck(c, r)
         PROVE  TypeOK'
    BY <2>1 DEF EnqueueCheck
  <2>2. ASSUME NEW c \in Client, NEW j \in Job, EnqueueInsert(c, j)
         PROVE  TypeOK'
    BY <2>2 DEF EnqueueInsert, EndCall
  <2>3. ASSUME NEW c \in Client, EnqueueViolation(c)
         PROVE  TypeOK'
    BY <2>3 DEF EnqueueViolation, EndCall
  <2>5. ASSUME NEW c \in Client, EnqueueFails(c)
         PROVE  TypeOK'
    BY <2>5 DEF EnqueueFails, EndCall
  <2>6. ASSUME NEW c \in Client, NEW j \in Job, CancelQueued(c, j)
         PROVE  TypeOK'
    BY <2>6 DEF CancelQueued
  <2>7. ASSUME NEW c \in Client, CancelRunning(c)
         PROVE  TypeOK'
    BY <2>7 DEF CancelRunning, EndCall
  <2>9. ASSUME NEW p \in Proc, Start(p)
         PROVE  TypeOK'
    <3>1. status' \in [Job -> Status] /\ owner' \in [Job -> WorkerId \cup {NoWorker}]
          /\ outcome' \in [Job -> SUBSET {"result", "error"}]
      BY <2>9 DEF Start
    <3>2. attempts' \in [Job -> Nat]
      BY <2>9 DEF Start, NextAttempt
    <3>3. Abandoned(p) \subseteq Job
      BY DEF Abandoned
    <3>4. usurped' \subseteq Job /\ orphaned' \subseteq Job /\ forgotten' \subseteq Job
      BY <2>9, <3>3 DEF Start
    <3>5. pc' \in [Proc -> PC]
          /\ \A q \in Proc : held'[q] = NoJob <=> pc'[q] \in {"down", "paused", "idle"}
      BY <2>9 DEF Start, Goto
    <3>6. UNCHANGED <<request, held, desired, clients, claims, crashes, dbFailures>>
      BY <2>9 DEF Start
    <3>7. QED
      BY <3>1, <3>2, <3>4, <3>5, <3>6
  <2>10. ASSUME NEW p \in Proc, StartPaused(p)
         PROVE  TypeOK'
    BY <2>10 DEF StartPaused, Goto
  <2>11. ASSUME NEW p \in Proc, NEW j \in Job, ClaimSelect(p, j)
         PROVE  TypeOK'
    BY <2>11 DEF ClaimSelect, Goto, Claimable
  <2>12. ASSUME NEW p \in Proc, ClaimUpdate(p)
         PROVE  TypeOK'
    <3>1. held[p] \in Job
      BY <2>12 DEF ClaimUpdate
    <3>2. claims' \in [Job -> Nat]
      <4>1. \A n \in Nat : n + 1 \in Nat
        OBVIOUS
      <4>2. claims[held[p]] \in Nat
        BY <3>1
      <4>3. QED
        BY <2>12, <3>1, <4>1, <4>2 DEF ClaimUpdate
    <3>3. QED
      BY <2>12, <3>1, <3>2 DEF ClaimUpdate, Goto
  <2>14. ASSUME NEW p \in Proc, ObserveCancel(p)
         PROVE  TypeOK'
    BY <2>14 DEF ObserveCancel, Goto
  <2>16. ASSUME NEW p \in Proc, FinishTick(p)
         PROVE  TypeOK'
    BY <2>16 DEF FinishTick, Goto, LetGo, Complete, Fail, CancelNormally, Finalise, Unless, OnlyRunning
  <2>17. ASSUME NEW p \in Proc, Crash(p)
         PROVE  TypeOK'
    <3>1. orphaned' \subseteq Job
      BY <2>17 DEF Crash
    <3>2. pc' \in [Proc -> PC] /\ held' \in [Proc -> Job \cup {NoJob}]
          /\ \A q \in Proc : held'[q] = NoJob <=> pc'[q] \in {"down", "paused", "idle"}
      BY <2>17 DEF Crash, Goto, LetGo
    <3>3. UNCHANGED <<table, desired, clients, claims, usurped, forgotten, dbFailures>>
          /\ crashes' = crashes + 1
      BY <2>17 DEF Crash
    <3>4. QED
      BY <3>1, <3>2, <3>3
  <2>18. ASSUME NEW p \in Proc, DbFailure(p)
         PROVE  TypeOK'
    <3>1. pc[p] \in Busy => held[p] \in Job
      OBVIOUS
    <3>2. forgotten' \subseteq Job
      BY <2>18, <3>1 DEF DbFailure
    <3>3. pc' \in [Proc -> PC] /\ held' \in [Proc -> Job \cup {NoJob}]
          /\ \A q \in Proc : held'[q] = NoJob <=> pc'[q] \in {"down", "paused", "idle"}
      BY <2>18 DEF DbFailure, Goto, LetGo
    <3>4. UNCHANGED <<table, desired, clients, claims, usurped, orphaned, crashes>>
          /\ dbFailures' = dbFailures + 1
      BY <2>18 DEF DbFailure
    <3>5. QED
      BY <3>2, <3>3, <3>4
  <2>19. ASSUME NEW w \in WorkerId, NEW d \in Desired, SetDesired(w, d)
         PROVE  TypeOK'
    BY <2>19 DEF SetDesired
  <2>20. CASE UNCHANGED vars
    BY <2>20 DEF vars, table, workers, clients, history
  <2>21. QED
    BY <2>1, <2>2, <2>3, <2>5, <2>6, <2>7, <2>9, <2>10, <2>11, <2>12, <2>14,
       <2>16, <2>17, <2>18, <2>19, <2>20 DEF Next, ClientNext, WorkerStep
<1>3. QED
  BY <1>1, <1>2, PTL DEF Spec

-----------------------------------------------------------------------------
(* An operator writes nothing but the desired state of a worker.           *)
LEMMA DesiredStep ==
    ASSUME NEW w \in WorkerId, NEW d \in Desired, SetDesired(w, d)
    PROVE  UNCHANGED <<table, pc, held, clients, history>>
  BY DEF SetDesired

(* Only six actions write the table; the others leave it as it is.         *)
LEMMA TableSteps ==
    ASSUME [Next]_vars
    PROVE  \/ UNCHANGED table
           \/ \E c \in Client, j \in Job : EnqueueInsert(c, j)
           \/ \E c \in Client, j \in Job : CancelQueued(c, j)
           \/ \E c \in Client : CancelRunning(c)
           \/ \E p \in Proc : Start(p)
           \/ \E p \in Proc : ClaimUpdate(p)
           \/ \E p \in Proc : FinishTick(p)
<1>1. ASSUME NEW c \in Client, ClientNext(c)
      PROVE  \/ UNCHANGED table
             \/ \E j \in Job : EnqueueInsert(c, j) \/ CancelQueued(c, j)
             \/ CancelRunning(c)
  BY <1>1 DEF ClientNext, EnqueueCheck, EnqueueViolation,
              EnqueueFails
<1>2. ASSUME NEW p \in Proc, WorkerStep(p)
      PROVE  UNCHANGED table \/ ClaimUpdate(p) \/ FinishTick(p)
  BY <1>2 DEF WorkerStep, ClaimSelect
<1>3. ASSUME NEW p \in Proc,
             StartPaused(p) \/ ObserveCancel(p) \/ Crash(p) \/ DbFailure(p)
      PROVE  UNCHANGED table
  BY <1>3 DEF StartPaused, ObserveCancel, Crash, DbFailure
<1>4. CASE UNCHANGED vars
  BY <1>4 DEF vars
<1>5. QED
  BY <1>1, <1>2, <1>3, <1>4, DesiredStep DEF Next

(* What a finishing worker does to the row of the job it worked on.        *)
LEMMA FinishRow ==
    ASSUME TypeOK, NEW p \in Proc, FinishTick(p)
    PROVE  LET j == held[p] IN
           /\ j \in Job
           /\ UNCHANGED <<request, owner, attempts>>
           /\ \A i \in Job \ {j} : status'[i] = status[i] /\ outcome'[i] = outcome[i]
           /\ status[j] \notin InHand =>
                  status'[j] = status[j] /\ outcome'[j] = outcome[j]
           /\ status[j] = "running" =>
                  \/ status'[j] = "complete" /\ outcome'[j] \in {outcome[j], outcome[j] \cup {"result"}}
                  \/ status'[j] = "failed" /\ outcome'[j] = outcome[j] \cup {"error"}
                  \/ /\ pc[p] = "stopping"
                     /\ status'[j] = "cancelled" /\ outcome'[j] = outcome[j] \cup {"error"}
           /\ status[j] = "cancel_requested" =>
                  /\ status'[j] = "cancelled"
                  /\ outcome'[j] \in {outcome[j], outcome[j] \cup {"error"}}
<1> DEFINE j == held[p]
<1>1. j \in Job
  BY NullAssumption DEF FinishTick, TypeOK, Busy
<1>2. status \in [Job -> Status] /\ outcome \in [Job -> SUBSET {"result", "error"}]
  BY DEF TypeOK
<1>3. \/ Complete(p, {"result"})
      \/ Complete(p, {})
      \/ Fail(p)
      \/ pc[p] = "stopping" /\ CancelNormally(p)
  BY DEF FinishTick, Returns, Busy
<1> USE DEF InHand
<1>4. CASE Complete(p, {"result"}) \/ Complete(p, {})
  BY <1>1, <1>2, <1>4 DEF Complete, Finalise, Unless, OnlyRunning
<1>5. CASE Fail(p)
  BY <1>1, <1>2, <1>5 DEF Fail, Finalise, Unless, OnlyRunning
<1>6. CASE pc[p] = "stopping" /\ CancelNormally(p)
  BY <1>1, <1>2, <1>6 DEF CancelNormally, Finalise
<1>7. QED
  BY <1>3, <1>4, <1>5, <1>6

-----------------------------------------------------------------------------
(* The inductive invariant of claiming: rows are filled, a row that waits  *)
(* has no owner, and a row locked by claim_next still waits and is locked  *)
(* by nobody else.                                                         *)
WaitingUnowned ==
    \A j \in Job : status[j] \in {"absent", "queued"} => owner[j] = NoWorker

ClaimInv == RowsFilled /\ WaitingUnowned /\ ClaimIsExclusive

LEMMA ClaimInvInit == Init => ClaimInv
  BY DEF Init, ClaimInv, RowsFilled, WaitingUnowned, ClaimIsExclusive

LEMMA RowsStep ==
    ASSUME TypeOK, ClaimInv, [Next]_vars
    PROVE  RowsFilled' /\ WaitingUnowned'
<1> USE DEF ClaimInv, RowsFilled, WaitingUnowned, table
<1>1. CASE UNCHANGED table
  BY <1>1
<1>2. ASSUME NEW c \in Client, NEW j \in Job, EnqueueInsert(c, j)
      PROVE  RowsFilled' /\ WaitingUnowned'
  BY <1>2 DEF EnqueueInsert, EndCall, TypeOK
<1>3. ASSUME NEW c \in Client, NEW j \in Job, CancelQueued(c, j)
      PROVE  RowsFilled' /\ WaitingUnowned'
  BY <1>3 DEF CancelQueued, TypeOK
<1>4. ASSUME NEW c \in Client, CancelRunning(c)
      PROVE  RowsFilled' /\ WaitingUnowned'
  BY <1>4 DEF CancelRunning, EndCall, TypeOK
<1>5. ASSUME NEW p \in Proc, Start(p)
      PROVE  RowsFilled' /\ WaitingUnowned'
  BY <1>5 DEF Start, Abandoned, TypeOK
<1>6. ASSUME NEW p \in Proc, ClaimUpdate(p)
      PROVE  RowsFilled' /\ WaitingUnowned'
  BY <1>6 DEF ClaimUpdate, ClaimIsExclusive, TypeOK
<1>7. ASSUME NEW p \in Proc, FinishTick(p)
      PROVE  RowsFilled' /\ WaitingUnowned'
  <2> DEFINE j == held[p]
  <2>1. \A i \in Job : status'[i] # status[i] =>
            i = j /\ status[i] \in InHand /\ status'[i] \in Terminal
    BY <1>7, FinishRow DEF InHand, Terminal
  <2>2. UNCHANGED <<request, owner>>
    BY <1>7, FinishRow
  <2>3. QED
    BY <2>1, <2>2 DEF InHand, Terminal
<1>8. QED
  BY <1>1, <1>2, <1>3, <1>4, <1>5, <1>6, <1>7, TableSteps

LEMMA ExclusiveStep ==
    ASSUME TypeOK, ClaimInv, [Next]_vars
    PROVE  ClaimIsExclusive'
<1> USE DEF ClaimInv, ClaimIsExclusive
<1>1. CASE UNCHANGED <<table, pc, held>>
  BY <1>1 DEF table
<1>2. ASSUME NEW c \in Client, NEW j \in Job, EnqueueInsert(c, j)
      PROVE  ClaimIsExclusive'
  BY <1>2 DEF EnqueueInsert, workers, TypeOK
<1>3. ASSUME NEW c \in Client, NEW j \in Job, CancelQueued(c, j)
      PROVE  ClaimIsExclusive'
  BY <1>3 DEF CancelQueued, RowLocked, workers, TypeOK
<1>4. ASSUME NEW c \in Client, CancelRunning(c)
      PROVE  ClaimIsExclusive'
  BY <1>4 DEF CancelRunning, EndCall, workers, TypeOK
<1>5. ASSUME NEW p \in Proc, Start(p)
      PROVE  ClaimIsExclusive'
  BY <1>5 DEF Start, Abandoned, Goto, TypeOK
<1>6. ASSUME NEW p \in Proc, NEW j \in Job, ClaimSelect(p, j)
      PROVE  ClaimIsExclusive'
  BY <1>6 DEF ClaimSelect, Claimable, RowLocked, Goto, WaitingUnowned, table, TypeOK
<1>7. ASSUME NEW p \in Proc, ClaimUpdate(p)
      PROVE  ClaimIsExclusive'
  BY <1>7 DEF ClaimUpdate, Goto, TypeOK
<1>8. ASSUME NEW p \in Proc, FinishTick(p)
      PROVE  ClaimIsExclusive'
  <2>1. \A i \in Job : status[i] = "queued" => status'[i] = "queued"
    BY <1>8, FinishRow DEF InHand
  <2>2. UNCHANGED owner
    BY <1>8, FinishRow
  <2>3. QED
    BY <1>8, <2>1, <2>2 DEF FinishTick, Goto, LetGo, TypeOK
<1>9. ASSUME NEW p \in Proc,
             \/ StartPaused(p) \/ ObserveCancel(p)
             \/ Crash(p) \/ DbFailure(p)
      PROVE  ClaimIsExclusive'
  <2>1. UNCHANGED <<status, owner>>
    BY <1>9 DEF StartPaused, ObserveCancel, Crash,
                DbFailure, table
  <2>2. \A q \in Proc : pc'[q] = "locked" => pc[q] = "locked" /\ held'[q] = held[q]
    BY <1>9 DEF StartPaused, ObserveCancel, Returns,
                Crash, DbFailure, Goto, LetGo, Busy, TypeOK
  <2>3. QED
    BY <2>1, <2>2
<1>10. QED
  <2>1. ASSUME NEW c \in Client, ClientNext(c)
        PROVE  ClaimIsExclusive'
    BY <2>1, <1>1, <1>2, <1>3, <1>4
       DEF ClientNext, EnqueueCheck, EnqueueViolation, EnqueueFails, workers
  <2>2. ASSUME NEW p \in Proc, WorkerStep(p)
        PROVE  ClaimIsExclusive'
    BY <2>2, <1>6, <1>7, <1>8, <1>9 DEF WorkerStep
  <2>3. CASE UNCHANGED vars
    BY <2>3, <1>1 DEF vars, workers
  <2>4. QED
    BY <2>1, <2>2, <2>3, <1>1, <1>5, <1>9, DesiredStep DEF Next

(* FOR UPDATE SKIP LOCKED protects the row between the two statements of   *)
(* claim_next, for any number of replicas and cancelling clients.          *)
THEOREM ClaimsAreExclusive == Spec => []ClaimIsExclusive
<1>1. TypeOK /\ ClaimInv /\ [Next]_vars => ClaimInv'
  BY RowsStep, ExclusiveStep DEF ClaimInv
<1>2. ClaimInv => ClaimIsExclusive
  BY DEF ClaimInv
<1>3. QED
  BY ClaimInvInit, TypeCorrect, <1>1, <1>2, PTL DEF Spec

LEMMA ClaimInvariant == Spec => [](TypeOK /\ ClaimInv)
<1>1. TypeOK /\ ClaimInv /\ [Next]_vars => ClaimInv'
  BY RowsStep, ExclusiveStep DEF ClaimInv
<1>2. QED
  BY ClaimInvInit, TypeCorrect, <1>1, PTL DEF Spec

-----------------------------------------------------------------------------
(* No step but an insert makes a row active; the insert checks for it.     *)
THEOREM DedupeKeysAreUnique == Spec => []OneActivePerKey
<1>1. Init => OneActivePerKey
  BY DEF Init, OneActivePerKey, Active
<1>2. TypeOK /\ ClaimInv /\ OneActivePerKey /\ [Next]_vars => OneActivePerKey'
  <2> SUFFICES ASSUME TypeOK, ClaimInv, OneActivePerKey, [Next]_vars
               PROVE  OneActivePerKey'
    OBVIOUS
  <2>1. ASSUME NEW c \in Client, NEW j \in Job, EnqueueInsert(c, j)
        PROVE  OneActivePerKey'
    <3>1. \A i \in Job \ {j} : status'[i] = status[i] /\ request'[i] = request[i]
      BY <2>1 DEF EnqueueInsert, TypeOK
    <3>2. request'[j] = wants[c] /\ Duplicates(wants[c]) = {}
      BY <2>1 DEF EnqueueInsert, TypeOK
    <3>3. QED
      BY <3>1, <3>2 DEF OneActivePerKey, Duplicates
  <2>2. ASSUME UNCHANGED request,
               \A j \in Job : status'[j] \in Active => status[j] \in Active
        PROVE  OneActivePerKey'
    BY <2>2 DEF OneActivePerKey
  <2>3. ASSUME NEW c \in Client, NEW j \in Job, CancelQueued(c, j)
        PROVE  OneActivePerKey'
    BY <2>2, <2>3 DEF CancelQueued, Active, TypeOK
  <2>4. ASSUME NEW c \in Client, CancelRunning(c)
        PROVE  OneActivePerKey'
    BY <2>2, <2>4 DEF CancelRunning, Active, TypeOK
  <2>5. ASSUME NEW p \in Proc, Start(p)
        PROVE  OneActivePerKey'
    BY <2>2, <2>5 DEF Start, Abandoned, Active, TypeOK
  <2>6. ASSUME NEW p \in Proc, ClaimUpdate(p)
        PROVE  OneActivePerKey'
    BY <2>2, <2>6 DEF ClaimUpdate, ClaimInv, ClaimIsExclusive, Active, TypeOK
  <2>7. ASSUME NEW p \in Proc, FinishTick(p)
        PROVE  OneActivePerKey'
    BY <2>2, <2>7, FinishRow DEF InHand, Active
  <2>8. CASE UNCHANGED table
    BY <2>2, <2>8 DEF table
  <2>9. QED
    BY <2>1, <2>3, <2>4, <2>5, <2>6, <2>7, <2>8, TableSteps
<1>3. QED
  BY <1>1, <1>2, ClaimInvariant, PTL DEF Spec

-----------------------------------------------------------------------------
(* For any number of processes per worker id, only a job that a starting   *)
(* process took from a live one is ever executed twice at once.            *)
THEOREM ExecutionIsSingle == Spec => []SingleExecution
<1>1. Init => SingleExecution
  BY DEF Init, SingleExecution, Busy
<1>2. TypeOK /\ ClaimInv /\ SingleExecution /\ [Next]_vars => SingleExecution'
  <2> SUFFICES ASSUME TypeOK, ClaimInv, SingleExecution, [Next]_vars
               PROVE  SingleExecution'
    OBVIOUS
  <2> USE DEF SingleExecution, Busy, InHand, Terminal
  <2>0. \A p \in Proc : pc[p] \in Busy => held[p] \in Job
    BY NullAssumption DEF TypeOK
  (* Nothing but its own end takes a job from its process. *)
  <2>1. ASSUME UNCHANGED <<pc, held, owner, usurped>>,
               \A j \in Job : status[j] \in InHand \cup Terminal =>
                              status'[j] \in InHand \cup Terminal
        PROVE  SingleExecution'
    BY <2>0, <2>1
  <2>2. ASSUME UNCHANGED <<status, owner, usurped>>,
               \A q \in Proc : pc'[q] \in Busy => pc[q] \in Busy /\ held'[q] = held[q]
        PROVE  SingleExecution'
    BY <2>2
  <2>3. ASSUME NEW c \in Client, ClientNext(c)
        PROVE  SingleExecution'
    <3>1. UNCHANGED <<pc, held, owner, usurped>>
      BY <2>3 DEF ClientNext, EnqueueCheck, EnqueueInsert, EnqueueViolation,
                  EnqueueFails, CancelQueued, CancelRunning, workers, table, history
    <3>2. ASSUME NEW i \in Job, status[i] \in InHand \cup Terminal
          PROVE  status'[i] \in InHand \cup Terminal
      <4>1. ASSUME NEW j \in Job, EnqueueInsert(c, j) \/ CancelQueued(c, j)
            PROVE  status'[i] \in InHand \cup Terminal
        BY <3>2, <4>1 DEF EnqueueInsert, CancelQueued, TypeOK
      <4>2. CASE CancelRunning(c)
        BY <3>2, <4>2 DEF CancelRunning, TypeOK
      <4>3. CASE UNCHANGED table
        BY <3>2, <4>3 DEF table
      <4>4. QED
        BY <2>3, <4>1, <4>2, <4>3
           DEF ClientNext, EnqueueCheck, EnqueueViolation,
               EnqueueFails
    <3>3. QED
      BY <2>1, <3>1, <3>2
  <2>4. ASSUME NEW p \in Proc, Start(p)
        PROVE  SingleExecution'
    <3>1. \A q \in Proc : pc'[q] \in Busy => pc[q] \in Busy /\ held'[q] = held[q] /\ q # p
      BY <2>4 DEF Start, Goto, TypeOK
    <3>2. \A q \in Proc : pc[q] \in Busy /\ held[q] \notin usurped' =>
             held[q] \notin Abandoned(p) /\ held[q] \notin usurped
      BY <2>0, <2>4 DEF Start, InWork
    <3>3. \A j \in Job \ Abandoned(p) : status'[j] = status[j] /\ owner'[j] = owner[j]
      BY <2>4 DEF Start
    <3>4. QED
      BY <2>0, <3>1, <3>2, <3>3 DEF SingleExecution
  <2>5. ASSUME NEW p \in Proc, ClaimUpdate(p)
        PROVE  SingleExecution'
    <3>1. held[p] \in Job /\ status[held[p]] = "queued" /\ UNCHANGED held
      BY <2>5, NullAssumption DEF ClaimUpdate, ClaimInv, ClaimIsExclusive, TypeOK
    <3>2. \A q \in Proc : pc[q] \in Busy /\ held[q] \notin usurped => held[q] # held[p]
      BY <3>1
    <3>3. \A q \in Proc : pc'[q] \in Busy => q = p \/ pc[q] \in Busy
      BY <2>5 DEF ClaimUpdate, Goto, TypeOK
    <3>4. /\ status'[held[p]] = "running" /\ owner'[held[p]] = Id[p]
          /\ \A j \in Job \ {held[p]} : status'[j] = status[j] /\ owner'[j] = owner[j]
      BY <2>5, <3>1 DEF ClaimUpdate, TypeOK
    <3>5. UNCHANGED usurped
      BY <2>5 DEF ClaimUpdate
    <3>6. ASSUME NEW q \in Proc, pc'[q] \in Busy, held'[q] \notin usurped'
          PROVE  /\ owner'[held'[q]] = Id[q]
                 /\ status'[held'[q]] \in InHand \cup Terminal
                 /\ \A o \in Proc : pc'[o] \in Busy /\ held'[o] = held'[q] => o = q
      <4>1. CASE q = p
        BY <2>0, <3>1, <3>2, <3>3, <3>4, <3>5, <3>6, <4>1
      <4>2. CASE q # p
        <5>1. pc[q] \in Busy /\ held[q] \notin usurped /\ held[q] \in Job
              /\ held[q] # held[p]
          BY <2>0, <3>1, <3>2, <3>3, <3>5, <3>6, <4>2
        <5>2. QED
          BY <3>1, <3>3, <3>4, <5>1
      <4>3. QED
        BY <4>1, <4>2
    <3>7. QED
      BY <3>6
  <2>6. ASSUME NEW p \in Proc, FinishTick(p)
        PROVE  SingleExecution'
    <3>1. UNCHANGED owner
      BY <2>6, FinishRow
    <3>2. \A j \in Job : status[j] \in InHand \cup Terminal =>
                            status'[j] \in InHand \cup Terminal
      BY <2>6, FinishRow
    <3>3. \A q \in Proc : pc'[q] \in Busy => pc[q] \in Busy /\ held'[q] = held[q]
      BY <2>6 DEF FinishTick, Goto, LetGo, TypeOK
    <3>4. UNCHANGED usurped
      BY <2>6 DEF FinishTick, history
    <3>5. QED
      BY <2>0, <3>1, <3>2, <3>3, <3>4
  <2>7. ASSUME NEW p \in Proc, NEW j \in Job, ClaimSelect(p, j)
        PROVE  SingleExecution'
    <3>1. UNCHANGED <<status, owner, usurped>>
      BY <2>7 DEF ClaimSelect, table, history
    <3>2. \A q \in Proc : pc'[q] \in Busy => pc[q] \in Busy /\ held'[q] = held[q]
      BY <2>7 DEF ClaimSelect, Goto, TypeOK
    <3>3. QED
      BY <2>2, <3>1, <3>2
  <2>8. ASSUME NEW p \in Proc,
               \/ StartPaused(p) \/ ObserveCancel(p)
               \/ Crash(p) \/ DbFailure(p)
        PROVE  SingleExecution'
    <3>1. UNCHANGED <<status, owner, usurped>>
      BY <2>8 DEF StartPaused, ObserveCancel, Crash, DbFailure, table, history
    <3>2. \A q \in Proc : pc'[q] \in Busy => pc[q] \in Busy /\ held'[q] = held[q]
      BY <2>8 DEF StartPaused, ObserveCancel, Returns,
                  Crash, DbFailure, Goto, LetGo, TypeOK
    <3>3. QED
      BY <2>2, <3>1, <3>2
  <2>9. CASE UNCHANGED vars
    BY <2>9, <2>1 DEF vars, table, workers, history
  <2>10. ASSUME NEW w \in WorkerId, NEW d \in Desired, SetDesired(w, d)
         PROVE  SingleExecution'
    BY <2>1, <2>10, DesiredStep DEF table, history
  <2>11. QED
    BY <2>3, <2>4, <2>5, <2>6, <2>7, <2>8, <2>9, <2>10 DEF Next, WorkerStep
<1>3. QED
  BY <1>1, <1>2, ClaimInvariant, PTL DEF Spec

(* The singleton assumption of requeue_abandoned: with one process per     *)
(* worker id a start never takes a job from a live process.                *)
NothingUsurped == usurped = {}

THEOREM SingletonsUsurpNothing ==
    ASSUME \A p, q \in Proc : Id[p] = Id[q] => p = q
    PROVE  Spec => []NothingUsurped
<1>1. Init => NothingUsurped
  BY DEF Init, NothingUsurped
<1>2. TypeOK /\ SingleExecution /\ NothingUsurped /\ [Next]_vars => NothingUsurped'
  <2> SUFFICES ASSUME TypeOK, SingleExecution, NothingUsurped, [Next]_vars
               PROVE  NothingUsurped'
    OBVIOUS
  <2> USE DEF NothingUsurped
  <2>1. ASSUME NEW p \in Proc, Start(p)
        PROVE  NothingUsurped'
    <3>1. ASSUME NEW j \in Abandoned(p), InWork(j)
          PROVE  FALSE
      <4>1. PICK q \in Proc : pc[q] \in Busy /\ held[q] = j
        BY <3>1 DEF InWork
      <4>2. owner[j] = Id[q] /\ owner[j] = Id[p]
        BY <4>1 DEF SingleExecution, Abandoned
      <4>3. pc[p] = "down" /\ pc[q] # "down"
        BY <2>1, <4>1 DEF Start, Busy
      <4>4. QED
        BY <4>2, <4>3
    <3>2. QED
      BY <2>1, <3>1 DEF Start
  <2>2. ASSUME NEW c \in Client, ClientNext(c)
        PROVE  UNCHANGED usurped
    BY <2>2 DEF ClientNext, EnqueueCheck, EnqueueInsert, EnqueueViolation,
                EnqueueFails, CancelQueued, CancelRunning, history
  <2>3. ASSUME NEW p \in Proc, WorkerStep(p)
        PROVE  UNCHANGED usurped
    BY <2>3 DEF WorkerStep, ClaimSelect, ClaimUpdate, FinishTick, history
  <2>4. ASSUME NEW p \in Proc,
               StartPaused(p) \/ ObserveCancel(p) \/ Crash(p) \/ DbFailure(p)
        PROVE  UNCHANGED usurped
    BY <2>4 DEF StartPaused, ObserveCancel, Crash, DbFailure, history
  <2>5. CASE UNCHANGED vars
    BY <2>5 DEF vars, history
  <2>6. QED
    BY <2>1, <2>2, <2>3, <2>4, <2>5, DesiredStep DEF Next, history
<1>3. QED
  BY <1>1, <1>2, TypeCorrect, ExecutionIsSingle, PTL DEF Spec

-----------------------------------------------------------------------------
(* Ended jobs, and jobs whose cancellation was promised.                   *)

LEMMA OutcomeStep ==
    ASSUME TypeOK, ClaimInv, OutcomeTruthful, [Next]_vars
    PROVE  OutcomeTruthful'
<1> USE DEF OutcomeTruthful
<1>1. ASSUME UNCHANGED outcome,
             \A j \in Job : status[j] \in {"failed", "complete", "cancelled"} =>
                            status'[j] = status[j],
             \A j \in Job : status'[j] = "failed" => status[j] = "failed"
      PROVE  OutcomeTruthful'
  BY <1>1
<1>2. ASSUME NEW c \in Client, NEW j \in Job, EnqueueInsert(c, j)
      PROVE  OutcomeTruthful'
  BY <1>1, <1>2 DEF EnqueueInsert, TypeOK
<1>3. ASSUME NEW c \in Client, NEW j \in Job, CancelQueued(c, j)
      PROVE  OutcomeTruthful'
  BY <1>1, <1>3 DEF CancelQueued, TypeOK
<1>4. ASSUME NEW c \in Client, CancelRunning(c)
      PROVE  OutcomeTruthful'
  BY <1>1, <1>4 DEF CancelRunning, TypeOK
<1>5. ASSUME NEW p \in Proc, Start(p)
      PROVE  OutcomeTruthful'
  BY <1>5 DEF Start, Abandoned, TypeOK
<1>6. ASSUME NEW p \in Proc, ClaimUpdate(p)
      PROVE  OutcomeTruthful'
  BY <1>1, <1>6 DEF ClaimUpdate, ClaimInv, ClaimIsExclusive, TypeOK
<1>7. ASSUME NEW p \in Proc, FinishTick(p)
      PROVE  OutcomeTruthful'
  <2> SUFFICES ASSUME NEW j \in Job
               PROVE  /\ "result" \in outcome'[j] => status'[j] = "complete"
                      /\ status'[j] = "failed" => "error" \in outcome'[j]
                      /\ "error" \in outcome'[j] => status'[j] \in {"failed", "cancelled"}
    OBVIOUS
  <2>1. CASE j # held[p] \/ status[j] \notin InHand
    BY <1>7, <2>1, FinishRow
  <2>2. CASE j = held[p] /\ status[j] = "running"
    BY <1>7, <2>2, FinishRow DEF TypeOK
  <2>3. CASE j = held[p] /\ status[j] = "cancel_requested"
    BY <1>7, <2>3, FinishRow DEF TypeOK
  <2>4. QED
    BY <2>1, <2>2, <2>3 DEF InHand
<1>8. CASE UNCHANGED table
  BY <1>8 DEF table
<1>9. QED
  BY <1>2, <1>3, <1>4, <1>5, <1>6, <1>7, <1>8, TableSteps

(* The result and error columns always agree with the status.              *)
THEOREM OutcomesAreTruthful == Spec => []OutcomeTruthful
<1>1. Init => OutcomeTruthful
  BY DEF Init, OutcomeTruthful
<1>2. QED
  BY <1>1, OutcomeStep, ClaimInvariant, PTL DEF Spec

(* No action ever writes the row of an ended job.                          *)
THEOREM TerminalJobsAreFrozen == Spec => TerminalFrozen
<1> DEFINE Frozen ==
       \A j \in Job : status[j] \in Terminal =>
          /\ status'[j] = status[j] /\ owner'[j] = owner[j]
          /\ attempts'[j] = attempts[j] /\ outcome'[j] = outcome[j]
<1>1. TypeOK /\ ClaimInv /\ [Next]_vars => Frozen
  <2> SUFFICES ASSUME TypeOK, ClaimInv, [Next]_vars PROVE Frozen
    OBVIOUS
  <2> USE DEF Terminal, TypeOK
  <2>1. ASSUME NEW c \in Client, NEW j \in Job, EnqueueInsert(c, j)
        PROVE  Frozen
    BY <2>1 DEF EnqueueInsert
  <2>2. ASSUME NEW c \in Client, NEW j \in Job, CancelQueued(c, j)
        PROVE  Frozen
    BY <2>2 DEF CancelQueued
  <2>3. ASSUME NEW c \in Client, CancelRunning(c)
        PROVE  Frozen
    BY <2>3 DEF CancelRunning
  <2>4. ASSUME NEW p \in Proc, Start(p)
        PROVE  Frozen
    BY <2>4 DEF Start, Abandoned
  <2>5. ASSUME NEW p \in Proc, ClaimUpdate(p)
        PROVE  Frozen
    BY <2>5 DEF ClaimUpdate, ClaimInv, ClaimIsExclusive
  <2>6. ASSUME NEW p \in Proc, FinishTick(p)
        PROVE  Frozen
    BY <2>6, FinishRow DEF InHand
  <2>7. CASE UNCHANGED table
    BY <2>7 DEF table
  <2>8. QED
    BY <2>1, <2>2, <2>3, <2>4, <2>5, <2>6, <2>7, TableSteps
<1>2. QED
  BY <1>1, ClaimInvariant, PTL DEF Spec, TerminalFrozen

(* A requested cancel ends in cancelled, without a result, or nowhere.     *)
THEOREM RequestedCancelsStick == Spec => CancelSticks
<1> DEFINE Sticks ==
       \A j \in Job : status[j] = "cancel_requested" =>
          /\ status'[j] \in {"cancel_requested", "cancelled"}
          /\ "result" \notin outcome'[j]
<1>1. TypeOK /\ ClaimInv /\ OutcomeTruthful /\ [Next]_vars => Sticks
  <2> SUFFICES ASSUME TypeOK, ClaimInv, OutcomeTruthful, [Next]_vars PROVE Sticks
    OBVIOUS
  <2>1. \A j \in Job : status[j] = "cancel_requested" =>
                       status'[j] \in {"cancel_requested", "cancelled"}
    <3>1. ASSUME NEW c \in Client, NEW j \in Job, EnqueueInsert(c, j) \/ CancelQueued(c, j)
          PROVE  <2>1!:
      BY <3>1 DEF EnqueueInsert, CancelQueued, TypeOK
    <3>2. ASSUME NEW c \in Client, CancelRunning(c)
          PROVE  <2>1!:
      BY <3>2 DEF CancelRunning, TypeOK
    <3>3. ASSUME NEW p \in Proc, Start(p) \/ ClaimUpdate(p)
          PROVE  <2>1!:
      BY <3>3 DEF Start, Abandoned, ClaimUpdate, ClaimInv, ClaimIsExclusive, TypeOK
    <3>4. ASSUME NEW p \in Proc, FinishTick(p)
          PROVE  <2>1!:
      BY <3>4, FinishRow
    <3>5. CASE UNCHANGED table
      BY <3>5 DEF table
    <3>6. QED
      BY <3>1, <3>2, <3>3, <3>4, <3>5, TableSteps
  <2>2. OutcomeTruthful'
    BY OutcomeStep
  <2>3. QED
    BY <2>1, <2>2 DEF OutcomeTruthful
<1>2. QED
  BY <1>1, ClaimInvariant, OutcomesAreTruthful, PTL DEF Spec, CancelSticks

-----------------------------------------------------------------------------
(* attempts, compared with the number of claims.                           *)
THEOREM ClaimsAreAccounted == Spec => []ClaimsAccounted
<1>1. Init => ClaimsAccounted
  BY DEF Init, ClaimsAccounted
<1>2. TypeOK /\ ClaimInv /\ ClaimsAccounted /\ [Next]_vars => ClaimsAccounted'
  <2> SUFFICES ASSUME TypeOK, ClaimInv, ClaimsAccounted, [Next]_vars
               PROVE  ClaimsAccounted'
    OBVIOUS
  <2> USE DEF ClaimsAccounted
  <2>1. ASSUME UNCHANGED <<claims, attempts, owner>>
        PROVE  ClaimsAccounted'
    BY <2>1
  <2>2. ASSUME NEW c \in Client, ClientNext(c)
        PROVE  ClaimsAccounted'
    BY <2>1, <2>2
       DEF ClientNext, EnqueueCheck, EnqueueInsert, EnqueueViolation, EnqueueFails, CancelQueued, CancelRunning,
           table, history
  <2>3. ASSUME NEW p \in Proc, Start(p)
        PROVE  ClaimsAccounted'
    <3>1. ASSUME NEW j \in Job
          PROVE  claims'[j] = attempts'[j] + (IF owner'[j] = NoWorker THEN 0 ELSE 1)
      <4>1. CASE j \in Abandoned(p)
        <5>1. owner[j] # NoWorker
          BY <4>1, WorkerAssumption, NullAssumption DEF Abandoned
        <5>2. claims'[j] = claims[j] /\ attempts'[j] = attempts[j] + 1
              /\ owner'[j] = NoWorker
          BY <2>3, <4>1 DEF Start, NextAttempt, history
        <5>3. attempts[j] \in Nat
          BY DEF TypeOK
        <5>4. QED
          BY <5>1, <5>2, <5>3
      <4>2. CASE j \notin Abandoned(p)
        BY <2>3, <4>2 DEF Start, history
      <4>3. QED
        BY <4>1, <4>2
    <3>2. QED
      BY <3>1
  <2>4. ASSUME NEW p \in Proc, ClaimUpdate(p)
        PROVE  ClaimsAccounted'
    <3>1. held[p] \in Job /\ owner[held[p]] = NoWorker /\ Id[p] # NoWorker
      BY <2>4, WorkerAssumption, NullAssumption
         DEF ClaimUpdate, ClaimInv, ClaimIsExclusive, TypeOK
    <3>2. ASSUME NEW j \in Job
          PROVE  claims'[j] = attempts'[j] + (IF owner'[j] = NoWorker THEN 0 ELSE 1)
      <4>1. CASE j = held[p]
        <5>1. claims'[j] = claims[j] + 1 /\ attempts'[j] = attempts[j]
              /\ owner'[j] = Id[p]
          BY <2>4, <3>1, <4>1 DEF ClaimUpdate, TypeOK
        <5>2. claims[j] = attempts[j] /\ attempts[j] \in Nat
          BY <3>1, <4>1 DEF TypeOK
        <5>3. QED
          BY <5>1, <5>2, <3>1
      <4>2. CASE j # held[p]
        BY <2>4, <4>2 DEF ClaimUpdate, TypeOK
      <4>3. QED
        BY <4>1, <4>2
    <3>3. QED
      BY <3>2
  <2>5. ASSUME NEW p \in Proc, FinishTick(p)
        PROVE  ClaimsAccounted'
    <3>1. UNCHANGED claims
      BY <2>5 DEF FinishTick, history
    <3>2. QED
      BY <2>1, <2>5, <3>1, FinishRow
  <2>6. ASSUME NEW p \in Proc,
               \/ \E j \in Job : ClaimSelect(p, j)
               \/ StartPaused(p) \/ ObserveCancel(p)
               \/ Crash(p) \/ DbFailure(p)
        PROVE  ClaimsAccounted'
    BY <2>1, <2>6 DEF ClaimSelect, StartPaused, ObserveCancel, Crash, DbFailure, table, history
  <2>7. CASE UNCHANGED vars
    BY <2>1, <2>7 DEF vars, table, history
  <2>8. ASSUME NEW w \in WorkerId, NEW d \in Desired, SetDesired(w, d)
        PROVE  ClaimsAccounted'
    BY <2>1, <2>8, DesiredStep DEF table, history
  <2>9. QED
    BY <2>2, <2>3, <2>4, <2>5, <2>6, <2>7, <2>8 DEF Next, WorkerStep
<1>3. QED
  BY <1>1, <1>2, ClaimInvariant, PTL DEF Spec

-----------------------------------------------------------------------------
(* Jobs in hand.  StrandedByFault is inductive by itself once the type and *)
(* the claims are known: a job comes into hand with its process, and only  *)
(* its end or a fault takes the process away.                              *)
THEOREM StrandingNeedsFault == Spec => []StrandedByFault
<1>1. Init => StrandedByFault
  BY DEF Init, StrandedByFault, InHand
<1>2. TypeOK /\ ClaimInv /\ StrandedByFault /\ [Next]_vars => StrandedByFault'
  <2> SUFFICES ASSUME TypeOK, ClaimInv, StrandedByFault, [Next]_vars
               PROVE  StrandedByFault'
    OBVIOUS
  <2> USE DEF StrandedByFault
  (* Processes keep their jobs, and no job comes into hand. *)
  <2>0. \A j \in Job : InWork(j) <=> \E q \in Proc : pc[q] \in Busy /\ held[q] = j
    BY DEF InWork
  <2>0a. \A j \in Job : InWork(j)' <=> \E q \in Proc : pc'[q] \in Busy /\ held'[q] = j
    BY DEF InWork
  <2>1. ASSUME \A j \in Job : status'[j] \in InHand /\ j \in orphaned \cup forgotten
                               => j \in orphaned' \cup forgotten',
               \A q \in Proc : pc[q] \in Busy => pc'[q] \in Busy /\ held'[q] = held[q],
               \A j \in Job : status'[j] \in InHand => status[j] \in InHand
        PROVE  StrandedByFault'
    BY <2>0, <2>0a, <2>1
  <2>2. ASSUME NEW c \in Client, ClientNext(c)
        PROVE  StrandedByFault'
    <3>1. UNCHANGED <<pc, held, orphaned, forgotten>>
      BY <2>2 DEF ClientNext, EnqueueCheck, EnqueueInsert, EnqueueViolation, EnqueueFails, CancelQueued, CancelRunning, workers, history
    <3>2. ASSUME NEW i \in Job, status'[i] \in InHand
          PROVE  status[i] \in InHand
      <4>1. ASSUME NEW j \in Job, EnqueueInsert(c, j) \/ CancelQueued(c, j)
            PROVE  status[i] \in InHand
        BY <3>2, <4>1 DEF EnqueueInsert, CancelQueued, TypeOK, InHand
      <4>2. CASE CancelRunning(c)
        BY <3>2, <4>2 DEF CancelRunning, TypeOK, InHand
      <4>3. CASE UNCHANGED table
        BY <3>2, <4>3 DEF table
      <4>4. QED
        BY <2>2, <4>1, <4>2, <4>3
           DEF ClientNext, EnqueueCheck, EnqueueViolation,
               EnqueueFails
    <3>3. QED
      BY <2>1, <3>1, <3>2
  <2>3. ASSUME NEW p \in Proc, Start(p)
        PROVE  StrandedByFault'
    <3>1. \A q \in Proc : pc[q] \in Busy => pc'[q] \in Busy /\ held'[q] = held[q]
      BY <2>3 DEF Start, Goto, TypeOK, Busy
    <3>2. \A j \in Job : status'[j] \in InHand => status[j] \in InHand
      BY <2>3 DEF Start, InHand
    <3>3. \A j \in Job : status'[j] \in InHand => j \notin Abandoned(p)
      BY <2>3 DEF Start, InHand
    <3>4. QED
      BY <2>1, <2>3, <3>1, <3>2, <3>3 DEF Start
  <2>4. ASSUME NEW p \in Proc, ClaimUpdate(p)
        PROVE  StrandedByFault'
    <3>1. held[p] \in Job /\ pc'[p] \in Busy /\ UNCHANGED <<held, orphaned, forgotten>>
      BY <2>4, NullAssumption DEF ClaimUpdate, Goto, TypeOK, Busy
    <3>2. \A q \in Proc : pc[q] \in Busy => pc'[q] \in Busy
      BY <2>4 DEF ClaimUpdate, Goto, TypeOK, Busy
    <3>3. \A j \in Job \ {held[p]} : status'[j] = status[j]
      BY <2>4, <3>1 DEF ClaimUpdate, TypeOK
    <3>4. QED
      BY <2>0, <2>0a, <3>1, <3>2, <3>3
  <2>5. ASSUME NEW p \in Proc, FinishTick(p)
        PROVE  StrandedByFault'
    <3>1. held[p] \in Job /\ status'[held[p]] \notin InHand
      BY <2>5, FinishRow DEF InHand
    <3>2. \A j \in Job \ {held[p]} : status'[j] = status[j]
      BY <2>5, FinishRow
    <3>3. \A q \in Proc \ {p} : pc'[q] = pc[q] /\ held'[q] = held[q]
      BY <2>5 DEF FinishTick, Goto, LetGo, TypeOK
    <3>4. UNCHANGED <<orphaned, forgotten>>
      BY <2>5 DEF FinishTick, history
    <3>5. QED
      BY <2>0, <2>0a, <3>1, <3>2, <3>3, <3>4
  <2>6. ASSUME NEW p \in Proc,
               \/ \E j \in Job : ClaimSelect(p, j)
               \/ StartPaused(p) \/ ObserveCancel(p)

        PROVE  StrandedByFault'
    <3>1. UNCHANGED <<status, orphaned, forgotten>>
      BY <2>6 DEF ClaimSelect, StartPaused, ObserveCancel, table, history
    <3>2. \A q \in Proc : pc[q] \in Busy => pc'[q] \in Busy /\ held'[q] = held[q]
      BY <2>6 DEF ClaimSelect, StartPaused, ObserveCancel, Returns, Goto, TypeOK, Busy
    <3>3. QED
      BY <2>1, <3>1, <3>2
  <2>7. ASSUME NEW p \in Proc, Crash(p) \/ DbFailure(p)
        PROVE  StrandedByFault'
    <3>1. UNCHANGED status
      BY <2>7 DEF Crash, DbFailure, table
    <3>2. \A j \in Job : j \in orphaned \cup forgotten => j \in orphaned' \cup forgotten'
      BY <2>7 DEF Crash, DbFailure
    <3>3. \A q \in Proc : pc[q] \in Busy =>
             \/ pc'[q] \in Busy /\ held'[q] = held[q]
             \/ held[q] \in orphaned' \cup forgotten'
      <4>1. CASE Crash(p)
        BY <4>1, NullAssumption DEF Crash, Goto, LetGo, TypeOK, Busy
      <4>2. CASE DbFailure(p)
        BY <4>2 DEF DbFailure, Goto, LetGo, TypeOK, Busy
      <4>3. QED
        BY <2>7, <4>1, <4>2
    <3>4. QED
      BY <2>0, <2>0a, <3>1, <3>2, <3>3
  <2>8. CASE UNCHANGED vars
    BY <2>1, <2>8 DEF vars, table, workers, history
  <2>9. ASSUME NEW w \in WorkerId, NEW d \in Desired, SetDesired(w, d)
        PROVE  StrandedByFault'
    BY <2>1, <2>9, DesiredStep DEF table, history
  <2>10. QED
    BY <2>2, <2>3, <2>4, <2>5, <2>6, <2>7, <2>8, <2>9 DEF Next, WorkerStep
<1>3. QED
  BY <1>1, <1>2, ClaimInvariant, PTL DEF Spec

-----------------------------------------------------------------------------
(* The status column implements JobLifecycle.  The invariant it needs: a   *)
(* handler that stops for a cancel does so for a cancel that was asked     *)
(* for, so cancel_normally never cancels a running job.                    *)
CancelSeen ==
    \A p \in Proc :
        pc[p] = "stopping" =>
            status[held[p]] \in {"cancel_requested", "cancelled"}

LEMMA CancelledStays ==
    ASSUME TypeOK, ClaimInv, [Next]_vars
    PROVE  \A j \in Job : status[j] \in {"cancel_requested", "cancelled"} =>
                          status'[j] \in {"cancel_requested", "cancelled"}
<1> DEFINE Stays == \A j \in Job : status[j] \in {"cancel_requested", "cancelled"} =>
                                   status'[j] \in {"cancel_requested", "cancelled"}
<1>1. ASSUME NEW c \in Client, NEW j \in Job, EnqueueInsert(c, j) \/ CancelQueued(c, j)
      PROVE  Stays
  BY <1>1 DEF EnqueueInsert, CancelQueued, TypeOK
<1>2. ASSUME NEW c \in Client, CancelRunning(c)
      PROVE  Stays
  BY <1>2 DEF CancelRunning, TypeOK
<1>3. ASSUME NEW p \in Proc, Start(p) \/ ClaimUpdate(p)
      PROVE  Stays
  BY <1>3 DEF Start, Abandoned, ClaimUpdate, ClaimInv, ClaimIsExclusive, TypeOK
<1>4. ASSUME NEW p \in Proc, FinishTick(p)
      PROVE  Stays
  BY <1>4, FinishRow DEF InHand
<1>5. CASE UNCHANGED table
  BY <1>5 DEF table
<1>6. QED
  BY <1>1, <1>2, <1>3, <1>4, <1>5, TableSteps

LEMMA CancelSeenStep ==
    ASSUME TypeOK, ClaimInv, CancelSeen, [Next]_vars
    PROVE  CancelSeen'
<1>1. ASSUME \A q \in Proc : pc'[q] = "stopping" =>
                pc[q] = "stopping" /\ held'[q] = held[q]
      PROVE  CancelSeen'
  BY <1>1, CancelledStays, NullAssumption DEF CancelSeen, TypeOK
<1>2. ASSUME NEW c \in Client, ClientNext(c)
      PROVE  CancelSeen'
  BY <1>1, <1>2 DEF ClientNext, EnqueueCheck, EnqueueInsert, EnqueueViolation, EnqueueFails, CancelQueued, CancelRunning, workers
<1>3. ASSUME NEW p \in Proc, ObserveCancel(p)
      PROVE  CancelSeen'
  BY <1>3 DEF ObserveCancel, Goto, CancelSeen, table, TypeOK
<1>4. ASSUME NEW w \in WorkerId, NEW d \in Desired, SetDesired(w, d)
      PROVE  CancelSeen'
  BY <1>1, <1>4 DEF SetDesired
<1>5. ASSUME NEW p \in Proc, NEW j \in Job, ClaimSelect(p, j)
      PROVE  CancelSeen'
  BY <1>1, <1>5 DEF ClaimSelect, Goto, TypeOK
<1>6. ASSUME NEW p \in Proc,
             Start(p) \/ StartPaused(p) \/ ClaimUpdate(p)
      PROVE  CancelSeen'
  BY <1>1, <1>6 DEF Start, StartPaused, ClaimUpdate, Goto, TypeOK
<1>7. ASSUME NEW p \in Proc, FinishTick(p) \/ Crash(p) \/ DbFailure(p)
      PROVE  CancelSeen'
  BY <1>1, <1>7 DEF FinishTick, Crash, DbFailure, Goto, LetGo, Busy, TypeOK
<1>8. CASE UNCHANGED vars
  BY <1>1, <1>8 DEF vars, workers
<1>9. QED
  BY <1>2, <1>3, <1>4, <1>5, <1>6, <1>7, <1>8 DEF Next, WorkerStep

LEMMA LifecycleStep ==
    ASSUME TypeOK, ClaimInv, CancelSeen, [Next]_vars
    PROVE  [Lifecycle!Next]_<<status, attempts>>
<1> USE DEF Lifecycle!Next, Lifecycle!Move
<1>1. ASSUME NEW c \in Client, NEW j \in Job, EnqueueInsert(c, j)
      PROVE  Lifecycle!Submit(j)
  BY <1>1 DEF EnqueueInsert, Lifecycle!Submit
<1>2. ASSUME NEW c \in Client, NEW j \in Job, CancelQueued(c, j)
      PROVE  Lifecycle!Cancel(j) \/ UNCHANGED <<status, attempts>>
  <2>1. UNCHANGED attempts
    BY <1>2 DEF CancelQueued
  <2>2. CASE status[j] = "queued"
    BY <1>2, <2>1, <2>2 DEF CancelQueued, Lifecycle!Cancel
  <2>3. CASE status[j] # "queued"
    BY <1>2, <2>1, <2>3 DEF CancelQueued
  <2>4. QED
    BY <2>2, <2>3
<1>3. ASSUME NEW c \in Client, CancelRunning(c)
      PROVE  (\E j \in Job : Lifecycle!Cancel(j)) \/ UNCHANGED <<status, attempts>>
  BY <1>3 DEF CancelRunning, Lifecycle!Cancel, TypeOK
<1>4. ASSUME NEW p \in Proc, Start(p)
      PROVE  \E S \in SUBSET Job : Lifecycle!GiveBack(S)
  <2>1. Abandoned(p) \in SUBSET Job /\ Lifecycle!GiveBack(Abandoned(p))
    BY <1>4 DEF Start, Abandoned, NextAttempt, Lifecycle!GiveBack
  <2>2. QED
    BY <2>1
<1>5. ASSUME NEW p \in Proc, ClaimUpdate(p)
      PROVE  \E j \in Job : Lifecycle!Take(j)
  <2>1. held[p] \in Job /\ status[held[p]] = "queued"
    BY <1>5, NullAssumption DEF ClaimUpdate, ClaimInv, ClaimIsExclusive, TypeOK
  <2>2. status' = [status EXCEPT ![held[p]] = "running"] /\ UNCHANGED attempts
    BY <1>5 DEF ClaimUpdate
  <2>3. Lifecycle!Take(held[p])
    BY <2>1, <2>2 DEF Lifecycle!Take
  <2>4. QED
    BY <2>1, <2>3
<1>6. ASSUME NEW p \in Proc, FinishTick(p)
      PROVE  (\E j \in Job : Lifecycle!Finish(j)) \/ UNCHANGED <<status, attempts>>
  <2> DEFINE j == held[p]
  <2>1. j \in Job /\ UNCHANGED attempts
    BY <1>6, FinishRow
  <2>2. status' = [status EXCEPT ![j] = status'[j]]
    BY <1>6, FinishRow DEF FinishTick, Complete, Fail, CancelNormally, Finalise, TypeOK
  <2>3. CASE status[j] \notin InHand
    BY <1>6, <2>1, <2>2, <2>3, FinishRow DEF TypeOK
  <2>4. CASE status[j] = "running"
    <3>1. status'[j] \in {"complete", "failed"}
      BY <1>6, <2>4, FinishRow DEF CancelSeen
    <3>2. QED
      BY <2>1, <2>2, <2>4, <3>1 DEF Lifecycle!Finish
  <2>5. CASE status[j] = "cancel_requested"
    BY <1>6, <2>1, <2>2, <2>5, FinishRow DEF Lifecycle!Finish
  <2>6. QED
    BY <2>3, <2>4, <2>5 DEF InHand
<1>7. CASE UNCHANGED table
  BY <1>7 DEF table
<1>8. QED
  BY <1>1, <1>2, <1>3, <1>4, <1>5, <1>6, <1>7, TableSteps

(* What clients see of the queue is a behaviour of the promised lifecycle. *)
THEOREM QueueImplementsLifecycle == Spec => ImplementsLifecycle
<1>1. Init => Lifecycle!Init /\ CancelSeen
  BY DEF Init, Lifecycle!Init, CancelSeen
<1>2. QED
  BY <1>1, CancelSeenStep, LifecycleStep, ClaimInvariant, PTL
     DEF Spec, ImplementsLifecycle, Lifecycle!Spec
=============================================================================
