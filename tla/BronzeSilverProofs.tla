------------------------- MODULE BronzeSilverProofs -------------------------
(***************************************************************************)
(* Proofs about BronzeSilver for every set of serials and directories and  *)
(* every number of recordings, batches and rollbacks.                      *)
(***************************************************************************)
EXTENDS BronzeSilver, TLAPS

LEMMA TypeInit == Init => TypeOK
BY BoundsAssumption DEF Init, TypeOK, Dir, PC

(* The upserts of a batch give rows.                                       *)
LEMMA DetectedIsRow ==
    ASSUME TypeOK, NEW s \in Serial
    PROVE  Detected(s, InBronze(s)) \in Row \cup {NoRow}
<1>1. CASE /\ InBronze(s) # {}
           /\ row[s] = NoRow \/ row[s].state = "bronze_detected"
  <2> DEFINE last == CHOOSE p \in InBronze(s) : \A q \in InBronze(s) : q <= p
  <2>1. Detected(s, InBronze(s)) = [place |-> last, state |-> "bronze_detected"]
    BY <1>1 DEF Detected
  <2>2. InBronze(s) \in (SUBSET Place) \ {{}}
    BY <1>1 DEF InBronze
  <2>3. last \in Place
    BY <2>2, PlaceAssumption
  <2> QED
    BY <2>1, <2>3 DEF Row, State
<1>2. CASE ~ (/\ InBronze(s) # {}
              /\ row[s] = NoRow \/ row[s].state = "bronze_detected")
  BY <1>2 DEF Detected, TypeOK
<1> QED
  BY <1>1, <1>2

(* Marking a row of the running batch leaves a table of rows.              *)
LEMMA Marked ==
    ASSUME TypeOK, NEW s \in Serial, txRow[s] \in Row,
           NEW st \in State, SetState(s, st)
    PROVE  /\ txRow' \in [Serial -> Row \cup {NoRow}]
           /\ txRow'[s] = [place |-> txRow[s].place, state |-> st]
           /\ txRow'[s] \in Row
           /\ \A u \in Serial \ {s} : txRow'[u] = txRow[u]
<1>1. [place |-> txRow[s].place, state |-> st] \in Row
  BY DEF Row
<1>2. [txRow[s] EXCEPT !.state = st] = [place |-> txRow[s].place, state |-> st]
  BY DEF Row
<1>3. txRow' = [txRow EXCEPT ![s] = [txRow[s] EXCEPT !.state = st]]
  BY DEF SetState, TypeOK
<1> QED
  BY <1>1, <1>2, <1>3 DEF TypeOK

-----------------------------------------------------------------------------
Busy == {"moving", "copying", "removing", "moved"}

(* The recording that is being moved: its row and what is on disk of it.   *)
MoveInv ==
    /\ pc \in Busy => txRow[cur.serial] \in Row /\ cur.serial \notin todo
                      /\ txRow[cur.serial].place = cur.place
    /\ pc = "moving" => silver[cur] = "absent" /\ Exists(bronze, cur)
    /\ pc = "copying" => silver[cur] = "partial" /\ Exists(bronze, cur)
    /\ pc \in {"removing", "moved"} => silver[cur] = "whole"

(* The rows of a table that say silver_ready are true.                     *)
ReadyIn(rows, reg) ==
    \A s \in Serial : rows[s] # NoRow /\ rows[s].state = "silver_ready" =>
        LET x == [serial |-> s, place |-> rows[s].place]
        IN  silver[x] = "whole" /\ x \in reg

(* Nothing is on disk that was not uploaded.                               *)
NothingStray ==
    \A x \in Recording : Exists(bronze, x) \/ Exists(silver, x) => x \in arrived

(* The committed table and the one of the running batch are both true, and *)
(* what a batch moves is safe.                                             *)
IInv ==
    /\ TypeOK
    /\ MoveInv
    /\ NothingLost
    /\ NothingStray
    /\ ReadyIn(row, registered)
    /\ pc # "idle" => ReadyIn(txRow, txReg)

LEMMA IInvInit == Init => IInv
<1> SUFFICES ASSUME Init PROVE IInv
  OBVIOUS
<1>1. TypeOK
  BY TypeInit
<1> QED
  BY <1>1 DEF Init, IInv, MoveInv, Busy, NothingLost, NothingStray, Exists, ReadyIn

(* A row that is ready names a recording that is whole in silver, so it is *)
(* another one than the recording that is being moved.                     *)
LEMMA ReadyElsewhere ==
    ASSUME IInv, pc \in {"moving", "copying"}, silver' \in [Recording -> Dir],
           \A x \in Recording \ {cur} : silver'[x] = silver[x],
           NEW rows, NEW reg, rows \in [Serial -> Row \cup {NoRow}],
           ReadyIn(rows, reg)
    PROVE  \A s \in Serial : rows[s] # NoRow /\ rows[s].state = "silver_ready" =>
               LET x == [serial |-> s, place |-> rows[s].place]
               IN  silver'[x] = "whole" /\ x \in reg
<1> SUFFICES ASSUME NEW s \in Serial, rows[s] # NoRow, rows[s].state = "silver_ready"
             PROVE  LET x == [serial |-> s, place |-> rows[s].place]
                    IN  silver'[x] = "whole" /\ x \in reg
  OBVIOUS
<1> DEFINE x == [serial |-> s, place |-> rows[s].place]
<1>1. x \in Recording
  BY DEF Row, Recording
<1>2. silver[x] = "whole" /\ x \in reg
  BY DEF ReadyIn
<1>3. silver[cur] # "whole"
  BY DEF IInv, MoveInv
<1> QED
  BY <1>1, <1>2, <1>3

LEMMA BeginStep == ASSUME IInv, Begin PROVE IInv'
<1>1. PICK aged \in SUBSET Stale :
          /\ txRow' = [s \in Serial |->
                 IF s \in aged THEN [row[s] EXCEPT !.state = "silver_failed"]
                 ELSE Detected(s, InBronze(s))]
          /\ todo' \subseteq {s \in Serial : txRow'[s] # NoRow /\
                                  txRow'[s].state = "bronze_detected"}
  BY DEF Begin, Eligible
<1>2. ASSUME NEW s \in Serial
      PROVE  /\ txRow'[s] \in Row \cup {NoRow}
             /\ txRow'[s] # NoRow /\ txRow'[s].state = "silver_ready" =>
                    txRow'[s] = row[s]
  <2>1. CASE s \in aged
    <3>1. row[s] \in Row
      BY <2>1, <1>1 DEF Stale, IInv, TypeOK
    <3>2. txRow'[s] = [place |-> row[s].place, state |-> "silver_failed"]
      BY <1>1, <2>1, <3>1 DEF Row
    <3> QED
      BY <3>1, <3>2 DEF Row, State
  <2>2. CASE s \notin aged
    <3>1. txRow'[s] = Detected(s, InBronze(s))
      BY <1>1, <2>2
    <3>2. Detected(s, InBronze(s)) # row[s] =>
              Detected(s, InBronze(s)).state = "bronze_detected"
      BY DEF Detected
    <3> QED
      BY <3>1, <3>2, DetectedIsRow DEF IInv
  <2> QED
    BY <2>1, <2>2
<1>3. txRow' \in [Serial -> Row \cup {NoRow}] /\ \A s \in todo' : txRow'[s] \in Row
  BY <1>1, <1>2
<1>4. /\ pc' = "next" /\ txReg' = registered /\ moved' = {}
      /\ UNCHANGED <<bronze, silver, row, registered, cur, undone, arrived, arrivals,
                rollbacks>>
  BY DEF Begin, dirs, committed, history
<1>5. TypeOK'
  BY <1>1, <1>3, <1>4 DEF IInv, TypeOK, PC
<1>6. ReadyIn(txRow, txReg)'
  BY <1>2, <1>4 DEF IInv, ReadyIn
<1> QED
  BY <1>4, <1>5, <1>6 DEF IInv, MoveInv, Busy, NothingLost, NothingStray, Exists, ReadyIn

LEMMA ProcessStep == ASSUME IInv, NEW s \in Serial, Process(s) PROVE IInv'
<1> DEFINE x == [serial |-> s, place |-> txRow[s].place]
<1>1. txRow[s] \in Row /\ x \in Recording /\ cur' = x /\ x.serial = s
  BY DEF Process, IInv, TypeOK, Row, Recording
<1>2. /\ pc = "next" /\ s \in todo /\ todo' = todo \ {s}
      /\ UNCHANGED <<bronze, silver, row, registered, txReg, moved, undone,
                     arrived, arrivals, rollbacks>>
  BY DEF Process, dirs, committed, history
<1>3. PICK st \in {"silver_processing", "silver_failed"} : SetState(s, st)
  BY DEF Process
<1>4. /\ pc' = "moving" => Exists(bronze, x) /\ ~ Exists(silver, x)
      /\ pc' = "moved" => ~ Exists(bronze, x) /\ Exists(silver, x)
      /\ pc' \in {"next", "moving", "moved"}
  BY <1>2 DEF Process
<1>5. /\ txRow' \in [Serial -> Row \cup {NoRow}]
      /\ txRow'[s] = [place |-> txRow[s].place, state |-> st]
      /\ txRow'[s] \in Row
      /\ \A u \in Serial \ {s} : txRow'[u] = txRow[u]
  BY <1>1, <1>3, Marked DEF IInv, State
<1>6. TypeOK'
  BY <1>1, <1>2, <1>4, <1>5 DEF IInv, TypeOK, PC
<1>7. silver[x] \in Dir /\ bronze[x] \in Dir
  BY <1>1 DEF IInv, TypeOK
<1>8. MoveInv'
  <2>1. pc' \in Busy => txRow'[cur'.serial] \in Row /\ cur'.serial \notin todo'
                        /\ txRow'[cur'.serial].place = cur'.place
    BY <1>1, <1>2, <1>5
  <2>2. pc' = "moved" => silver[x] = "whole"
    BY <1>1, <1>4 DEF IInv, NothingLost, NothingStray, Exists
  <2> QED
    BY <1>1, <1>2, <1>4, <2>1, <2>2 DEF MoveInv, Exists
<1>9. ReadyIn(txRow, txReg)'
  BY <1>2, <1>5 DEF IInv, ReadyIn
<1> QED
  BY <1>2, <1>6, <1>8, <1>9 DEF IInv, NothingLost, NothingStray, Exists, ReadyIn

(* The steps of a move.                                                    *)
LEMMA MoveStep ==
    ASSUME IInv, Rename \/ StartCopy \/ FinishCopy \/ RemoveSource PROVE IInv'
<1>1. UNCHANGED <<row, registered, txRow, txReg, cur, todo, undone, arrived,
                  arrivals, rollbacks>>
  BY DEF Rename, StartCopy, FinishCopy, RemoveSource, Rest, committed, tx, history
<1>2. pc \in Busy /\ pc' \in Busy /\ cur \in Recording
  BY DEF Rename, StartCopy, FinishCopy, RemoveSource, Busy, IInv, TypeOK
<1>3. moved' \subseteq Recording
  BY <1>2 DEF Rename, StartCopy, FinishCopy, RemoveSource, Moved, IInv, TypeOK
<1>4. /\ bronze' \in [Recording -> Dir] /\ silver' \in [Recording -> Dir]
      /\ \A x \in Recording \ {cur} : bronze'[x] = bronze[x] /\ silver'[x] = silver[x]
  BY <1>2 DEF Rename, StartCopy, FinishCopy, RemoveSource, IInv, TypeOK, Dir
<1>5. TypeOK'
  BY <1>1, <1>2, <1>3, <1>4 DEF IInv, TypeOK, Busy, PC
<1>6. /\ MoveInv'
      /\ bronze'[cur] = "whole" \/ silver'[cur] = "whole"
  <2>1. Exists(bronze, cur) /\ silver[cur] # "whole" => bronze[cur] = "whole"
    BY <1>2 DEF IInv, NothingLost, NothingStray
  <2>2. CASE Rename
    BY <1>1, <1>2, <2>2 DEF Rename, IInv, TypeOK, MoveInv, Busy
  <2>3. CASE StartCopy
    BY <1>1, <1>2, <2>1, <2>3 DEF StartCopy, IInv, TypeOK, MoveInv, Busy, Exists
  <2>4. CASE FinishCopy
    BY <1>1, <1>2, <2>4 DEF FinishCopy, IInv, TypeOK, MoveInv, Busy
  <2>5. CASE RemoveSource
    BY <1>1, <1>2, <2>5 DEF RemoveSource, IInv, TypeOK, MoveInv, Busy
  <2> QED
    BY <2>2, <2>3, <2>4, <2>5
<1>7. NothingLost'
  BY <1>1, <1>2, <1>4, <1>6 DEF IInv, TypeOK, NothingLost
<1>8. NothingStray'
  <2>1. cur \in arrived
    BY <1>2 DEF IInv, MoveInv, NothingStray, Exists, Busy
  <2> QED
    BY <1>1, <1>4, <2>1 DEF IInv, NothingStray, Exists
<1>9. ReadyIn(row, registered)' /\ ReadyIn(txRow, txReg)'
  <2>1. CASE pc \in {"moving", "copying"}
    <3>1. pc # "idle" /\ row \in [Serial -> Row \cup {NoRow}]
          /\ txRow \in [Serial -> Row \cup {NoRow}]
      BY <1>2 DEF Busy, IInv, TypeOK
    <3> QED
      BY <1>1, <1>4, <2>1, <3>1, ReadyElsewhere DEF IInv, ReadyIn
  <2>2. CASE pc \notin {"moving", "copying"}
    <3>1. silver' = silver /\ pc # "idle"
      BY <1>2, <2>2 DEF Rename, StartCopy, FinishCopy, RemoveSource, Busy
    <3> QED
      BY <1>1, <3>1 DEF IInv, ReadyIn
  <2> QED
    BY <2>1, <2>2
<1> QED
  BY <1>5, <1>6, <1>7, <1>8, <1>9 DEF IInv

LEMMA MarkStep == ASSUME IInv, MarkReady \/ MoveFails PROVE IInv'
<1>1. /\ pc \in Busy /\ pc' = "next"
      /\ UNCHANGED <<bronze, silver, row, registered, cur, todo, moved, undone,
                     arrived, arrivals, rollbacks>>
  BY DEF MarkReady, MoveFails, Busy, dirs, committed, history
<1>2. cur \in Recording /\ cur.serial \in Serial /\ txRow[cur.serial] \in Row
      /\ cur = [serial |-> cur.serial, place |-> txRow[cur.serial].place]
  BY <1>1 DEF IInv, MoveInv, TypeOK, Busy, Recording
<1>3. PICK st \in {"silver_ready", "silver_failed"} :
          /\ SetState(cur.serial, st)
          /\ st = "silver_ready" => pc = "moved" /\ txReg' = txReg \cup {cur}
          /\ txReg' = txReg \/ txReg' = txReg \cup {cur}
  BY DEF MarkReady, MoveFails
<1>4. /\ txRow' \in [Serial -> Row \cup {NoRow}]
      /\ txRow'[cur.serial] = [place |-> txRow[cur.serial].place, state |-> st]
      /\ txRow'[cur.serial] \in Row
      /\ \A u \in Serial \ {cur.serial} : txRow'[u] = txRow[u]
  BY <1>2, <1>3, Marked DEF IInv, State
<1>5. TypeOK'
  BY <1>1, <1>2, <1>3, <1>4 DEF IInv, TypeOK, PC
<1>6. ReadyIn(txRow, txReg)'
  <2> SUFFICES ASSUME NEW s \in Serial, txRow'[s] # NoRow,
                      txRow'[s].state = "silver_ready"
               PROVE  LET x == [serial |-> s, place |-> txRow'[s].place]
                      IN  silver'[x] = "whole" /\ x \in txReg'
    BY DEF ReadyIn
  <2>1. CASE s = cur.serial
    <3>1. st = "silver_ready"
      BY <1>4, <2>1
    <3> QED
      BY <1>1, <1>2, <1>3, <1>4, <2>1, <3>1 DEF IInv, MoveInv
  <2>2. CASE s # cur.serial
    BY <1>1, <1>3, <1>4, <2>2 DEF IInv, ReadyIn, Busy
  <2> QED
    BY <2>1, <2>2
<1> QED
  BY <1>1, <1>5, <1>6 DEF IInv, MoveInv, Busy, NothingLost, NothingStray, Exists, ReadyIn

LEMMA IInvStep == IInv /\ [Next]_vars => IInv'
<1> SUFFICES ASSUME IInv, [Next]_vars PROVE IInv'
  OBVIOUS
<1>1. CASE UNCHANGED vars
  BY <1>1 DEF vars, dirs, committed, tx, history, IInv, TypeOK, MoveInv,
     NothingLost, NothingStray, Exists, ReadyIn
<1>2. ASSUME NEW x \in Recording, Arrive(x) PROVE IInv'
  <2>1. /\ UNCHANGED <<silver, row, registered, txRow, txReg, pc, cur, todo, moved,
                       undone, rollbacks>>
        /\ bronze' = [bronze EXCEPT ![x] = "whole"]
        /\ arrived' = arrived \cup {x}
    BY <1>2 DEF Arrive, committed, tx
  <2>2. TypeOK'
    BY <1>2, <2>1, BoundsAssumption DEF Arrive, IInv, TypeOK, Dir
  <2>3. MoveInv'
    BY <2>1 DEF IInv, TypeOK, MoveInv, Busy, Exists
  <2>4. NothingLost' /\ NothingStray'
    BY <2>1 DEF IInv, TypeOK, NothingLost, NothingStray, Exists
  <2> QED
    BY <2>1, <2>2, <2>3, <2>4 DEF IInv, ReadyIn
<1>3. CASE Commit
  <2>1. /\ row' = txRow /\ registered' = txReg /\ pc' = "idle"
        /\ UNCHANGED <<bronze, silver, txRow, txReg, cur, todo, moved, undone,
                       arrived, arrivals, rollbacks>>
    BY <1>3 DEF Commit, dirs, tx, history
  <2> QED
    BY <1>3, <2>1 DEF Commit, IInv, TypeOK, PC, MoveInv, Busy, NothingLost,
       NothingStray, Exists, ReadyIn
<1>4. CASE Rollback
  <2>1. /\ pc' = "idle" /\ todo' = {} /\ undone' = undone \cup moved
        /\ UNCHANGED <<bronze, silver, row, registered, txRow, txReg, cur, moved,
                       arrived, arrivals>>
    BY <1>4 DEF Rollback, dirs, committed, tx
  <2>2. rollbacks' \in 0..MaxRollbacks
    BY <1>4, BoundsAssumption DEF Rollback, IInv, TypeOK
  <2> QED
    BY <2>1, <2>2 DEF IInv, TypeOK, PC, MoveInv, Busy, NothingLost, NothingStray, Exists, ReadyIn
<1> QED
  BY <1>1, <1>2, <1>3, <1>4, BeginStep, ProcessStep, MoveStep, MarkStep
  DEF Next, BatchStep

(* TypeOK: the pipeline's state keeps its type.                            *)
THEOREM TypeCorrect == Spec => []TypeOK
<1>1. Spec => []IInv
  BY IInvInit, IInvStep, PTL DEF Spec
<1> QED
  BY <1>1, PTL DEF IInv

(* NothingLost: whatever interrupts its moves, every recording that was    *)
(* ever uploaded is whole in bronze or in silver.                          *)
THEOREM RecordingsAreKept == Spec => []NothingLost
<1>1. Spec => []IInv
  BY IInvInit, IInvStep, PTL DEF Spec
<1> QED
  BY <1>1, PTL DEF IInv

(* ReadyTruthful: a committed silver_ready row names a whole, registered   *)
(* recording, however many batches were rolled back on the way.            *)
THEOREM ReadyRowsAreTrue == Spec => []ReadyTruthful
<1>1. Spec => []IInv
  BY IInvInit, IInvStep, PTL DEF Spec
<1>2. IInv => ReadyTruthful
  BY DEF IInv, ReadyIn, ReadyTruthful
<1> QED
  BY <1>1, <1>2, PTL
-----------------------------------------------------------------------------
(* TrackedUnlessUndone needs both tables again: what is in silver is told  *)
(* by the committed one, or was moved by the batch that is running, or by  *)
(* one that was rolled back; and it is told by the table the batch is      *)
(* going to commit, but for the recording in hand.                         *)
Told(rows, x) ==
    /\ rows[x.serial] # NoRow
    /\ rows[x.serial].place = x.place
    /\ rows[x.serial].state \in {"silver_ready", "silver_failed"}

TrackInv ==
    /\ \A s \in todo : pc # "idle" => txRow[s].state = "bronze_detected"
    /\ \A x \in Recording : Exists(silver, x) =>
           \/ Told(row, x) \/ x \in undone
           \/ pc # "idle" /\ x \in moved
    /\ pc # "idle" => \A x \in Recording : Exists(silver, x) =>
           \/ Told(txRow, x) \/ x \in undone
           \/ pc \in Busy /\ x = cur

LEMMA TrackInit == Init => TrackInv
BY DEF Init, TrackInv, Exists

LEMMA TrackBegin == ASSUME IInv, TrackInv, Begin PROVE TrackInv'
<1>1. PICK aged \in SUBSET Stale :
          /\ txRow' = [s \in Serial |->
                 IF s \in aged THEN [row[s] EXCEPT !.state = "silver_failed"]
                 ELSE Detected(s, InBronze(s))]
          /\ todo' \subseteq {s \in Serial : txRow'[s] # NoRow /\
                                  txRow'[s].state = "bronze_detected"}
  BY DEF Begin, Eligible
<1>2. /\ pc = "idle" /\ pc' = "next"
      /\ UNCHANGED <<silver, row, undone>>
  BY DEF Begin, dirs, committed, history
<1>3. ASSUME NEW x \in Recording, Told(row, x) PROVE Told(txRow, x)'
  <2>1. x.serial \in Serial
    BY DEF Recording
  <2>2. x.serial \notin aged
    BY <1>1, <1>3 DEF Told, Stale
  <2>3. Detected(x.serial, InBronze(x.serial)) = row[x.serial]
    BY <1>3 DEF Told, Detected
  <2>4. txRow'[x.serial] = row[x.serial]
    BY <1>1, <2>1, <2>2, <2>3
  <2> QED
    BY <1>3, <2>4 DEF Told
<1>4. \A x \in Recording : Exists(silver, x) => Told(row, x) \/ x \in undone
  BY <1>2 DEF TrackInv
<1>5. \A x \in Recording : Exists(silver, x)' => Told(row, x)' \/ x \in undone'
  BY <1>2, <1>4 DEF Exists, Told
<1>6. \A x \in Recording : Exists(silver, x)' => Told(txRow, x)' \/ x \in undone'
  BY <1>2, <1>3, <1>4 DEF Exists
<1> QED
  BY <1>1, <1>5, <1>6 DEF TrackInv

LEMMA TrackProcess ==
    ASSUME IInv, TrackInv, NEW s \in Serial, Process(s) PROVE TrackInv'
<1>1. /\ pc = "next" /\ s \in todo /\ todo' = todo \ {s} /\ pc' # "idle"
      /\ UNCHANGED <<silver, row, moved, undone>>
  BY DEF Process, dirs, committed, history
<1>2. txRow[s] \in Row /\ txRow[s].state = "bronze_detected"
  BY <1>1 DEF IInv, TypeOK, TrackInv
<1>3. PICK st \in {"silver_processing", "silver_failed"} : SetState(s, st)
  BY DEF Process
<1>4. \A u \in Serial \ {s} : txRow'[u] = txRow[u]
  BY <1>2, <1>3, Marked DEF IInv, State
<1>5. todo \subseteq Serial
  BY DEF IInv, TypeOK
<1>6. ASSUME NEW x \in Recording, Exists(silver, x) PROVE Told(txRow, x)' \/ x \in undone
  <2>1. Told(txRow, x) \/ x \in undone
    BY <1>1, <1>6 DEF TrackInv, Busy
  <2>2. Told(txRow, x) => x.serial # s
    BY <1>2 DEF Told
  <2>3. x.serial \in Serial
    BY DEF Recording
  <2> QED
    BY <1>4, <2>1, <2>2, <2>3 DEF Told
<1>7. \A x \in Recording : Exists(silver, x)' =>
          Told(row, x)' \/ x \in undone' \/ x \in moved'
  BY <1>1 DEF TrackInv, Exists, Told
<1>8. \A x \in Recording : Exists(silver, x)' => Told(txRow, x)' \/ x \in undone'
  BY <1>1, <1>6 DEF Exists
<1> QED
  BY <1>1, <1>4, <1>5, <1>7, <1>8 DEF TrackInv

LEMMA TrackMove ==
    ASSUME IInv, TrackInv, Rename \/ StartCopy \/ FinishCopy \/ RemoveSource
    PROVE  TrackInv'
<1>1. UNCHANGED <<row, txRow, cur, todo, undone>>
  BY DEF Rename, StartCopy, FinishCopy, RemoveSource, Rest, committed, tx, history
<1>2. pc \in Busy /\ pc' \in Busy /\ cur \in Recording
  BY DEF Rename, StartCopy, FinishCopy, RemoveSource, Busy, IInv, TypeOK
<1>3. /\ moved \subseteq moved'
      /\ Exists(silver, cur) \/ cur \in moved' \/ silver' = silver
  BY DEF Rename, StartCopy, FinishCopy, RemoveSource, Moved, IInv, MoveInv, Exists
<1>4. \A x \in Recording \ {cur} : silver'[x] = silver[x]
  BY <1>2 DEF Rename, StartCopy, FinishCopy, RemoveSource, IInv, TypeOK
<1>5. pc # "idle" /\ pc' # "idle"
  BY <1>2 DEF Busy
<1>6. ASSUME NEW x \in Recording, Exists(silver, x)'
      PROVE  Told(row, x)' \/ x \in undone' \/ x \in moved'
  <2>1. CASE Exists(silver, x)
    BY <1>1, <1>3, <2>1 DEF TrackInv, Told
  <2>2. CASE ~ Exists(silver, x)
    BY <1>3, <1>4, <1>6, <2>2 DEF Exists
  <2> QED
    BY <2>1, <2>2
<1>7. ASSUME NEW x \in Recording, Exists(silver, x)', x # cur
      PROVE  Told(txRow, x)' \/ x \in undone'
  <2>1. Exists(silver, x)
    BY <1>4, <1>7 DEF Exists
  <2> QED
    BY <1>1, <1>5, <1>7, <2>1 DEF TrackInv, Told
<1> QED
  BY <1>1, <1>2, <1>5, <1>6, <1>7 DEF TrackInv

LEMMA TrackMark ==
    ASSUME IInv, TrackInv, MarkReady \/ MoveFails PROVE TrackInv'
<1>1. /\ pc \in Busy /\ pc' = "next" /\ pc # "idle"
      /\ UNCHANGED <<silver, row, cur, todo, moved, undone>>
  BY DEF MarkReady, MoveFails, Busy, dirs, committed, history
<1>2. /\ cur \in Recording /\ cur.serial \in Serial /\ cur.serial \notin todo
      /\ txRow[cur.serial] \in Row
      /\ cur = [serial |-> cur.serial, place |-> txRow[cur.serial].place]
  BY <1>1 DEF IInv, MoveInv, TypeOK, Busy, Recording
<1>3. PICK st \in {"silver_ready", "silver_failed"} : SetState(cur.serial, st)
  BY DEF MarkReady, MoveFails
<1>4. /\ txRow'[cur.serial] = [place |-> txRow[cur.serial].place, state |-> st]
      /\ txRow'[cur.serial] \in Row
      /\ \A u \in Serial \ {cur.serial} : txRow'[u] = txRow[u]
  BY <1>2, <1>3, Marked DEF IInv, State
<1>5. Told(txRow, cur)'
  BY <1>1, <1>2, <1>4, RowAssumption DEF Told
<1>6. ASSUME NEW x \in Recording, Told(txRow, x) PROVE Told(txRow, x)'
  <2>1. CASE x.serial = cur.serial
    <3>1. x = cur
      BY <1>2, <1>6, <2>1 DEF Told, Recording
    <3> QED
      BY <1>5, <3>1, <1>1
  <2>2. CASE x.serial # cur.serial
    BY <1>4, <1>6, <2>2 DEF Told, Recording
  <2> QED
    BY <2>1, <2>2
<1>7. \A x \in Recording : Exists(silver, x)' => Told(txRow, x)' \/ x \in undone'
  BY <1>1, <1>5, <1>6 DEF TrackInv, Exists
<1>8. \A u \in todo' : txRow'[u].state = "bronze_detected"
  BY <1>1, <1>2, <1>4 DEF TrackInv, IInv, TypeOK
<1>9. \A x \in Recording : Exists(silver, x)' =>
          Told(row, x)' \/ x \in undone' \/ x \in moved'
  BY <1>1 DEF TrackInv, Exists, Told
<1> QED
  BY <1>1, <1>7, <1>8, <1>9 DEF TrackInv

LEMMA TrackStep == IInv /\ TrackInv /\ [Next]_vars => TrackInv'
<1> SUFFICES ASSUME IInv, TrackInv, [Next]_vars PROVE TrackInv'
  OBVIOUS
<1>1. CASE UNCHANGED vars
  BY <1>1 DEF vars, dirs, committed, tx, history, TrackInv, Exists, Told, Busy
<1>2. ASSUME NEW x \in Recording, Arrive(x) PROVE TrackInv'
  BY <1>2 DEF Arrive, committed, tx, TrackInv, Exists, Told, Busy
<1>3. CASE Commit
  <2>1. /\ row' = txRow /\ pc' = "idle" /\ pc = "next"
        /\ UNCHANGED <<silver, undone>>
    BY <1>3 DEF Commit, dirs, history
  <2> QED
    BY <2>1 DEF TrackInv, Exists, Told, Busy
<1>4. CASE Rollback
  <2>1. /\ pc' = "idle" /\ todo' = {} /\ undone' = undone \cup moved
        /\ UNCHANGED <<silver, row>>
    BY <1>4 DEF Rollback, dirs, committed
  <2> QED
    BY <2>1 DEF TrackInv, Exists, Told
<1> QED
  BY <1>1, <1>2, <1>3, <1>4, TrackBegin, TrackProcess, TrackMove,
     TrackMark DEF Next, BatchStep

(* TrackedUnlessUndone: between batches, whatever is in silver has a row   *)
(* that is ready or failed, unless the batch that moved it was undone.     *)
THEOREM SilverIsTracked == Spec => []TrackedUnlessUndone
<1>1. Spec => [](IInv /\ TrackInv)
  BY IInvInit, IInvStep, TrackInit, TrackStep, PTL DEF Spec
<1>2. IInv /\ TrackInv => TrackedUnlessUndone
  BY DEF TrackInv, TrackedUnlessUndone, Told
<1> QED
  BY <1>1, <1>2, PTL
=============================================================================
