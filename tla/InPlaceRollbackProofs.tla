----------------------- MODULE InPlaceRollbackProofs -----------------------
(***************************************************************************)
(* Proofs about InPlaceRollback for every set of files and jobs, every     *)
(* number of worker deaths and every point where the rebuild may raise.    *)
(***************************************************************************)
EXTENDS InPlaceRollback, FiniteSetTheorems, TLAPS

(* How far the rebuild is: the files the loop has left to write, and what  *)
(* the written ones were made of.                                          *)
Rebuilt ==
    /\ pc = "copying" =>
           /\ target # NoDir
           /\ DOMAIN target = File \ todo
           /\ \A f \in File \ todo : target[f] = backup[f]
    /\ pc = "stamping" =>
           /\ target # NoDir
           /\ DOMAIN target = File
           /\ \A f \in todo : target[f] = backup[f]
           /\ \A f \in File \ todo : target[f] = Edited(Op[job], backup[f])
    /\ pc = "writing" =>
           /\ target # NoDir
           /\ DOMAIN target = File \ todo
           /\ \A f \in File \ todo : target[f] = Edited(Op[job], backup[f])

(* The inductive strengthening of Recoverable: which of the two copies is  *)
(* the whole one in each phase, as long as no backup was torn.             *)
CopyInv ==
    /\ Whole(target) \/ Whole(backup)
    /\ pc \in Rebuilding \cup {"undoing", "restoring"} => Whole(backup)
    /\ pc = "dropping" => Whole(target)
    /\ Rebuilt

(* A directory stays a directory when a file is written or removed, and    *)
(* editing a version gives a version.                                      *)
LEMMA WithIsDir ==
    ASSUME NEW d, IsDir(d), NEW f \in File, NEW v \in Version
    PROVE  IsDir(With(d, f, v)) /\ With(d, f, v) # NoDir
<1>1. PICK S \in SUBSET File : d \in [S -> Version]
  BY DEF IsDir
<1>2. With(d, f, v) \in [S \cup {f} -> Version]
  BY <1>1 DEF With
<1>3. S \cup {f} \in SUBSET File
  BY <1>1
<1> QED
  BY <1>2, <1>3, NoDirAssumption DEF IsDir

LEMMA WithoutIsDir ==
    ASSUME NEW d, IsDir(d), NEW f
    PROVE  IsDir(Without(d, f)) /\ Without(d, f) # NoDir
<1>1. PICK S \in SUBSET File : d \in [S -> Version]
  BY DEF IsDir
<1>2. Without(d, f) \in [S \ {f} -> Version]
  BY <1>1 DEF Without
<1>3. S \ {f} \in SUBSET File
  BY <1>1
<1> QED
  BY <1>2, <1>3, NoDirAssumption DEF IsDir

LEMMA ExceptIsDir ==
    ASSUME NEW d, IsDir(d), NEW f \in DOMAIN d, NEW v \in Version
    PROVE  IsDir([d EXCEPT ![f] = v]) /\ [d EXCEPT ![f] = v] # NoDir
<1>1. PICK S \in SUBSET File : d \in [S -> Version]
  BY DEF IsDir
<1>2. [d EXCEPT ![f] = v] \in [S -> Version]
  BY <1>1
<1> QED
  BY <1>1, <1>2, NoDirAssumption DEF IsDir

LEMMA EmptyIsDir == IsDir(EmptyDir) /\ EmptyDir # NoDir /\ DOMAIN EmptyDir = {}
<1>1. EmptyDir \in [{} -> Version] /\ DOMAIN EmptyDir = {}
  BY DEF EmptyDir
<1> QED
  BY <1>1, NoDirAssumption DEF IsDir

LEMMA EditedIsVersion ==
    ASSUME NEW op, NEW v \in Version
    PROVE  Edited(op, v) \in Version
<1>1. v.cuts + 1 \in Nat
  BY DEF Version
<1> QED
  BY <1>1 DEF Edited, Version

LEMMA FileOfDir ==
    ASSUME NEW d, IsDir(d), NEW f \in DOMAIN d
    PROVE  f \in File /\ d[f] \in Version
BY DEF IsDir

-----------------------------------------------------------------------------
(* Every directory and file a step reads exists: the backup while the      *)
(* target is rebuilt, dropped or undone, the target while it is filled.    *)
Readable ==
    /\ pc \in Rebuilding \cup {"dropping", "undoing", "restoring"} =>
           IsDir(backup)
    /\ pc \in {"copying", "stamping", "writing"} => IsDir(target)
    /\ pc \in {"copying", "writing"} => todo \subseteq DOMAIN backup
    /\ pc = "stamping" => todo \subseteq DOMAIN target

LEMMA TypeInit == Init => TypeOK /\ Readable
<1> SUFFICES ASSUME Init PROVE TypeOK /\ Readable
  OBVIOUS
<1>1. Copies(Original) \in [File -> Version]
  BY DEF Copies, Original, Version
<1>2. IsDir(target)
  BY <1>1 DEF Init, IsDir
<1> QED
  BY <1>2, JobAssumption, FaultsAssumption
  DEF Init, TypeOK, Readable, PC, Rebuilding

LEMMA TypeStep == TypeOK /\ Readable /\ [Next]_vars => TypeOK' /\ Readable'
<1> SUFFICES ASSUME TypeOK, Readable, [Next]_vars
             PROVE  TypeOK' /\ Readable'
  OBVIOUS
<1> USE DEF TypeOK, Readable, PC, Rebuilding, dirs
<1>1. CASE UNCHANGED vars
  BY <1>1 DEF vars, IsDir
<1>2. ASSUME NEW j \in Job, Submit(j) PROVE TypeOK' /\ Readable'
  BY <1>2 DEF Submit, IsDir
<1>3. ASSUME NEW j \in Job, SetAside(j) PROVE TypeOK' /\ Readable'
  <2>1. CASE CanRename(target, backup)
    BY <1>3, <2>1 DEF SetAside, CanRename, IsDir
  <2>2. CASE ~ CanRename(target, backup)
    BY <1>3, <2>2 DEF SetAside, IsDir
  <2> QED
    BY <2>1, <2>2
<1>4. CASE MakeDir
  <2>1. DOMAIN backup \subseteq File
    BY <1>4, FileOfDir DEF MakeDir
  <2>2. IsDir(target')
    BY <1>4, EmptyIsDir DEF MakeDir
  <2>3. IsDir(backup')
    BY <1>4 DEF MakeDir, IsDir
  <2> QED
    BY <1>4, <2>1, <2>2, <2>3 DEF MakeDir
<1>5. ASSUME NEW f \in File, CopyFile(f) PROVE TypeOK' /\ Readable'
  <2>1. backup[f] \in Version
    BY <1>5, FileOfDir DEF CopyFile
  <2>2. IsDir(target')
    BY <1>5, <2>1, WithIsDir DEF CopyFile
  <2>3. IsDir(backup')
    BY <1>5 DEF CopyFile, IsDir
  <2> QED
    BY <1>5, <2>2, <2>3 DEF CopyFile
<1>6. CASE CheckCopy
  <2>1. DOMAIN target \subseteq File
    BY <1>6, FileOfDir DEF CheckCopy
  <2>2. IsDir(target') /\ IsDir(backup')
    BY <1>6 DEF CheckCopy, IsDir
  <2> QED
    BY <1>6, <2>1, <2>2 DEF CheckCopy
<1>7. ASSUME NEW f \in File, StampFile(f) PROVE TypeOK' /\ Readable'
  <2>1. PICK S \in SUBSET File : target \in [S -> Version]
    BY <1>7 DEF StampFile, IsDir
  <2>2. f \in S /\ Edited(Op[job], target[f]) \in Version
    BY <1>7, <2>1, EditedIsVersion DEF StampFile
  <2>3. target' \in [S -> Version]
    BY <1>7, <2>1, <2>2 DEF StampFile
  <2>4. IsDir(target') /\ IsDir(backup')
    BY <1>7, <2>3 DEF StampFile, IsDir
  <2> QED
    BY <1>7, <2>1, <2>3, <2>4 DEF StampFile, Progress
<1>8. ASSUME NEW f \in File, WriteFile(f) PROVE TypeOK' /\ Readable'
  <2>1. Edited(Op[job], backup[f]) \in Version
    BY <1>8, FileOfDir, EditedIsVersion DEF WriteFile
  <2>2. IsDir(target')
    BY <1>8, <2>1, WithIsDir DEF WriteFile
  <2>3. IsDir(backup')
    BY <1>8 DEF WriteFile, IsDir
  <2> QED
    BY <1>8, <2>2, <2>3 DEF WriteFile, Progress
<1>9. CASE RebuildRaises
  BY <1>9 DEF RebuildRaises, IsDir
<1>10. ASSUME NEW f \in File, DropFile(f) PROVE TypeOK' /\ Readable'
  <2>1. IsDir(backup')
    BY <1>10, WithoutIsDir DEF DropFile
  <2>2. IsDir(target') \/ target' = NoDir
    BY <1>10 DEF DropFile, IsDir
  <2> QED
    BY <1>10, <2>1, <2>2 DEF DropFile
<1>11. CASE DropDir
  BY <1>11 DEF DropDir, IsDir
<1>12. CASE DropRaises
  BY <1>12, FaultsAssumption DEF DropRaises, IsDir
<1>13. ASSUME NEW f \in File, UndoFile(f) PROVE TypeOK' /\ Readable'
  <2>1. IsDir(target')
    BY <1>13, WithoutIsDir DEF UndoFile, Files
  <2>2. IsDir(backup')
    BY <1>13 DEF UndoFile, IsDir
  <2> QED
    BY <1>13, <2>1, <2>2 DEF UndoFile
<1>14. CASE UndoDir
  BY <1>14 DEF UndoDir, IsDir
<1>15. CASE PutBack
  BY <1>15 DEF PutBack, IsDir
<1>16. CASE Report
  BY <1>16 DEF Report, IsDir
<1>17. CASE ReportLost
  BY <1>17, FaultsAssumption DEF ReportLost, IsDir
<1>18. CASE Crash
  BY <1>18, FaultsAssumption DEF Crash, IsDir
<1>19. CASE Restart
  BY <1>19 DEF Restart, IsDir
<1>20. CASE UndoRaises
  BY <1>20, FaultsAssumption DEF UndoRaises, IsDir
<1> QED
  BY <1>1, <1>2, <1>3, <1>4, <1>5, <1>6, <1>7, <1>8, <1>9, <1>10, <1>11,
     <1>12, <1>13, <1>14, <1>15, <1>16, <1>17, <1>18, <1>19, <1>20
  DEF Next

(* Type correctness, for every instance.                                   *)
THEOREM TypeCorrect == Spec => []TypeOK
<1>1. Spec => [](TypeOK /\ Readable)
  BY TypeInit, TypeStep, PTL DEF Spec
<1> QED
  BY <1>1, PTL

-----------------------------------------------------------------------------
(* The rebuild of a whole backup ends in a whole target.                   *)
LEMMA CopyInit == Init => CopyInv
<1> SUFFICES ASSUME Init PROVE CopyInv
  OBVIOUS
<1>1. IsDir(target)
  BY TypeInit, NoDirAssumption DEF Init, TypeOK, Copies, IsDir, Original, Version
<1>2. Whole(target)
  BY <1>1, NoDirAssumption DEF Init, Whole, Copies
<1> QED
  BY <1>2 DEF Init, CopyInv, Rebuilt, Rebuilding

LEMMA CopyStep ==
    ASSUME mishap' # "part",
           TypeOK, Readable, CopyInv, [Next]_vars
    PROVE  CopyInv'
<1> USE DEF CopyInv, Rebuilding, dirs
<1>1. CASE UNCHANGED vars
  BY <1>1 DEF vars, Rebuilt, Whole
<1>2. ASSUME NEW j \in Job, Submit(j) PROVE CopyInv'
  BY <1>2 DEF Submit, Rebuilt, Whole
<1>3. ASSUME NEW j \in Job, SetAside(j) PROVE CopyInv'
  <2>1. CASE CanRename(target, backup)
    <3>1. ~ Whole(backup)
      BY <2>1, FileAssumption DEF CanRename, Files, Whole
    <3>2. Whole(backup')
      BY <1>3, <2>1, <3>1 DEF SetAside, Whole
    <3> QED
      BY <1>3, <2>1, <3>2 DEF SetAside, Rebuilt
  <2>2. CASE ~ CanRename(target, backup)
    BY <1>3, <2>2 DEF SetAside, Rebuilt, Whole
  <2> QED
    BY <2>1, <2>2
<1>4. CASE MakeDir
  <2>1. Whole(backup) /\ Whole(backup)' /\ todo' = File
    BY <1>4 DEF MakeDir, Whole
  <2>2. target' = EmptyDir /\ pc' \in {"copying", "writing"}
    BY <1>4 DEF MakeDir
  <2> QED
    BY <2>1, <2>2, EmptyIsDir DEF Rebuilt
<1>5. ASSUME NEW f \in File, CopyFile(f) PROVE CopyInv'
  <2>1. Whole(backup) /\ Whole(backup)'
    BY <1>5 DEF CopyFile, Whole
  <2>2. target' = With(target, f, backup[f]) /\ IsDir(target)
    BY <1>5 DEF CopyFile, Readable
  <2>3. target' # NoDir
    BY <1>5, <2>2, WithIsDir, FileOfDir DEF CopyFile, Readable
  <2>4. DOMAIN target' = File \ todo'
    BY <1>5, <2>2 DEF CopyFile, Rebuilt, With
  <2>5. \A g \in File \ todo' : target'[g] = backup'[g]
    BY <1>5, <2>2 DEF CopyFile, Rebuilt, With
  <2> QED
    BY <1>5, <2>1, <2>3, <2>4, <2>5 DEF CopyFile, Rebuilt
<1>6. CASE CheckCopy
  <2>1. Whole(backup) /\ Whole(backup)'
    BY <1>6 DEF CheckCopy, Whole
  <2>2. DOMAIN target = File /\ target # NoDir
        /\ \A f \in File : target[f] = backup[f]
    BY <1>6 DEF CheckCopy, Rebuilt
  <2> QED
    BY <1>6, <2>1, <2>2 DEF CheckCopy, Rebuilt
<1>7. ASSUME NEW f \in File, StampFile(f) PROVE CopyInv'
  <2>1. Whole(backup) /\ Whole(backup)'
    BY <1>7 DEF StampFile, Whole
  <2>2. /\ DOMAIN target' = File
        /\ \A g \in todo' : target'[g] = backup[g]
        /\ \A g \in File \ todo' : target'[g] = Edited(Op[job], backup[g])
    BY <1>7 DEF StampFile, Progress, Rebuilt, Readable
  <2>3. target' # NoDir
    <3>1. f \in DOMAIN target /\ IsDir(target)
      BY <1>7 DEF StampFile, Readable
    <3>2. Edited(Op[job], target[f]) \in Version
      BY <3>1, FileOfDir, EditedIsVersion
    <3>3. target' = [target EXCEPT ![f] = Edited(Op[job], target[f])]
      BY <1>7 DEF StampFile
    <3> QED
      BY <3>1, <3>2, <3>3, ExceptIsDir
  <2>4. CASE todo = {f}
    BY <1>7, <2>1, <2>2, <2>3, <2>4 DEF StampFile, Progress, Rebuilt, Whole
  <2>5. CASE todo # {f}
    BY <1>7, <2>1, <2>2, <2>3, <2>5 DEF StampFile, Progress, Rebuilt
  <2> QED
    BY <2>4, <2>5
<1>8. ASSUME NEW f \in File, WriteFile(f) PROVE CopyInv'
  <2>1. Whole(backup) /\ Whole(backup)'
    BY <1>8 DEF WriteFile, Whole
  <2>2. target' # NoDir
    BY <1>8, WithIsDir, FileOfDir, EditedIsVersion DEF WriteFile, Readable
  <2>3. /\ DOMAIN target' = File \ todo'
        /\ \A g \in File \ todo' : target'[g] = Edited(Op[job], backup[g])
    BY <1>8 DEF WriteFile, Progress, Rebuilt, With
  <2>4. CASE todo = {f}
    BY <1>8, <2>1, <2>2, <2>3, <2>4 DEF WriteFile, Progress, Rebuilt, Whole
  <2>5. CASE todo # {f}
    BY <1>8, <2>1, <2>2, <2>3, <2>5 DEF WriteFile, Progress, Rebuilt
  <2> QED
    BY <2>4, <2>5
<1>9. CASE RebuildRaises
  BY <1>9 DEF RebuildRaises, Rebuilt, Whole
<1>10. ASSUME NEW f \in File, DropFile(f) PROVE CopyInv'
  BY <1>10 DEF DropFile, Rebuilt, Whole
<1>11. CASE DropDir
  BY <1>11 DEF DropDir, Rebuilt, Whole
<1>12. CASE DropRaises
  BY <1>12 DEF DropRaises, Rebuilt, Whole
<1>13. ASSUME NEW f \in File, UndoFile(f) PROVE CopyInv'
  BY <1>13 DEF UndoFile, Rebuilt, Whole
<1>14. CASE UndoDir
  BY <1>14 DEF UndoDir, Rebuilt, Whole
<1>15. CASE PutBack
  BY <1>15 DEF PutBack, Rebuilt, Whole
<1>16. CASE Report
  BY <1>16 DEF Report, Rebuilt, Whole
<1>17. CASE ReportLost
  BY <1>17 DEF ReportLost, Rebuilt, Whole
<1>18. CASE Crash
  BY <1>18 DEF Crash, Rebuilt, Whole
<1>19. CASE Restart
  BY <1>19 DEF Restart, Rebuilt, Whole
<1>20. CASE UndoRaises
  BY <1>20 DEF UndoRaises, Rebuilt, Whole
<1> QED
  BY <1>1, <1>2, <1>3, <1>4, <1>5, <1>6, <1>7, <1>8, <1>9, <1>10, <1>11,
     <1>12, <1>13, <1>14, <1>15, <1>16, <1>17, <1>18, <1>19, <1>20
  DEF Next

(* A torn backup, or one that was put back, is not forgotten.              *)
LEMMA MishapStays ==
    ASSUME TypeOK, [Next]_vars
    PROVE  /\ mishap = "part" => mishap' = "part"
           /\ mishap # "none" => mishap' # "none"
BY DEF TypeOK, Next, vars, Submit, SetAside, MakeDir, CopyFile, CheckCopy,
   StampFile, WriteFile, RebuildRaises, DropFile, DropDir, DropRaises,
   UndoRaises, UndoFile, UndoDir, PutBack, Report, ReportLost, Crash, Restart

(* Unless the removal of a backup raised half-way, a whole copy of the     *)
(* dataset exists at every moment of every execution: worker deaths,       *)
(* failing rebuilds, removals of the target that raise and removals of the *)
(* backup that raise before they removed anything included.                *)
THEOREM NothingIsLost == Spec => []Recoverable
<1> DEFINE Inv == TypeOK /\ Readable /\ (mishap = "part" \/ CopyInv)
<1>1. Init => Inv
  BY TypeInit, CopyInit
<1>2. Inv /\ [Next]_vars => Inv'
  BY TypeStep, CopyStep, MishapStays
<1>3. Inv => Recoverable
  BY DEF CopyInv, Recoverable
<1> QED
  BY <1>1, <1>2, <1>3, PTL DEF Spec
-----------------------------------------------------------------------------
(* What a finished job leaves.  The job in hand is running, and its backup *)
(* is gone when it returns.                                                *)
Stamps == {"stamp", "restamp"}

InHand ==
    /\ pc \notin {"idle", "down"} => job \in Job /\ verdict[job] = "running"
    /\ pc \in {"copying", "stamping"} => Op[job] \in Stamps
    /\ pc = "writing" => Op[job] = "delete"
    /\ pc = "returned" => backup = NoDir
    /\ pc \in {"dropping", "returned"} => applied[job] >= 1
    /\ \A j \in Job : verdict[j] = "complete" => applied[j] >= 1

AllStamped(d) == \A f \in Files(d) : d[f].stamped

(* Once a job has stamped the dataset, the copy that counts is stamped:    *)
(* the one at the path, and while that is being rebuilt the backup.  The   *)
(* backup of the job itself may stay unstamped if the job dies dropping    *)
(* it, but then it never completes.                                        *)
SomeStamped == \E j \in Job : Op[j] \in Stamps /\ applied[j] >= 1

BackupCounts ==
    pc \in Rebuilding \cup {"undoing", "restoring"} \/ ~ Whole(target)

SingleStamps == \A j \in Job : Op[j] = "stamp" => applied[j] <= 1

StampInv ==
    /\ SomeStamped => AllStamped(target) /\ (BackupCounts => AllStamped(backup))
    /\ Completed(Stamps) # {} => AllStamped(backup)
    /\ pc = "stamping" /\ Op[job] = "stamp" =>
           \A f \in Files(backup) : ~ backup[f].stamped
    /\ SingleStamps

(* Every file carries the completed deletions, and before the deletion in  *)
(* hand is reported the dataset has one more.                              *)
Deletions == Cardinality(Completed({"delete"}))

CutInv ==
    /\ IsFiniteSet(Completed({"delete"}))
    /\ \A f \in Files(target) : Deletions <= target[f].cuts
    /\ \A f \in Files(backup) : Deletions <= backup[f].cuts
    /\ pc \in {"writing", "dropping", "returned"} /\ Op[job] = "delete" =>
           \A f \in Files(target) : Deletions + 1 <= target[f].cuts

LEMMA InHandInit == Init => InHand
BY DEF Init, InHand

LEMMA InHandStep ==
    ASSUME TypeOK, InHand, [Next]_vars PROVE InHand'
<1> USE DEF InHand, TypeOK, Rebuilding
<1>1. CASE UNCHANGED vars
  BY <1>1 DEF vars, dirs
<1>2. ASSUME NEW j \in Job, Submit(j) PROVE InHand'
  BY <1>2 DEF Submit, dirs
<1>3. ASSUME NEW j \in Job, SetAside(j) PROVE InHand'
  BY <1>3 DEF SetAside
<1>4. CASE MakeDir
  BY <1>4, JobAssumption DEF MakeDir, Stamps
<1>5. ASSUME NEW f \in File, CopyFile(f) PROVE InHand'
  BY <1>5 DEF CopyFile
<1>6. CASE CheckCopy
  BY <1>6 DEF CheckCopy, dirs
<1>7. ASSUME NEW f \in File, StampFile(f) PROVE InHand'
  BY <1>7 DEF StampFile, Progress
<1>8. ASSUME NEW f \in File, WriteFile(f) PROVE InHand'
  BY <1>8 DEF WriteFile, Progress
<1>9. CASE RebuildRaises
  BY <1>9 DEF RebuildRaises, dirs
<1>10. ASSUME NEW f \in File, DropFile(f) PROVE InHand'
  BY <1>10 DEF DropFile
<1>11. CASE DropDir
  BY <1>11 DEF DropDir
<1>12. CASE DropRaises
  BY <1>12 DEF DropRaises, dirs
<1>13. ASSUME NEW f \in File, UndoFile(f) PROVE InHand'
  BY <1>13 DEF UndoFile
<1>14. CASE UndoDir
  BY <1>14 DEF UndoDir
<1>15. CASE PutBack
  BY <1>15 DEF PutBack
<1>16. CASE Report
  BY <1>16 DEF Report, dirs
<1>17. CASE ReportLost
  BY <1>17 DEF ReportLost, dirs
<1>18. CASE Crash
  BY <1>18 DEF Crash, dirs
<1>19. CASE Restart
  BY <1>19 DEF Restart, dirs
<1>20. CASE UndoRaises
  BY <1>20 DEF UndoRaises, dirs
<1> QED
  BY <1>1, <1>2, <1>3, <1>4, <1>5, <1>6, <1>7, <1>8, <1>9, <1>10, <1>11,
     <1>12, <1>13, <1>14, <1>15, <1>16, <1>17, <1>18, <1>19, <1>20
  DEF Next

(* A step that finishes no job and completes none.                         *)
LEMMA StampKept ==
    ASSUME StampInv, applied' = applied, Completed(Stamps)' = Completed(Stamps),
           SomeStamped => AllStamped(target)' /\ (BackupCounts' => AllStamped(backup)'),
           Completed(Stamps) # {} => AllStamped(backup)',
           pc' = "stamping" => pc = "stamping" /\ job' = job /\ backup' = backup
    PROVE  StampInv'
<1>1. SomeStamped' <=> SomeStamped
  BY DEF SomeStamped
<1>2. SingleStamps'
  BY DEF StampInv, SingleStamps
<1>3. pc' = "stamping" /\ Op[job'] = "stamp" =>
          \A f \in Files(backup)' : ~ backup'[f].stamped
  BY DEF StampInv, Files
<1> QED
  BY <1>1, <1>2, <1>3 DEF StampInv

LEMMA StampStep ==
    ASSUME TypeOK, Readable, CopyInv, CopyInv', InHand, StampInv, [Next]_vars,
           mishap' = "none"
    PROVE  StampInv'
<1> DEFINE Kept ==
        /\ applied' = applied
        /\ Completed(Stamps)' = Completed(Stamps)
        /\ SomeStamped => AllStamped(target)' /\ (BackupCounts' => AllStamped(backup)')
        /\ Completed(Stamps) # {} => AllStamped(backup)'
        /\ pc' = "stamping" => pc = "stamping" /\ job' = job /\ backup' = backup
<1>0. Kept => StampInv'
  BY StampKept
<1> HIDE DEF Kept
(* The directories stay as they are, and the backup counts no more than    *)
(* before.                                                                 *)
<1>a. ASSUME UNCHANGED <<target, backup, applied>>,
             Completed(Stamps)' = Completed(Stamps),
             pc' \in Rebuilding \cup {"undoing", "restoring"} => BackupCounts,
             pc' = "stamping" => pc = "stamping" /\ job' = job
      PROVE  StampInv'
  <2>1. AllStamped(target)' <=> AllStamped(target)
    BY <1>a DEF AllStamped, Files
  <2>2. AllStamped(backup)' <=> AllStamped(backup)
    BY <1>a DEF AllStamped, Files
  <2>3. BackupCounts' => BackupCounts
    BY <1>a DEF BackupCounts, Whole
  <2>4. Completed(Stamps) # {} => AllStamped(backup)
    BY DEF StampInv
  <2>5. Kept
    BY <1>a, <2>1, <2>2, <2>3, <2>4 DEF StampInv, Kept
  <2> QED
    BY <1>0, <2>5
<1>b. verdict' = verdict => Completed(Stamps)' = Completed(Stamps)
  BY DEF Completed
<1>1. CASE UNCHANGED vars
  BY <1>1, <1>a, <1>b DEF vars, dirs, BackupCounts
<1>2. ASSUME NEW j \in Job, Submit(j) PROVE StampInv'
  <2>1. Completed(Stamps)' = Completed(Stamps)
    BY <1>2 DEF Submit, Completed, TypeOK
  <2> QED
    BY <1>2, <1>a, <2>1 DEF Submit, dirs, BackupCounts
<1>3. ASSUME NEW j \in Job, SetAside(j) PROVE StampInv'
  <2>1. Completed(Stamps)' = Completed(Stamps)
    BY <1>3 DEF SetAside, Completed, TypeOK
  <2>2. CASE CanRename(target, backup)
    <3>1. /\ target' = NoDir /\ backup' = target /\ applied' = applied
          /\ pc' = "making"
      BY <1>3, <2>2 DEF SetAside
    <3>2. AllStamped(target)' /\ (AllStamped(target) => AllStamped(backup)')
      BY <3>1 DEF AllStamped, Files
    <3>3. Completed(Stamps) # {} => SomeStamped
      BY DEF Completed, SomeStamped, InHand
    <3>4. Kept
      BY <2>1, <3>1, <3>2, <3>3 DEF StampInv, Kept
    <3> QED
      BY <1>0, <3>4
  <2>3. CASE ~ CanRename(target, backup)
    BY <1>3, <1>a, <2>1, <2>3 DEF SetAside, dirs, Rebuilding
  <2> QED
    BY <2>2, <2>3
<1>4. CASE MakeDir
  <2>1. /\ target' = EmptyDir /\ pc = "making" /\ pc' \in {"copying", "writing"}
        /\ UNCHANGED <<backup, verdict, applied>>
    BY <1>4 DEF MakeDir
  <2>2. AllStamped(target)' /\ (AllStamped(backup)' <=> AllStamped(backup))
    BY <2>1, EmptyIsDir DEF AllStamped, Files
  <2>3. Kept
    BY <1>b, <2>1, <2>2 DEF StampInv, BackupCounts, Rebuilding, Kept
  <2> QED
    BY <1>0, <2>3
<1>5. ASSUME NEW f \in File, CopyFile(f) PROVE StampInv'
  <2>1. /\ target' = With(target, f, backup[f]) /\ pc = "copying" /\ f \in todo
        /\ UNCHANGED <<backup, verdict, applied, pc>>
    BY <1>5 DEF CopyFile
  <2>2. f \in Files(backup) /\ IsDir(target) /\ backup # NoDir
    BY <2>1, NoDirAssumption DEF Readable, Rebuilding, Files
  <2>3. BackupCounts /\ target # NoDir
    BY <2>1, <2>2, NoDirAssumption DEF BackupCounts, Rebuilding
  <2>4. AllStamped(target) /\ AllStamped(backup) => AllStamped(target)'
    BY <2>1, <2>2, <2>3 DEF AllStamped, Files, With
  <2>5. AllStamped(backup)' <=> AllStamped(backup)
    BY <2>1 DEF AllStamped, Files
  <2>6. Kept
    BY <1>b, <2>1, <2>3, <2>4, <2>5 DEF StampInv, Kept
  <2> QED
    BY <1>0, <2>6
<1>6. CASE CheckCopy
  <2>1. /\ pc = "copying" /\ todo = {} /\ UNCHANGED <<target, backup, verdict, applied, job>>
        /\ pc' = IF Refused THEN "undoing" ELSE "stamping"
    BY <1>6 DEF CheckCopy, dirs
  <2>2. CASE Refused
    BY <1>a, <1>b, <2>1, <2>2 DEF BackupCounts, Rebuilding
  <2>3. CASE ~ Refused
    <3>1. DOMAIN target = File /\ \A f \in File : target[f] = backup[f]
      BY <2>1 DEF CopyInv, Rebuilt
    <3>2. Op[job] = "stamp" => \A f \in File : ~ backup[f].stamped
      BY <2>3, <3>1 DEF Refused
    <3>3. Files(backup) \subseteq File
      BY <2>1, FileOfDir DEF Readable, Rebuilding, Files
    <3>4. /\ SomeStamped' <=> SomeStamped
          /\ AllStamped(target)' <=> AllStamped(target)
          /\ AllStamped(backup)' <=> AllStamped(backup)
          /\ BackupCounts /\ SingleStamps'
      BY <2>1 DEF SomeStamped, AllStamped, Files, BackupCounts, Rebuilding,
         StampInv, SingleStamps
    <3>5. \A f \in Files(backup)' : Op[job'] = "stamp" => ~ backup'[f].stamped
      BY <2>1, <3>2, <3>3 DEF Files
    <3> QED
      BY <1>b, <2>1, <3>4, <3>5 DEF StampInv
  <2> QED
    BY <2>2, <2>3
<1>7. ASSUME NEW f \in File, StampFile(f) PROVE StampInv'
  <2>1. /\ pc = "stamping" /\ f \in todo /\ Progress(f)
        /\ target' = [target EXCEPT ![f] = Edited(Op[job], @)]
        /\ UNCHANGED <<backup, job, verdict>>
    BY <1>7 DEF StampFile
  <2>2. /\ target # NoDir /\ DOMAIN target = File
        /\ \A g \in todo : target[g] = backup[g]
        /\ \A g \in File \ todo : target[g] = Edited(Op[job], backup[g])
        /\ todo \subseteq File
    BY <2>1 DEF CopyInv, Rebuilt, TypeOK
  <2>3. Whole(backup) /\ BackupCounts /\ Files(backup) = File
    BY <2>1 DEF CopyInv, BackupCounts, Rebuilding, Whole, Files
  <2>4. Op[job] # "delete" /\ job \in Job
    BY <2>1 DEF InHand, Stamps
  <2>5. /\ \A g \in File : target[g] \in Version
        /\ \A g \in File : backup[g] \in Version
    <3>1. IsDir(target) /\ IsDir(backup) /\ DOMAIN backup = File
      BY <2>1, <2>3 DEF Readable, Rebuilding, Whole
    <3> QED
      BY <2>2, <3>1, FileOfDir
  <2>6. \A v \in Version : Edited(Op[job], v).stamped
    BY <2>4 DEF Edited, Version
  <2>7. /\ DOMAIN target' = File /\ target'[f].stamped
        /\ \A g \in File \ {f} : target'[g] = target[g]
    BY <2>1, <2>2, <2>5, <2>6
  <2>8. Files(target)' \subseteq File /\ (AllStamped(backup)' <=> AllStamped(backup))
    BY <2>1, <2>7 DEF Files, AllStamped
  <2>9. AllStamped(target) => AllStamped(target)'
    BY <2>2, <2>7, <2>8 DEF AllStamped, Files
  <2>10. CASE todo # {f}
    <3>1. Kept
      BY <1>b, <2>1, <2>3, <2>8, <2>9, <2>10 DEF Progress, StampInv, Kept
    <3> QED
      BY <1>0, <3>1
  <2>11. CASE todo = {f}
    <3>1. /\ pc' = "dropping" /\ applied' = [applied EXCEPT ![job] = @ + 1]
          /\ Completed(Stamps)' = Completed(Stamps)
      BY <1>b, <2>1, <2>11 DEF Progress
    <3>2. AllStamped(target)'
      BY <2>2, <2>5, <2>6, <2>7, <2>8, <2>11 DEF AllStamped
    <3>3. ~ BackupCounts'
      BY <3>1 DEF BackupCounts, Rebuilding, CopyInv
    <3>4. Completed(Stamps) # {} => AllStamped(backup)'
      BY <2>8 DEF StampInv
    <3>5. Op[job] = "stamp" => ~ SomeStamped
      <4>1. \A g \in Files(backup) : Op[job] = "stamp" => ~ backup[g].stamped
        BY <2>1 DEF StampInv
      <4> QED
        BY <2>3, <4>1, FileAssumption DEF StampInv, AllStamped
    <3>6. SingleStamps'
      <4> SUFFICES ASSUME NEW j \in Job, Op[j] = "stamp" PROVE applied'[j] <= 1
        BY DEF SingleStamps
      <4>1. CASE j = job
        <5>1. ~ (applied[job] >= 1) /\ applied[job] \in Nat
          BY <2>4, <3>5, <4>1 DEF SomeStamped, Stamps, TypeOK
        <5> QED
          BY <2>4, <3>1, <4>1, <5>1 DEF TypeOK
      <4>2. CASE j # job
        BY <3>1, <4>2 DEF StampInv, SingleStamps, TypeOK
      <4> QED
        BY <4>1, <4>2
    <3> QED
      BY <3>1, <3>2, <3>3, <3>4, <3>6 DEF StampInv
  <2> QED
    BY <2>10, <2>11
<1>8. ASSUME NEW f \in File, WriteFile(f) PROVE StampInv'
  <2>1. /\ pc = "writing" /\ f \in todo /\ Progress(f)
        /\ target' = With(target, f, Edited(Op[job], backup[f]))
        /\ UNCHANGED <<backup, job, verdict>>
    BY <1>8 DEF WriteFile
  <2>2. Op[job] = "delete" /\ job \in Job
    BY <2>1 DEF InHand
  <2>3. /\ Whole(backup) /\ BackupCounts /\ f \in Files(backup)
        /\ target # NoDir /\ IsDir(backup)
    BY <2>1 DEF CopyInv, Rebuilt, BackupCounts, Rebuilding, Whole, Files, Readable
  <2>4. backup[f] \in Version
    BY <2>3, FileOfDir DEF Files
  <2>5. Edited(Op[job], backup[f]).stamped = backup[f].stamped
    BY <2>2, <2>4 DEF Edited, Version
  <2>6. AllStamped(target) /\ AllStamped(backup) => AllStamped(target)'
    BY <2>1, <2>3, <2>5 DEF AllStamped, Files, With
  <2>7. AllStamped(backup)' <=> AllStamped(backup)
    BY <2>1 DEF AllStamped, Files
  <2>8. SomeStamped' <=> SomeStamped
    BY <2>1, <2>2 DEF SomeStamped, Progress, Stamps, TypeOK
  <2>9. SingleStamps'
    BY <2>1, <2>2 DEF StampInv, SingleStamps, Progress, TypeOK
  <2>10. pc' # "stamping"
    BY <2>1 DEF Progress
  <2> QED
    BY <1>b, <2>1, <2>3, <2>6, <2>7, <2>8, <2>9, <2>10 DEF StampInv
<1>9. CASE RebuildRaises
  BY <1>9, <1>a, <1>b DEF RebuildRaises, dirs, BackupCounts
<1>10. ASSUME NEW f \in File, DropFile(f) PROVE StampInv'
  <2>1. /\ pc = "dropping" /\ backup' = Without(backup, f)
        /\ UNCHANGED <<target, pc, verdict, applied>>
    BY <1>10 DEF DropFile
  <2>2. /\ ~ BackupCounts'
        /\ AllStamped(target)' <=> AllStamped(target)
        /\ AllStamped(backup) => AllStamped(backup)'
    <3>1. ~ BackupCounts'
      BY <2>1 DEF BackupCounts, Rebuilding, CopyInv
    <3>2. AllStamped(target)' <=> AllStamped(target)
      BY <2>1 DEF AllStamped, Files
    <3>3. AllStamped(backup) => AllStamped(backup)'
      <4>1. Files(backup)' \subseteq Files(backup)
        BY <2>1, NoDirAssumption DEF Files, Without, Readable
      <4>2. \A g \in Files(backup)' : backup'[g] = backup[g]
        BY <2>1, <4>1 DEF Files, Without
      <4> QED
        BY <4>1, <4>2 DEF AllStamped
    <3> QED
      BY <3>1, <3>2, <3>3
  <2>3. Kept
    BY <1>b, <2>1, <2>2 DEF StampInv, Kept
  <2> QED
    BY <1>0, <2>3
<1>11. CASE DropDir
  <2>1. /\ pc = "dropping" /\ pc' = "returned" /\ backup' = NoDir
        /\ UNCHANGED <<target, verdict, applied>>
    BY <1>11 DEF DropDir
  <2>2. AllStamped(backup)' /\ (AllStamped(target)' <=> AllStamped(target))
    BY <2>1 DEF AllStamped, Files
  <2>3. Kept
    BY <1>b, <2>1, <2>2 DEF StampInv, Kept
  <2> QED
    BY <1>0, <2>3
<1>12. CASE DropRaises
  BY <1>12 DEF DropRaises
<1>13. ASSUME NEW f \in File, UndoFile(f) PROVE StampInv'
  <2>1. /\ pc = "undoing" /\ target' = Without(target, f) /\ f \in Files(target)
        /\ UNCHANGED <<backup, pc, verdict, applied>>
    BY <1>13 DEF UndoFile
  <2>2. \A g \in Files(target)' : g \in Files(target) /\ target'[g] = target[g]
    BY <2>1 DEF Files, Without
  <2>3. /\ BackupCounts
        /\ AllStamped(target) => AllStamped(target)'
        /\ AllStamped(backup)' <=> AllStamped(backup)
    BY <2>1, <2>2 DEF AllStamped, Files, BackupCounts
  <2>4. Kept
    BY <1>b, <2>1, <2>3 DEF StampInv, Kept
  <2> QED
    BY <1>0, <2>4
<1>14. CASE UndoDir
  <2>1. /\ pc = "undoing" /\ pc' = "restoring" /\ target' = NoDir
        /\ UNCHANGED <<backup, verdict, applied>>
    BY <1>14 DEF UndoDir
  <2>2. /\ BackupCounts /\ AllStamped(target)'
        /\ AllStamped(backup)' <=> AllStamped(backup)
    BY <2>1 DEF AllStamped, Files, BackupCounts
  <2>3. Kept
    BY <1>b, <2>1, <2>2 DEF StampInv, Kept
  <2> QED
    BY <1>0, <2>3
<1>15. CASE PutBack
  <2>1. /\ pc = "restoring" /\ pc' = "raised" /\ target' = backup /\ backup' = NoDir
        /\ UNCHANGED <<verdict, applied>>
    BY <1>15 DEF PutBack
  <2>2. /\ BackupCounts /\ AllStamped(backup)'
        /\ AllStamped(target)' <=> AllStamped(backup)
    BY <2>1 DEF AllStamped, Files, BackupCounts
  <2>3. Kept
    BY <1>b, <2>1, <2>2 DEF StampInv, Kept
  <2> QED
    BY <1>0, <2>3
<1>16. CASE Report
  <2>1. /\ pc \in {"returned", "raised"} /\ pc' = "idle"
        /\ UNCHANGED <<target, backup, applied>> /\ job \in Job
        /\ verdict[job] = "running"
        /\ verdict' = [verdict EXCEPT ![job] =
                           IF pc = "returned" THEN "complete" ELSE "failed"]
    BY <1>16 DEF Report, dirs, InHand
  <2>2. CASE pc = "raised"
    <3>1. Completed(Stamps)' = Completed(Stamps)
      BY <2>1, <2>2 DEF Completed, TypeOK
    <3> QED
      BY <1>a, <2>1, <3>1 DEF Rebuilding
  <2>3. CASE pc = "returned"
    <3>1. AllStamped(backup)' /\ (AllStamped(target)' <=> AllStamped(target))
      BY <2>1, <2>3 DEF InHand, AllStamped, Files
    <3>2. (SomeStamped' <=> SomeStamped) /\ SingleStamps'
      BY <2>1 DEF SomeStamped, StampInv, SingleStamps
    <3> QED
      BY <2>1, <3>1, <3>2 DEF StampInv
  <2> QED
    BY <2>1, <2>2, <2>3
<1>17. CASE ReportLost
  BY <1>17, <1>a, <1>b DEF ReportLost, dirs, Rebuilding
<1>18. CASE Crash
  BY <1>18, <1>a, <1>b DEF Crash, dirs, Rebuilding
<1>19. CASE Restart
  <2>1. Completed(Stamps)' = Completed(Stamps)
    BY <1>19 DEF Restart, Completed, TypeOK
  <2> QED
    BY <1>19, <1>a, <2>1 DEF Restart, dirs, Rebuilding
<1>20. CASE UndoRaises
  BY <1>20, <1>a, <1>b DEF UndoRaises, dirs, BackupCounts, Rebuilding
<1> QED
  BY <1>1, <1>2, <1>3, <1>4, <1>5, <1>6, <1>7, <1>8, <1>9, <1>10, <1>11,
     <1>12, <1>13, <1>14, <1>15, <1>16, <1>17, <1>18, <1>19, <1>20
  DEF Next

(* A step that completes no deletion.                                      *)
LEMMA CutKept ==
    ASSUME CutInv, Completed({"delete"})' = Completed({"delete"}),
           \A f \in Files(target)' : Deletions <= target'[f].cuts,
           \A f \in Files(backup)' : Deletions <= backup'[f].cuts,
           pc' \in {"writing", "dropping", "returned"} /\ Op[job'] = "delete" =>
               \A f \in Files(target)' : Deletions + 1 <= target'[f].cuts
    PROVE  CutInv'
<1>1. Deletions' = Deletions
  BY DEF Deletions
<1> QED
  BY <1>1 DEF CutInv, Files

LEMMA StampInit == Init => StampInv /\ CutInv
<1> SUFFICES ASSUME Init PROVE StampInv /\ CutInv
  OBVIOUS
<1>1. ~ SomeStamped /\ Completed(Stamps) = {} /\ SingleStamps
  BY DEF Init, SomeStamped, Completed, SingleStamps
<1>2. Completed({"delete"}) = {}
  BY DEF Init, Completed
<1>3. IsFiniteSet(Completed({"delete"})) /\ Deletions = 0
  BY <1>2, FS_EmptySet DEF Deletions
<1>4. \A f \in Files(target) : target[f].cuts = 0
  BY DEF Init, Copies, Original, Files
<1>5. Files(backup) = {} /\ pc = "idle"
  BY DEF Init, Files
<1> QED
  BY <1>1, <1>3, <1>4, <1>5 DEF StampInv, CutInv

LEMMA CutStep ==
    ASSUME TypeOK, Readable, InHand, CutInv, [Next]_vars
    PROVE  CutInv'
<1> DEFINE Kept ==
        /\ Completed({"delete"})' = Completed({"delete"})
        /\ \A f \in Files(target)' : Deletions <= target'[f].cuts
        /\ \A f \in Files(backup)' : Deletions <= backup'[f].cuts
        /\ pc' \in {"writing", "dropping", "returned"} /\ Op[job'] = "delete" =>
               \A f \in Files(target)' : Deletions + 1 <= target'[f].cuts
<1>0. Kept => CutInv'
  BY CutKept
<1> HIDE DEF Kept
<1>a. ASSUME UNCHANGED <<target, backup>>,
             Completed({"delete"})' = Completed({"delete"}),
             pc' \in {"writing", "dropping", "returned"} =>
                 pc' = pc /\ job' = job
      PROVE  CutInv'
  <2>1. Kept
    BY <1>a DEF CutInv, Files, Kept
  <2> QED
    BY <1>0, <2>1
<1>b. verdict' = verdict => Completed({"delete"})' = Completed({"delete"})
  BY DEF Completed
<1>c. Deletions \in Nat
  BY FS_CardinalityType DEF CutInv, Deletions
<1>1. CASE UNCHANGED vars
  BY <1>1, <1>a, <1>b DEF vars, dirs
<1>2. ASSUME NEW j \in Job, Submit(j) PROVE CutInv'
  <2>1. Completed({"delete"})' = Completed({"delete"})
    BY <1>2 DEF Submit, Completed, TypeOK
  <2> QED
    BY <1>2, <1>a, <2>1 DEF Submit, dirs
<1>3. ASSUME NEW j \in Job, SetAside(j) PROVE CutInv'
  <2>1. Completed({"delete"})' = Completed({"delete"})
    BY <1>3 DEF SetAside, Completed, TypeOK
  <2>2. CASE CanRename(target, backup)
    <3>1. Kept
      BY <1>3, <2>1, <2>2 DEF SetAside, CutInv, Files, Kept
    <3> QED
      BY <1>0, <3>1
  <2>3. CASE ~ CanRename(target, backup)
    BY <1>3, <1>a, <2>1, <2>3 DEF SetAside, dirs
  <2> QED
    BY <2>2, <2>3
<1>4. CASE MakeDir
  <2>1. Kept
    BY <1>4, <1>b, EmptyIsDir DEF MakeDir, CutInv, Files, Kept
  <2> QED
    BY <1>0, <2>1
<1>5. ASSUME NEW f \in File, CopyFile(f) PROVE CutInv'
  <2>1. /\ target' = With(target, f, backup[f]) /\ pc = "copying" /\ f \in todo
        /\ UNCHANGED <<backup, verdict, pc>>
    BY <1>5 DEF CopyFile
  <2>2. f \in Files(backup) /\ target # NoDir
    BY <2>1, NoDirAssumption DEF Readable, Rebuilding, Files
  <2>3. \A g \in Files(target)' : Deletions <= target'[g].cuts
    BY <2>1, <2>2 DEF CutInv, Files, With
  <2>4. Kept
    BY <1>b, <2>1, <2>3 DEF CutInv, Files, Kept
  <2> QED
    BY <1>0, <2>4
<1>6. CASE CheckCopy
  BY <1>6, <1>a, <1>b DEF CheckCopy, dirs
<1>7. ASSUME NEW f \in File, StampFile(f) PROVE CutInv'
  <2>1. /\ pc = "stamping" /\ f \in todo /\ Progress(f)
        /\ target' = [target EXCEPT ![f] = Edited(Op[job], @)]
        /\ UNCHANGED <<backup, job, verdict>>
    BY <1>7 DEF StampFile
  <2>2. f \in DOMAIN target /\ IsDir(target) /\ target # NoDir
    BY <2>1, NoDirAssumption DEF Readable, Rebuilding
  <2>3. target[f] \in Version
    BY <2>2, FileOfDir
  <2>4. Op[job] # "delete"
    BY <2>1 DEF InHand, Stamps
  <2>5. Edited(Op[job], target[f]).cuts = target[f].cuts
    BY <2>3, <2>4 DEF Edited, Version
  <2>6. \A g \in Files(target)' : g \in Files(target) /\ target'[g].cuts = target[g].cuts
    BY <2>1, <2>2, <2>5 DEF Files
  <2>7. Kept
    BY <1>b, <2>1, <2>4, <2>6 DEF CutInv, Files, Kept
  <2> QED
    BY <1>0, <2>7
<1>8. ASSUME NEW f \in File, WriteFile(f) PROVE CutInv'
  <2>1. /\ pc = "writing" /\ f \in todo /\ Progress(f)
        /\ target' = With(target, f, Edited(Op[job], backup[f]))
        /\ UNCHANGED <<backup, job, verdict>>
    BY <1>8 DEF WriteFile
  <2>2. Op[job] = "delete"
    BY <2>1 DEF InHand
  <2>3. /\ f \in DOMAIN backup /\ IsDir(backup) /\ backup # NoDir
        /\ target # NoDir
    BY <2>1, NoDirAssumption DEF Rebuilding, Readable
  <2>4. backup[f] \in Version /\ Deletions <= backup[f].cuts
    BY <2>3, FileOfDir DEF CutInv, Files
  <2>5. Edited(Op[job], backup[f]).cuts = backup[f].cuts + 1
    BY <2>2, <2>4 DEF Edited, Version
  <2>6. backup[f].cuts \in Nat
    BY <2>4 DEF Version
  <2>7. Deletions + 1 <= Edited(Op[job], backup[f]).cuts
    BY <1>c, <2>4, <2>5, <2>6
  <2>8. Deletions <= Edited(Op[job], backup[f]).cuts
    BY <1>c, <2>4, <2>5, <2>6
  <2>9. \A g \in Files(target)' : Deletions + 1 <= target'[g].cuts
    BY <2>1, <2>2, <2>3, <2>7 DEF CutInv, Files, With
  <2>10. \A g \in Files(target)' : Deletions <= target'[g].cuts
    BY <2>1, <2>3, <2>8 DEF CutInv, Files, With
  <2>11. Kept
    BY <1>b, <2>1, <2>9, <2>10 DEF CutInv, Files, Kept
  <2> QED
    BY <1>0, <2>11
<1>9. CASE RebuildRaises
  BY <1>9, <1>a, <1>b DEF RebuildRaises, dirs
<1>10. ASSUME NEW f \in File, DropFile(f) PROVE CutInv'
  <2>1. /\ pc = "dropping" /\ backup' = Without(backup, f)
        /\ UNCHANGED <<target, pc, job, verdict>>
    BY <1>10 DEF DropFile
  <2>2. \A g \in Files(backup)' : g \in Files(backup) /\ backup'[g] = backup[g]
    BY <2>1, NoDirAssumption DEF Files, Without, Readable
  <2>3. Kept
    BY <1>b, <2>1, <2>2 DEF CutInv, Files, Kept
  <2> QED
    BY <1>0, <2>3
<1>11. CASE DropDir
  <2>1. Kept
    BY <1>11, <1>b DEF DropDir, CutInv, Files, Kept
  <2> QED
    BY <1>0, <2>1
<1>12. CASE DropRaises
  BY <1>12, <1>a, <1>b DEF DropRaises, dirs
<1>13. ASSUME NEW f \in File, UndoFile(f) PROVE CutInv'
  <2>1. /\ pc = "undoing" /\ target' = Without(target, f)
        /\ f \in Files(target) /\ UNCHANGED <<backup, pc, verdict>>
    BY <1>13 DEF UndoFile
  <2>2. \A g \in Files(target)' : g \in Files(target) /\ target'[g] = target[g]
    BY <2>1 DEF Files, Without
  <2>3. Kept
    BY <1>b, <2>1, <2>2 DEF CutInv, Files, Kept
  <2> QED
    BY <1>0, <2>3
<1>14. CASE UndoDir
  <2>1. Kept
    BY <1>14, <1>b DEF UndoDir, CutInv, Files, Kept
  <2> QED
    BY <1>0, <2>1
<1>15. CASE PutBack
  <2>1. Kept
    BY <1>15, <1>b DEF PutBack, CutInv, Files, Kept
  <2> QED
    BY <1>0, <2>1
<1>16. CASE Report
  <2>1. /\ pc \in {"returned", "raised"} /\ pc' = "idle"
        /\ UNCHANGED <<target, backup>> /\ job \in Job
        /\ verdict[job] = "running"
        /\ verdict' = [verdict EXCEPT ![job] =
                           IF pc = "returned" THEN "complete" ELSE "failed"]
    BY <1>16 DEF Report, dirs, InHand
  <2>2. CASE pc = "raised" \/ Op[job] # "delete"
    <3>1. Completed({"delete"})' = Completed({"delete"})
      BY <2>1, <2>2 DEF Completed, TypeOK
    <3> QED
      BY <1>a, <2>1, <3>1
  <2>3. CASE pc = "returned" /\ Op[job] = "delete"
    <3>1. /\ Completed({"delete"})' = Completed({"delete"}) \cup {job}
          /\ job \notin Completed({"delete"})
      BY <2>1, <2>3 DEF Completed, TypeOK
    <3>2. IsFiniteSet(Completed({"delete"}))' /\ Deletions' = Deletions + 1
      BY <3>1, FS_AddElement DEF CutInv, Deletions
    <3>3. \A f \in Files(target)' : Deletions' <= target'[f].cuts
      BY <2>1, <2>3, <3>2 DEF CutInv, Files
    <3>4. Files(backup)' = {}
      BY <2>1, <2>3 DEF InHand, Files
    <3> QED
      BY <2>1, <3>2, <3>3, <3>4 DEF CutInv
  <2> QED
    BY <2>1, <2>2, <2>3
<1>17. CASE ReportLost
  BY <1>17, <1>a, <1>b DEF ReportLost, dirs
<1>18. CASE Crash
  BY <1>18, <1>a, <1>b DEF Crash, dirs
<1>19. CASE Restart
  <2>1. Completed({"delete"})' = Completed({"delete"})
    BY <1>19 DEF Restart, Completed, TypeOK
  <2> QED
    BY <1>19, <1>a, <2>1 DEF Restart, dirs
<1>20. CASE UndoRaises
  BY <1>20, <1>a, <1>b DEF UndoRaises, dirs
<1> QED
  BY <1>1, <1>2, <1>3, <1>4, <1>5, <1>6, <1>7, <1>8, <1>9, <1>10, <1>11,
     <1>12, <1>13, <1>14, <1>15, <1>16, <1>17, <1>18, <1>19, <1>20
  DEF Next

(* What a completed stamp leaves, torn backups or not: the path and the    *)
(* backup hold stamped files only.                                         *)
KeptInv ==
    /\ Completed(Stamps) # {} => AllStamped(target) /\ AllStamped(backup)
    /\ pc = "stamping" => \A f \in Files(target) \ todo : target[f].stamped
    /\ pc \in {"dropping", "returned"} /\ Op[job] \in Stamps =>
           AllStamped(target)

LEMMA KeptInit == Init => KeptInv
BY DEF Init, KeptInv, Completed

LEMMA KeptStep ==
    ASSUME TypeOK, Readable, InHand, KeptInv, [Next]_vars
    PROVE  KeptInv'
<1> DEFINE Same == Completed(Stamps)' = Completed(Stamps)
           Both == AllStamped(target) /\ AllStamped(backup)
<1>a. ASSUME UNCHANGED <<target, backup>>, Same,
             pc' \in {"stamping", "dropping", "returned"} =>
                 pc' = pc /\ job' = job /\ todo' = todo
      PROVE  KeptInv'
  <2>1. AllStamped(target)' <=> AllStamped(target)
    BY <1>a DEF AllStamped, Files
  <2>2. AllStamped(backup)' <=> AllStamped(backup)
    BY <1>a DEF AllStamped, Files
  <2> QED
    BY <1>a, <2>1, <2>2 DEF KeptInv, Files
<1>b. verdict' = verdict => Same
  BY DEF Completed
<1>c. ASSUME Same, Both => Both',
             pc' \notin {"stamping", "dropping", "returned"}
      PROVE  KeptInv'
  BY <1>c DEF KeptInv
<1>1. CASE UNCHANGED vars
  BY <1>1, <1>a, <1>b DEF vars, dirs
<1>2. ASSUME NEW j \in Job, Submit(j) PROVE KeptInv'
  <2>1. Same
    BY <1>2 DEF Submit, Completed, TypeOK
  <2> QED
    BY <1>2, <1>a, <2>1 DEF Submit, dirs
<1>3. ASSUME NEW j \in Job, SetAside(j) PROVE KeptInv'
  <2>1. Same
    BY <1>3 DEF SetAside, Completed, TypeOK
  <2>2. CASE CanRename(target, backup)
    <3>1. Both => Both'
      BY <1>3, <2>2 DEF SetAside, AllStamped, Files
    <3> QED
      BY <1>3, <1>c, <2>1, <2>2, <3>1 DEF SetAside
  <2>3. CASE ~ CanRename(target, backup)
    BY <1>3, <1>a, <2>1, <2>3 DEF SetAside, dirs
  <2> QED
    BY <2>2, <2>3
<1>4. CASE MakeDir
  <2>1. Both => Both'
    BY <1>4, EmptyIsDir DEF MakeDir, AllStamped, Files
  <2> QED
    BY <1>4, <1>b, <1>c, <2>1 DEF MakeDir
<1>5. ASSUME NEW f \in File, CopyFile(f) PROVE KeptInv'
  <2>1. /\ target' = With(target, f, backup[f]) /\ pc = "copying"
        /\ f \in todo /\ UNCHANGED <<backup, verdict, pc>>
    BY <1>5 DEF CopyFile
  <2>2. f \in Files(backup) /\ target # NoDir
    BY <2>1, NoDirAssumption DEF Readable, Rebuilding, Files
  <2>3. Both => Both'
    BY <2>1, <2>2 DEF AllStamped, Files, With
  <2> QED
    BY <1>b, <1>c, <2>1, <2>3
<1>6. CASE CheckCopy
  <2>1. /\ UNCHANGED <<target, backup, verdict, job>>
        /\ pc' \in {"undoing", "stamping"}
        /\ pc' = "stamping" => todo' = DOMAIN target
    BY <1>6 DEF CheckCopy, dirs
  <2>2. Both => Both'
    BY <2>1 DEF AllStamped, Files
  <2>3. pc' = "stamping" => Files(target)' \ todo' = {}
    BY <2>1 DEF Files
  <2> QED
    BY <1>b, <2>1, <2>2, <2>3 DEF KeptInv
<1>7. ASSUME NEW f \in File, StampFile(f) PROVE KeptInv'
  <2>1. /\ pc = "stamping" /\ f \in todo /\ Progress(f)
        /\ target' = [target EXCEPT ![f] = Edited(Op[job], @)]
        /\ UNCHANGED <<backup, job, verdict>>
    BY <1>7 DEF StampFile
  <2>2. f \in DOMAIN target /\ IsDir(target) /\ target # NoDir
    BY <2>1, NoDirAssumption DEF Readable, Rebuilding
  <2>3. target[f] \in Version /\ Op[job] # "delete"
    BY <2>1, <2>2, FileOfDir DEF InHand, Stamps
  <2>4. Edited(Op[job], target[f]).stamped
    BY <2>3 DEF Edited, Version
  <2>5. \A g \in Files(target)' :
            /\ g \in Files(target)
            /\ g # f => target'[g] = target[g]
            /\ g = f => target'[g].stamped
    BY <2>1, <2>2, <2>4 DEF Files
  <2>6. Both => Both'
    BY <2>1, <2>5 DEF AllStamped, Files
  <2>7. \A g \in Files(target)' \ (todo \ {f}) : target'[g].stamped
    BY <2>1, <2>5 DEF KeptInv
  <2>8. CASE todo = {f}
    <3>1. AllStamped(target)'
      BY <2>7, <2>8 DEF AllStamped
    <3> QED
      BY <1>b, <2>1, <2>6, <2>8, <3>1 DEF KeptInv, Progress
  <2>9. CASE todo # {f}
    BY <1>b, <2>1, <2>6, <2>7, <2>9 DEF KeptInv, Progress
  <2> QED
    BY <2>8, <2>9
<1>8. ASSUME NEW f \in File, WriteFile(f) PROVE KeptInv'
  <2>1. /\ pc = "writing" /\ f \in todo /\ Progress(f)
        /\ target' = With(target, f, Edited(Op[job], backup[f]))
        /\ UNCHANGED <<backup, job, verdict>>
    BY <1>8 DEF WriteFile
  <2>2. Op[job] = "delete" /\ Op[job] \notin Stamps
    BY <2>1 DEF InHand, Stamps
  <2>3. /\ f \in Files(backup) /\ f \in DOMAIN backup /\ IsDir(backup)
        /\ target # NoDir
    BY <2>1, NoDirAssumption DEF Readable, Rebuilding, Files
  <2>4. backup[f] \in Version
    BY <2>3, FileOfDir
  <2>5. Edited(Op[job], backup[f]).stamped = backup[f].stamped
    BY <2>2, <2>4 DEF Edited, Version
  <2>6. Both => Both'
    BY <2>1, <2>3, <2>5 DEF AllStamped, Files, With
  <2> QED
    BY <1>b, <2>1, <2>2, <2>6 DEF KeptInv, Progress
<1>9. CASE RebuildRaises
  BY <1>9, <1>a, <1>b DEF RebuildRaises, dirs
<1>10. ASSUME NEW f \in File, DropFile(f) PROVE KeptInv'
  <2>1. /\ pc = "dropping" /\ backup' = Without(backup, f)
        /\ UNCHANGED <<target, pc, job, verdict>>
    BY <1>10 DEF DropFile
  <2>2. \A g \in Files(backup)' :
            g \in Files(backup) /\ backup'[g] = backup[g]
    BY <2>1, NoDirAssumption DEF Files, Without, Readable
  <2>3. Both => Both'
    BY <2>1, <2>2 DEF AllStamped, Files
  <2>4. AllStamped(target)' <=> AllStamped(target)
    BY <2>1 DEF AllStamped, Files
  <2> QED
    BY <1>b, <2>1, <2>3, <2>4 DEF KeptInv
<1>11. CASE DropDir
  <2>1. /\ pc = "dropping" /\ pc' = "returned" /\ backup' = NoDir
        /\ UNCHANGED <<target, job, verdict>>
    BY <1>11 DEF DropDir
  <2>2. Both => Both'
    BY <2>1 DEF AllStamped, Files
  <2>3. AllStamped(target)' <=> AllStamped(target)
    BY <2>1 DEF AllStamped, Files
  <2> QED
    BY <1>b, <2>1, <2>2, <2>3 DEF KeptInv
<1>12. CASE DropRaises
  BY <1>12, <1>a, <1>b DEF DropRaises, dirs
<1>13. ASSUME NEW f \in File, UndoFile(f) PROVE KeptInv'
  <2>1. /\ pc = "undoing" /\ target' = Without(target, f)
        /\ f \in Files(target) /\ UNCHANGED <<backup, pc, verdict>>
    BY <1>13 DEF UndoFile
  <2>2. \A g \in Files(target)' :
            g \in Files(target) /\ target'[g] = target[g]
    BY <2>1 DEF Files, Without
  <2>3. Both => Both'
    BY <2>1, <2>2 DEF AllStamped, Files
  <2> QED
    BY <1>b, <1>c, <2>1, <2>3
<1>14. CASE UndoDir
  <2>1. Both => Both'
    BY <1>14 DEF UndoDir, AllStamped, Files
  <2> QED
    BY <1>14, <1>b, <1>c, <2>1 DEF UndoDir
<1>15. CASE PutBack
  <2>1. Both => Both'
    BY <1>15 DEF PutBack, AllStamped, Files
  <2> QED
    BY <1>15, <1>b, <1>c, <2>1 DEF PutBack
<1>16. CASE Report
  <2>1. /\ pc \in {"returned", "raised"} /\ pc' = "idle"
        /\ UNCHANGED <<target, backup>> /\ job \in Job
        /\ verdict[job] = "running"
        /\ verdict' = [verdict EXCEPT ![job] =
                           IF pc = "returned" THEN "complete" ELSE "failed"]
    BY <1>16 DEF Report, dirs, InHand
  <2>2. CASE pc = "raised" \/ Op[job] \notin Stamps
    <3>1. Same
      BY <2>1, <2>2 DEF Completed, TypeOK
    <3> QED
      BY <1>a, <2>1, <3>1
  <2>3. CASE pc = "returned" /\ Op[job] \in Stamps
    <3>1. AllStamped(target)'
      BY <2>1, <2>3 DEF KeptInv, AllStamped, Files
    <3>2. AllStamped(backup)'
      BY <2>1, <2>3 DEF InHand, AllStamped, Files
    <3> QED
      BY <2>1, <3>1, <3>2 DEF KeptInv
  <2> QED
    BY <2>1, <2>2, <2>3
<1>17. CASE ReportLost
  BY <1>17, <1>a, <1>b DEF ReportLost, dirs
<1>18. CASE Crash
  BY <1>18, <1>a, <1>b DEF Crash, dirs
<1>19. CASE Restart
  <2>1. Same
    BY <1>19 DEF Restart, Completed, TypeOK
  <2> QED
    BY <1>19, <1>a, <2>1 DEF Restart, dirs
<1>20. CASE UndoRaises
  BY <1>20, <1>a, <1>b DEF UndoRaises, dirs
<1> QED
  BY <1>1, <1>2, <1>3, <1>4, <1>5, <1>6, <1>7, <1>8, <1>9, <1>10, <1>11,
     <1>12, <1>13, <1>14, <1>15, <1>16, <1>17, <1>18, <1>19, <1>20
  DEF Next

(* The refinement.  While the target is rebuilt or undone the backup is    *)
(* the content: should the unfinished target be whole, then because it     *)
(* does not differ.                                                        *)
Unfinished == Rebuilding \cup {"undoing", "restoring"}

SameInv ==
    /\ pc \in {"making", "restoring"} => target = NoDir
    /\ pc \in {"stamping", "writing"} => todo # {}
    /\ pc \in Unfinished /\ Whole(target) => \A f \in File : target[f] = backup[f]

LEMMA SameInit == Init => SameInv
BY DEF Init, SameInv, Unfinished, Rebuilding

LEMMA SameStep ==
    ASSUME mishap' = "none",
           TypeOK, Readable, CopyInv, CopyInv', SameInv, [Next]_vars
    PROVE  SameInv'
<1> USE DEF SameInv, Unfinished, Rebuilding
<1>a. ASSUME UNCHANGED <<target, backup>>, pc' \in Unfinished => pc \in Unfinished,
             pc' \in {"making", "restoring"} => pc' = pc,
             pc' \in {"stamping", "writing"} => pc' = pc /\ todo' = todo
      PROVE  SameInv'
  BY <1>a DEF Whole
<1>1. CASE UNCHANGED vars
  BY <1>1, <1>a DEF vars, dirs
<1>2. ASSUME NEW j \in Job, Submit(j) PROVE SameInv'
  BY <1>2, <1>a DEF Submit, dirs
<1>3. ASSUME NEW j \in Job, SetAside(j) PROVE SameInv'
  <2>1. CASE CanRename(target, backup)
    BY <1>3, <2>1 DEF SetAside, Whole
  <2>2. CASE ~ CanRename(target, backup)
    BY <1>3, <1>a, <2>2 DEF SetAside, dirs
  <2> QED
    BY <2>1, <2>2
<1>4. CASE MakeDir
  <2>1. todo' = File /\ target' = EmptyDir /\ pc' \in {"copying", "writing"}
    BY <1>4 DEF MakeDir, CopyInv, Whole
  <2>2. ~ Whole(target)'
    BY <2>1, EmptyIsDir, FileAssumption DEF Whole
  <2> QED
    BY <2>1, <2>2, FileAssumption
<1>5. ASSUME NEW f \in File, CopyFile(f) PROVE SameInv'
  <2>1. pc' = "copying" /\ DOMAIN target' = File \ todo'
        /\ \A g \in File \ todo' : target'[g] = backup'[g]
    BY <1>5 DEF CopyFile, CopyInv, Rebuilt
  <2> QED
    BY <2>1 DEF Whole
<1>6. CASE CheckCopy
  <2>1. /\ pc = "copying" /\ todo = {} /\ UNCHANGED <<target, backup>>
        /\ pc' = "undoing" \/ (pc' = "stamping" /\ todo' = DOMAIN target)
    BY <1>6 DEF CheckCopy, dirs
  <2>2. DOMAIN target = File
    BY <2>1 DEF CopyInv, Rebuilt
  <2> QED
    BY <2>1, <2>2, FileAssumption DEF Whole
<1>7. ASSUME NEW f \in File, StampFile(f) PROVE SameInv'
  <2>1. f \in todo /\ todo' = todo \ {f}
        /\ (pc' = "dropping" \/ (pc' = "stamping" /\ todo # {f}))
    BY <1>7 DEF StampFile, Progress
  <2>2. CASE pc' = "stamping"
    <3>1. PICK g \in todo' : TRUE
      BY <2>1, <2>2
    <3>2. g \in File /\ target'[g] = backup'[g] /\ Whole(backup)'
      BY <2>1, <2>2, <3>1 DEF CopyInv, Rebuilt, TypeOK
    <3>3. Whole(target)' => \A h \in File : target'[h] = backup'[h]
      BY <3>2 DEF Whole
    <3> QED
      BY <2>2, <3>1, <3>3
  <2> QED
    BY <2>1, <2>2
<1>8. ASSUME NEW f \in File, WriteFile(f) PROVE SameInv'
  <2>1. f \in todo /\ todo' = todo \ {f}
        /\ (pc' = "dropping" \/ (pc' = "writing" /\ todo # {f}))
    BY <1>8 DEF WriteFile, Progress
  <2>2. CASE pc' = "writing"
    <3>1. PICK g \in todo' : TRUE
      BY <2>1, <2>2
    <3>2. g \in File /\ DOMAIN target' = File \ todo'
      BY <2>1, <2>2, <3>1 DEF CopyInv, Rebuilt, TypeOK
    <3>3. ~ Whole(target)'
      BY <3>1, <3>2 DEF Whole
    <3> QED
      BY <2>2, <3>1, <3>3
  <2> QED
    BY <2>1, <2>2
<1>9. CASE RebuildRaises
  BY <1>9, <1>a DEF RebuildRaises, dirs
<1>10. ASSUME NEW f \in File, DropFile(f) PROVE SameInv'
  BY <1>10 DEF DropFile
<1>11. CASE DropDir
  BY <1>11 DEF DropDir
<1>12. CASE DropRaises
  BY <1>12 DEF DropRaises
<1>13. ASSUME NEW f \in File, UndoFile(f) PROVE SameInv'
  <2>1. ~ Whole(target)' /\ pc' = "undoing"
    BY <1>13 DEF UndoFile, Whole, Without
  <2> QED
    BY <2>1
<1>14. CASE UndoDir
  BY <1>14 DEF UndoDir, Whole
<1>15. CASE PutBack
  BY <1>15 DEF PutBack
<1>16. CASE Report
  BY <1>16, <1>a DEF Report, dirs
<1>17. CASE ReportLost
  BY <1>17, <1>a DEF ReportLost, dirs
<1>18. CASE Crash
  BY <1>18, <1>a DEF Crash, dirs
<1>19. CASE Restart
  BY <1>19, <1>a DEF Restart, dirs
<1>20. CASE UndoRaises
  BY <1>20, <1>a DEF UndoRaises, dirs
<1> QED
  BY <1>1, <1>2, <1>3, <1>4, <1>5, <1>6, <1>7, <1>8, <1>9, <1>10, <1>11,
     <1>12, <1>13, <1>14, <1>15, <1>16, <1>17, <1>18, <1>19, <1>20
  DEF Next

-----------------------------------------------------------------------------
(* Everything together: the copies are accounted for until a backup is     *)
(* torn, what the jobs made of them until the removal of a backup raises,  *)
(* and what completed jobs left for ever.                                  *)
FullInv ==
    /\ TypeOK
    /\ Readable
    /\ InHand
    /\ KeptInv
    /\ CutInv
    /\ mishap = "part" \/ CopyInv
    /\ mishap # "none" \/ (StampInv /\ SameInv)

LEMMA FullInvariant == Spec => []FullInv
<1>1. Init => FullInv
  BY TypeInit, CopyInit, InHandInit, StampInit, KeptInit, SameInit
  DEF FullInv
<1>2. FullInv /\ [Next]_vars => FullInv'
  <2> SUFFICES ASSUME FullInv, [Next]_vars PROVE FullInv'
    OBVIOUS
  <2>1. TypeOK' /\ Readable' /\ InHand' /\ KeptInv' /\ CutInv'
    BY TypeStep, InHandStep, KeptStep, CutStep DEF FullInv
  <2>2. mishap' = "part" \/ CopyInv'
    BY CopyStep, MishapStays DEF FullInv
  <2>3. ASSUME mishap' = "none" PROVE StampInv' /\ SameInv'
    <3>1. mishap = "none" /\ CopyInv /\ StampInv /\ SameInv /\ CopyInv'
      BY <2>2, <2>3, MishapStays DEF FullInv
    <3> QED
      BY <2>3, <3>1, StampStep, SameStep DEF FullInv
  <2> QED
    BY <2>1, <2>2, <2>3 DEF FullInv
<1> QED
  BY <1>1, <1>2, PTL DEF Spec

(* StampedOnce: without overwrite a dataset is stamped by one job, once,   *)
(* whatever is executed again, until a backup is put back because its      *)
(* removal raised.                                                         *)
THEOREM StampsAreSingle == Spec => []StampedOnce
<1>1. FullInv => StampedOnce
  BY DEF FullInv, StampInv, StampedOnce, SingleStamps
<1> QED
  BY <1>1, FullInvariant, PTL

(* CompletedEditsStay: no later job, crash or undo takes back what a       *)
(* completed deletion or stamp did to any file, from whichever copy it is  *)
(* put back.                                                               *)
THEOREM EditsStay == Spec => []CompletedEditsStay
<1>1. FullInv => CompletedEditsStay
  <2> SUFFICES ASSUME FullInv, NEW d \in {target, backup}, NEW f \in Files(d)
               PROVE  /\ Completed(Stamps) # {} => d[f].stamped
                      /\ Deletions <= d[f].cuts
    BY DEF CompletedEditsStay, Stamps, Deletions
  <2>1. Completed(Stamps) # {} => AllStamped(d)
    BY DEF FullInv, KeptInv
  <2>2. Deletions <= d[f].cuts
    BY DEF FullInv, CutInv
  <2> QED
    BY <2>1, <2>2 DEF AllStamped
<1> QED
  BY <1>1, FullInvariant, PTL

-----------------------------------------------------------------------------
(* The file whose version stands for the content.                          *)
Any == CHOOSE f \in File : TRUE

LEMMA AnyIsFile == Any \in File
BY FileAssumption DEF Any

LEMMA AtomicInit == Init => Atomic!Init
<1> SUFFICES ASSUME Init PROVE Atomic!Init
  OBVIOUS
<1>1. target = Copies(Original) /\ Whole(target)
  <2>1. target = [f \in File |-> Original] /\ Original \in Version
    BY DEF Init, Copies, Original, Version
  <2>2. target \in [File -> Version]
    BY <2>1
  <2>3. target # NoDir
    BY <2>2, NoDirAssumption DEF IsDir
  <2> QED
    BY <2>1, <2>3 DEF Whole, Copies
<1>2. Content = [cuts |-> 0, stamped |-> FALSE]
  BY <1>1, AnyIsFile DEF Content, Copies, Original, Any
<1> QED
  BY <1>2 DEF Init, Atomic!Init

LEMMA AtomicStep ==
    ASSUME FullInv, CopyInv, StampInv, SameInv, CopyInv', SameInv',
           [Next]_vars, mishap' = "none"
    PROVE  [Atomic!Work]_<<Content, verdict, applied>>
<1> DEFINE Stutter == UNCHANGED <<Content, verdict, applied>>
           Step == [Atomic!Work]_<<Content, verdict, applied>>
<1> USE DEF FullInv
<1>0. Stutter => Step
  OBVIOUS
<1> SUFFICES Step
  OBVIOUS
<1> HIDE DEF Step
<1>a. UNCHANGED <<target, backup>> => Content' = Content
  BY DEF Content, Whole
<1>b. pc \in Unfinished => Content = backup[Any]
  BY AnyIsFile DEF SameInv, Content, Any
<1>c. pc' \in Unfinished => Content' = backup'[Any]
  BY AnyIsFile DEF SameInv, Content, Any
<1>d. ASSUME NEW j \in Job, NEW from, NEW to, verdict[j] = from,
             verdict' = [verdict EXCEPT ![j] = to],
             Content' = Content, applied' = applied,
             <<from, to>> \in {<<"new", "queued">>, <<"queued", "running">>,
                               <<"running", "failed">>}
      PROVE  Step
  <2>1. Atomic!Turn(j, from, to)
    BY <1>d DEF Atomic!Turn
  <2>2. Atomic!Work
    BY <1>d, <2>1 DEF Atomic!Work
  <2> QED
    BY <2>2 DEF Step
<1>1. CASE UNCHANGED vars
  BY <1>1, <1>0, <1>a DEF vars, dirs
<1>2. ASSUME NEW j \in Job, Submit(j) PROVE Step
  BY <1>2, <1>a, <1>d DEF Submit, dirs
<1>3. ASSUME NEW j \in Job, SetAside(j) PROVE Step
  <2>1. Content' = Content
    <3>1. CASE CanRename(target, backup)
      <4>1. ~ Whole(backup)
        BY <3>1, FileAssumption DEF CanRename, Files, Whole
      <4>2. Whole(target)
        BY <4>1 DEF CopyInv
      <4>3. pc' = "making" /\ backup' = target
        BY <1>3, <3>1 DEF SetAside
      <4> QED
        BY <1>c, <4>2, <4>3 DEF Content, Any, Unfinished, Rebuilding
    <3>2. CASE ~ CanRename(target, backup)
      BY <1>3, <1>a, <3>2 DEF SetAside, dirs
    <3> QED
      BY <3>1, <3>2
  <2> QED
    BY <1>3, <1>d, <2>1 DEF SetAside
<1>e. ASSUME pc \in Unfinished, pc' \in Unfinished, backup' = backup,
             UNCHANGED <<verdict, applied>>
      PROVE  Step
  BY <1>0, <1>b, <1>c, <1>e
<1>4. CASE MakeDir
  <2>1. /\ pc \in Unfinished /\ pc' \in Unfinished /\ backup' = backup
        /\ UNCHANGED <<verdict, applied>>
    BY <1>4 DEF MakeDir, Unfinished, Rebuilding
  <2> QED
    BY <1>e, <2>1
<1>5. ASSUME NEW f \in File, CopyFile(f) PROVE Step
  BY <1>5, <1>e DEF CopyFile, Unfinished, Rebuilding
<1>6. CASE CheckCopy
  <2>1. /\ pc \in Unfinished /\ pc' \in Unfinished /\ backup' = backup
        /\ UNCHANGED <<verdict, applied>>
    BY <1>6 DEF CheckCopy, Unfinished, Rebuilding, dirs
  <2> QED
    BY <1>e, <2>1
(* The last file written is the atomic edit.                               *)
<1>f. ASSUME pc \in {"stamping", "writing"}, pc' = "dropping",
             \A g \in File : target'[g] = Edited(Op[job], backup[g]),
             applied' = [applied EXCEPT ![job] = @ + 1], verdict' = verdict
      PROVE  Step
  <2>1. Content' = target'[Any]
    BY <1>f DEF CopyInv, Content, Any
  <2>2. Content' = Edited(Op[job], Content)
    BY <1>b, <1>f, <2>1, AnyIsFile DEF Unfinished, Rebuilding
  <2>3. job \in Job /\ verdict[job] = "running"
    BY <1>f DEF InHand
  <2>4. Content' = Atomic!Edited(Op[job], Content)
    BY <2>2 DEF Edited, Atomic!Edited
  <2>5. Atomic!Apply(job)
    BY <1>f, <2>3, <2>4 DEF Atomic!Apply
  <2>6. Atomic!Work
    BY <2>3, <2>5 DEF Atomic!Work
  <2> QED
    BY <2>6 DEF Step
<1>7. ASSUME NEW f \in File, StampFile(f) PROVE Step
  <2>1. /\ pc = "stamping" /\ f \in todo /\ Progress(f) /\ verdict' = verdict
        /\ backup' = backup
        /\ target' = [target EXCEPT ![f] = Edited(Op[job], @)]
    BY <1>7 DEF StampFile
  <2>2. CASE todo # {f}
    BY <1>e, <2>1, <2>2 DEF Progress, Unfinished, Rebuilding
  <2>3. CASE todo = {f}
    <3>1. /\ DOMAIN target = File /\ target[f] = backup[f]
          /\ \A g \in File \ {f} : target[g] = Edited(Op[job], backup[g])
      BY <2>1, <2>3 DEF CopyInv, Rebuilt
    <3>2. \A g \in File : target'[g] = Edited(Op[job], backup[g])
      BY <2>1, <3>1
    <3> QED
      BY <1>f, <2>1, <2>3, <3>2 DEF Progress
  <2> QED
    BY <2>2, <2>3
<1>8. ASSUME NEW f \in File, WriteFile(f) PROVE Step
  <2>1. /\ pc = "writing" /\ f \in todo /\ Progress(f) /\ verdict' = verdict
        /\ backup' = backup
        /\ target' = With(target, f, Edited(Op[job], backup[f]))
    BY <1>8 DEF WriteFile
  <2>2. CASE todo # {f}
    BY <1>e, <2>1, <2>2 DEF Progress, Unfinished, Rebuilding
  <2>3. CASE todo = {f}
    <3>1. /\ DOMAIN target = File \ {f}
          /\ \A g \in File \ {f} : target[g] = Edited(Op[job], backup[g])
      BY <2>1, <2>3 DEF CopyInv, Rebuilt
    <3>2. \A g \in File : target'[g] = Edited(Op[job], backup[g])
      BY <2>1, <3>1 DEF With
    <3> QED
      BY <1>f, <2>1, <2>3, <3>2 DEF Progress
  <2> QED
    BY <2>2, <2>3
<1>9. CASE RebuildRaises
  <2>1. /\ pc \in Unfinished /\ pc' \in Unfinished /\ backup' = backup
        /\ UNCHANGED <<verdict, applied>>
    BY <1>9 DEF RebuildRaises, Unfinished, Rebuilding, dirs
  <2> QED
    BY <1>e, <2>1
<1>10. ASSUME NEW f \in File, DropFile(f) PROVE Step
  <2>1. Whole(target) /\ target' = target /\ UNCHANGED <<verdict, applied>>
    BY <1>10 DEF DropFile, CopyInv
  <2>2. Content' = Content
    BY <2>1 DEF Content, Whole
  <2> QED
    BY <1>0, <2>1, <2>2
<1>11. CASE DropDir
  <2>1. Whole(target) /\ target' = target /\ UNCHANGED <<verdict, applied>>
    BY <1>11 DEF DropDir, CopyInv
  <2>2. Content' = Content
    BY <2>1 DEF Content, Whole
  <2> QED
    BY <1>0, <2>1, <2>2
<1>12. CASE DropRaises
  BY <1>12 DEF DropRaises
<1>13. ASSUME NEW f \in File, UndoFile(f) PROVE Step
  BY <1>13, <1>e DEF UndoFile, Unfinished
<1>14. CASE UndoDir
  <2>1. /\ pc \in Unfinished /\ pc' \in Unfinished /\ backup' = backup
        /\ UNCHANGED <<verdict, applied>>
    BY <1>14 DEF UndoDir, Unfinished
  <2> QED
    BY <1>e, <2>1
<1>15. CASE PutBack
  <2>1. /\ pc = "restoring" /\ target' = backup /\ UNCHANGED <<verdict, applied>>
        /\ Whole(backup)
    BY <1>15 DEF PutBack, CopyInv
  <2>2. Whole(target)'
    BY <2>1 DEF Whole
  <2>3. Content' = Content
    BY <1>b, <2>1, <2>2 DEF Content, Any, Unfinished
  <2> QED
    BY <1>0, <2>1, <2>3
<1>16. CASE Report
  <2>1. /\ pc \in {"returned", "raised"} /\ job \in Job
        /\ verdict[job] = "running" /\ Content' = Content /\ applied' = applied
        /\ verdict' = [verdict EXCEPT ![job] =
                           IF pc = "returned" THEN "complete" ELSE "failed"]
    BY <1>16, <1>a DEF Report, dirs, InHand
  <2>2. CASE pc = "raised"
    <3>1. verdict' = [verdict EXCEPT ![job] = "failed"]
      BY <2>1, <2>2
    <3> QED
      BY <1>d, <2>1, <3>1
  <2>3. CASE pc = "returned"
    <3>1. applied[job] > 0
      BY <2>1, <2>3 DEF InHand, TypeOK
    <3>2. Atomic!Complete(job)
      BY <2>1, <2>3, <3>1 DEF Atomic!Complete, Atomic!Turn
    <3>3. Atomic!Work
      BY <2>1, <3>2 DEF Atomic!Work
    <3> QED
      BY <3>3 DEF Step
  <2> QED
    BY <2>1, <2>2, <2>3
<1>17. CASE ReportLost
  BY <1>17, <1>0, <1>a DEF ReportLost, dirs
<1>18. CASE Crash
  BY <1>18, <1>0, <1>a DEF Crash, dirs
<1>19. CASE Restart
  <2>1. Atomic!GiveBack
    BY <1>19, <1>a DEF Restart, dirs, Atomic!GiveBack
  <2> QED
    BY <2>1 DEF Step, Atomic!Work
<1>20. CASE UndoRaises
  BY <1>20, <1>0, <1>a DEF UndoRaises, dirs
<1> QED
  BY <1>1, <1>2, <1>3, <1>4, <1>5, <1>6, <1>7, <1>8, <1>9, <1>10, <1>11,
     <1>12, <1>13, <1>14, <1>15, <1>16, <1>17, <1>18, <1>19, <1>20
  DEF Next, Step

(* ImplementsAtomicEdit: moving aside, rebuilding, dropping and undoing    *)
(* are, for whoever looks at the copy that counts, one atomic edit, until  *)
(* the removal of a backup raises and the edit is undone.                  *)
THEOREM EditsAreAtomic == Spec => ImplementsAtomicEdit
<1> DEFINE abstract == <<Content, verdict, applied, mishap # "none">>
<1>1. FullInv /\ FullInv' /\ [Next]_vars => [Atomic!Next]_abstract
  <2> SUFFICES ASSUME FullInv, FullInv', [Next]_vars
               PROVE  Atomic!Next \/ UNCHANGED abstract
    OBVIOUS
  <2>1. CASE mishap' # "none"
    BY <2>1 DEF Atomic!Next
  <2>2. CASE mishap' = "none"
    <3>1. mishap = "none" /\ CopyInv /\ StampInv /\ SameInv /\ CopyInv' /\ SameInv'
      BY <2>2, MishapStays DEF FullInv
    <3>2. Atomic!Work \/ UNCHANGED <<Content, verdict, applied>>
      BY <2>2, <3>1, AtomicStep
    <3>3. Atomic!Work => Atomic!Next
      BY <2>2 DEF Atomic!Next
    <3> QED
      BY <2>2, <3>1, <3>2, <3>3
  <2> QED
    BY <2>1, <2>2
<1> QED
  BY <1>1, AtomicInit, FullInvariant, PTL
  DEF Spec, ImplementsAtomicEdit, Atomic!Spec
=============================================================================
