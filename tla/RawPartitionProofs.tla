------------------------- MODULE RawPartitionProofs -------------------------
(***************************************************************************)
(* Proofs about RawPartition for every set of recordings, every number of  *)
(* destinations and every number of stops and changes of direction.        *)
(***************************************************************************)
EXTENDS RawPartition, PartitionState, TLAPS

LEMMA TypeInit == Init => TypeOK
BY PartAssumption, BoundsAssumption
DEF Init, TypeOK, Place, Directory, Mode, Boot, Journal, Phase, PC, Reserved

(* What appending a record does to the two copies of the journal.          *)
LEMMA Appended ==
    ASSUME TypeOK, NEW phase \in Phase, Append(phase)
    PROVE  /\ mem' = [phase |-> phase, bound |-> mem.bound, mode |-> mem.mode]
           /\ log' = mem' /\ mem' \in Journal /\ log' \in Journal
           /\ boot' = boot
           /\ mem'.phase = phase /\ mem'.bound = mem.bound
BY DEF TypeOK, Append, Journal

(* What the steps on one destination do to its directory.                  *)
LEMMA DirectoryTypes ==
    ASSUME TypeOK, NEW g \in Group, NEW d \in Directory
    PROVE  [dir EXCEPT ![g] = d] \in [Group -> Directory]
BY DEF TypeOK

LEMMA DirectoryFields ==
    ASSUME NEW d \in Directory
    PROVE  /\ [d EXCEPT !.marker = "none"] \in Directory
           /\ [d EXCEPT !.marker = "torn"] \in Directory
           /\ [d EXCEPT !.marker = "whole"] \in Directory
           /\ [d EXCEPT !.name = "published"] \in Directory
           /\ [d EXCEPT !.mode = "committed"] \in Directory
BY DEF Directory, Mode

LEMMA TypeStep == TypeOK /\ [Next]_vars => TypeOK'
<1> SUFFICES ASSUME TypeOK, [Next]_vars PROVE TypeOK'
  OBVIOUS
<1> USE DEF operator, command, journal, disk
<1>1. CASE Switch
  BY <1>1, BoundsAssumption DEF TypeOK, Switch
<1>2. CASE Start
  BY <1>2 DEF TypeOK, Start, PC
<1>3. CASE Bootstrap
  BY <1>3 DEF TypeOK, Bootstrap, Boot
<1>4. CASE Open
  <2>1. todo' \subseteq Group /\ pc' \in PC /\ mem' \in Journal
    BY <1>4 DEF TypeOK, Open, PC, Journal
  <2> QED
    BY <1>4, <2>1 DEF TypeOK, Open
<1>5. ASSUME NEW g \in Group, MakeDirectory(g) PROVE TypeOK'
  <2>1. dir' \in [Group -> Directory]
    BY <1>5, DirectoryTypes DEF MakeDirectory, Directory, Mode
  <2> QED
    BY <1>5, <2>1 DEF TypeOK, MakeDirectory, Rest
<1>6. ASSUME NEW g \in Group, CreateMarker(g) PROVE TypeOK'
  <2>1. dir' = [dir EXCEPT ![g] = [dir[g] EXCEPT !.marker = "torn"]]
    BY <1>6 DEF CreateMarker
  <2>2. dir' \in [Group -> Directory]
    BY <2>1, DirectoryTypes, DirectoryFields DEF TypeOK
  <2> QED
    BY <1>6, <2>2 DEF TypeOK, CreateMarker, Rest
<1>7. ASSUME NEW g \in Group, FillMarker(g) PROVE TypeOK'
  <2>1. dir' = [dir EXCEPT ![g] = [dir[g] EXCEPT !.marker = "whole"]]
    BY <1>7 DEF FillMarker
  <2>2. dir' \in [Group -> Directory]
    BY <2>1, DirectoryTypes, DirectoryFields DEF TypeOK
  <2> QED
    BY <1>7, <2>2 DEF TypeOK, FillMarker, Rest
<1>8. ASSUME NEW g \in Group, Publish(g) PROVE TypeOK'
  <2>1. dir' = [dir EXCEPT ![g] = [dir[g] EXCEPT !.name = "published"]]
    BY <1>8 DEF Publish
  <2>2. dir' \in [Group -> Directory]
    BY <2>1, DirectoryTypes, DirectoryFields DEF TypeOK
  <2> QED
    BY <1>8, <2>2 DEF TypeOK, Publish, Rest
<1>9. ASSUME NEW g \in Group, Bind(g) PROVE TypeOK'
  <2>1. mem' \in Journal
    BY <1>9 DEF TypeOK, Bind, Journal, Mode
  <2> QED
    BY <1>9, <2>1 DEF TypeOK, Bind
<1>10. ASSUME NEW g \in Group, Unmark(g) PROVE TypeOK'
  <2>1. dir' = [dir EXCEPT ![g] = [dir[g] EXCEPT !.marker = "none"]]
    BY <1>10 DEF Unmark
  <2>2. dir' \in [Group -> Directory]
    BY <2>1, DirectoryTypes, DirectoryFields DEF TypeOK
  <2> QED
    BY <1>10, <2>2 DEF TypeOK, Unmark, Rest
<1>11. ASSUME NEW g \in Group, SetMode(g) PROVE TypeOK'
  <2>1. dir' = [dir EXCEPT ![g] = [dir[g] EXCEPT !.mode = "committed"]]
    BY <1>11 DEF SetMode
  <2>2. dir' \in [Group -> Directory]
    BY <2>1, DirectoryTypes, DirectoryFields DEF TypeOK
  <2>3. mem' \in Journal
    BY <1>11 DEF TypeOK, SetMode, Journal, Mode
  <2> QED
    BY <1>11, <2>2, <2>3 DEF TypeOK, SetMode
<1>12. CASE BeginMoves
  BY <1>12, Appended DEF TypeOK, BeginMoves, PC, Phase
<1>13. CASE Adopted
  <2>1. mem.phase \in Phase
    BY DEF TypeOK, Journal
  <2> QED
    BY <1>13, <2>1, Appended DEF TypeOK, Adopted
<1>14. CASE TurnBack
  BY <1>14, Appended DEF TypeOK, TurnBack, PC, Phase
<1>15. ASSUME NEW r \in Recording, Move(r) PROVE TypeOK'
  BY <1>15, PartAssumption DEF TypeOK, Move, MoveTo
<1>16. ASSUME NEW r \in Recording, MoveBack(r) PROVE TypeOK'
  BY <1>16 DEF TypeOK, MoveBack, MoveTo, Place
<1>17. CASE Moved
  <2>1. mem.bound \subseteq Group
    BY DEF TypeOK, Journal
  <2> QED
    BY <1>17, <2>1, Appended DEF TypeOK, Moved, PC, Phase
<1>18. CASE MovedBack
  BY <1>18 DEF TypeOK, MovedBack, PC, Journal
<1>19. CASE Settle
  <2>1. PICK phase \in {"committed", "rolled_back"} : Append(phase)
    BY <1>19 DEF Settle
  <2>2. phase \in Phase
    BY DEF Phase
  <2> QED
    BY <1>19, <2>1, <2>2, Appended DEF TypeOK, Settle, PC
<1>20. CASE Refuse
  BY <1>20 DEF TypeOK, Refuse, End, PC
<1>21. CASE Stop
  BY <1>21, BoundsAssumption DEF TypeOK, Stop, End, PC
<1>22. CASE UNCHANGED vars
  BY <1>22 DEF TypeOK, vars
<1> QED
  BY <1>1, <1>2, <1>3, <1>4, <1>5, <1>6, <1>7, <1>8, <1>9, <1>10, <1>11, <1>12,
     <1>13, <1>14, <1>15, <1>16, <1>17, <1>18, <1>19, <1>20, <1>21, <1>22
  DEF Next, Step

(* The disk, the journal and the command keep their types.                 *)
THEOREM TypeCorrect == Spec => []TypeOK
BY TypeInit, TypeStep, PTL DEF Spec

-----------------------------------------------------------------------------
(* What the command that runs knows: its copy of the journal agrees with   *)
(* the last record in everything the next step relies on, and its phase    *)
(* is the one of its direction.                                            *)
PrepareInv ==
    pc = "prepare" =>
        /\ boot = "durable" /\ mem.phase = log.phase /\ log.bound \subseteq mem.bound
        /\ \A g \in mem.bound : dir[g].name = "published"
        /\ asked = "apply" =>
               /\ log.phase \in {"reserved", "applying"}
               /\ Group \subseteq mem.bound \cup todo
        /\ asked = "rollback" =>
               /\ log.phase # "rolled_back"
               /\ log.phase # "reserved" => todo = {} /\ mem = log
               /\ \A g \in Group \ (mem.bound \cup todo) : dir[g].name = "none"
               /\ \A g \in todo : dir[g].name # "none"

MovesInv ==
    pc = "moves" =>
        /\ boot = "durable" /\ mem = log
        /\ asked = "apply" => log.phase = "applying"
        /\ asked = "rollback" => log.phase = "rolling_back"

FinalizeInv ==
    pc = "finalize" =>
        /\ boot = "durable" /\ mem.phase = log.phase /\ mem.bound = log.bound
        /\ todo \subseteq mem.bound
        /\ asked = "apply" => log.phase = "finalizing"
        /\ asked = "rollback" => log.phase = "rolling_back" /\ Restored

(* What the durable journal says of the directories.                       *)
JournalInv ==
    /\ boot # "durable" =>
           /\ log = Reserved /\ pc \in {"idle", "bootstrap"}
           /\ \A g \in Group : dir[g].name = "none"
    /\ \A g \in log.bound : dir[g].name = "published"
    /\ log.phase \in {"applying", "finalizing", "committed"} => log.bound = Group
    /\ log.phase # "reserved" =>
           \A g \in Group \ log.bound : dir[g].name = "none"

CommandInv == PrepareInv /\ MovesInv /\ FinalizeInv

IInv ==
    /\ TypeOK
    /\ CommandInv
    /\ JournalInv
    /\ PhaseTruthful
    /\ WriteAhead
    /\ VisibleIsOwned

LEMMA IInvInit == Init => IInv
<1> SUFFICES ASSUME Init PROVE IInv
  OBVIOUS
<1>1. TypeOK
  BY TypeInit
<1>2. CommandInv /\ JournalInv
  BY DEF Init, CommandInv, PrepareInv, MovesInv, FinalizeInv, JournalInv, Reserved
<1>3. PhaseTruthful /\ WriteAhead /\ VisibleIsOwned
  BY DEF Init, PhaseTruthful, WriteAhead, VisibleIsOwned, Restored, Reserved
<1> QED
  BY <1>1, <1>2, <1>3 DEF IInv

(* A step that leaves the disk and the last record alone keeps what is     *)
(* said of them.                                                           *)
LEMMA DiskKept ==
    ASSUME IInv, UNCHANGED <<at, dir, boot, log>>,
           boot # "durable" => pc' \in {"idle", "bootstrap"}
    PROVE  JournalInv' /\ PhaseTruthful' /\ WriteAhead' /\ VisibleIsOwned'
BY DEF IInv, JournalInv, PhaseTruthful, WriteAhead, VisibleIsOwned, Restored,
       Split

LEMMA Quiet ==
    ASSUME pc' \in {"idle", "bootstrap"}
    PROVE  CommandInv'
BY DEF CommandInv, PrepareInv, MovesInv, FinalizeInv

(* Preparing a destination that is not bound and not published yet.        *)
LEMMA Prepared1 ==
    ASSUME IInv, TypeOK', NEW g \in Group, Preparing(g), Rest,
           dir[g].name # "published",
           NEW d \in Directory, dir' = [dir EXCEPT ![g] = d],
           d.name = "published" => d.marker = "whole",
           d.name # "none"
    PROVE  IInv'
<1> USE DEF operator, command, journal, disk
<1>1. /\ pc = "prepare" /\ g \in todo /\ boot = "durable"
      /\ UNCHANGED <<at, boot, log, pc, mem, todo, asked>>
  BY DEF Preparing, First, Rest, IInv, CommandInv, PrepareInv
<1>2. /\ dir'[g] = d
      /\ \A h \in Group \ {g} : dir'[h] = dir[h]
  BY DEF IInv, TypeOK
<1>3. g \notin log.bound /\ g \notin mem.bound
  BY <1>1 DEF IInv, JournalInv, CommandInv, PrepareInv
<1>4. log.bound \subseteq Group /\ mem.bound \subseteq Group
  BY DEF IInv, TypeOK, Journal
<1>5. log.phase = "reserved"
  <2>1. CASE asked = "apply"
    BY <1>1, <1>3, <2>1 DEF IInv, JournalInv, CommandInv, PrepareInv
  <2>2. CASE asked = "rollback"
    BY <1>1, <2>2 DEF IInv, CommandInv, PrepareInv
  <2> QED
    BY <2>1, <2>2 DEF IInv, TypeOK
<1>6. CommandInv'
  BY <1>1, <1>2, <1>3, <1>4
  DEF IInv, CommandInv, PrepareInv, MovesInv, FinalizeInv
<1>7. JournalInv'
  BY <1>1, <1>2, <1>3, <1>4, <1>5 DEF IInv, JournalInv
<1>8. PhaseTruthful'
  BY <1>1, <1>5 DEF IInv, PhaseTruthful, Restored, Split
<1>9. WriteAhead'
  <2>1. \A r \in Recording : at[r] = Source
    BY <1>5 DEF IInv, PhaseTruthful, Restored
  <2> QED
    BY <1>1, <2>1 DEF WriteAhead
<1>10. VisibleIsOwned'
  BY <1>1, <1>2 DEF IInv, VisibleIsOwned
<1> QED
  BY <1>6, <1>7, <1>8, <1>9, <1>10 DEF IInv

(* A step of the final loop, on a destination that is bound.               *)
LEMMA Finalized1 ==
    ASSUME IInv, TypeOK', NEW g \in Group, pc = "finalize", First(g),
           UNCHANGED <<at, boot, log, pc, asked>>,
           mem'.phase = mem.phase, mem'.bound = mem.bound,
           todo' \subseteq todo,
           NEW d \in Directory, dir' = [dir EXCEPT ![g] = d],
           d.name = dir[g].name
    PROVE  IInv'
<1>1. /\ g \in log.bound
      /\ log.phase \in {"finalizing", "rolling_back"} /\ boot = "durable"
  BY DEF IInv, TypeOK, CommandInv, FinalizeInv, First
<1>2. \A h \in Group : dir'[h].name = dir[h].name
  BY DEF IInv, TypeOK
<1>3. \A h \in Group \ {g} : dir'[h] = dir[h]
  BY DEF IInv, TypeOK
<1>4. log.bound \subseteq Group
  BY DEF IInv, TypeOK, Journal
<1>5. CommandInv'
  BY <1>1 DEF IInv, CommandInv, PrepareInv, MovesInv, FinalizeInv, Restored
<1>6. JournalInv'
  BY <1>1, <1>2, <1>4 DEF IInv, JournalInv
<1>7. PhaseTruthful'
  BY <1>1 DEF IInv, PhaseTruthful, Restored, Split
<1>8. WriteAhead'
  BY <1>2, <1>4 DEF IInv, WriteAhead
<1>9. VisibleIsOwned'
  BY <1>1, <1>2, <1>3 DEF IInv, VisibleIsOwned
<1> QED
  BY <1>5, <1>6, <1>7, <1>8, <1>9 DEF IInv

-----------------------------------------------------------------------------
LEMMA IInvStep == IInv /\ [Next]_vars => IInv'
<1> SUFFICES ASSUME IInv, [Next]_vars PROVE IInv'
  OBVIOUS
<1>0. TypeOK /\ TypeOK'
  BY TypeStep DEF IInv
<1> USE DEF operator, command, journal, disk
<1>1. CASE Switch
  BY <1>0, <1>1, DiskKept, Quiet DEF Switch, IInv
<1>2. CASE Start
  BY <1>0, <1>2, DiskKept, Quiet DEF Start, IInv
<1>3. CASE Bootstrap
  <2>1. boot # "durable" /\ log = Reserved /\ UNCHANGED <<at, dir, log, pc>>
    BY <1>3 DEF Bootstrap, IInv, JournalInv
  <2>2. pc' \in {"idle", "bootstrap"}
    BY <1>3 DEF Bootstrap
  <2>3. JournalInv' /\ PhaseTruthful' /\ WriteAhead' /\ VisibleIsOwned'
    BY <2>1, <2>2
    DEF IInv, JournalInv, PhaseTruthful, WriteAhead, VisibleIsOwned, Restored,
        Reserved
  <2> QED
    BY <1>0, <2>2, <2>3, Quiet DEF IInv
<1>4. CASE Open
  <2>1. /\ boot = "durable" /\ mem' = log
        /\ UNCHANGED <<at, dir, boot, log, asked>>
    BY <1>4 DEF Open
  <2>2. log.bound \subseteq Group
    BY <1>0 DEF TypeOK, Journal
  <2>3. CommandInv'
    <3>1. CASE /\ asked = "apply" /\ log.phase \in {"reserved", "applying"}
               /\ pc' = "prepare" /\ todo' = Group
      BY <2>1, <3>1
      DEF IInv, JournalInv, CommandInv, PrepareInv, MovesInv, FinalizeInv
    <3>2. CASE /\ asked = "apply" /\ log.phase = "finalizing" /\ Split
               /\ pc' = "finalize" /\ todo' = log.bound
      BY <2>1, <3>2
      DEF IInv, JournalInv, CommandInv, PrepareInv, MovesInv, FinalizeInv
    <3>3. CASE /\ asked = "rollback" /\ log.phase # "rolled_back"
               /\ pc' = "prepare" /\ todo' = {g \in Group : Adoptable(g)}
      <4>1. log.phase # "reserved" => todo' = {}
        BY <3>3 DEF IInv, JournalInv, Adoptable
      <4>2. /\ \A g \in Group \ (log.bound \cup todo') : dir[g].name = "none"
            /\ \A g \in todo' : dir[g].name # "none"
        BY <3>3 DEF Adoptable
      <4> QED
        BY <2>1, <3>3, <4>1, <4>2
        DEF IInv, JournalInv, CommandInv, PrepareInv, MovesInv, FinalizeInv
    <3> QED
      BY <1>4, <3>1, <3>2, <3>3 DEF Open
  <2> QED
    BY <1>0, <2>1, <2>3, DiskKept DEF IInv
<1>5. ASSUME NEW g \in Group, MakeDirectory(g) PROVE IInv'
  <2> DEFINE d == [name |-> "construction", marker |-> "none", mode |-> "working"]
  <2>1. d \in Directory /\ d.name # "none" /\ d.name # "published"
    BY DEF Directory, Mode
  <2>2. dir' = [dir EXCEPT ![g] = d] /\ dir[g].name # "published"
    BY <1>5 DEF MakeDirectory
  <2> HIDE DEF d
  <2> QED
    BY <1>0, <1>5, <2>1, <2>2, Prepared1 DEF MakeDirectory
<1>6. ASSUME NEW g \in Group, CreateMarker(g) PROVE IInv'
  <2>1. dir' = [dir EXCEPT ![g] = [dir[g] EXCEPT !.marker = "torn"]]
    BY <1>6 DEF CreateMarker
  <2>2. [dir[g] EXCEPT !.marker = "torn"] \in Directory
    BY <1>0, DirectoryFields DEF TypeOK
  <2>3. [dir[g] EXCEPT !.marker = "torn"].name = "construction"
    BY <1>0, <1>6 DEF TypeOK, Directory, CreateMarker
  <2> QED
    BY <1>0, <1>6, <2>1, <2>2, <2>3, Prepared1 DEF CreateMarker
<1>7. ASSUME NEW g \in Group, FillMarker(g) PROVE IInv'
  <2> DEFINE d == [dir[g] EXCEPT !.marker = "whole"]
  <2>1. dir' = [dir EXCEPT ![g] = d]
    BY <1>7 DEF FillMarker
  <2>2. d \in Directory
    BY <1>0, DirectoryFields DEF TypeOK
  <2>3. d.marker = "whole" /\ d.name # "none" /\ dir[g].name = "construction"
    BY <1>0, <1>7 DEF TypeOK, Directory, FillMarker
  <2> HIDE DEF d
  <2> QED
    BY <1>0, <1>7, <2>1, <2>2, <2>3, Prepared1 DEF FillMarker
<1>8. ASSUME NEW g \in Group, Publish(g) PROVE IInv'
  <2> DEFINE d == [dir[g] EXCEPT !.name = "published"]
  <2>1. dir' = [dir EXCEPT ![g] = d]
    BY <1>8 DEF Publish
  <2>2. d \in Directory
    BY <1>0, DirectoryFields DEF TypeOK
  <2>3. d.marker = "whole" /\ d.name # "none" /\ dir[g].name = "construction"
    BY <1>0, <1>8 DEF TypeOK, Directory, Publish
  <2> HIDE DEF d
  <2> QED
    BY <1>0, <1>8, <2>1, <2>2, <2>3, Prepared1 DEF Publish
<1>9. ASSUME NEW g \in Group, Bind(g) PROVE IInv'
  <2>1. /\ pc = "prepare" /\ pc' = "prepare" /\ g \in todo /\ todo' = todo \ {g}
        /\ UNCHANGED <<at, dir, boot, log, asked>>
        /\ dir[g].name = "published" /\ boot = "durable"
    BY <1>9 DEF Bind, Preparing, First, IInv, CommandInv, PrepareInv
  <2>2. mem'.phase = mem.phase /\ mem'.bound = mem.bound \cup {g}
    BY <1>0, <1>9 DEF Bind, TypeOK, Journal
  <2>3. CommandInv'
    BY <2>1, <2>2 DEF IInv, CommandInv, PrepareInv, MovesInv, FinalizeInv
  <2> QED
    BY <1>0, <2>1, <2>3, DiskKept DEF IInv
<1>10. ASSUME NEW g \in Group, Unmark(g) PROVE IInv'
  <2> DEFINE d == [dir[g] EXCEPT !.marker = "none"]
  <2>1. dir' = [dir EXCEPT ![g] = d]
    BY <1>10 DEF Unmark
  <2>2. d \in Directory
    BY <1>0, DirectoryFields DEF TypeOK
  <2>3. d.name = dir[g].name
    BY <1>0 DEF TypeOK, Directory
  <2> HIDE DEF d
  <2> QED
    BY <1>0, <1>10, <2>1, <2>2, <2>3, Finalized1 DEF Unmark, Rest
<1>11. ASSUME NEW g \in Group, SetMode(g) PROVE IInv'
  <2> DEFINE d == [dir[g] EXCEPT !.mode = "committed"]
  <2>1. dir' = [dir EXCEPT ![g] = d]
    BY <1>11 DEF SetMode
  <2>2. d \in Directory
    BY <1>0, DirectoryFields DEF TypeOK
  <2>3. d.name = dir[g].name
    BY <1>0 DEF TypeOK, Directory
  <2>4. mem'.phase = mem.phase /\ mem'.bound = mem.bound
    BY <1>0, <1>11 DEF SetMode, TypeOK, Journal
  <2> HIDE DEF d
  <2> QED
    BY <1>0, <1>11, <2>1, <2>2, <2>3, <2>4, Finalized1 DEF SetMode
<1>12. CASE BeginMoves
  <2>1. /\ pc = "prepare" /\ todo = {} /\ asked = "apply" /\ asked' = asked
        /\ UNCHANGED <<at, dir>> /\ pc' = "moves" /\ LiveState("applying")
        /\ Append("applying")
    BY <1>12 DEF BeginMoves, Prepared
  <2>2. /\ log' = mem' /\ log'.phase = "applying" /\ log'.bound = mem.bound
        /\ boot' = boot
    BY <1>0, <2>1, Appended DEF Phase
  <2>3. log'.bound = Group /\ boot = "durable"
    BY <1>0, <2>1, <2>2
    DEF IInv, TypeOK, Journal, CommandInv, PrepareInv
  <2>4. CommandInv'
    BY <2>1, <2>2, <2>3 DEF CommandInv, PrepareInv, MovesInv, FinalizeInv
  <2>5. JournalInv'
    BY <2>1, <2>2, <2>3 DEF JournalInv, LiveState
  <2>6. PhaseTruthful'
    BY <2>1, <2>2, <2>3 DEF IInv, PhaseTruthful, Restored, Split
  <2>7. WriteAhead'
    BY <1>0, <2>1, <2>2, <2>3 DEF IInv, TypeOK, WriteAhead, Place
  <2>8. VisibleIsOwned'
    BY <2>1, <2>2, <2>3 DEF LiveState, VisibleIsOwned
  <2> QED
    BY <1>0, <2>4, <2>5, <2>6, <2>7, <2>8 DEF IInv
<1>13. CASE Adopted
  <2>1. /\ pc = "prepare" /\ todo = {} /\ asked = "rollback" /\ asked' = asked
        /\ UNCHANGED <<at, dir>> /\ pc' = "prepare" /\ todo' = {}
        /\ Append(mem.phase) /\ mem # log
    BY <1>13 DEF Adopted, Prepared
  <2>2. /\ mem.phase = "reserved" /\ log.phase = "reserved"
        /\ boot = "durable" /\ log.bound \subseteq mem.bound
        /\ \A g \in mem.bound : dir[g].name = "published"
        /\ \A g \in Group \ mem.bound : dir[g].name = "none"
    BY <2>1 DEF IInv, CommandInv, PrepareInv
  <2>3. /\ log' = mem' /\ log'.phase = "reserved" /\ log'.bound = mem.bound
        /\ boot' = boot
    BY <1>0, <2>1, <2>2, Appended DEF Phase
  <2>4. CommandInv'
    BY <2>1, <2>2, <2>3 DEF CommandInv, PrepareInv, MovesInv, FinalizeInv
  <2>5. JournalInv'
    BY <2>1, <2>2, <2>3 DEF JournalInv
  <2>6. PhaseTruthful'
    BY <2>1, <2>2, <2>3 DEF IInv, PhaseTruthful, Restored, Split
  <2>7. WriteAhead'
    BY <2>1, <2>2, <2>3 DEF IInv, WriteAhead
  <2>8. VisibleIsOwned'
    BY <2>1, <2>2, <2>3 DEF IInv, VisibleIsOwned
  <2> QED
    BY <1>0, <2>4, <2>5, <2>6, <2>7, <2>8 DEF IInv
<1>14. CASE TurnBack
  <2>1. /\ pc = "prepare" /\ todo = {} /\ asked = "rollback" /\ asked' = asked
        /\ UNCHANGED <<at, dir>> /\ pc' = "moves" /\ LiveState(mem.phase)
        /\ Append("rolling_back") /\ mem = log
    BY <1>14 DEF TurnBack, Prepared
  <2>2. /\ boot = "durable"
        /\ \A g \in Group \ mem.bound : dir[g].name = "none"
        /\ \A g \in mem.bound : dir[g].name = "published"
    BY <2>1 DEF IInv, CommandInv, PrepareInv
  <2>3. /\ log' = mem' /\ log'.phase = "rolling_back" /\ log'.bound = log.bound
        /\ boot' = boot
    BY <1>0, <2>1, Appended DEF Phase
  <2>4. CommandInv'
    BY <2>1, <2>2, <2>3 DEF CommandInv, PrepareInv, MovesInv, FinalizeInv
  <2>5. JournalInv'
    BY <2>1, <2>2, <2>3 DEF JournalInv
  <2>6. PhaseTruthful'
    BY <2>1, <2>2, <2>3 DEF PhaseTruthful
  <2>7. WriteAhead'
    BY <2>1, <2>2, <2>3 DEF IInv, WriteAhead
  <2>8. VisibleIsOwned'
    BY <2>1, <2>2, <2>3 DEF IInv, VisibleIsOwned
  <2> QED
    BY <1>0, <2>4, <2>5, <2>6, <2>7, <2>8 DEF IInv
<1>15. ASSUME NEW r \in Recording, Move(r) PROVE IInv'
  <2>1. /\ pc = "moves" /\ asked = "apply" /\ Part[r] # Source
        /\ Part[r] \in mem.bound /\ dir[Part[r]].name = "published"
        /\ at' = [at EXCEPT ![r] = Part[r]]
        /\ UNCHANGED <<dir, boot, log, mem, pc, todo, asked>>
    BY <1>15 DEF Move, MoveTo, RootMatches
  <2>2. boot = "durable" /\ mem = log /\ log.phase = "applying"
    BY <2>1 DEF IInv, CommandInv, MovesInv
  <2>3. CommandInv'
    BY <2>1, <2>2 DEF CommandInv, PrepareInv, MovesInv, FinalizeInv
  <2>4. JournalInv'
    BY <2>1, <2>2 DEF IInv, JournalInv
  <2>5. PhaseTruthful' /\ VisibleIsOwned'
    BY <2>1, <2>2 DEF IInv, PhaseTruthful, VisibleIsOwned
  <2>6. WriteAhead'
    BY <1>0, <2>1, <2>2 DEF IInv, WriteAhead, TypeOK
  <2> QED
    BY <1>0, <2>3, <2>4, <2>5, <2>6 DEF IInv
<1>16. ASSUME NEW r \in Recording, MoveBack(r) PROVE IInv'
  <2>1. /\ pc = "moves" /\ asked = "rollback"
        /\ at' = [at EXCEPT ![r] = Source]
        /\ UNCHANGED <<dir, boot, log, mem, pc, todo, asked>>
    BY <1>16 DEF MoveBack, MoveTo
  <2>2. boot = "durable" /\ mem = log /\ log.phase = "rolling_back"
    BY <2>1 DEF IInv, CommandInv, MovesInv
  <2>3. CommandInv'
    BY <2>1, <2>2 DEF CommandInv, PrepareInv, MovesInv, FinalizeInv
  <2>4. JournalInv'
    BY <2>1, <2>2 DEF IInv, JournalInv
  <2>5. PhaseTruthful' /\ VisibleIsOwned'
    BY <2>1, <2>2 DEF IInv, PhaseTruthful, VisibleIsOwned
  <2>6. WriteAhead'
    BY <1>0, <2>1, <2>2 DEF IInv, WriteAhead, TypeOK
  <2> QED
    BY <1>0, <2>3, <2>4, <2>5, <2>6 DEF IInv
<1>17. CASE Moved
  <2>1. /\ pc = "moves" /\ asked = "apply" /\ asked' = asked /\ Split
        /\ UNCHANGED <<at, dir>> /\ pc' = "finalize" /\ todo' = mem.bound
        /\ Append("finalizing")
    BY <1>17 DEF Moved
  <2>2. boot = "durable" /\ mem = log /\ log.phase = "applying"
    BY <2>1 DEF IInv, CommandInv, MovesInv
  <2>3. /\ log' = mem' /\ log'.phase = "finalizing" /\ log'.bound = log.bound
        /\ boot' = boot
    BY <1>0, <2>1, <2>2, Appended DEF Phase
  <2>4. CommandInv'
    BY <2>1, <2>2, <2>3 DEF CommandInv, PrepareInv, MovesInv, FinalizeInv
  <2>5. JournalInv'
    BY <2>1, <2>2, <2>3 DEF IInv, JournalInv
  <2>6. PhaseTruthful'
    BY <2>1, <2>2, <2>3 DEF PhaseTruthful, Split
  <2>7. WriteAhead' /\ VisibleIsOwned'
    BY <2>1, <2>2, <2>3 DEF IInv, WriteAhead, VisibleIsOwned
  <2> QED
    BY <1>0, <2>4, <2>5, <2>6, <2>7 DEF IInv
<1>18. CASE MovedBack
  <2>1. /\ pc = "moves" /\ asked = "rollback" /\ asked' = asked /\ Restored
        /\ UNCHANGED <<at, dir, boot, log, mem>> /\ pc' = "finalize"
        /\ todo' = mem.bound
    BY <1>18 DEF MovedBack
  <2>2. boot = "durable" /\ mem = log /\ log.phase = "rolling_back"
    BY <2>1 DEF IInv, CommandInv, MovesInv
  <2>3. CommandInv'
    BY <2>1, <2>2 DEF CommandInv, PrepareInv, MovesInv, FinalizeInv, Restored
  <2> QED
    BY <1>0, <2>1, <2>2, <2>3, DiskKept DEF IInv
<1>19. CASE Settle
  <2> DEFINE phase == IF asked = "apply" THEN "committed" ELSE "rolled_back"
  <2>1. /\ pc = "finalize" /\ pc' = "idle" /\ UNCHANGED <<at, dir>>
        /\ LiveState(phase) /\ Append(phase)
    BY <1>19 DEF Settle
  <2>2. /\ boot = "durable" /\ mem.phase = log.phase /\ mem.bound = log.bound
        /\ asked = "apply" => log.phase = "finalizing"
        /\ asked # "apply" => log.phase = "rolling_back" /\ Restored
    BY <1>0, <2>1 DEF IInv, TypeOK, CommandInv, FinalizeInv
  <2>3. phase \in Phase
    BY DEF Phase
  <2>4. /\ log' = mem' /\ log'.phase = phase /\ log'.bound = log.bound
        /\ boot' = boot
    BY <1>0, <2>1, <2>2, <2>3, Appended
  <2>5. log.bound \subseteq Group
    BY <1>0 DEF TypeOK, Journal
  <2>6. \A g \in log.bound :
            dir[g] = [name |-> "published", marker |-> "none",
                      mode |-> "committed"]
    BY <1>0, <2>1, <2>2, <2>5 DEF LiveState, TypeOK, Directory
  <2>7. JournalInv'
    BY <2>1, <2>2, <2>4 DEF IInv, JournalInv
  <2>8. PhaseTruthful'
    BY <2>1, <2>2, <2>4, <2>6 DEF IInv, PhaseTruthful, Restored, Split
  <2>9. WriteAhead' /\ VisibleIsOwned'
    BY <2>1, <2>2, <2>4 DEF IInv, WriteAhead, VisibleIsOwned
  <2> QED
    BY <1>0, <2>1, <2>7, <2>8, <2>9, Quiet DEF IInv
<1>20. CASE Refuse
  BY <1>0, <1>20, DiskKept, Quiet DEF Refuse, End, IInv
<1>21. CASE Stop
  BY <1>0, <1>21, DiskKept, Quiet DEF Stop, End, IInv
<1>22. CASE UNCHANGED vars
  <2>1. CommandInv'
    BY <1>22 DEF vars, IInv, CommandInv, PrepareInv, MovesInv, FinalizeInv,
                 Restored
  <2> QED
    BY <1>0, <1>22, <2>1, DiskKept DEF vars, IInv, JournalInv
<1> QED
  BY <1>1, <1>2, <1>3, <1>4, <1>5, <1>6, <1>7, <1>8, <1>9, <1>10, <1>11, <1>12,
     <1>13, <1>14, <1>15, <1>16, <1>17, <1>18, <1>19, <1>20, <1>21, <1>22
  DEF Next, Step

LEMMA Invariant == Spec => []IInv
BY IInvInit, IInvStep, PTL DEF Spec

(* At every moment of every command the durable phase tells where the      *)
(* recordings are.                                                         *)
THEOREM PhasesAreTruthful == Spec => []PhaseTruthful
<1>1. IInv => PhaseTruthful
  BY DEF IInv
<1> QED
  BY Invariant, <1>1, PTL

(* A recording is away from the source only where the durable journal can  *)
(* find it.                                                                *)
THEOREM MovesAreJournaled == Spec => []WriteAhead
<1>1. IInv => WriteAhead
  BY DEF IInv
<1> QED
  BY Invariant, <1>1, PTL

(* A destination is marked or bound from the moment it is visible.         *)
THEOREM DestinationsAreOwned == Spec => []VisibleIsOwned
<1>1. IInv => VisibleIsOwned
  BY DEF IInv
<1> QED
  BY Invariant, <1>1, PTL

(* No command turns a rollback round.                                      *)
LEMMA BackStaysBack ==
    ASSUME IInv, [Next]_vars, log.phase \in Back
    PROVE  /\ log'.phase \in Back
           /\ \A r \in Recording : at[r] = Source => at'[r] = Source
<1> USE DEF operator, command, journal, disk
<1>0. TypeOK
  BY DEF IInv
<1>1. CASE BeginMoves \/ Adopted \/ TurnBack
  <2>1. pc = "prepare" /\ UNCHANGED at
    BY <1>1 DEF BeginMoves, Adopted, TurnBack, Prepared
  <2>2. ~ BeginMoves /\ mem.phase = log.phase /\ mem.phase \in Phase
    BY <1>0, <2>1 DEF IInv, CommandInv, PrepareInv, Back, BeginMoves, TypeOK,
                      Journal
  <2>3. CASE Adopted
    BY <1>0, <2>1, <2>2, <2>3, Appended DEF Adopted
  <2>4. CASE TurnBack
    BY <1>0, <2>1, <2>4, Appended DEF TurnBack, Back, Phase
  <2> QED
    BY <1>1, <2>1, <2>2, <2>3, <2>4
<1>2. ASSUME NEW r \in Recording, Move(r) PROVE FALSE
  BY <1>2 DEF Move, IInv, CommandInv, MovesInv, Back
<1>3. ASSUME NEW r \in Recording, MoveBack(r)
      PROVE  /\ log'.phase \in Back
             /\ \A q \in Recording : at[q] = Source => at'[q] = Source
  BY <1>0, <1>3 DEF MoveBack, MoveTo, TypeOK
<1>4. ~ Moved
  BY DEF Moved, IInv, CommandInv, MovesInv, Back
<1>5. CASE Settle
  <2>1. asked = "rollback"
    BY <1>0, <1>5 DEF Settle, IInv, CommandInv, FinalizeInv, Back, TypeOK
  <2>2. Append("rolled_back") /\ UNCHANGED at
    BY <1>5, <2>1 DEF Settle
  <2> QED
    BY <1>0, <2>2, Appended DEF Back, Phase
<1>6. CASE UNCHANGED <<at, log>>
  BY <1>6
<1>7. \/ BeginMoves \/ Adopted \/ TurnBack \/ Moved \/ Settle
      \/ \E r \in Recording : Move(r) \/ MoveBack(r)
      \/ UNCHANGED <<at, log>>
  BY DEF Next, Step, vars, Switch, Start, Bootstrap, Open, MakeDirectory,
         CreateMarker, FillMarker, Publish, Bind, Unmark, SetMode, Rest,
         MovedBack, Refuse, Stop
<1> QED
  BY <1>1, <1>2, <1>3, <1>4, <1>5, <1>6, <1>7

(* A rollback that has begun is only ever ended, never turned round.       *)
THEOREM RollbacksAreOneWay == Spec => OneWay
<1>1. IInv /\ [Next]_vars =>
      [log.phase \in Back =>
           /\ log'.phase \in Back
           /\ \A r \in Recording : at[r] = Source => at'[r] = Source]_vars
  BY BackStaysBack
<1> QED
  BY Invariant, <1>1, PTL DEF Spec, OneWay

-----------------------------------------------------------------------------
(* The reconciliation of convert_state.json with the partitions, for every *)
(* set of tasks, recordings and plans, however the plans overlap, and      *)
(* every number of conversions and stops.  Its command has variables named *)
(* as those of the partition; no step of both is meant here.               *)
VARIABLES raw, partition, plan, conversions

Reconcile == INSTANCE StateReconcile

(* The instance means the same by the scope of a plan.                     *)
LEMMA ScopesAgree ==
    \A p : /\ Reconcile!Scope(p) = Scope(p)
           /\ Reconcile!Destinations(p) = Destinations(p)
           /\ Reconcile!MovedOut(p) = MovedOut(p)
BY DEF Reconcile!Scope, Reconcile!Destinations, Reconcile!MovedOut,
       Scope, Destinations, MovedOut

Whole(p) == backup[p].kind = "whole"
Was(p, t) == backup[p].was[t]

(* The stamps an entry can have so far.                                    *)
Past == (-1..conversions) \cup Plan

(* A failure may be gone from the entry of its task.                       *)
Excused(t, s) ==
    \/ s \in output[t]
    \/ \E p \in Plan : /\ Whole(p)
                       /\ t = SourceOf[p] /\ s \in MovedOut(p)

(* The entry loses nothing of what the converter wrote last.               *)
Current(e, t) ==
    /\ last[t].done \subseteq e.done
    /\ e.failed \subseteq last[t].failed
    /\ \A s \in last[t].failed \ e.failed : Excused(t, s)

(* The stamps in C are those of the entries of task t that are still       *)
(* current: that of the state, and with the stamp of a plan that of its    *)
(* backup, and conversely.                                                 *)
Live(t, C) ==
    /\ state[t].stamp \in C
    /\ Current(state[t], t)
    /\ \A p \in Plan : Whole(p) /\ t \in Scope(p) =>
           /\ p \in C <=> Was(p, t).stamp \in C
           /\ Was(p, t).stamp \in C => Current(Was(p, t), t)

LiveInv == \A t \in Task : \E C \in SUBSET (Int \cup Plan) : Live(t, C)

PastInv == \A t \in Task : /\ state[t].stamp \in Past
                           /\ \A p \in Plan : Was(p, t).stamp \in Past

(* A stamp of a plan, in the state or in a backup, has its own backup.     *)
OwnInv ==
    \A p \in Plan, t \in Task :
        /\ state[t].stamp = p => Whole(p) /\ t \in Scope(p)
        /\ \A q \in Plan : Whole(q) /\ Was(q, t).stamp = p =>
               p # q /\ Whole(p) /\ t \in Scope(p)

StepInv ==
    /\ pc = "create" => backup[plan].kind = "none"
    /\ pc = "fill" => backup[plan].kind = "torn"
    /\ pc = "install" =>
           /\ Whole(plan)
           /\ \A t \in Scope(plan) :
                  state[t].stamp \in {Was(plan, t).stamp, plan}

OutputInv == \A t \in Task : last[t].done \subseteq output[t]

(* Commands may stop anywhere and plans may overlap: the stamps tell       *)
(* which backups may still be put back.                                    *)
EntriesInv == Reconcile!TypeOK /\ OutputInv /\ PastInv /\ OwnInv /\ StepInv
    /\ LiveInv

-----------------------------------------------------------------------------
LEMMA ScopeInTask == \A p \in Plan : Scope(p) \subseteq Task
    /\ SourceOf[p] \in Scope(p)
BY PlanAssumption DEF Scope

LEMMA InstalledType ==
    ASSUME Reconcile!TypeOK, NEW p \in Plan
    PROVE  Reconcile!Target(p) \in [Task -> Reconcile!Entry]
<1> DEFINE base == backup[p].was
<1>1. base \in [Task -> Reconcile!Entry]
  BY DEF Reconcile!TypeOK
<1>2. Reconcile!Replacement(p, base) \in [Task -> Reconcile!Entry]
  <2> SUFFICES ASSUME NEW t \in Task
               PROVE  Reconcile!Replacement(p, base)[t] \in Reconcile!Entry
    BY ScopesAgree DEF Reconcile!Replacement
  <2>1. base[t] \in Reconcile!Entry /\ output[t] \subseteq Serial
    BY <1>1 DEF Reconcile!TypeOK
  <2>2. base[t].done \subseteq Serial /\ base[t].failed \subseteq Serial
    BY <2>1 DEF Reconcile!Entry, Reconcile!Missing
  <2>3. \A d, f \in SUBSET Serial :
           [done |-> d, failed |-> f, stamp |-> p] \in Reconcile!Entry
    BY DEF Reconcile!Entry, Reconcile!Stamp
  <2>4. /\ base[t].failed \ output[t] \in SUBSET Serial
        /\ base[t].failed \ (output[t] \cup MovedOut(p)) \in SUBSET Serial
    BY <2>2
  <2>5. (IF output[t] = {} THEN base[t].done ELSE output[t])
           \in SUBSET Serial
    BY <2>1, <2>2
  <2> QED
    BY <2>1, <2>3, <2>4, <2>5, ScopesAgree DEF Reconcile!Replacement
<1> QED
  BY <1>1, <1>2, ScopesAgree DEF Reconcile!Target, Reconcile!Composed,
     Reconcile!TypeOK

(* What a plan asks for loses nothing if its backup does not.              *)
LEMMA ReplacementCurrent ==
    ASSUME Reconcile!TypeOK, OutputInv, NEW p \in Plan, Whole(p),
        NEW t \in Scope(p),
           Current(Was(p, t), t)
    PROVE  LET e == Reconcile!Replacement(p, backup[p].was)[t]
           IN  /\ Current(e, t)
               /\ e.stamp \in {p, Was(p, t).stamp}
<1> DEFINE base == backup[p].was
           e == Reconcile!Replacement(p, base)[t]
<1>1. t \in Task /\ last[t].done \subseteq output[t]
  BY ScopeInTask DEF OutputInv
<1>2. CASE t \in Destinations(p)
  <2>1. e = [done |-> output[t], failed |-> base[t].failed \ output[t],
             stamp |-> p]
    BY <1>1, <1>2, ScopesAgree DEF Reconcile!Replacement, Destinations
  <2>2. \A s \in last[t].failed \ e.failed : Excused(t, s)
    BY <2>1 DEF Current, Was, Excused
  <2> QED
    BY <1>1, <2>1, <2>2 DEF Current, Was
<1>3. CASE t = SourceOf[p] /\ (base[t] # Reconcile!Missing \/ output[t] # {})
  <2>1. e = [done |-> IF output[t] = {} THEN base[t].done ELSE output[t],
             failed |-> base[t].failed \ (output[t] \cup MovedOut(p)),
             stamp |-> p]
    BY <1>1, <1>3, ScopesAgree DEF Reconcile!Replacement, Destinations
  <2>2. \A s \in last[t].failed \ e.failed : Excused(t, s)
    BY <1>3, <2>1 DEF Current, Was, Excused
  <2>3. last[t].done \subseteq e.done
    BY <1>1, <2>1 DEF Current, Was
  <2>4. e.failed \subseteq last[t].failed /\ e.stamp = p
    BY <2>1 DEF Current, Was
  <2> QED
    BY <2>2, <2>3, <2>4 DEF Current
<1>4. CASE /\ t \notin Destinations(p)
           /\ ~(t = SourceOf[p] /\ (base[t] # Reconcile!Missing
               \/ output[t] # {}))
  <2>1. e = Was(p, t)
    BY <1>1, <1>4, ScopesAgree DEF Reconcile!Replacement, Was
  <2> QED
    BY <2>1
<1> QED
  BY <1>2, <1>3, <1>4

-----------------------------------------------------------------------------
LEMMA EntriesInit == Reconcile!Init => EntriesInv
<1> SUFFICES ASSUME Reconcile!Init PROVE EntriesInv
  OBVIOUS
<1>1. Reconcile!Missing \in Reconcile!Entry
  BY DEF Reconcile!Entry
<1>2. state \in [Task -> Reconcile!Entry] /\ last = state
  <2> SUFFICES ASSUME NEW failed \in [Task -> SUBSET Serial],
                      NEW seen \in SUBSET Task,
                      state = [t \in Task |->
                          IF t \in seen THEN [done |-> output[t],
                                              failed |-> failed[t],
                                                  stamp |-> 0]
                          ELSE Reconcile!Missing]
               PROVE  state \in [Task -> Reconcile!Entry]
    BY DEF Reconcile!Init
  <2>1. \A t \in Task : [done |-> output[t], failed |-> failed[t], stamp |-> 0]
                           \in Reconcile!Entry
    BY BoundsAssumption, ConversionsAssumption DEF Reconcile!Entry,
       Reconcile!Stamp, Reconcile!Init
  <2> QED
    BY <1>1, <2>1
<1>3. Reconcile!TypeOK
  <2>1. backup \in [Plan -> [kind : {"none", "torn", "whole"},
                             was : [Task -> Reconcile!Entry]]]
    BY <1>1 DEF Reconcile!Init
  <2>2. plan \in Plan
    BY PlanAssumption DEF Reconcile!Init, Reconcile!NoPlan
  <2> QED
    BY <1>2, <2>1, <2>2, PlanAssumption, BoundsAssumption,
       ConversionsAssumption DEF Reconcile!Init, Reconcile!TypeOK
<1>4. /\ \A t \in Task : state[t].done \subseteq output[t]
      /\ \A t \in Task : state[t].stamp \in {0, -1}
  BY DEF Reconcile!Init, Reconcile!Missing
<1>5. \A p \in Plan : ~Whole(p) /\ \A t \in Task : Was(p, t).stamp = -1
  BY DEF Reconcile!Init, Whole, Was, Reconcile!Missing
<1>6. OutputInv
  BY <1>2, <1>4 DEF OutputInv
<1>7. PastInv
  BY <1>4, <1>5 DEF PastInv, Past, Reconcile!Init
<1>8. OwnInv
  BY <1>4, <1>5, StampAssumption DEF OwnInv
<1>9. StepInv
  BY DEF StepInv, Reconcile!Init
<1>10. LiveInv
  <2> SUFFICES ASSUME NEW t \in Task
               PROVE  \E C \in SUBSET (Int \cup Plan) : Live(t, C)
    BY DEF LiveInv
  <2>1. Live(t, {0, -1})
    BY <1>2, <1>4, <1>5 DEF Live, Current
  <2> QED
    BY <2>1
<1> QED
  BY <1>3, <1>6, <1>7, <1>8, <1>9, <1>10 DEF EntriesInv

(* A step that leaves entries, backups and the converter alone.            *)
LEMMA QuietEntries ==
    ASSUME EntriesInv, UNCHANGED <<Reconcile!converter, Reconcile!files>>,
        Reconcile!TypeOK', StepInv'
    PROVE  EntriesInv'
<1>1. \A t, s : Excused(t, s)' <=> Excused(t, s)
  BY DEF Excused, Whole, Reconcile!converter, Reconcile!files
<1>2. \A e, t : Current(e, t) => Current(e, t)'
  BY <1>1 DEF Current, Reconcile!converter
<1>3. LiveInv'
  BY <1>2 DEF EntriesInv, LiveInv, Live, Whole, Was, Reconcile!converter,
     Reconcile!files
<1> QED
  BY <1>3 DEF EntriesInv, OutputInv, PastInv, OwnInv, Past, Whole, Was,
              Reconcile!converter, Reconcile!files

LEMMA EntriesNext == EntriesInv /\ [Reconcile!Next]_(Reconcile!vars)
    => EntriesInv'
<1> SUFFICES ASSUME EntriesInv, [Reconcile!Next]_(Reconcile!vars)
             PROVE EntriesInv'
  OBVIOUS
<1> USE DEF EntriesInv
<1>1. ASSUME NEW p \in Plan, Reconcile!Commit(p) \/ Reconcile!Reverse(p)
      PROVE EntriesInv'
  <2>1. raw' \in [Task -> SUBSET Serial]
    <3>1. \A t \in Task : /\ Share[p][t] \subseteq Serial
                          /\ UNION {Share[p][u] : u \in Task} \subseteq Serial
                          /\ raw[t] \subseteq Serial
      BY PlanAssumption DEF Reconcile!TypeOK
    <3>2. CASE Reconcile!Commit(p)
      BY <3>1, <3>2 DEF Reconcile!Commit
    <3>3. CASE Reconcile!Reverse(p)
      BY <3>1, <3>3 DEF Reconcile!Reverse
    <3> QED
      BY <1>1, <3>2, <3>3
  <2>2. partition' \in [Plan -> {"none", "committed", "rolled_back"}]
    BY <1>1 DEF Reconcile!Commit, Reconcile!Reverse, Reconcile!TypeOK
  <2>3. Reconcile!TypeOK' /\ StepInv'
    BY <1>1, <2>1, <2>2
       DEF Reconcile!Commit, Reconcile!Reverse, Reconcile!TypeOK, StepInv,
           Reconcile!converter, Reconcile!files, Reconcile!command
  <2> QED
    BY <1>1, <2>3, QuietEntries DEF Reconcile!Commit, Reconcile!Reverse
<1>2. CASE Reconcile!Ask
  <2>1. Reconcile!TypeOK' /\ StepInv'
    BY <1>2 DEF Reconcile!Ask, Reconcile!TypeOK, StepInv, Reconcile!raws,
       Reconcile!converter, Reconcile!files, Reconcile!command
  <2> QED
    BY <1>2, <2>1, QuietEntries DEF Reconcile!Ask
<1>3. ASSUME NEW p \in Plan, Reconcile!FirstApply(p) PROVE EntriesInv'
  <2>1. Reconcile!TypeOK' /\ StepInv'
    BY <1>3 DEF Reconcile!FirstApply, Reconcile!Run, Reconcile!TypeOK,
       StepInv, Reconcile!raws, Reconcile!converter, Reconcile!files
  <2> QED
    BY <1>3, <2>1, QuietEntries DEF Reconcile!FirstApply, Reconcile!Run
<1>4. ASSUME NEW p \in Plan, Reconcile!Again(p) PROVE EntriesInv'
  <2>1. ASSUME NEW t \in Scope(p)
        PROVE  state[t].stamp \in {Was(p, t).stamp, p}
    <3> DEFINE wanted == Reconcile!Replacement(p, backup[p].was)[t]
    <3>1. Reconcile!Admissible(state[t], Was(p, t), wanted)
      BY <1>4, ScopesAgree DEF Reconcile!Again, Reconcile!Composable, Was
    <3>2. state[t].stamp \in {Was(p, t).stamp, wanted.stamp}
      BY <3>1 DEF Reconcile!Admissible
    <3>3. wanted.stamp \in {Was(p, t).stamp, p}
      BY ScopeInTask, ScopesAgree DEF Reconcile!Replacement, Was
    <3> QED
      BY <3>2, <3>3
  <2>2. Reconcile!TypeOK' /\ StepInv'
    BY <1>4, <2>1
       DEF Reconcile!Again, Reconcile!Run, Reconcile!TypeOK, StepInv, Whole,
           Was, Reconcile!raws, Reconcile!converter, Reconcile!files
  <2> QED
    BY <1>4, <2>2, QuietEntries DEF Reconcile!Again, Reconcile!Run
<1>5. CASE Reconcile!Create
  <2>1. /\ plan \in Plan /\ backup[plan].kind = "none"
        /\ backup' = [backup EXCEPT ![plan].kind = "torn"]
    BY <1>5 DEF Reconcile!Create, Reconcile!TypeOK, StepInv
  <2>2. \A p \in Plan : /\ Whole(p)' <=> Whole(p)
                        /\ \A t : Was(p, t)' = Was(p, t)
    BY <2>1 DEF Whole, Was, Reconcile!TypeOK
  <2>3. Reconcile!TypeOK'
    BY <1>5, <2>1 DEF Reconcile!Create, Reconcile!TypeOK, Reconcile!raws,
       Reconcile!converter
  <2>4. StepInv'
    BY <1>5, <2>1 DEF Reconcile!Create, StepInv, Reconcile!TypeOK
  <2>5. \A t, s : Excused(t, s)' <=> Excused(t, s)
    BY <1>5, <2>2 DEF Excused, Reconcile!Create, Reconcile!converter
  <2>6. \A e, t : Current(e, t) => Current(e, t)'
    BY <1>5, <2>5 DEF Current, Reconcile!Create, Reconcile!converter
  <2>7. LiveInv'
    BY <1>5, <2>2, <2>6 DEF LiveInv, Live, Reconcile!Create
  <2>8. OutputInv' /\ PastInv' /\ OwnInv'
    BY <1>5, <2>2 DEF OutputInv, PastInv, OwnInv, Past, Reconcile!Create,
       Reconcile!converter
  <2> QED
    BY <2>3, <2>4, <2>7, <2>8
<1>6. CASE Reconcile!Fill
  <2>1. /\ plan \in Plan /\ ~Whole(plan)
        /\ plan' = plan
        /\ backup' = [backup EXCEPT ![plan] = [kind |-> "whole",
            was |-> state]]
    BY <1>6 DEF Reconcile!Fill, Reconcile!TypeOK, StepInv, Whole
  <2>2. /\ \A p \in Plan \ {plan} : /\ Whole(p)' <=> Whole(p)
                                    /\ \A t : Was(p, t)' = Was(p, t)
        /\ Whole(plan)' /\ \A t \in Task : Was(plan, t)' = state[t]
    <3>1. backup'[plan] = [kind |-> "whole", was |-> state]
      BY <2>1 DEF Reconcile!TypeOK
    <3>2. \A p \in Plan \ {plan} : backup'[p] = backup[p]
      BY <2>1 DEF Reconcile!TypeOK
    <3> QED
      BY <2>1, <3>1, <3>2 DEF Whole, Was
  <2>3. Reconcile!TypeOK'
    BY <1>6, <2>1 DEF Reconcile!Fill, Reconcile!TypeOK, Reconcile!raws,
       Reconcile!converter
  <2>4. StepInv'
    BY <1>6, <2>1, <2>2, ScopeInTask DEF Reconcile!Fill, StepInv
  <2>5. \A t, s : Excused(t, s) => Excused(t, s)'
    BY <1>6, <2>2 DEF Excused, Reconcile!Fill, Reconcile!converter
  <2>6. \A e, t : Current(e, t) => Current(e, t)'
    BY <1>6, <2>5 DEF Current, Reconcile!Fill, Reconcile!converter
  <2>7. \A t \in Task : state[t].stamp # plan
    BY <2>1 DEF OwnInv
  <2>8. OwnInv'
    BY <1>6, <2>1, <2>2, <2>7 DEF OwnInv, Reconcile!Fill
  <2>9. OutputInv' /\ PastInv'
    BY <1>6, <2>2 DEF OutputInv, PastInv, Past, Reconcile!Fill,
       Reconcile!converter
  <2>10. LiveInv'
    <3> SUFFICES ASSUME NEW t \in Task
                 PROVE  (\E C \in SUBSET (Int \cup Plan) : Live(t, C))'
      BY DEF LiveInv
    <3>1. PICK C \in SUBSET (Int \cup Plan) : Live(t, C)
      BY DEF LiveInv
    <3>0. PICK D : D = C \cup {plan}
      OBVIOUS
    <3>2. state'[t].stamp \in D /\ Current(state[t], t)' /\ state' = state
      BY <1>6, <2>6, <3>0, <3>1 DEF Live, Reconcile!Fill
    <3>3. ASSUME NEW p \in Plan, Whole(p)', t \in Scope(p)
          PROVE  /\ p \in D <=> Was(p, t)'.stamp \in D
                 /\ Was(p, t)'.stamp \in D => Current(Was(p, t), t)'
      <4>1. CASE p = plan
        BY <2>1, <2>2, <3>0, <3>1, <3>2, <4>1 DEF Current, Live, Was, Whole
      <4>2. CASE p # plan
        <5>1. Whole(p) /\ Was(p, t)' = Was(p, t)
          BY <2>2, <3>3, <4>2
        <5>2. Was(p, t).stamp # plan
          BY <2>1, <5>1 DEF OwnInv
        <5> QED
          BY <2>6, <3>0, <3>1, <3>3, <4>2, <5>1, <5>2 DEF Live
      <4> QED
        BY <4>1, <4>2
    <3>4. Live(t, D)'
      BY <3>2, <3>3 DEF Live
    <3>5. D \in SUBSET (Int \cup Plan)
      BY <2>1, <3>0, <3>1
    <3> QED
      BY <3>4, <3>5
  <2> QED
    BY <2>3, <2>4, <2>8, <2>9, <2>10
<1>7. CASE Reconcile!Install
  <2>1. /\ plan \in Plan /\ Whole(plan) /\ pc = "install" /\ pc' = "idle"
        /\ state' = Reconcile!Target(plan)
            /\ UNCHANGED <<Reconcile!raws, Reconcile!converter, backup, stops>>
    BY <1>7 DEF Reconcile!Install, Reconcile!TypeOK, StepInv
  <2>2. \A p \in Plan : /\ Whole(p)' <=> Whole(p)
                        /\ \A t : Was(p, t)' = Was(p, t)
    BY <2>1 DEF Whole, Was
  <2>3. Reconcile!TypeOK'
    <3>1. plan' \in Plan
      BY <1>7, PlanAssumption DEF Reconcile!Install, Reconcile!NoPlan
    <3>2. state' \in [Task -> Reconcile!Entry]
      BY <2>1, InstalledType
    <3> QED
      BY <1>7, <2>1, <3>1, <3>2 DEF Reconcile!Install, Reconcile!TypeOK,
         Reconcile!raws, Reconcile!converter
  <2>4. StepInv'
    BY <2>1 DEF StepInv
  <2>5. \A e, t : Current(e, t) <=> Current(e, t)'
    BY <2>1, <2>2 DEF Current, Excused, Reconcile!converter
  <2>6. ASSUME NEW t \in Task, t \notin Scope(plan) PROVE state'[t] = state[t]
    BY <2>1, <2>6, ScopesAgree DEF Reconcile!Target, Reconcile!Composed
  <2>7. ASSUME NEW t \in Scope(plan), NEW C, Live(t, C)
        PROVE  /\ state'[t].stamp \in {plan, Was(plan, t).stamp}
               /\ state'[t].stamp \in C
               /\ Current(state'[t], t)
    <3>1. t \in Task /\ state[t].stamp \in {Was(plan, t).stamp, plan}
      BY <2>1, ScopeInTask DEF StepInv
    <3>2. Was(plan, t).stamp \in C /\ plan \in C /\ Current(Was(plan, t), t)
      BY <2>1, <2>7, <3>1 DEF Live
    <3>3. CASE asked = "apply"
      <4>1. state'[t] = Reconcile!Replacement(plan, backup[plan].was)[t]
        BY <2>1, <3>1, <3>3, ScopesAgree DEF Reconcile!Target,
           Reconcile!Composed
      <4> QED
        BY <2>1, <3>2, <4>1, ReplacementCurrent
    <3>4. CASE asked # "apply"
      <4>1. state'[t] = Was(plan, t)
        BY <2>1, <3>1, <3>4, ScopesAgree DEF Reconcile!Target,
           Reconcile!Composed, Was
      <4> QED
        BY <3>2, <4>1
    <3> QED
      BY <3>3, <3>4
  <2>8. LiveInv'
    <3> SUFFICES ASSUME NEW t \in Task
                 PROVE  (\E C \in SUBSET (Int \cup Plan) : Live(t, C))'
      BY DEF LiveInv
    <3>1. PICK C \in SUBSET (Int \cup Plan) : Live(t, C)
      BY DEF LiveInv
    <3>2. state'[t].stamp \in C /\ Current(state'[t], t)
      BY <2>6, <2>7, <3>1 DEF Live
    <3>3. Live(t, C)'
      BY <2>2, <2>5, <3>1, <3>2 DEF Live
    <3> QED
      BY <3>1, <3>3
  <2>9. \A t \in Task : \/ state'[t] = state[t]
                        \/ /\ t \in Scope(plan)
                           /\ state'[t].stamp \in {plan, Was(plan, t).stamp}
    BY <2>6, <2>7 DEF LiveInv
  <2>10. OwnInv'
    BY <2>1, <2>2, <2>9 DEF OwnInv
  <2>11. PastInv'
    BY <2>1, <2>2, <2>9 DEF PastInv, Past, Reconcile!converter
  <2>12. OutputInv'
    BY <2>1 DEF OutputInv, Reconcile!converter
  <2> QED
    BY <2>3, <2>4, <2>8, <2>10, <2>11, <2>12
<1>8. CASE Reconcile!Kill
  <2>1. Reconcile!TypeOK' /\ StepInv'
    BY <1>8, PlanAssumption, BoundsAssumption, ConversionsAssumption
       DEF Reconcile!Kill, Reconcile!TypeOK, StepInv, Reconcile!NoPlan,
           Reconcile!raws, Reconcile!converter, Reconcile!files
  <2> QED
    BY <1>8, <2>1, QuietEntries DEF Reconcile!Kill
<1>9. CASE Reconcile!Raise
  <2>1. /\ plan \in Plan
        /\ UNCHANGED <<Reconcile!raws, Reconcile!converter, state>>
        /\ backup' = [backup EXCEPT
               ![plan].kind = IF @ = "torn" THEN "none" ELSE @]
    BY <1>9 DEF Reconcile!Raise, Reconcile!TypeOK
  <2>2. \A p \in Plan : /\ Whole(p)' <=> Whole(p)
                        /\ \A t : Was(p, t)' = Was(p, t)
    BY <2>1 DEF Whole, Was, Reconcile!TypeOK
  <2>3. Reconcile!TypeOK'
    <3>1. backup' \in [Plan -> [kind : {"none", "torn", "whole"},
                                was : [Task -> Reconcile!Entry]]]
      BY <2>1 DEF Reconcile!TypeOK
    <3>2. plan' \in Plan /\ pc' = "idle"
      BY <1>9, PlanAssumption DEF Reconcile!Raise, Reconcile!NoPlan
    <3>3. stops' \in 0..MaxStops /\ asked' = asked
      BY <1>9, BoundsAssumption, ConversionsAssumption DEF Reconcile!Raise,
         Reconcile!TypeOK
    <3> QED
      BY <2>1, <3>1, <3>2, <3>3 DEF Reconcile!TypeOK, Reconcile!raws,
         Reconcile!converter
  <2>4. StepInv'
    BY <1>9 DEF Reconcile!Raise, StepInv
  <2>5. \A e, t : Current(e, t) <=> Current(e, t)'
    BY <2>1, <2>2 DEF Current, Excused, Reconcile!converter
  <2>6. LiveInv'
    BY <2>1, <2>2, <2>5 DEF LiveInv, Live
  <2>7. OutputInv' /\ PastInv' /\ OwnInv'
    BY <2>1, <2>2 DEF OutputInv, PastInv, OwnInv, Past, Reconcile!converter
  <2> QED
    BY <2>3, <2>4, <2>6, <2>7
<1>10. ASSUME NEW t \in Task, NEW s \in Serial, Reconcile!Convert(t, s)
       PROVE EntriesInv'
  <2>1. /\ conversions' = conversions + 1 /\ conversions \in Nat
        /\ conversions' \in 0..MaxConversions
        /\ pc = "idle"
            /\ UNCHANGED <<Reconcile!raws, backup, asked, Reconcile!command,
                stops>>
    BY <1>10, BoundsAssumption, ConversionsAssumption DEF Reconcile!Convert,
       Reconcile!TypeOK
  <2>2. \A p \in Plan : /\ Whole(p)' <=> Whole(p)
                        /\ \A u : Was(p, u)' = Was(p, u)
    BY <2>1 DEF Whole, Was
  <2>3. /\ output' \in [Task -> SUBSET Serial]
        /\ \A u \in Task : output[u] \subseteq output'[u]
    <3>1. output' \in {output, [output EXCEPT ![t] = output[t] \cup {s}]}
      BY <1>10 DEF Reconcile!Convert
    <3>2. output[t] \cup {s} \in SUBSET Serial
      BY DEF Reconcile!TypeOK
    <3> QED
      BY <3>1, <3>2 DEF Reconcile!TypeOK
  <2>4. \/ UNCHANGED <<state, last>>
        \/ \E d, f \in SUBSET Serial :
              /\ d \subseteq output'[t]
              /\ state' = [state EXCEPT ![t] =
                     [done |-> d, failed |-> f, stamp |-> conversions']]
              /\ last' = [last EXCEPT ![t] =
                     [done |-> d, failed |-> f, stamp |-> conversions']]
    <3>1. state[t] \in Reconcile!Entry /\ t \in DOMAIN state
      BY DEF Reconcile!TypeOK
    <3>2. state[t].failed \subseteq Serial
      BY <3>1 DEF Reconcile!Entry, Reconcile!Missing
    <3>3. /\ output'[t] \in SUBSET Serial /\ output[t] \in SUBSET Serial
          /\ state[t].failed \ {s} \in SUBSET Serial
          /\ state[t].failed \cup {s} \in SUBSET Serial
      BY <2>3, <3>2 DEF Reconcile!TypeOK
    <3>4. \/ UNCHANGED <<state, last>>
          \/ /\ state' = [state EXCEPT ![t] =
                  [done |-> output'[t], failed |-> state[t].failed \ {s},
                   stamp |-> conversions']]
             /\ last' = [last EXCEPT ![t] = state'[t]]
          \/ /\ state' = [state EXCEPT ![t] =
                  [done |-> output[t], failed |-> state[t].failed \cup {s},
                   stamp |-> conversions']]
             /\ last' = [last EXCEPT ![t] = state'[t]]
      BY <1>10 DEF Reconcile!Convert
    <3>5. CASE UNCHANGED <<state, last>>
      BY <3>5
    <3>6. CASE /\ state' = [state EXCEPT ![t] =
                  [done |-> output'[t], failed |-> state[t].failed \ {s},
                   stamp |-> conversions']]
               /\ last' = [last EXCEPT ![t] = state'[t]]
      <4>1. state'[t] = [done |-> output'[t], failed |-> state[t].failed \ {s},
                         stamp |-> conversions']
        BY <3>1, <3>6
      <4> QED
        BY <3>3, <3>6, <4>1
    <3>7. CASE /\ state' = [state EXCEPT ![t] =
                  [done |-> output[t], failed |-> state[t].failed \cup {s},
                   stamp |-> conversions']]
               /\ last' = [last EXCEPT ![t] = state'[t]]
      <4>1. state'[t] = [done |-> output[t],
                         failed |-> state[t].failed \cup {s},
                         stamp |-> conversions']
        BY <3>1, <3>7
      <4> QED
        BY <2>3, <3>3, <3>7, <4>1
    <3> QED
      BY <3>4, <3>5, <3>6, <3>7
  <2>5. \A u, x : u \in Task /\ Excused(u, x) => Excused(u, x)'
    BY <2>2, <2>3 DEF Excused
  <2>6. CASE UNCHANGED <<state, last>>
    <3>1. \A e, u : u \in Task /\ Current(e, u) => Current(e, u)'
      BY <2>5, <2>6 DEF Current
    <3>2. LiveInv'
      BY <2>2, <2>6, <3>1 DEF LiveInv, Live
    <3>3. Reconcile!TypeOK' /\ StepInv'
      BY <2>1, <2>3, <2>6 DEF Reconcile!TypeOK, StepInv, Reconcile!raws,
         Reconcile!command
    <3>4. OutputInv' /\ OwnInv'
      BY <2>2, <2>3, <2>6 DEF OutputInv, OwnInv
    <3>5. PastInv'
      BY <2>1, <2>2, <2>6 DEF PastInv, Past
    <3> QED
      BY <3>2, <3>3, <3>4, <3>5
  <2>7. ASSUME NEW d \in SUBSET Serial, NEW f \in SUBSET Serial,
               d \subseteq output'[t],
               state' = [state EXCEPT ![t] =
                   [done |-> d, failed |-> f, stamp |-> conversions']],
               last' = [last EXCEPT ![t] =
                   [done |-> d, failed |-> f, stamp |-> conversions']]
        PROVE  EntriesInv'
    <3>0. PICK n \in 0..MaxConversions : n = conversions'
          /\ n = conversions + 1
      BY <2>1
    <3>1. [done |-> d, failed |-> f, stamp |-> n] \in Reconcile!Entry
      BY <3>0 DEF Reconcile!Entry, Reconcile!Stamp
    <3>2. /\ state'[t] = [done |-> d, failed |-> f, stamp |-> n]
          /\ last'[t] = state'[t]
          /\ \A u \in Task \ {t} : state'[u] = state[u] /\ last'[u] = last[u]
      BY <2>7, <3>0 DEF Reconcile!TypeOK
    <3>3. Reconcile!TypeOK'
      BY <2>1, <2>3, <2>7, <3>0, <3>1 DEF Reconcile!TypeOK, Reconcile!raws,
         Reconcile!command
    <3>4. StepInv'
      BY <2>1 DEF StepInv, Reconcile!command
    <3>5. OutputInv'
      BY <2>3, <2>7, <3>2 DEF OutputInv
    <3>6. n \in Int /\ \A p \in Plan : n # p
      BY <3>0, StampAssumption
    <3>7. OwnInv'
      BY <2>2, <3>2, <3>6 DEF OwnInv
    <3>8. Past \subseteq Past' /\ n \in Past' /\ n \notin Past
      BY <2>1, <3>0, <3>6 DEF Past
    <3>9. PastInv'
      <4>1. state'[t].stamp = n
        BY <3>2
      <4> QED
        BY <2>2, <3>2, <3>8, <4>1 DEF PastInv
    <3>10. ASSUME NEW u \in Task
           PROVE  (\E C \in SUBSET (Int \cup Plan) : Live(u, C))'
      <4>1. CASE u = t
        <5>1. \A p \in Plan : p \notin {n} /\ Was(p, u)'.stamp \notin {n}
          BY <2>2, <3>6, <3>8 DEF PastInv
        <5>2. Live(u, {n})'
          <6>1. Current(state[t], t)' /\ state'[t].stamp \in {n}
            BY <3>2 DEF Current
          <6> QED
            BY <4>1, <5>1, <6>1 DEF Live
        <5> QED
          BY <3>6, <5>2
      <4>2. CASE u # t
        <5>1. PICK C \in SUBSET (Int \cup Plan) : Live(u, C)
          BY DEF LiveInv
        <5>2. \A e : Current(e, u) => Current(e, u)'
          BY <2>5, <3>2, <4>2 DEF Current
        <5>3. Live(u, C)'
          BY <2>2, <3>2, <4>2, <5>1, <5>2 DEF Live
        <5> QED
          BY <5>3
      <4> QED
        BY <4>1, <4>2
    <3> QED
      BY <3>3, <3>4, <3>5, <3>7, <3>9, <3>10 DEF LiveInv
  <2> QED
    BY <2>4, <2>6, <2>7
<1>11. CASE UNCHANGED Reconcile!vars
  <2>1. Reconcile!TypeOK' /\ StepInv'
    BY <1>11 DEF Reconcile!TypeOK, StepInv, Whole, Was, Reconcile!vars,
       Reconcile!raws, Reconcile!converter, Reconcile!files,
                 Reconcile!command
  <2> QED
    BY <1>11, <2>1, QuietEntries DEF Reconcile!vars
<1> QED
  BY <1>1, <1>2, <1>3, <1>4, <1>5, <1>6, <1>7, <1>8, <1>9, <1>10, <1>11
     DEF Reconcile!Next, Reconcile!Step
-----------------------------------------------------------------------------
LEMMA EntriesInvariant == Reconcile!Spec => []EntriesInv
BY EntriesInit, EntriesNext, PTL DEF Reconcile!Spec

(* Every variable keeps its type.                                          *)
THEOREM ReconcileTypeCorrect == Reconcile!Spec => []Reconcile!TypeOK
<1>1. EntriesInv => Reconcile!TypeOK
  BY DEF EntriesInv
<1> QED
  BY <1>1, EntriesInvariant, PTL

(* No sequence of applies, rollbacks, stops and overlapping plans loses an *)
(* outcome the converter wrote into convert_state.json.                    *)
THEOREM ConverterEntriesKept == Reconcile!Spec => []ConverterKept
<1>1. EntriesInv => ConverterKept
  BY DEF EntriesInv, LiveInv, Live, Current, Excused, Whole, ConverterKept
<1> QED
  BY <1>1, EntriesInvariant, PTL

(* A backup never holds its own plan's entries, and no entry of a plan     *)
(* stands in the file without the backup that undoes it.                   *)
THEOREM BackupsPrecede == Reconcile!Spec => []BackupPrecedes
<1>1. EntriesInv => BackupPrecedes
  BY DEF EntriesInv, OwnInv, Whole, Was, BackupPrecedes
<1> QED
  BY <1>1, EntriesInvariant, PTL
=============================================================================
