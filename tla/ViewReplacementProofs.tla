----------------------- MODULE ViewReplacementProofs -----------------------
(***************************************************************************)
(* Proofs about ViewReplacement for every set of recordings, any number of *)
(* kills, of errors and of staging roots.                                  *)
(***************************************************************************)
EXTENDS ViewReplacement, TLAPS

(* Where a command may be in its error handling, and out of it.            *)
CommandInv ==
    /\ pc = "idle" => ctx = "enter" /\ ~ save
    /\ pc \in {"ensure", "look", "build", "archive", "install"} => ctx # "undo"
    /\ pc = "undo" => ctx = "undo"

(* The copy in memory is the manifest on disk between two steps, except in *)
(* the error handling, which may follow a write that failed; a quarantine  *)
(* that is under way has been written there too.                           *)
SyncInv ==
    /\ ~ save /\ ctx # "undo" => mem = log
    /\ ~ save /\ pc = "quarantine" /\ mem.phase = "staging_quarantining" =>
           mem = log
    /\ pc \in {"look", "undo"} => mem.phase # "staging_quarantining"

(* While the view is aside both copies name one whole root.                *)
AsideInv ==
    view = "rollback" =>
        /\ mem.token = log.token /\ mem.bound /\ log.bound
        /\ root[log.token].at \in {"staging", "source"}
        /\ Whole(log.token)

(* What the next step relies on.                                           *)
StepInv ==
    /\ pc \in {"quarantine", "build"} => view = "source"
    /\ pc = "ensure" /\ ctx = "try" => view = "source"
    /\ pc = "archive" =>
           /\ mem.phase = "prepared" /\ mem.bound
           /\ At(mem.token, "staging") /\ Whole(mem.token)

(* Whatever lies at the task's path or at the staging path is the root the *)
(* manifest names, and whatever is quarantined is listed.                  *)
Tracked(m) ==
    \A r \in Root :
        /\ root[r].at \in {"staging", "source"} => r = m.token
        /\ At(r, "quarantine") => r \in m.quar

Listed(m) == m.phase = "staging_quarantining" => m.token \in m.quar

(* What a phase says of the disk.                                          *)
Truthful(m) ==
    /\ m.phase = "committed" =>
           view = "rollback" /\ At(m.token, "source") /\ Whole(m.token)
    /\ m.phase \in Unbound \cup {"staging_quarantining", "preparing"} =>
           view = "source" /\ ~ Occupied("source")

DiskInv ==
    /\ view = "source" => ~ Occupied("source")
    /\ Tracked(log) /\ Tracked(mem) /\ Listed(log) /\ Listed(mem)
    /\ Truthful(log) /\ (save => Truthful(mem))

IInv == TypeOK /\ CommandInv /\ SyncInv /\ AsideInv /\ StepInv /\ DiskInv
-----------------------------------------------------------------------------
LEMMA TypeInit == Init => TypeOK
<1> SUFFICES ASSUME Init PROVE TypeOK
  OBVIOUS
<1>1. [at |-> "none", marked |-> FALSE, made |-> [x \in Recording |-> "none"]]
          \in Directory
  BY DEF Directory, Place, Built
<1>2. root \in [Root -> Directory]
  BY <1>1 DEF Init
<1>3. 1 \in Root
  BY BoundsAssumption DEF Root
<1>4. log \in Manifest /\ mem \in Manifest
  BY <1>3 DEF Init, Manifest, Phase, Unbound
<1>5. stops \in 0..MaxStops /\ errors \in 0..MaxErrors
  BY BoundsAssumption DEF Init
<1> QED
  BY <1>2, <1>4, <1>5 DEF Init, TypeOK

(* The bounds on kills and errors.                                         *)
LEMMA Counted ==
    ASSUME TypeOK
    PROVE  /\ stops < MaxStops => stops + 1 \in 0..MaxStops
           /\ errors < MaxErrors => errors + 1 \in 0..MaxErrors
BY BoundsAssumption DEF TypeOK

(* A root that is moved, marked or built stays a directory, and no other   *)
(* changes.                                                                *)
LEMMA RootMoved ==
    ASSUME TypeOK, NEW r \in Root, NEW place \in Place,
           root' = [root EXCEPT ![r].at = place]
    PROVE  /\ root' \in [Root -> Directory]
           /\ root'[r].at = place
           /\ root'[r].made = root[r].made /\ root'[r].marked = root[r].marked
           /\ \A s \in Root : s # r => root'[s] = root[s]
<1>1. root' = [root EXCEPT ![r] = [root[r] EXCEPT !.at = place]]
  OBVIOUS
<1>2. root[r] \in Directory /\ root \in [Root -> Directory]
  BY DEF TypeOK
<1>3. [root[r] EXCEPT !.at = place] \in Directory
  BY <1>2 DEF Directory
<1> QED
  BY <1>1, <1>2, <1>3 DEF Directory

LEMMA RootMarked ==
    ASSUME TypeOK, NEW r \in Root, root' = [root EXCEPT ![r].marked = TRUE]
    PROVE  /\ root' \in [Root -> Directory]
           /\ root'[r].at = root[r].at /\ root'[r].made = root[r].made
           /\ \A s \in Root : s # r => root'[s] = root[s]
<1>1. root' = [root EXCEPT ![r] = [root[r] EXCEPT !.marked = TRUE]]
  OBVIOUS
<1>2. root[r] \in Directory /\ root \in [Root -> Directory]
  BY DEF TypeOK
<1>3. [root[r] EXCEPT !.marked = TRUE] \in Directory
  BY <1>2 DEF Directory
<1> QED
  BY <1>1, <1>2, <1>3 DEF Directory

LEMMA RootBuilt ==
    ASSUME TypeOK, NEW r \in Root, NEW x \in Recording, NEW to \in Built,
           root' = [root EXCEPT ![r].made[x] = to]
    PROVE  /\ root' \in [Root -> Directory]
           /\ root'[r].at = root[r].at
           /\ \A s \in Root : s # r => root'[s] = root[s]
<1> DEFINE made == [root[r].made EXCEPT ![x] = to]
<1>1. root' = [root EXCEPT ![r] = [root[r] EXCEPT !.made = made]]
  OBVIOUS
<1>2. root[r] \in Directory /\ root \in [Root -> Directory]
  BY DEF TypeOK
<1>3. made \in [Recording -> Built]
  BY <1>2 DEF Directory
<1>4. [root[r] EXCEPT !.made = made] \in Directory
  BY <1>2, <1>3 DEF Directory
<1> HIDE DEF made
<1> QED
  BY <1>1, <1>2, <1>4 DEF Directory

(* What a change of the manifest in memory leaves alone.                   *)
LEMMA PhaseWritten ==
    ASSUME TypeOK, NEW phase \in Phase, Write([mem EXCEPT !.phase = phase])
    PROVE  /\ mem' \in Manifest /\ log' = log /\ save'
           /\ mem'.phase = phase /\ mem'.token = mem.token
           /\ mem'.bound = mem.bound /\ mem'.quar = mem.quar
BY DEF TypeOK, Write, Manifest

LEMMA TokenType ==
    ASSUME TypeOK
    PROVE  mem.token \in Root /\ log.token \in Root
BY DEF TypeOK, Manifest

LEMMA BoundWritten ==
    ASSUME TypeOK, Bind
    PROVE  /\ mem' \in Manifest /\ log' = log /\ save'
           /\ mem'.phase = "preparing" /\ mem'.bound
           /\ mem'.token = mem.token /\ mem'.quar = mem.quar
BY DEF TypeOK, Bind, Write, Manifest, Phase

LEMMA AnnounceWritten ==
    ASSUME TypeOK, Announce
    PROVE  /\ mem' \in Manifest /\ log' = log /\ save'
           /\ mem'.phase = "staging_quarantining" /\ mem'.bound = mem.bound
           /\ mem'.token = mem.token
           /\ mem'.quar = mem.quar \cup {mem.token}
BY TokenType DEF TypeOK, Announce, Write, Manifest, Phase

LEMMA ReserveWritten ==
    ASSUME TypeOK, ReserveAnew
    PROVE  /\ mem' \in Manifest /\ log' = log /\ save'
           /\ mem'.phase = "staging_replacing" /\ ~ mem'.bound
           /\ mem'.token = mem.token + 1 /\ mem'.quar = mem.quar
<1>1. mem.token + 1 \in Root
  BY TokenType, BoundsAssumption DEF Root, ReserveAnew
<1>2. "staging_replacing" \in Phase
  BY DEF Phase, Unbound
<1> DEFINE m == [mem EXCEPT !.phase = "staging_replacing", !.bound = FALSE,
                            !.token = mem.token + 1]
<1>3. m \in Manifest
  BY <1>1, <1>2 DEF TypeOK, Manifest
<1>4. mem' = m /\ log' = log /\ save'
  BY DEF ReserveAnew, Write
<1> QED
  BY <1>3, <1>4 DEF TypeOK, Manifest

LEMMA TypeStep == TypeOK /\ [Next]_vars => TypeOK'
<1> SUFFICES ASSUME TypeOK, [Next]_vars PROVE TypeOK'
  OBVIOUS
<1> USE TokenType DEF disk, manifest, command, faults, Go, Keep, Doing
<1>1. CASE Save
  BY <1>1 DEF TypeOK, Save
<1>2. CASE Start
  <2>1. mem' \in Manifest /\ save' \in BOOLEAN /\ log' = log
    BY <1>2 DEF TypeOK, Start, Write, Manifest, Phase, Unbound
  <2> QED
    BY <1>2, <2>1 DEF TypeOK, Start
<1>3. CASE Ensured
  BY <1>3 DEF TypeOK, Ensured
<1>4. CASE MakeConstruction
  BY <1>4, RootMoved DEF TypeOK, MakeConstruction, Place
<1>5. CASE CreateMarker
  BY <1>5, RootMarked DEF TypeOK, CreateMarker
<1>6. CASE Publish
  BY <1>6, RootMoved DEF TypeOK, Publish, Place
<1>7. CASE Bind
  BY <1>7, BoundWritten DEF TypeOK, Bind, Write
<1>8. CASE Installed
  BY <1>8 DEF TypeOK, Installed, End
<1>9. CASE Forward
  <2>1. mem' \in Manifest /\ save' \in BOOLEAN /\ log' = log
    BY <1>9, PhaseWritten DEF TypeOK, Forward, Phase
  <2> QED
    BY <1>9, <2>1 DEF TypeOK, Forward
<1>10. CASE Resume
  BY <1>10, PhaseWritten DEF TypeOK, Resume, Phase
<1>11. CASE Refuse
  BY <1>11 DEF TypeOK, Refuse, End
<1>12. ASSUME NEW x \in Recording, NEW from \in Built, NEW to \in Built,
              Make(x, from, to)
       PROVE  TypeOK'
  BY <1>12, RootBuilt DEF TypeOK, Make
<1>13. CASE Prepared
  BY <1>13, PhaseWritten DEF TypeOK, Prepared, Phase
<1>14. CASE Archive
  BY <1>14, PhaseWritten DEF TypeOK, Archive, Phase
<1>15. CASE Install
  BY <1>15, RootMoved DEF TypeOK, Install, Place
<1>16. CASE Commit
  BY <1>16, PhaseWritten DEF TypeOK, Commit, Phase, End
<1>17. CASE Ended
  BY <1>17 DEF TypeOK, Ended, End
<1>18. CASE Announce
  BY <1>18, AnnounceWritten DEF TypeOK, Announce, Write
<1>19. CASE Quarantine
  BY <1>19, RootMoved DEF TypeOK, Quarantine, Place
<1>20. CASE ReserveAnew
  BY <1>20, ReserveWritten DEF TypeOK, ReserveAnew, Write
<1>21. CASE CommitAnyway
  BY <1>21 DEF TypeOK, CommitAnyway
<1>22. CASE PutBack
  BY <1>22 DEF TypeOK, PutBack
<1>23. CASE SetAside
  BY <1>23 DEF TypeOK, SetAside
<1>24. CASE RolledBack
  BY <1>24, PhaseWritten DEF TypeOK, RolledBack, Phase, Unbound
<1>25. CASE GiveUp
  BY <1>25, PhaseWritten DEF TypeOK, GiveUp, Phase
<1>26. CASE CommitFails
  BY <1>26, PhaseWritten, Counted DEF TypeOK, CommitFails, Phase
<1>27. CASE Raise
  <2>1. mem' \in Manifest /\ save' \in BOOLEAN /\ log' = log
        /\ pc' \in {"undo", "ending", "idle"} /\ ctx' \in {"enter", "try", "undo"}
    BY <1>27, PhaseWritten DEF TypeOK, Raise, Caught, Phase, End
  <2> QED
    BY <1>27, <2>1, Counted DEF TypeOK, Raise
<1>28. CASE Stop
  BY <1>28, Counted DEF TypeOK, Stop, End
<1>29. CASE UNCHANGED vars
  BY <1>29 DEF TypeOK, vars
<1> QED
  BY <1>1, <1>2, <1>3, <1>4, <1>5, <1>6, <1>7, <1>8, <1>9, <1>10, <1>11, <1>12,
     <1>13, <1>14, <1>15, <1>16, <1>17, <1>18, <1>19, <1>20, <1>21, <1>22,
     <1>23, <1>24, <1>25, <1>26, <1>27, <1>28, <1>29
  DEF Next, Step, Built

(* The disk, the manifest and the command keep their types.                *)
THEOREM TypeCorrect == Spec => []TypeOK
BY TypeInit, TypeStep, PTL DEF Spec
-----------------------------------------------------------------------------
LEMMA CommandStep ==
    ASSUME TypeOK, CommandInv, Next
    PROVE  CommandInv'
<1> USE DEF CommandInv, TypeOK, disk, manifest, command, faults,
            Go, Keep, Doing, Write, End
<1>1. CASE Save \/ Start \/ Ensured \/ Bind \/ Publish \/ MakeConstruction
           \/ CreateMarker \/ Announce \/ Quarantine \/ ReserveAnew
  BY <1>1 DEF Save, Start, Ensured, Bind, Publish, MakeConstruction,
     CreateMarker, Publishing, Announce, Quarantine, ReserveAnew
<1>2. CASE Installed \/ Forward \/ Resume \/ Refuse \/ Prepared \/ Archive
           \/ Install \/ Commit \/ Ended
  BY <1>2 DEF Installed, Forward, Resume, Refuse, Prepared, Archive, Install,
     Commit, Ended
<1>3. ASSUME NEW x \in Recording, NEW from \in Built, NEW to \in Built,
             Make(x, from, to)
      PROVE  CommandInv'
  BY <1>3 DEF Make
<1>4. CASE CommitAnyway \/ PutBack \/ SetAside \/ RolledBack \/ GiveUp
           \/ CommitFails \/ Raise \/ Stop
  BY <1>4 DEF CommitAnyway, PutBack, SetAside, RolledBack, GiveUp, Undoing,
     CommitFails, Raise, Caught, Stop
<1> QED
  BY <1>1, <1>2, <1>3, <1>4 DEF Next, Step, Built

LEMMA SyncStep ==
    ASSUME TypeOK, CommandInv, SyncInv, Next
    PROVE  SyncInv'
<1> USE DEF CommandInv, SyncInv, TypeOK, disk, manifest, command, faults,
            Go, Keep, Doing
<1>1. CASE Save
  BY <1>1 DEF Save
<1>2. CASE Start \/ Ensured \/ MakeConstruction \/ CreateMarker \/ Publish
           \/ Quarantine
  BY <1>2 DEF Start, Ensured, MakeConstruction, CreateMarker, Publish,
     Publishing, Quarantine, Write
<1>3. CASE Bind \/ Announce \/ ReserveAnew
  BY <1>3, BoundWritten, AnnounceWritten, ReserveWritten
  DEF Bind, Announce, ReserveAnew, Publishing, Write
<1>4. CASE Installed \/ Forward \/ Resume \/ Refuse \/ Prepared \/ Archive
           \/ Install \/ Commit \/ Ended
  BY <1>4 DEF Installed, Forward, Resume, Refuse, Prepared, Archive, Install,
     Commit, Ended, End, Write
<1>5. ASSUME NEW x \in Recording, NEW from \in Built, NEW to \in Built,
             Make(x, from, to)
      PROVE  SyncInv'
  BY <1>5 DEF Make
<1>6. CASE CommitAnyway \/ PutBack \/ SetAside \/ RolledBack \/ GiveUp
           \/ CommitFails \/ Stop
  BY <1>6 DEF CommitAnyway, PutBack, SetAside, RolledBack, GiveUp, Undoing,
     CommitFails, Stop, End, Write
<1>7. CASE Raise
  BY <1>7 DEF Raise, Caught, End, Write
<1> QED
  BY <1>1, <1>2, <1>3, <1>4, <1>5, <1>6, <1>7 DEF Next, Step, Built
-----------------------------------------------------------------------------
(* What the looks at the two paths tell.                                   *)
LEMMA Looked ==
    /\ StagingState = "hardlink" =>
           mem.bound /\ At(mem.token, "staging") /\ Whole(mem.token)
    /\ SourceState = "hardlink" =>
           mem.bound /\ At(mem.token, "source") /\ Whole(mem.token)
    /\ SourceState = "missing" => ~ Occupied("source")
BY DEF StagingState, SourceState, Tree

(* The steps that write the manifest and leave its token and its binding   *)
(* as they are, or end the command; nothing moves.                         *)
LEMMA Rephrased ==
    ASSUME TypeOK,
           \/ Installed \/ Forward \/ Resume \/ Refuse \/ Prepared \/ Commit
           \/ Ended \/ CommitAnyway \/ SetAside \/ RolledBack \/ GiveUp
           \/ CommitFails \/ Raise \/ Stop \/ Ensured \/ Announce
    PROVE  /\ view' = view /\ root' = root /\ log' = log
           /\ \/ mem' = log /\ ~ save'
              \/ /\ mem'.token = mem.token /\ mem'.bound = mem.bound
                 /\ mem.quar \subseteq mem'.quar
                 /\ mem'.phase = "staging_quarantining" =>
                        mem'.phase = mem.phase \/ mem'.token \in mem'.quar
<1> USE DEF disk, manifest, command, faults, Go, Keep, End
<1>1. CASE Installed \/ Refuse \/ Ended \/ CommitAnyway \/ SetAside \/ Stop
           \/ Ensured
  BY <1>1 DEF Installed, Refuse, Ended, CommitAnyway, SetAside, Stop, Ensured
<1>2. CASE Forward \/ Resume \/ Prepared \/ Commit \/ RolledBack \/ GiveUp
           \/ CommitFails
  <2>1. \/ UNCHANGED manifest
        \/ End
        \/ \E phase \in {"prepared", "view_archived", "committed", "rolled_back",
                        "rollback_failed", "recovery_failed"} :
               Write([mem EXCEPT !.phase = phase])
    BY <1>2
    DEF Forward, Resume, Prepared, Commit, RolledBack, GiveUp, CommitFails
  <2>2. view' = view /\ root' = root
    BY <1>2
    DEF Forward, Resume, Prepared, Commit, RolledBack, GiveUp, CommitFails
  <2> QED
    BY <2>1, <2>2, PhaseWritten DEF Phase, Unbound
<1>3. CASE Raise
  <2>1. \/ log' = log /\ mem' = mem
        \/ End
        \/ Write([mem EXCEPT !.phase = "rollback_failed"])
    BY <1>3 DEF Raise, Caught
  <2>2. view' = view /\ root' = root
    BY <1>3 DEF Raise
  <2> QED
    BY <2>1, <2>2, PhaseWritten DEF Phase
<1>4. CASE Announce
  BY <1>4, AnnounceWritten DEF Announce
<1> QED
  BY <1>1, <1>2, <1>3, <1>4

LEMMA AsideStep ==
    ASSUME IInv, Next
    PROVE  AsideInv'
<1> USE TokenType DEF IInv, disk, manifest, command, faults, Go, Keep, Doing
<1>1. CASE Save
  BY <1>1 DEF Save, AsideInv, Whole
<1>2. CASE Start
  <2>1. CASE log.phase = "none"
    BY <1>2, <2>1 DEF Start, AsideInv, NoOrphans
  <2>2. CASE log.phase # "none"
    BY <1>2, <2>2 DEF Start, AsideInv, Whole
  <2> QED
    BY <2>1, <2>2
<1>3. CASE MakeConstruction \/ CreateMarker \/ Publish \/ Bind
  BY <1>3 DEF MakeConstruction, CreateMarker, Publish, Bind, Publishing,
     AsideInv, TypeOK
<1>4. CASE \/ Installed \/ Forward \/ Resume \/ Refuse \/ Prepared \/ Commit
           \/ Ended \/ CommitAnyway \/ SetAside \/ RolledBack \/ GiveUp
           \/ CommitFails \/ Raise \/ Stop \/ Ensured \/ Announce
  BY <1>4, Rephrased DEF AsideInv, Whole
<1>5. ASSUME NEW x \in Recording, NEW from \in Built, NEW to \in Built,
             Make(x, from, to)
      PROVE  AsideInv'
  BY <1>5 DEF Make, StepInv, AsideInv
<1>6. CASE Archive
  <2>1. mem = log
    BY <1>6 DEF Archive, SyncInv, CommandInv
  <2>2. mem'.token = mem.token /\ mem'.bound = mem.bound /\ log' = log
    BY <1>6, PhaseWritten DEF Archive, Phase
  <2> QED
    BY <1>6, <2>1, <2>2 DEF Archive, StepInv, AsideInv, Whole, At
<1>7. CASE Install
  <2>1. /\ root'[mem.token].at = "source"
        /\ root'[mem.token].made = root[mem.token].made
    BY <1>7, RootMoved DEF Install, Place
  <2> QED
    BY <1>7, <2>1 DEF Install, AsideInv, Whole
<1>8. CASE Quarantine
  BY <1>8 DEF Quarantine, StepInv, AsideInv
<1>9. CASE ReserveAnew
  BY <1>9 DEF ReserveAnew, StepInv, AsideInv
<1>10. CASE PutBack
  BY <1>10 DEF PutBack, AsideInv
<1> QED
  BY <1>1, <1>2, <1>3, <1>4, <1>5, <1>6, <1>7, <1>8, <1>9, <1>10
  DEF Next, Step, Built

LEMMA StepStep ==
    ASSUME IInv, Next
    PROVE  StepInv'
<1> USE TokenType
    DEF IInv, StepInv, CommandInv, disk, manifest, command, faults, Go, Keep, Doing
<1>1. CASE Save
  BY <1>1 DEF Save, Whole, At
<1>2. CASE Start \/ Refuse \/ Ended \/ Stop \/ Raise
  BY <1>2 DEF Start, Refuse, Ended, Stop, Raise, End, Caught
<1>3. CASE Ensured
  <2>1. CASE mem.phase = "staging_quarantining" /\ Go("quarantine", ctx)
    <3>1. mem = log
      BY <1>3 DEF Ensured, SyncInv
    <3>2. view = "source"
      BY <2>1, <3>1 DEF DiskInv, Truthful
    <3> QED
      BY <1>3, <2>1, <3>2 DEF Ensured
  <2>2. CASE Go(IF ctx = "enter" THEN "look" ELSE "build", ctx)
    BY <1>3, <2>2 DEF Ensured, TypeOK
  <2> QED
    BY <1>3, <2>1, <2>2 DEF Ensured
<1>4. CASE MakeConstruction \/ CreateMarker \/ Publish \/ Bind
  BY <1>4 DEF MakeConstruction, CreateMarker, Publish, Bind, Publishing
<1>5. CASE Forward
  <2>1. pc' = "archive" =>
            /\ StagingState = "hardlink"
            /\ mem'.phase = "prepared" /\ mem'.token = mem.token
            /\ mem'.bound = mem.bound
    BY <1>5, PhaseWritten DEF Forward, Phase
  <2>2. view = "source" /\ view' = view /\ root' = root
        /\ pc' \in {"build", "quarantine", "archive", "undo"}
    BY <1>5 DEF Forward
  <2> QED
    BY <2>1, <2>2, Looked DEF At, Whole
<1>6. CASE Prepared
  <2>1. /\ mem'.phase = "prepared" /\ mem'.token = mem.token
        /\ mem'.bound = mem.bound
    BY <1>6, PhaseWritten DEF Prepared, Phase
  <2>2. StagingState = "hardlink" /\ root' = root /\ pc' = "archive"
    BY <1>6 DEF Prepared
  <2> QED
    BY <2>1, <2>2, Looked DEF At, Whole
<1>7. ASSUME NEW x \in Recording, NEW from \in Built, NEW to \in Built,
             Make(x, from, to)
      PROVE  StepInv'
  BY <1>7 DEF Make
<1>8. CASE Installed \/ Resume \/ Archive \/ Install \/ Commit \/ CommitFails
  BY <1>8 DEF Installed, Resume, Archive, Install, Commit, CommitFails, End
<1>9. CASE Announce \/ Quarantine \/ ReserveAnew
  BY <1>9 DEF Announce, Quarantine, ReserveAnew
<1>10. CASE CommitAnyway \/ PutBack \/ SetAside \/ RolledBack \/ GiveUp
  BY <1>10 DEF CommitAnyway, PutBack, SetAside, RolledBack, GiveUp, Undoing
<1> QED
  BY <1>1, <1>2, <1>3, <1>4, <1>5, <1>6, <1>7, <1>8, <1>9, <1>10
  DEF Next, Step, Built
-----------------------------------------------------------------------------
LEMMA TrackedStep ==
    ASSUME IInv, Next
    PROVE  (Tracked(log) /\ Tracked(mem) /\ Listed(log) /\ Listed(mem))'
<1> DEFINE Goal == Tracked(log) /\ Tracked(mem) /\ Listed(log) /\ Listed(mem)
<1> SUFFICES Goal'
  OBVIOUS
<1> USE TokenType
    DEF IInv, DiskInv, Tracked, Listed, At, disk, manifest, command, faults, Doing
<1>1. CASE Save
  BY <1>1 DEF Save
<1>2. CASE Start
  <2>1. \/ mem' = log /\ log' = log
        \/ /\ log' = log /\ mem'.token = log.token /\ mem'.quar = log.quar
           /\ mem'.phase = "reserved"
    BY <1>2 DEF Start, Write, TypeOK, Manifest
  <2> QED
    BY <1>2, <2>1 DEF Start
<1>3. CASE MakeConstruction
  <2>1. /\ root'[mem.token].at = "construction"
        /\ \A r \in Root : r # mem.token => root'[r] = root[r]
    BY <1>3, RootMoved DEF MakeConstruction, Place
  <2> QED
    BY <1>3, <2>1 DEF MakeConstruction
<1>4. CASE CreateMarker
  <2>1. \A r \in Root : root'[r].at = root[r].at
    BY <1>4, RootMarked DEF CreateMarker
  <2> QED
    BY <1>4, <2>1 DEF CreateMarker
<1>5. CASE Publish
  <2>1. /\ root'[mem.token].at = "staging"
        /\ \A r \in Root : r # mem.token => root'[r] = root[r]
    BY <1>5, RootMoved DEF Publish, Place
  <2>2. mem = log
    BY <1>5 DEF Publish, Publishing, CommandInv, SyncInv
  <2> QED
    BY <1>5, <2>1, <2>2 DEF Publish
<1>6. CASE Bind
  BY <1>6, BoundWritten DEF Bind
<1>7. CASE \/ Installed \/ Forward \/ Resume \/ Refuse \/ Prepared \/ Commit
           \/ Ended \/ CommitAnyway \/ SetAside \/ RolledBack \/ GiveUp
           \/ CommitFails \/ Raise \/ Stop \/ Ensured \/ Announce
  BY <1>7, Rephrased
<1>8. ASSUME NEW x \in Recording, NEW from \in Built, NEW to \in Built,
             Make(x, from, to)
      PROVE  Goal'
  <2>1. \A r \in Root : root'[r].at = root[r].at
    BY <1>8, RootBuilt DEF Make
  <2> QED
    BY <1>8, <2>1 DEF Make
<1>9. CASE Archive
  <2>1. /\ log' = log /\ mem'.token = mem.token /\ mem'.quar = mem.quar
        /\ mem'.phase = "view_archived"
    BY <1>9, PhaseWritten DEF Archive, Phase
  <2> QED
    BY <1>9, <2>1 DEF Archive
<1>10. CASE Install
  <2>1. /\ root'[mem.token].at = "source"
        /\ \A r \in Root : r # mem.token => root'[r] = root[r]
    BY <1>10, RootMoved DEF Install, Place
  <2> QED
    BY <1>10, <2>1 DEF Install, Keep
<1>11. CASE Quarantine
  <2>1. /\ root'[mem.token].at = "quarantine"
        /\ \A r \in Root : r # mem.token => root'[r] = root[r]
    BY <1>11, RootMoved DEF Quarantine, Place
  <2>2. mem = log
    BY <1>11 DEF Quarantine, SyncInv
  <2> QED
    BY <1>11, <2>1, <2>2 DEF Quarantine
<1>12. CASE ReserveAnew
  BY <1>12, ReserveWritten DEF ReserveAnew
<1>13. CASE PutBack
  BY <1>13 DEF PutBack
<1> QED
  BY <1>1, <1>2, <1>3, <1>4, <1>5, <1>6, <1>7, <1>8, <1>9, <1>10, <1>11, <1>12,
     <1>13
  DEF Next, Step, Built

(* While the view is in place nothing but the view is at the task's path,  *)
(* and the manifest on disk tells the truth.                               *)
LEMMA TruthfulStep ==
    ASSUME IInv, Next
    PROVE  /\ (view = "source" => ~ Occupied("source"))'
           /\ Truthful(log)'
<1> DEFINE Goal == /\ view = "source" => ~ Occupied("source")
                   /\ Truthful(log)
<1> SUFFICES Goal'
  OBVIOUS
<1> USE TokenType DEF IInv, disk, manifest, command, faults, Doing
<1>1. CASE Save
  BY <1>1 DEF Save, DiskInv, Truthful, Occupied, At, Whole
<1>2. CASE Start \/ Bind \/ ReserveAnew
  <2>1. log' = log /\ view' = view /\ root' = root
    BY <1>2 DEF Start, Bind, ReserveAnew, Write
  <2> QED
    BY <2>1 DEF DiskInv, Truthful, Occupied, At, Whole
<1>3. CASE MakeConstruction
  <2>1. /\ ~ At(mem.token, "source") /\ root'[mem.token].at # "source"
        /\ \A r \in Root : r # mem.token => root'[r] = root[r]
        /\ view' = view /\ log' = log
    BY <1>3, RootMoved DEF MakeConstruction, Place, At
  <2> QED
    BY <2>1 DEF DiskInv, Truthful, Occupied, At, Whole
<1>4. CASE CreateMarker
  <2>1. /\ ~ At(mem.token, "source") /\ root'[mem.token].at # "source"
        /\ \A r \in Root : r # mem.token => root'[r] = root[r]
        /\ view' = view /\ log' = log
    BY <1>4, RootMarked DEF CreateMarker, At
  <2> QED
    BY <2>1 DEF DiskInv, Truthful, Occupied, At, Whole
<1>5. CASE Publish
  <2>1. /\ ~ At(mem.token, "source") /\ root'[mem.token].at # "source"
        /\ \A r \in Root : r # mem.token => root'[r] = root[r]
        /\ view' = view /\ log' = log
    BY <1>5, RootMoved DEF Publish, Place, At
  <2> QED
    BY <2>1 DEF DiskInv, Truthful, Occupied, At, Whole
<1>6. CASE \/ Installed \/ Forward \/ Resume \/ Refuse \/ Prepared \/ Commit
           \/ Ended \/ CommitAnyway \/ SetAside \/ RolledBack \/ GiveUp
           \/ CommitFails \/ Raise \/ Stop \/ Ensured \/ Announce
  <2>1. log' = log /\ view' = view /\ root' = root
    BY <1>6, Rephrased
  <2> QED
    BY <2>1 DEF DiskInv, Truthful, Occupied, At, Whole
<1>7. ASSUME NEW x \in Recording, NEW from \in Built, NEW to \in Built,
             Make(x, from, to)
      PROVE  Goal'
  <2>1. /\ ~ At(mem.token, "source") /\ root'[mem.token].at # "source"
        /\ \A r \in Root : r # mem.token => root'[r] = root[r]
        /\ view' = view /\ log' = log
    BY <1>7, RootBuilt DEF Make, At
  <2> QED
    BY <2>1 DEF DiskInv, Truthful, Occupied, At, Whole
<1>8. CASE Archive
  <2>1. log.phase = "prepared"
    BY <1>8 DEF Archive, StepInv, CommandInv, SyncInv
  <2>2. log' = log /\ view' = "rollback"
    BY <1>8 DEF Archive, Write
  <2> QED
    BY <2>1, <2>2 DEF Truthful, Unbound
<1>9. CASE Install
  <2>1. log' = log /\ view = "rollback" /\ view' = "rollback" /\ ~ Occupied("source")
    BY <1>9 DEF Install, Keep
  <2>2. log.phase \notin Unbound \cup {"staging_quarantining", "preparing", "committed"}
    BY <2>1 DEF DiskInv, Truthful, Occupied
  <2> QED
    BY <2>1, <2>2 DEF Truthful
<1>10. CASE Quarantine
  <2>1. /\ ~ At(mem.token, "source") /\ root'[mem.token].at # "source"
        /\ \A r \in Root : r # mem.token => root'[r] = root[r]
        /\ view' = view /\ log' = log
    BY <1>10, RootMoved DEF Quarantine, Place, At
  <2> QED
    BY <2>1 DEF DiskInv, Truthful, Occupied, At, Whole
<1>11. CASE PutBack
  <2>1. log' = log /\ view' = "source" /\ root' = root /\ ~ Occupied("source")
    BY <1>11, Looked DEF PutBack
  <2>2. log.phase # "committed"
    BY <2>1 DEF DiskInv, Truthful, Occupied
  <2> QED
    BY <2>1, <2>2 DEF Truthful, Occupied, At
<1> QED
  BY <1>1, <1>2, <1>3, <1>4, <1>5, <1>6, <1>7, <1>8, <1>9, <1>10, <1>11
  DEF Next, Step, Built

(* So is what is being written.                                            *)
LEMMA WrittenStep ==
    ASSUME IInv, Next
    PROVE  (save => Truthful(mem))'
<1> USE TokenType DEF IInv, disk, manifest, command, faults, Doing, Go
<1>1. CASE Save
  BY <1>1 DEF Save
<1>2. CASE Start
  <2>1. CASE log.phase = "none"
    <3>1. mem'.phase = "reserved" /\ view' = view /\ root' = root
      BY <1>2, <2>1 DEF Start, Write, TypeOK, Manifest
    <3> QED
      BY <1>2, <2>1, <3>1 DEF Start, NoOrphans, Truthful, Occupied, At
  <2> QED
    BY <1>2, <2>1 DEF Start
<1>3. CASE Bind
  <2>1. mem'.phase = "preparing" /\ view' = view /\ root' = root
    BY <1>3, BoundWritten DEF Bind
  <2>2. view = "source"
    BY <1>3 DEF Bind, Publishing, AsideInv, TypeOK
  <2> QED
    BY <2>1, <2>2 DEF DiskInv, Truthful, Occupied, At
<1>4. CASE Announce
  <2>1. mem'.phase = "staging_quarantining" /\ view' = view /\ root' = root
    BY <1>4, AnnounceWritten DEF Announce
  <2>2. view = "source"
    BY <1>4 DEF Announce, StepInv
  <2> QED
    BY <2>1, <2>2 DEF DiskInv, Truthful, Occupied, At
<1>5. CASE ReserveAnew
  <2>1. mem'.phase = "staging_replacing" /\ view' = view /\ root' = root
    BY <1>5, ReserveWritten DEF ReserveAnew
  <2>2. view = "source"
    BY <1>5 DEF ReserveAnew, StepInv
  <2> QED
    BY <2>1, <2>2 DEF DiskInv, Truthful, Occupied, At
<1>6. CASE RolledBack
  <2>1. mem'.phase = "rolled_back" /\ view' = view /\ root' = root
    BY <1>6, PhaseWritten DEF RolledBack, Phase, Unbound
  <2>2. view = "source"
    BY <1>6 DEF RolledBack
  <2> QED
    BY <2>1, <2>2 DEF DiskInv, Truthful, Occupied, At
<1>7. CASE Commit
  <2>1. CASE mem.phase = "committed"
    BY <1>7, <2>1 DEF Commit, End
  <2>2. CASE mem.phase # "committed"
    <3>1. /\ mem'.phase = "committed" /\ mem'.token = mem.token
          /\ view' = view /\ root' = root
      BY <1>7, <2>2, PhaseWritten DEF Commit, Phase
    <3>2. view = "rollback" /\ At(mem.token, "source") /\ Whole(mem.token)
      BY <1>7, Looked DEF Commit
    <3> QED
      BY <3>1, <3>2 DEF Truthful, Unbound, At, Whole
  <2> QED
    BY <2>1, <2>2
<1>8. CASE \/ Forward \/ Resume \/ Prepared \/ Archive \/ GiveUp \/ CommitFails
           \/ Raise
  <2>1. \/ ~ save'
        \/ \E phase \in {"prepared", "view_archived", "rollback_failed",
                         "recovery_failed"} :
               Write([mem EXCEPT !.phase = phase])
    BY <1>8
    DEF Forward, Resume, Prepared, Archive, GiveUp, CommitFails, Raise, Caught,
        End, Keep
  <2> QED
    BY <2>1, PhaseWritten DEF Truthful, Unbound, Phase
<1>9. CASE \/ Installed \/ Refuse \/ Ended \/ CommitAnyway \/ SetAside \/ Stop
           \/ Ensured \/ MakeConstruction \/ CreateMarker \/ Publish \/ Install
           \/ Quarantine \/ PutBack
  BY <1>9
  DEF Installed, Refuse, Ended, CommitAnyway, SetAside, Stop, Ensured,
      MakeConstruction, CreateMarker, Publish, Publishing, Install, Quarantine,
      PutBack, Undoing, End, Keep, CommandInv
<1>10. ASSUME NEW x \in Recording, NEW from \in Built, NEW to \in Built,
              Make(x, from, to)
       PROVE  ~ save'
  BY <1>10 DEF Make
<1> QED
  BY <1>1, <1>2, <1>3, <1>4, <1>5, <1>6, <1>7, <1>8, <1>9, <1>10
  DEF Next, Step, Built
-----------------------------------------------------------------------------
LEMMA IInvInit == Init => IInv
<1> SUFFICES ASSUME Init PROVE IInv
  OBVIOUS
<1>1. TypeOK
  BY TypeInit
<1>2. \A r \in Root : root[r].at = "none"
  BY DEF Init
<1>3. log.phase = "none" /\ mem = log
  BY DEF Init
<1>4. Tracked(log) /\ Tracked(mem) /\ Listed(log) /\ Listed(mem)
  BY <1>2, <1>3 DEF Tracked, Listed, At
<1>5. Truthful(log) /\ ~ Occupied("source") /\ ~ save
  BY <1>2, <1>3 DEF Truthful, Occupied, At, Init
<1> QED
  BY <1>1, <1>3, <1>4, <1>5
  DEF IInv, Init, CommandInv, SyncInv, AsideInv, StepInv, DiskInv

LEMMA IInvStep == IInv /\ [Next]_vars => IInv'
<1> SUFFICES ASSUME IInv, [Next]_vars PROVE IInv'
  OBVIOUS
<1>1. CASE Next
  <2>1. TypeOK'
    BY <1>1, TypeStep DEF IInv
  <2>2. CommandInv' /\ SyncInv'
    BY <1>1, CommandStep, SyncStep DEF IInv
  <2>3. AsideInv' /\ StepInv'
    BY <1>1, AsideStep, StepStep
  <2>4. DiskInv'
    BY <1>1, TrackedStep, TruthfulStep, WrittenStep DEF DiskInv
  <2> QED
    BY <2>1, <2>2, <2>3, <2>4 DEF IInv
<1>2. CASE UNCHANGED vars
  BY <1>2
  DEF vars, disk, manifest, command, faults, IInv, TypeOK, CommandInv, SyncInv,
      AsideInv, StepInv, DiskInv, Tracked, Listed, Truthful, Occupied, At, Whole
<1> QED
  BY <1>1, <1>2

LEMMA IInvAlways == Spec => []IInv
BY IInvInit, IInvStep, PTL DEF Spec

(* The durable phase tells where the view and the finished tree are, at    *)
(* every moment of every command and of its error handling.                *)
THEOREM PhasesAreTruthful == Spec => []PhaseTruthful
<1>1. IInv => PhaseTruthful
  BY DEF IInv, DiskInv, Truthful, PhaseTruthful
<1> QED
  BY <1>1, IInvAlways, PTL

(* The view is aside only while a whole tree, recorded in the manifest,    *)
(* stands ready or in its place.                                           *)
THEOREM TaskIsNeverLost == Spec => []NeverEmptyHanded
<1>1. IInv => NeverEmptyHanded
  BY DEF IInv, AsideInv, NeverEmptyHanded
<1> QED
  BY <1>1, IInvAlways, PTL

(* Every root that was ever published is in the durable manifest.          *)
THEOREM RootsAreTracked == Spec => []RootsTracked
<1>1. IInv => RootsTracked
  BY DEF IInv, DiskInv, Tracked, RootsTracked
<1> QED
  BY <1>1, IInvAlways, PTL

(* No step moves or changes an installed tree, or puts the view back.      *)
LEMMA InstalledStep ==
    IInv /\ [Next]_vars =>
        \A r \in Root : At(r, "source") => root'[r] = root[r] /\ view' = view
<1> SUFFICES ASSUME IInv, [Next]_vars, NEW r \in Root, At(r, "source")
             PROVE  root'[r] = root[r] /\ view' = view
  OBVIOUS
<1> USE TokenType DEF IInv, disk, manifest, command, faults, Doing
<1>1. CASE Save \/ Start \/ Bind \/ ReserveAnew
  BY <1>1 DEF Save, Start, Bind, ReserveAnew
<1>2. CASE \/ Installed \/ Forward \/ Resume \/ Refuse \/ Prepared \/ Commit
           \/ Ended \/ CommitAnyway \/ SetAside \/ RolledBack \/ GiveUp
           \/ CommitFails \/ Raise \/ Stop \/ Ensured \/ Announce
  BY <1>2, Rephrased
<1>3. CASE MakeConstruction \/ Publish \/ Install \/ Quarantine
  BY <1>3, RootMoved
  DEF MakeConstruction, Publish, Install, Quarantine, Place, At
<1>4. CASE CreateMarker
  BY <1>4, RootMarked DEF CreateMarker, At
<1>5. ASSUME NEW x \in Recording, NEW from \in Built, NEW to \in Built,
             Make(x, from, to)
      PROVE  root'[r] = root[r] /\ view' = view
  BY <1>5, RootBuilt DEF Make, At
<1>6. CASE Archive
  BY <1>6 DEF Archive, DiskInv, Occupied
<1>7. CASE PutBack
  BY <1>7, Looked DEF PutBack, Occupied
<1>8. CASE UNCHANGED vars
  BY <1>8 DEF vars
<1> QED
  BY <1>1, <1>2, <1>3, <1>4, <1>5, <1>6, <1>7, <1>8 DEF Next, Step, Built

(* There is no way back once the tree is installed, whatever fails.        *)
THEOREM InstalledTreesStay == Spec => InstalledStays
<1>1. IInv /\ [Next]_vars =>
          [\A r \in Root : At(r, "source") => root'[r] = root[r] /\ view' = view]_vars
  BY InstalledStep
<1> QED
  BY <1>1, IInvAlways, PTL DEF Spec, InstalledStays
-----------------------------------------------------------------------------
(* Resumable.  Kills alone, or one error and nothing else, leave both      *)
(* copies of the manifest in a form that every later step keeps.           *)
Few == errors = 0 \/ stops + errors = 1

(* A root that a manifest has bound is where the task or the staging is.   *)
Placed(m) ==
    m.bound /\ m.phase # "staging_quarantining" =>
        root[m.token].at \in {"staging", "source"}

Going(m) == Usable(m) /\ Placed(m)

(* The steps after the look have a bound root and no quarantine under way. *)
PathInv ==
    /\ pc \in {"look", "build", "install", "commit"} =>
           mem.bound /\ mem.phase # "staging_quarantining"
    /\ pc = "look" => ctx = "enter"
    /\ pc = "build" => ctx = "try"
    /\ errors = 0 => ctx # "undo" /\ pc \notin {"undo", "ending"}

(* Once the error handling has reserved a root anew, nothing is left to be *)
(* undone, so it does not give up on a manifest without an identity.       *)
FewInv ==
    Few =>
        /\ Going(log) /\ Going(mem)
        /\ pc = "undo" /\ ~ mem.bound => view = "source" /\ ~ Occupied("staging")

(* Before the first fault no root is ever quarantined, so the one error    *)
(* finds a bound root in the try block.                                    *)
CleanInv ==
    stops + errors = 0 =>
        /\ pc # "quarantine" /\ mem.phase # "staging_quarantining"
        /\ ctx = "try" => mem.bound
        /\ ctx = "enter" /\ view = "source" => Empty(mem.token)

LEMMA FaultsCounted ==
    ASSUME TypeOK, Next
    PROVE  /\ Few' => Few
           /\ stops' + errors' = 0 => stops + errors = 0
           /\ errors' = 0 => errors = 0
           /\ UNCHANGED faults \/ CommitFails \/ Raise \/ Stop
           /\ Few' /\ (CommitFails \/ Raise) => errors = 0 /\ stops = 0
           /\ Few' /\ Stop => errors = 0
<1>1. stops \in Nat /\ errors \in Nat
  BY BoundsAssumption DEF TypeOK
<1>2. UNCHANGED faults \/ CommitFails \/ Raise \/ Stop
  BY DEF Next, Step, Save, Start, Ensured, MakeConstruction, CreateMarker,
     Publish, Bind, Installed, Forward, Resume, Refuse, Make, Prepared, Archive,
     Install, Commit, Ended, Announce, Quarantine, ReserveAnew, CommitAnyway,
     PutBack, SetAside, RolledBack, GiveUp, faults
<1>3. CASE UNCHANGED faults
  <2>1. ~ (CommitFails \/ Raise \/ Stop)
    BY <1>1, <1>3 DEF CommitFails, Raise, Stop, faults
  <2> QED
    BY <1>3, <2>1 DEF Few, faults
<1>4. CASE CommitFails \/ Raise
  BY <1>1, <1>4 DEF CommitFails, Raise, Stop, Few
<1>5. CASE Stop
  BY <1>1, <1>5 DEF CommitFails, Raise, Stop, Few
<1> QED
  BY <1>2, <1>3, <1>4, <1>5

(* A bound root is found.                                                  *)
LEMMA Found ==
    ASSUME IInv, Going(mem), mem.bound, mem.phase # "staging_quarantining",
           view = "source"
    PROVE  StagingState # "missing"
BY TokenType
DEF IInv, DiskInv, Going, Placed, Occupied, At, StagingState, Tree

(* What no step but Quarantine does to a root.                             *)
LEMMA RootsKept ==
    ASSUME IInv, Next, ~ Quarantine, NEW r \in Root
    PROVE  /\ root[r].at = "quarantine" => root'[r].at = "quarantine"
           /\ root[r].at \in {"staging", "source"} =>
                  root'[r].at \in {"staging", "source"}
<1> USE TokenType DEF IInv, disk, At
<1>1. CASE Save \/ Start \/ Bind \/ ReserveAnew \/ Archive \/ PutBack
  BY <1>1 DEF Save, Start, Bind, ReserveAnew, Archive, PutBack
<1>2. CASE \/ Installed \/ Forward \/ Resume \/ Refuse \/ Prepared \/ Commit
           \/ Ended \/ CommitAnyway \/ SetAside \/ RolledBack \/ GiveUp
           \/ CommitFails \/ Raise \/ Stop \/ Ensured \/ Announce
  BY <1>2, Rephrased
<1>3. CASE MakeConstruction \/ Publish \/ Install
  BY <1>3, RootMoved DEF MakeConstruction, Publish, Install, Place
<1>4. CASE CreateMarker
  BY <1>4, RootMarked DEF CreateMarker
<1>5. ASSUME NEW x \in Recording, NEW from \in Built, NEW to \in Built,
             Make(x, from, to)
      PROVE  root'[r].at = root[r].at
  BY <1>5, RootBuilt DEF Make
<1> QED
  BY <1>1, <1>2, <1>3, <1>4, <1>5 DEF Next, Step, Built

LEMMA PathStep ==
    ASSUME IInv, PathInv, FewInv, Next
    PROVE  PathInv'
<1> USE FaultsCounted
    DEF IInv, PathInv, TypeOK, disk, manifest, command, faults, Go, Keep, Doing
<1>1. CASE Save \/ Start \/ MakeConstruction \/ CreateMarker \/ Publish
           \/ Quarantine
  BY <1>1 DEF Save, Start, MakeConstruction, CreateMarker, Publish, Publishing,
     Quarantine
<1>12. CASE Ensured
  <2>1. UNCHANGED <<mem, ctx, faults>> /\ pc = "ensure" /\ pc' \notin {"install", "commit"}
    BY <1>12 DEF Ensured
  <2>2. pc' \in {"look", "build"} =>
            mem.bound /\ mem.phase # "staging_quarantining"
    BY <1>12 DEF Ensured
  <2>3. ctx' = ctx /\ (pc' = "look" => ctx = "enter") /\ (pc' = "build" => ctx # "enter")
    BY <1>12 DEF Ensured
  <2>4. pc' # "undo" /\ pc' # "ending"
    BY <1>12 DEF Ensured
  <2> QED
    BY <2>1, <2>2, <2>3, <2>4, CommandStep
    DEF CommandInv
<1>2. CASE Bind \/ Announce \/ ReserveAnew
  BY <1>2 DEF Bind, Announce, ReserveAnew, Publishing
<1>3. CASE Forward
  <2>1. errors = 0 => StagingState # "missing"
    BY <1>3, Found DEF Forward, FewInv, Few
  <2>2. pc' = "build" => ctx' = "try" /\ mem' = mem
    BY <1>3 DEF Forward
  <2>3. pc = "look" /\ pc' \in {"build", "quarantine", "archive", "undo"}
    BY <1>3 DEF Forward
  <2>4. errors = 0 => ctx' = "try" /\ pc' # "undo"
    BY <1>3, <2>1 DEF Forward
  <2> QED
    BY <1>3, <2>2, <2>3, <2>4 DEF Forward
<1>4. CASE Resume \/ Archive
  <2>1. mem'.bound = mem.bound /\ mem'.phase = "view_archived"
    BY <1>4, PhaseWritten DEF Resume, Archive, Phase
  <2> QED
    BY <1>4, <2>1, Looked DEF Resume, Archive, StepInv, CommandInv
<1>5. CASE Commit
  <2>1. CASE mem.phase = "committed"
    BY <1>5, <2>1 DEF Commit, End
  <2>2. CASE mem.phase # "committed"
    <3>1. mem'.bound = mem.bound /\ mem'.phase = "committed"
      BY <1>5, <2>2, PhaseWritten DEF Commit, Phase
    <3> QED
      BY <1>5, <2>2, <3>1 DEF Commit
  <2> QED
    BY <2>1, <2>2
<1>6. CASE Installed \/ Refuse \/ Prepared \/ Install \/ Ended
  BY <1>6 DEF Installed, Refuse, Prepared, Install, Ended, End, StepInv
<1>7. ASSUME NEW x \in Recording, NEW from \in Built, NEW to \in Built,
             Make(x, from, to)
      PROVE  PathInv'
  BY <1>7 DEF Make
<1>8. CASE CommitAnyway
  BY <1>8, Looked DEF CommitAnyway, Undoing, SyncInv
<1>9. CASE PutBack \/ SetAside \/ RolledBack \/ GiveUp
  BY <1>9 DEF PutBack, SetAside, RolledBack, GiveUp, Undoing
<1>10. CASE CommitFails \/ Raise
  BY <1>10 DEF CommitFails, Raise, Caught, End
<1>11. CASE Stop
  BY <1>11 DEF Stop, End
<1> QED
  BY <1>1, <1>2, <1>3, <1>4, <1>5, <1>6, <1>7, <1>8, <1>9, <1>10, <1>11, <1>12
  DEF Next, Step, Built

LEMMA CleanStep ==
    ASSUME IInv, PathInv, CleanInv, Next
    PROVE  CleanInv'
<1> SUFFICES ASSUME stops' + errors' = 0
             PROVE  /\ pc' # "quarantine" /\ mem'.phase # "staging_quarantining"
                    /\ ctx' = "try" => mem'.bound
                    /\ ctx' = "enter" /\ view' = "source" =>
                           /\ ctx = "enter" /\ view = "source"
                           /\ mem'.token = mem.token
                           /\ root'[mem.token].made = root[mem.token].made
  BY FaultsCounted DEF IInv, CleanInv, Empty
<1>0. /\ errors = 0 /\ stops + errors = 0 /\ UNCHANGED faults
      /\ ctx # "undo" /\ pc \notin {"undo", "ending", "quarantine"}
  <2>1. stops \in Nat /\ errors \in Nat
    BY BoundsAssumption DEF IInv, TypeOK
  <2>2. errors = 0 /\ stops + errors = 0
    BY <2>1, FaultsCounted DEF IInv
  <2>3. ~ (CommitFails \/ Raise \/ Stop)
    BY <2>1, <2>2 DEF CommitFails, Raise, Stop
  <2> QED
    BY <2>2, <2>3, FaultsCounted DEF IInv, PathInv, CleanInv
<1> USE <1>0, TokenType
    DEF IInv, CleanInv, CommandInv, disk, manifest, command, Go, Keep, Doing
<1>1. CASE Save
  BY <1>1 DEF Save
<1>2. CASE Start
  <2>1. mem'.phase # "staging_quarantining" /\ mem'.token = mem.token
    BY <1>2 DEF Start, Write, SyncInv, TypeOK, Manifest
  <2> QED
    BY <1>2, <2>1 DEF Start
<1>3. CASE Ensured
  BY <1>3 DEF Ensured
<1>4. CASE MakeConstruction \/ Publish
  BY <1>4, RootMoved DEF MakeConstruction, Publish, Publishing, Place
<1>5. CASE CreateMarker
  BY <1>5, RootMarked DEF CreateMarker, Publishing
<1>6. CASE Bind
  BY <1>6, BoundWritten DEF Bind, Publishing
<1>7. CASE Forward
  <2>1. mem.bound /\ ctx = "enter" /\ view = "source" /\ Empty(mem.token)
    BY <1>7 DEF Forward, PathInv
  <2>2. /\ ctx' \in {"try", "undo"} /\ pc' # "quarantine"
        /\ mem' = mem \/ Write([mem EXCEPT !.phase = "prepared"])
    BY <1>7, <2>1 DEF Forward
  <2>3. mem'.bound = mem.bound /\ mem'.phase # "staging_quarantining"
    BY <2>2, PhaseWritten DEF Phase
  <2> QED
    BY <2>1, <2>2, <2>3
<1>8. CASE Resume \/ Archive
  <2>1. mem'.bound = mem.bound /\ mem'.phase = "view_archived"
    BY <1>8, PhaseWritten DEF Resume, Archive, Phase
  <2> QED
    BY <1>8, <2>1 DEF Resume, Archive, StepInv, PathInv
<1>9. CASE Prepared
  <2>1. mem'.bound = mem.bound /\ mem'.phase = "prepared"
    BY <1>9, PhaseWritten DEF Prepared, Phase
  <2> QED
    BY <1>9, <2>1 DEF Prepared, PathInv
<1>10. CASE Installed \/ Refuse
  BY <1>10 DEF Installed, Refuse, End, SyncInv, PathInv
<1>11. CASE Commit
  <2>1. CASE mem.phase = "committed"
    BY <1>11, <2>1 DEF Commit, End, SyncInv
  <2>2. CASE mem.phase # "committed"
    <3>1. mem'.bound = mem.bound /\ mem'.phase = "committed"
      BY <1>11, <2>2, PhaseWritten DEF Commit, Phase
    <3> QED
      BY <1>11, <2>2, <3>1 DEF Commit
  <2> QED
    BY <2>1, <2>2
<1>12. CASE Install
  BY <1>12 DEF Install
<1>13. ASSUME NEW x \in Recording, NEW from \in Built, NEW to \in Built,
              Make(x, from, to)
       PROVE  /\ pc' = pc /\ ctx' = "try" /\ mem' = mem /\ mem.bound
  BY <1>13 DEF Make, PathInv
<1>14. ~ (Ended \/ Announce \/ Quarantine \/ ReserveAnew \/ CommitAnyway
          \/ PutBack \/ SetAside \/ RolledBack \/ GiveUp)
  BY DEF Ended, Announce, Quarantine, ReserveAnew, CommitAnyway, PutBack,
     SetAside, RolledBack, GiveUp, Undoing
<1>15. ~ (CommitFails \/ Raise \/ Stop)
  BY BoundsAssumption DEF CommitFails, Raise, Stop, faults, TypeOK
<1> QED
  BY <1>1, <1>2, <1>3, <1>4, <1>5, <1>6, <1>7, <1>8, <1>9, <1>10, <1>11,
     <1>12, <1>13, <1>14, <1>15 DEF Next, Step, Built

(* A copy of the manifest that does not change goes on, unless Quarantine  *)
(* moves its root.                                                         *)
LEMMA GoingKept ==
    ASSUME IInv, Next, ~ Quarantine, NEW m \in Manifest, Going(m)
    PROVE  Going(m)'
<1>1. m.token \in Root /\ m.quar \subseteq Root
  BY DEF Manifest
<1>2. \A r \in m.quar : At(r, "quarantine") => At(r, "quarantine")'
  BY <1>1, RootsKept DEF At
<1>3. Quarantined(m)'
  BY <1>2 DEF Going, Usable, Quarantined
<1>4. Placed(m)'
  BY <1>1, RootsKept DEF Going, Placed
<1> QED
  BY <1>3, <1>4 DEF Going, Usable, Loadable

(* So does one whose phase is changed to one that fits.                    *)
LEMMA GoingRephrased ==
    ASSUME IInv, Going(mem), mem.phase # "staging_quarantining", root' = root,
           NEW phase \in Phase, phase # "staging_quarantining",
           mem.bound <=> phase \notin Unbound,
           Write([mem EXCEPT !.phase = phase])
    PROVE  Going(mem)'
BY PhaseWritten
DEF IInv, Going, Usable, Loadable, Quarantined, Placed, At

(* The quarantine moves a root both copies have announced.                 *)
LEMMA GoingMoved ==
    ASSUME IInv, Going(log), Quarantine
    PROVE  Going(log)' /\ Going(mem)'
<1> USE TokenType DEF IInv, Quarantine, Doing
<1>1. mem = log /\ mem' = mem /\ log' = log /\ log.phase = "staging_quarantining"
  BY DEF SyncInv, manifest
<1>2. \A r \in Root : At(r, "quarantine") => At(r, "quarantine")'
  BY RootMoved DEF Place, At
<1>3. log.quar \subseteq Root
  BY DEF TypeOK, Manifest
<1>4. Quarantined(log)'
  BY <1>1, <1>2, <1>3 DEF Going, Usable, Quarantined
<1>5. Placed(log)'
  BY <1>1 DEF Placed
<1>6. Going(log)'
  BY <1>1, <1>4, <1>5 DEF Going, Usable, Loadable
<1> QED
  BY <1>1, <1>6 DEF Going, Usable, Loadable, Quarantined, Placed, At

LEMMA GoingStep ==
    ASSUME IInv, PathInv, FewInv, CleanInv, Next, ~ Quarantine, Few'
    PROVE  Going(log)' /\ Going(mem)'
<1>0. Few /\ Going(log) /\ Going(mem) /\ mem \in Manifest /\ log \in Manifest
  BY FaultsCounted DEF FewInv, IInv, TypeOK
<1>a. ASSUME log' \in {log, mem}, mem' \in {log, mem}
      PROVE  Going(log)' /\ Going(mem)'
  BY <1>0, <1>a, GoingKept DEF Going, Usable, Loadable, Quarantined, Placed, At
<1>b. ASSUME NEW phase \in Phase, phase # "staging_quarantining",
             mem.phase # "staging_quarantining", root' = root,
             mem.bound <=> phase \notin Unbound,
             Write([mem EXCEPT !.phase = phase])
      PROVE  Going(log)' /\ Going(mem)'
  <2>1. Going(mem)'
    BY <1>0, <1>b, GoingRephrased
  <2>2. log' = log
    BY <1>b DEF Write
  <2> QED
    BY <1>0, <2>1, <2>2, <1>b DEF Going, Usable, Loadable, Quarantined, Placed, At
<1>c. ASSUME Going(mem)', log' = log
      PROVE  Going(log)' /\ Going(mem)'
  BY <1>0, <1>c, GoingKept DEF Going, Usable, Loadable, Quarantined, Placed, At
<1> USE TokenType DEF IInv, disk, manifest, command, Go, Keep, Doing
<1>1. CASE \/ Save \/ MakeConstruction \/ CreateMarker \/ Publish \/ Install
           \/ PutBack \/ Installed \/ Refuse \/ Ended \/ CommitAnyway
           \/ SetAside \/ Stop \/ Ensured
  <2>1. log' \in {log, mem} /\ mem' \in {log, mem}
    BY <1>1 DEF Save, MakeConstruction, CreateMarker, Publish, Install, PutBack,
       Installed, Refuse, Ended, CommitAnyway, SetAside, Stop, Ensured, End
  <2> QED
    BY <2>1, <1>a
<1>2. CASE Start
  <2>1. CASE log.phase = "none"
    <3>1. /\ mem = log /\ ~ log.bound /\ root' = root
          /\ Write([mem EXCEPT !.phase = "reserved"])
      BY <1>0, <1>2, <2>1
      DEF Start, SyncInv, CommandInv, Going, Usable, Loadable, Unbound
    <3> QED
      BY <1>b, <2>1, <3>1 DEF Phase, Unbound
  <2>2. CASE log.phase # "none"
    BY <1>2, <2>2, <1>a DEF Start
  <2> QED
    BY <2>1, <2>2
<1>3. CASE Bind
  <2>1. /\ mem'.phase = "preparing" /\ mem'.bound /\ log' = log /\ root' = root
        /\ mem'.token = mem.token /\ mem'.quar = mem.quar
    BY <1>3, BoundWritten DEF Bind
  <2>2. At(mem.token, "staging") /\ mem.phase # "staging_quarantining"
    BY <1>3 DEF Bind, Publishing
  <2>3. Going(mem)'
    BY <1>0, <2>1, <2>2
    DEF Going, Usable, Loadable, Quarantined, Placed, At, Unbound
  <2> QED
    BY <1>c, <2>1, <2>3
<1>4. CASE Forward
  <2>1. \/ UNCHANGED <<log, mem>>
        \/ Write([mem EXCEPT !.phase = "prepared"])
    BY <1>4 DEF Forward
  <2>2. mem.bound /\ mem.phase # "staging_quarantining" /\ root' = root
    BY <1>4 DEF Forward, PathInv
  <2> QED
    BY <1>a, <1>b, <2>1, <2>2 DEF Phase, Unbound
<1>5. CASE Resume \/ Archive
  <2>1. /\ mem.bound /\ mem.phase # "staging_quarantining" /\ root' = root
        /\ Write([mem EXCEPT !.phase = "view_archived"])
    BY <1>5 DEF Resume, Archive, PathInv, StepInv
  <2> QED
    BY <1>b, <2>1 DEF Phase, Unbound
<1>6. CASE Prepared
  <2>1. /\ mem.bound /\ mem.phase # "staging_quarantining" /\ root' = root
        /\ Write([mem EXCEPT !.phase = "prepared"])
    BY <1>6 DEF Prepared, PathInv
  <2> QED
    BY <1>b, <2>1 DEF Phase, Unbound
<1>7. CASE Commit
  <2>1. mem.bound /\ mem.phase # "staging_quarantining" /\ root' = root
    BY <1>7 DEF Commit, PathInv
  <2>2. End \/ Write([mem EXCEPT !.phase = "committed"])
    BY <1>7 DEF Commit
  <2> QED
    BY <1>a, <1>b, <2>1, <2>2 DEF Phase, Unbound, End
<1>8. CASE CommitFails
  <2>1. /\ mem.bound /\ mem.phase # "staging_quarantining" /\ root' = root
        /\ Write([mem EXCEPT !.phase = "recovery_failed"])
    BY <1>8 DEF CommitFails, PathInv
  <2> QED
    BY <1>b, <2>1 DEF Phase, Unbound
<1>9. ASSUME NEW x \in Recording, NEW from \in Built, NEW to \in Built,
             Make(x, from, to)
      PROVE  Going(log)' /\ Going(mem)'
  BY <1>9, <1>a DEF Make
<1>10. CASE Announce
  <2>1. /\ mem'.phase = "staging_quarantining" /\ mem'.bound = mem.bound
        /\ log' = log /\ root' = root /\ mem'.token = mem.token
        /\ mem'.quar = mem.quar \cup {mem.token}
        /\ mem.phase # "staging_quarantining" /\ mem.bound
    BY <1>10, AnnounceWritten DEF Announce
  <2>2. Going(mem)'
    BY <1>0, <2>1 DEF Going, Usable, Loadable, Quarantined, Placed, At, Unbound
  <2> QED
    BY <1>c, <2>1, <2>2
<1>11. CASE ReserveAnew
  <2>1. /\ mem'.phase = "staging_replacing" /\ ~ mem'.bound /\ log' = log
        /\ root' = root /\ mem'.quar = mem.quar /\ At(mem.token, "quarantine")
    BY <1>11, ReserveWritten DEF ReserveAnew
  <2>2. Going(mem)'
    BY <1>0, <2>1 DEF Going, Usable, Loadable, Quarantined, Placed, At, Unbound
  <2> QED
    BY <1>c, <2>1, <2>2
<1>12. CASE RolledBack
  <2>1. /\ view = "source" /\ StagingState = "missing" /\ root' = root
        /\ mem.phase # "staging_quarantining"
        /\ Write([mem EXCEPT !.phase = "rolled_back"])
    BY <1>12 DEF RolledBack, Undoing, SyncInv
  <2>2. ~ mem.bound
    BY <1>0, <2>1, Found
  <2> QED
    BY <1>b, <2>1, <2>2 DEF Phase, Unbound
<1>13. CASE GiveUp
  <2>1. /\ "foreign" \in {SourceState, StagingState} /\ root' = root
        /\ pc = "undo" /\ mem.phase # "staging_quarantining"
        /\ Write([mem EXCEPT !.phase = "rollback_failed"])
    BY <1>13 DEF GiveUp, Undoing, SyncInv
  <2>2. mem.bound
    BY <1>0, <2>1 DEF FewInv, SourceState, StagingState, Tree
  <2> QED
    BY <1>b, <2>1, <2>2 DEF Phase, Unbound
<1>14. CASE Raise
  <2>1. ctx # "undo"
    BY <1>14, FaultsCounted DEF PathInv
  <2> QED
    BY <1>14, <1>a, <2>1 DEF Raise, Caught, End
<1> QED
  BY <1>1, <1>2, <1>3, <1>4, <1>5, <1>6, <1>7, <1>8, <1>9, <1>10, <1>11,
     <1>12, <1>13, <1>14 DEF Next, Step, Built

(* The error handling comes upon an unbound manifest only by reserving     *)
(* anew, when nothing is left at the staging path.                         *)
LEMMA UndoStep ==
    ASSUME IInv, PathInv, FewInv, CleanInv, Next, Few', pc' = "undo", ~ mem'.bound
    PROVE  view' = "source" /\ ~ Occupied("staging")'
<1> USE TokenType, FaultsCounted
    DEF IInv, disk, manifest, command, Go, Keep, Doing
<1>1. CASE PutBack \/ (Save /\ pc = "undo")
  <2>1. root' = root /\ mem' = mem /\ pc = "undo" /\ view' \in {view, "source"}
    BY <1>1 DEF PutBack, Save, Undoing
  <2> QED
    BY <2>1 DEF FewInv, Occupied, At
<1>2. CASE ReserveAnew
  <2>1. view' = "source" /\ root' = root /\ At(mem.token, "quarantine")
    BY <1>2 DEF ReserveAnew, StepInv
  <2> QED
    BY <2>1 DEF DiskInv, Tracked, Occupied, At
<1>3. ~ Forward
  BY DEF Forward, PathInv
<1>4. ~ Raise
  <2>1. ASSUME Raise PROVE FALSE
    <3>1. ctx = "try" /\ mem' = mem
      BY <2>1 DEF Raise, Caught, PathInv, End
    <3>2. stops + errors = 0
      BY <2>1
    <3> QED
      BY <3>1, <3>2 DEF CleanInv
  <2> QED
    BY <2>1
<1>5. ~ (Start \/ Installed \/ Resume \/ Refuse \/ Prepared \/ Archive \/ Install
         \/ Commit \/ Ended \/ CommitFails \/ Stop \/ Ensured)
  BY DEF Start, Installed, Resume, Refuse, Prepared, Archive, Install, Commit,
     Ended, CommitFails, Stop, Ensured, End
<1>6. ~ (Bind \/ MakeConstruction \/ CreateMarker \/ Publish \/ Announce
         \/ Quarantine \/ CommitAnyway \/ SetAside \/ RolledBack \/ GiveUp)
  BY DEF Bind, MakeConstruction, CreateMarker, Publish, Publishing, Announce,
     Quarantine, CommitAnyway, SetAside, RolledBack, GiveUp
<1>7. \A x \in Recording, from, to \in Built : ~ Make(x, from, to)
  BY DEF Make
<1>8. Save => pc = "undo"
  BY DEF Save
<1> QED
  BY <1>1, <1>2, <1>3, <1>4, <1>5, <1>6, <1>7, <1>8 DEF Next, Step, Built

LEMMA FewStep ==
    ASSUME IInv, PathInv, FewInv, CleanInv, Next
    PROVE  FewInv'
<1> SUFFICES ASSUME Few'
             PROVE  /\ Going(log)' /\ Going(mem)'
                    /\ pc' = "undo" /\ ~ mem'.bound =>
                           view' = "source" /\ ~ Occupied("staging")'
  BY DEF FewInv
<1>1. Going(log)' /\ Going(mem)'
  BY GoingStep, GoingMoved, FaultsCounted DEF FewInv, IInv
<1> QED
  BY <1>1, UndoStep

(* Whatever the kills, and after one error, the next command goes on.      *)
THEOREM ViewsAreResumable == Spec => []Resumable
<1> DEFINE Inv == IInv /\ PathInv /\ FewInv /\ CleanInv
<1>1. Init => Inv
  <2> SUFFICES ASSUME Init PROVE Inv
    OBVIOUS
  <2>1. IInv
    BY IInvInit
  <2>2. PathInv /\ CleanInv
    BY TokenType, <2>1 DEF Init, PathInv, CleanInv, Empty, IInv
  <2>3. FewInv
    BY DEF Init, FewInv, Going, Usable, Loadable, Quarantined, Placed, Unbound
  <2> QED
    BY <2>1, <2>2, <2>3
<1>2. Inv /\ [Next]_vars => Inv'
  <2> SUFFICES ASSUME Inv, [Next]_vars PROVE Inv'
    OBVIOUS
  <2>1. CASE Next
    BY <2>1, IInvStep, PathStep, FewStep, CleanStep
  <2>2. CASE UNCHANGED vars
    <3>1. IInv'
      BY <2>2, IInvStep
    <3>2. (PathInv /\ FewInv /\ CleanInv)'
      BY <2>2
      DEF vars, disk, manifest, command, faults, PathInv, FewInv, Few, CleanInv,
          Going, Usable, Loadable, Quarantined, Placed, Occupied, At, Empty
    <3> QED
      BY <3>1, <3>2
  <2> QED
    BY <2>1, <2>2
<1>3. Inv => Resumable
  BY DEF FewInv, Few, Going, Resumable
<1> QED
  BY <1>1, <1>2, <1>3, PTL DEF Spec
=============================================================================
