------------------------- MODULE DetachedViewProofs -------------------------
(***************************************************************************)
(* Proofs about DetachedView for every set of recordings, whatever the     *)
(* umask, and every number of kills and raised calls.                      *)
(***************************************************************************)
EXTENDS DetachedView, TLAPS

Whole(m) == /\ m.root /\ m.recs = Recording
            /\ \A x \in Recording : made[x] = "whole"

(* PhaseTruthful, of a manifest m: the one on disk or the one in memory.   *)
Truthful(m) ==
    /\ m.phase \in {"none", "reserved"} =>
           /\ ~m.root /\ m.recs = {}
           /\ \A x \in Recording : made[x] = "none"
    /\ m.phase = "none" => root = "none"
    /\ m.phase = "preparing" => m.root /\ root = "marked"
    /\ \A x \in m.recs : made[x] # "none"
    /\ \A x, y \in Recording \ m.recs :
           made[x] # "none" /\ made[y] # "none" => x = y
    /\ m.phase = "finalizing" => Whole(m) /\ root \in {"marked", "plain"}
    /\ m.phase = "committed" => Whole(m) /\ root = "plain"

(* Only what is bound is filled.                                           *)
Bound(m) == \A x \in Recording \ m.recs : made[x] \in {"none", "bare"}

Cause(m) ==
    \/ errors > 0
    \/ ~intact
    \/ ~m.root /\ root # "none"
    \/ \E x \in Recording : made[x] # "none" /\ x \notin m.recs
    \/ \E x \in Recording : Misfit(x)

Caused(m) == m.phase = "recovery_failed" => Cause(m)

Good(m) == Truthful(m) /\ Bound(m) /\ Caused(m)

(* What a command knows at each of its steps, and so what it may write.    *)
StepInv ==
    /\ pc = "idle" => ~save
    /\ pc \in {"plan", "root"} => mem.phase = "reserved"
    /\ pc = "check" => mem.phase \notin {"none", "recovery_failed"}
    /\ pc \in {"look", "build", "verify"} => mem.phase = "preparing"
    /\ pc = "verify" => \A x \in Recording : made[x] = "whole"
    /\ pc \in {"finalize", "commit"} => mem.phase = "finalizing"
    /\ pc = "commit" => root = "plain"
    /\ pc = "after" => mem.phase = "committed"
    /\ pc = "ending" => mem.phase = "recovery_failed"

(* Whichever of the two manifests survives a kill, it is true.             *)
IInv ==
    /\ TypeOK
    /\ ~save => mem = log
    /\ StepInv
    /\ Good(log) /\ Good(mem)

-----------------------------------------------------------------------------
LEMMA IInvInit == Init => IInv
<1> SUFFICES ASSUME Init PROVE IInv
  OBVIOUS
<1>1. TypeOK
  <2>1. log \in Manifest
    BY DEF Init, Manifest, Phase
  <2>2. made \in [Recording -> Built]
    BY DEF Init, Built
  <2>3. mem = log /\ save \in BOOLEAN /\ intact \in BOOLEAN
    BY DEF Init
  <2>4. stops \in 0..MaxStops /\ errors \in 0..MaxErrors
    BY BoundsAssumption DEF Init
  <2>5. root = "none" /\ pc = "idle"
    BY DEF Init
  <2> QED
    BY <2>1, <2>2, <2>3, <2>4, <2>5 DEF TypeOK
<1>2. Good(log) /\ mem = log
  BY DEF Init, Good, Truthful, Bound, Caused
<1> QED
  BY <1>1, <1>2 DEF IInv, StepInv, Init

(* The tree of a whole and bound manifest is complete.                     *)
LEMMA WholeComplete ==
    ASSUME NEW mark \in {"marked", "plain"}, root = mark, Whole(mem)
    PROVE  Tree(mark) = "complete"
BY DEF Tree, Known, Misfit, Whole

(* A complete tree is one.                                                 *)
LEMMA CompleteWhole ==
    ASSUME TypeOK, NEW mark \in {"marked", "plain"}, Tree(mark) = "complete"
    PROVE  root = mark /\ Whole(mem)
<1>1. root = mark /\ Known /\ \A x \in Recording : made[x] = "whole"
  BY DEF Tree
<1>2. mem.recs \subseteq Recording
  BY DEF TypeOK, Manifest
<1> QED
  BY <1>1, <1>2 DEF Known, Whole

(* A command may fail for cause at any step.                               *)
LEMMA Failing ==
    ASSUME IInv, Fail, UNCHANGED <<disk, intact>>, errors' \in 0..MaxErrors,
           errors' >= errors, stops' = stops,
           Cause(mem) \/ errors' > 0
    PROVE  IInv'
<1>1. /\ mem' = [mem EXCEPT !.phase = "recovery_failed"]
      /\ mem' \in Manifest
      /\ save' = TRUE /\ log' = log /\ pc' = "ending"
  BY DEF Fail, Write, Go, IInv, TypeOK, Manifest, Phase
<1>2. mem'.phase = "recovery_failed" /\ mem'.root = mem.root
      /\ mem'.recs = mem.recs
  BY <1>1 DEF IInv, TypeOK, Manifest
<1>3. TypeOK'
  BY <1>1 DEF IInv, TypeOK, disk
<1>4. Good(log)'
  BY <1>1 DEF IInv, TypeOK, Good, Truthful, Bound, Cause, Caused, Whole, Misfit, disk
<1>5. Truthful(mem)' /\ Bound(mem)'
  BY <1>2 DEF IInv, Good, Truthful, Bound, disk
<1>6. Caused(mem)'
  BY <1>1, <1>2 DEF IInv, TypeOK, Cause, Caused, Misfit, disk
<1> QED
  BY <1>1, <1>2, <1>3, <1>4, <1>5, <1>6 DEF IInv, StepInv, Good

(* A command may end anywhere.                                             *)
LEMMA Ending ==
    ASSUME IInv, End, UNCHANGED <<disk, intact>>, errors' \in 0..MaxErrors,
           errors' >= errors, stops' \in 0..MaxStops
    PROVE  IInv'
<1>1. mem' = log /\ save' = FALSE /\ pc' = "idle" /\ log' = log
  BY DEF End, Go
<1>2. TypeOK'
  BY <1>1 DEF IInv, TypeOK, disk
<1>3. Good(log)'
  BY <1>1 DEF IInv, TypeOK, Good, Truthful, Bound, Cause, Caused, Whole, Misfit, disk
<1>4. Good(mem)'
  BY <1>1, <1>3 DEF Good, Truthful, Bound, Cause, Caused, Whole, Misfit
<1> QED
  BY <1>1, <1>2, <1>3, <1>4 DEF IInv, StepInv

(* A step that only goes on.                                               *)
LEMMA GoingOn ==
    ASSUME IInv, UNCHANGED <<disk, intact, manifest, faults>>, StepInv',
           pc' \in {"idle", "plan", "check", "root", "look", "build", "verify",
                    "finalize", "commit", "after", "ending"}
    PROVE  IInv'
<1>1. TypeOK'
  BY DEF IInv, TypeOK, disk, manifest, faults
<1>2. Good(log)' /\ Good(mem)'
  BY DEF IInv, Good, Truthful, Bound, Cause, Caused, Whole, Misfit, disk, manifest,
         faults
<1> QED
  BY <1>1, <1>2 DEF IInv, manifest

(* A step that writes a manifest, which is true already.                   *)
LEMMA Writing ==
    ASSUME IInv, UNCHANGED <<disk, faults>>, intact' = intact,
           NEW m \in Manifest, Write(m), Good(m), StepInv',
           pc' \in {"idle", "plan", "check", "root", "look", "build", "verify",
                    "finalize", "commit", "after", "ending"}
    PROVE  IInv'
<1>1. mem' = m /\ save' = TRUE /\ log' = log
  BY DEF Write
<1>2. TypeOK'
  BY <1>1 DEF IInv, TypeOK, disk, faults
<1>3. Good(log)' /\ Good(mem)'
  BY <1>1 DEF IInv, Good, Truthful, Bound, Cause, Caused, Whole, Misfit, disk, faults
<1> QED
  BY <1>1, <1>2, <1>3 DEF IInv
-----------------------------------------------------------------------------
LEMMA StepKeeps == IInv /\ Step => IInv'
<1> SUFFICES ASSUME IInv, Step PROVE IInv'
  OBVIOUS
<1> USE DEF IInv
<1>0. /\ errors \in 0..MaxErrors /\ stops \in 0..MaxStops /\ errors >= errors
      /\ log \in Manifest /\ mem \in Manifest
  BY BoundsAssumption DEF TypeOK
<1>1. CASE Save
  <2>1. log' = mem /\ save' = FALSE /\ UNCHANGED <<disk, intact, mem, pc, faults>>
    BY <1>1 DEF Save
  <2>2. TypeOK' /\ StepInv'
    BY <2>1 DEF TypeOK, StepInv, disk, faults
  <2>3. Good(mem)'
    BY <2>1 DEF Good, Truthful, Bound, Cause, Caused, Whole, Misfit, disk, faults
  <2>4. Good(log)'
    BY <2>1, <2>3 DEF Good, Truthful, Bound, Cause, Caused, Whole, Misfit
  <2> QED
    BY <2>1, <2>2, <2>3, <2>4
<1>2. CASE Start
  <2>1. ~save /\ mem = log /\ pc = "idle"
    BY <1>2 DEF Start, Doing
  <2>2. CASE /\ log.phase = "none" /\ root = "none" /\ intact' = TRUE
             /\ Write([mem EXCEPT !.phase = "reserved"]) /\ Go("plan")
             /\ UNCHANGED <<disk, faults>>
    <3> DEFINE m == [mem EXCEPT !.phase = "reserved"]
    <3>1. /\ mem' = [mem EXCEPT !.phase = "reserved"] /\ mem' \in Manifest
          /\ mem'.phase = "reserved" /\ mem'.root = log.root
          /\ mem'.recs = log.recs
          /\ save' = TRUE /\ log' = log /\ pc' = "plan"
      BY <1>0, <2>1, <2>2 DEF Write, Go, Manifest, Phase
    <3>2. TypeOK' /\ StepInv'
      BY <2>2, <3>1 DEF TypeOK, StepInv, disk, faults
    <3>3. Good(log)'
      BY <2>2, <3>1 DEF Good, Truthful, Bound, Cause, Caused, Whole, disk
    <3>4. Good(mem)'
      BY <2>2, <3>1 DEF Good, Truthful, Bound, Cause, Caused, Whole, disk
    <3> QED
      BY <3>1, <3>2, <3>3, <3>4
  <2>3. CASE /\ log.phase \notin {"none", "recovery_failed"}
             /\ mem' = log /\ Go("check") /\ UNCHANGED <<intact, log, save>>
             /\ UNCHANGED <<disk, faults>>
    <3>1. StepInv' /\ pc' = "check" /\ UNCHANGED manifest
      BY <2>1, <2>3 DEF StepInv, Go, manifest
    <3> QED
      BY <2>3, <3>1, GoingOn
  <2> QED
    BY <1>2, <2>2, <2>3 DEF Start
<1>3. CASE Planned
  <2>1. StepInv' /\ pc' = "check"
    BY <1>3 DEF Planned, Doing, Go, Keep, manifest, StepInv
  <2> QED
    BY <1>3, <2>1, GoingOn DEF Planned, Keep
<1>4. CASE Check
  <2> DEFINE sound == /\ intact
                      /\ mem.phase = "reserved" => root = "none"
                      /\ mem.phase = "committed" => Tree("plain") = "complete"
  <2>1. pc = "check" /\ ~save /\ mem = log /\ UNCHANGED <<disk, intact, faults>>
    BY <1>4 DEF Check, Doing
  <2>2. ASSUME NEW step \in {"root", "look", "finalize"}, Go(step), Keep,
               \/ step = "root" /\ mem.phase = "reserved"
               \/ step = "look" /\ mem.phase = "preparing"
               \/ step = "finalize" /\ mem.phase = "finalizing"
        PROVE  IInv'
    <3>1. StepInv' /\ pc' = step
      BY <2>1, <2>2 DEF Go, Keep, manifest, StepInv
    <3> QED
      BY <2>1, <2>2, <3>1, GoingOn DEF Keep
  <2>3. CASE End
    BY <1>0, <2>1, <2>3, Ending DEF faults
  <2>4. CASE ~sound /\ Fail
    <3>1. \/ ~intact
          \/ ~log.root /\ root # "none"
      <4>1. CASE mem.phase = "reserved" /\ root # "none"
        BY <2>1, <4>1 DEF Good, Truthful
      <4>2. CASE mem.phase = "committed" /\ Tree("plain") # "complete"
        BY <4>2, WholeComplete DEF Good, Truthful
      <4> QED
        BY <2>4, <4>1, <4>2
    <3>2. Cause(mem)
      BY <2>1, <3>1 DEF Cause
    <3> QED
      BY <1>0, <2>1, <2>4, <3>2, Failing DEF faults
  <2> QED
    BY <1>4, <2>2, <2>3, <2>4 DEF Check
<1>5. CASE MakeRoot \/ MarkRoot
  <2>1. /\ pc = "root" /\ ~save /\ mem = log /\ log.phase = "reserved"
        /\ root' \in {"made", "marked"}
        /\ UNCHANGED <<made, intact, manifest, pc, faults>>
    BY <1>5 DEF MakeRoot, MarkRoot, Doing, StepInv
  <2>2. TypeOK' /\ StepInv'
    BY <2>1 DEF TypeOK, StepInv, manifest, faults
  <2>3. Good(log)'
    BY <2>1 DEF Good, Truthful, Bound, Cause, Caused, manifest, faults
  <2> QED
    BY <2>1, <2>2, <2>3 DEF manifest
<1>6. CASE BindRoot
  <2> DEFINE m == [mem EXCEPT !.phase = "preparing", !.root = TRUE]
  <2>1. /\ pc = "root" /\ mem.phase = "reserved" /\ root = "marked"
        /\ Write(m) /\ pc' = "look" /\ UNCHANGED <<disk, intact, faults>>
    BY <1>6 DEF BindRoot, Doing, StepInv, Go
  <2>2. /\ m \in Manifest /\ m.phase = "preparing" /\ m.root
        /\ m.recs = mem.recs
    BY <1>0 DEF Manifest, Phase
  <2>3. Good(m)
    BY <2>1, <2>2 DEF Good, Truthful, Bound, Caused
  <2>4. StepInv'
    BY <2>1, <2>2 DEF StepInv, Write
  <2> QED
    BY <2>1, <2>2, <2>3, <2>4, Writing
<1>7. CASE Look
  <2>1. /\ pc = "look" /\ ~save /\ mem = log /\ log.phase = "preparing"
        /\ root = "marked" /\ log.root /\ UNCHANGED <<disk, intact, faults>>
    BY <1>7 DEF Look, Doing, StepInv, Good, Truthful
  <2>2. CASE Tree("marked") = "partial" /\ Go("build") /\ Keep
    <3>1. StepInv' /\ pc' = "build"
      BY <2>1, <2>2 DEF StepInv, Go, Keep, manifest
    <3> QED
      BY <2>1, <2>2, <3>1, GoingOn DEF Keep
  <2>3. CASE Tree("marked") = "complete" /\ Go("verify") /\ Keep
    <3>1. \A x \in Recording : made[x] = "whole"
      BY <2>3, CompleteWhole DEF Whole
    <3>2. StepInv' /\ pc' = "verify"
      BY <2>1, <2>3, <3>1 DEF StepInv, Go, Keep, manifest, disk
    <3> QED
      BY <2>1, <2>3, <3>2, GoingOn DEF Keep
  <2>4. CASE Tree("marked") \notin {"partial", "complete"} /\ Fail
    <3>1. Tree("marked") \in {"missing", "foreign", "complete", "partial"}
      BY DEF Tree
    <3>2. ~Known
      BY <2>1, <2>4, <3>1 DEF Tree
    <3>3. Cause(mem)
      BY <2>1, <3>2 DEF Known, Cause
    <3> QED
      BY <1>0, <2>1, <2>4, <3>3, Failing DEF faults
  <2> QED
    BY <1>7, <2>2, <2>3, <2>4 DEF Look
<1>8. ASSUME NEW x \in Recording, Create(x) PROVE IInv'
  <2>1. /\ pc = "build" /\ ~save /\ mem = log /\ log.phase = "preparing"
        /\ x \notin log.recs /\ Between
        /\ made' = [made EXCEPT ![x] = "bare"]
        /\ UNCHANGED <<root, intact, manifest, pc, faults>>
    BY <1>8 DEF Create, Doing, StepInv
  <2>2. \A y \in Recording \ log.recs : made[y] = "none"
    BY <2>1 DEF Between, Good, Bound
  <2>3. TypeOK' /\ StepInv'
    BY <2>1 DEF TypeOK, StepInv, Built, manifest, faults
  <2>4. /\ made'[x] = "bare"
        /\ \A y \in Recording \ {x} : made'[y] = made[y]
    BY <2>1 DEF TypeOK
  <2>5. log.recs \subseteq Recording
    BY <1>0 DEF Manifest
  <2>6. Good(log)'
    BY <2>1, <2>2, <2>4, <2>5
       DEF Good, Truthful, Bound, Caused, manifest
  <2> QED
    BY <2>1, <2>3, <2>6 DEF manifest
<1>9. ASSUME NEW x \in Recording, Bind(x) PROVE IInv'
  <2> DEFINE m == [mem EXCEPT !.recs = @ \cup {x}]
  <2>1. /\ pc = "build" /\ mem.phase = "preparing" /\ made[x] = "bare"
        /\ Write(m) /\ UNCHANGED <<disk, intact, pc, faults>>
    BY <1>9 DEF Bind, Doing, StepInv
  <2>2. /\ m \in Manifest /\ m.phase = "preparing" /\ m.root = mem.root
        /\ m.recs = mem.recs \cup {x}
    BY <1>0, <2>1 DEF Manifest
  <2>3. Good(m)
    BY <2>1, <2>2 DEF Good, Truthful, Bound, Caused
  <2>4. StepInv'
    BY <2>1, <2>2 DEF StepInv, Write
  <2> QED
    BY <2>1, <2>2, <2>3, <2>4, Writing
<1>10. ASSUME NEW x \in Recording, Fill(x) PROVE IInv'
  <2>1. /\ pc = "build" /\ ~save /\ mem = log /\ log.phase = "preparing"
        /\ x \in log.recs
        /\ \E b \in {"part", "whole"} : made' = [made EXCEPT ![x] = b]
        /\ UNCHANGED <<root, intact, manifest, pc, faults>>
    BY <1>10 DEF Fill, Doing, StepInv
  <2>2. TypeOK' /\ StepInv'
    BY <2>1 DEF TypeOK, StepInv, Built, manifest, faults
  <2>3. /\ made'[x] # "none"
        /\ \A y \in Recording \ {x} : made'[y] = made[y]
    BY <2>1 DEF TypeOK
  <2>4. log.recs \subseteq Recording
    BY <1>0 DEF Manifest
  <2>5. Good(log)'
    BY <2>1, <2>3, <2>4 DEF Good, Truthful, Bound, Caused, manifest
  <2> QED
    BY <2>1, <2>2, <2>5 DEF manifest
<1>11. CASE BuildDone
  <2>1. /\ pc = "build" /\ \A x \in Recording : made[x] = "whole"
        /\ pc' = "verify" /\ UNCHANGED <<disk, intact, manifest, faults>>
    BY <1>11 DEF BuildDone, Doing, Go, Keep
  <2>2. StepInv'
    BY <2>1 DEF StepInv, manifest, disk
  <2> QED
    BY <2>1, <2>2, GoingOn
<1>12. CASE Verify
  <2> DEFINE m == [mem EXCEPT !.phase = "finalizing"]
  <2>1. /\ pc = "verify" /\ ~save /\ mem = log /\ log.phase = "preparing"
        /\ UNCHANGED <<disk, intact, faults>>
    BY <1>12 DEF Verify, Doing, StepInv
  <2>2. root = "marked" /\ Whole(mem)
    <3>1. \A x \in Recording : made[x] = "whole" /\ x \in mem.recs
      BY <2>1 DEF StepInv, Good, Bound
    <3> QED
      BY <1>0, <2>1, <3>1 DEF Good, Truthful, Whole, Manifest
  <2>3. CASE Write(m) /\ Go("finalize")
    <3>1. /\ m \in Manifest /\ m.phase = "finalizing" /\ m.root = mem.root
          /\ m.recs = mem.recs
      BY <1>0 DEF Manifest, Phase
    <3>2. Good(m)
      BY <2>2, <3>1 DEF Good, Truthful, Bound, Caused, Whole
    <3>3. StepInv' /\ pc' = "finalize"
      BY <2>3, <3>1 DEF StepInv, Write, Go
    <3> QED
      BY <2>1, <2>3, <3>1, <3>2, <3>3, Writing
  <2>4. CASE ~(intact /\ Tree("marked") = "complete") /\ Fail
    <3>1. Cause(mem)
      BY <2>2, <2>4, WholeComplete DEF Cause
    <3> QED
      BY <1>0, <2>1, <2>4, <3>1, Failing DEF faults
  <2> QED
    BY <1>12, <2>3, <2>4 DEF Verify
<1>13. CASE Finalize
  <2>1. /\ pc = "finalize" /\ ~save /\ mem = log /\ log.phase = "finalizing"
        /\ Whole(mem) /\ root \in {"marked", "plain"}
        /\ UNCHANGED <<made, intact, faults>>
    BY <1>13 DEF Finalize, Doing, StepInv, Good, Truthful
  <2>2. /\ root' = "plain" /\ pc' = "commit" /\ UNCHANGED manifest
    <3>1. \/ root' = "plain" /\ Go("commit") /\ Keep
          \/ Tree("plain") = "complete" /\ Go("commit") /\ Keep /\ root' = root
      BY <1>13, <2>1, WholeComplete DEF Finalize
    <3>2. Tree("plain") = "complete" => root = "plain"
      BY CompleteWhole
    <3> QED
      BY <3>1, <3>2 DEF Go, Keep
  <2>3. TypeOK' /\ StepInv'
    BY <2>1, <2>2 DEF TypeOK, StepInv, manifest, faults
  <2>4. Good(log)'
    BY <2>1, <2>2 DEF Good, Truthful, Bound, Caused, Whole, manifest
  <2> QED
    BY <2>1, <2>2, <2>3, <2>4 DEF manifest
<1>14. CASE Commit
  <2> DEFINE m == [mem EXCEPT !.phase = "committed"]
  <2>1. /\ pc = "commit" /\ ~save /\ mem = log /\ log.phase = "finalizing"
        /\ Whole(mem) /\ root = "plain" /\ UNCHANGED <<disk, intact, faults>>
    BY <1>14 DEF Commit, Doing, StepInv, Good, Truthful
  <2>2. CASE Write(m) /\ Go("after")
    <3>1. /\ m \in Manifest /\ m.phase = "committed" /\ m.root = mem.root
          /\ m.recs = mem.recs
      BY <1>0 DEF Manifest, Phase
    <3>2. Good(m)
      BY <2>1, <3>1 DEF Good, Truthful, Bound, Caused, Whole
    <3>3. StepInv' /\ pc' = "after"
      BY <2>2, <3>1 DEF StepInv, Write, Go
    <3> QED
      BY <2>1, <2>2, <3>1, <3>2, <3>3, Writing
  <2>3. CASE ~(intact /\ Tree("plain") = "complete") /\ Fail
    <3>1. Cause(mem)
      BY <2>1, <2>3, WholeComplete DEF Cause
    <3> QED
      BY <1>0, <2>1, <2>3, <3>1, Failing DEF faults
  <2> QED
    BY <1>14, <2>2, <2>3 DEF Commit
<1>15. CASE After
  <2>1. /\ pc = "after" /\ ~save /\ mem = log /\ log.phase = "committed"
        /\ Whole(mem) /\ root = "plain" /\ UNCHANGED <<disk, intact, faults>>
    BY <1>15 DEF After, Doing, StepInv, Good, Truthful
  <2>2. CASE End
    BY <1>0, <2>1, <2>2, Ending DEF faults
  <2>3. CASE ~(intact /\ Tree("plain") = "complete") /\ Fail
    <3>1. Cause(mem)
      BY <2>1, <2>3, WholeComplete DEF Cause
    <3> QED
      BY <1>0, <2>1, <2>3, <3>1, Failing DEF faults
  <2> QED
    BY <1>15, <2>2, <2>3 DEF After
<1>16. CASE Ended
  BY <1>0, <1>16, Ending DEF Ended, faults
<1> QED
  BY <1>1, <1>2, <1>3, <1>4, <1>5, <1>6, <1>7, <1>8, <1>9, <1>10, <1>11,
     <1>12, <1>13, <1>14, <1>15, <1>16 DEF Step

LEMMA IInvNext == IInv /\ [Next]_vars => IInv'
<1> SUFFICES ASSUME IInv, [Next]_vars PROVE IInv'
  OBVIOUS
<1>0. errors \in 0..MaxErrors /\ stops \in 0..MaxStops /\ errors \in Nat
  BY BoundsAssumption DEF IInv, TypeOK
<1>1. CASE Step
  BY <1>1, StepKeeps
<1>2. CASE Raise
  <2>1. /\ errors' \in 0..MaxErrors /\ errors' > 0 /\ errors' >= errors
        /\ UNCHANGED <<disk, intact, stops>>
    BY <1>0, <1>2, BoundsAssumption DEF Raise
  <2>2. CASE End
    BY <1>0, <2>1, <2>2, Ending
  <2>3. CASE Fail
    BY <1>0, <2>1, <2>3, Failing
  <2> QED
    BY <1>2, <2>2, <2>3 DEF Raise
<1>3. CASE Kill
  <2>1. /\ stops' \in 0..MaxStops /\ errors' = errors
        /\ UNCHANGED <<disk, intact>> /\ End
    BY <1>0, <1>3, BoundsAssumption DEF Kill
  <2> QED
    BY <1>0, <2>1, Ending
<1>4. CASE SourceChanges
  <2>1. TypeOK' /\ StepInv'
    BY <1>4 DEF SourceChanges, IInv, TypeOK, StepInv, disk, manifest, faults
  <2>2. Good(log)' /\ Good(mem)'
    BY <1>4 DEF SourceChanges, IInv, Good, Truthful, Bound, Cause, Caused,
                Whole, disk, manifest, faults
  <2> QED
    BY <1>4, <2>1, <2>2 DEF IInv, SourceChanges, manifest
<1>5. CASE UNCHANGED vars
  <2>1. StepInv'
    BY <1>5 DEF IInv, StepInv, vars, disk, manifest
  <2> QED
    BY <1>5, <2>1, GoingOn DEF vars, IInv, TypeOK
<1> QED
  BY <1>1, <1>2, <1>3, <1>4, <1>5 DEF Next
-----------------------------------------------------------------------------
LEMMA Invariant == Spec => []IInv
BY IInvInit, IInvNext, PTL DEF Spec

(* Every variable keeps its type.                                          *)
THEOREM TypeCorrect == Spec => []TypeOK
<1>1. IInv => TypeOK
  BY DEF IInv
<1> QED
  BY <1>1, Invariant, PTL

(* Whenever the command is killed, the manifest that is left tells the     *)
(* truth about the tree.                                                   *)
THEOREM PhasesTruthful == Spec => []PhaseTruthful
<1>1. IInv => PhaseTruthful
  BY DEF IInv, Good, Truthful, Whole, WholeAndBound, PhaseTruthful
<1> QED
  BY <1>1, Invariant, PTL

(* An attempt is given up for good for one of the named causes only.       *)
THEOREM FailuresCaused == Spec => []FailedForCause
<1>1. IInv => FailedForCause
  BY BoundsAssumption
     DEF IInv, TypeOK, Good, Cause, Caused, Stray, FailedForCause
<1> QED
  BY <1>1, Invariant, PTL
=============================================================================
