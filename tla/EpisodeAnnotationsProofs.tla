---------------------- MODULE EpisodeAnnotationsProofs ----------------------
(***************************************************************************)
(* Proofs about EpisodeAnnotations, and InstructionCommit in it, for every *)
(* set of requests and what they ask, every set of episodes and every      *)
(* number of kills and failing calls.                                      *)
(***************************************************************************)
EXTENDS EpisodeAnnotations, FiniteSetTheorems, WellFoundedInduction,
        SequenceTheorems, TLAPS

(* A bounded set of numbers has a greatest.                                *)
LEMMA Greatest ==
    ASSUME NEW S \in SUBSET Nat, S # {}, NEW b \in Nat, \A k \in S : k <= b
    PROVE  \E n \in S : \A k \in S : n >= k
<1> DEFINE U == {n \in Nat : \A k \in S : n >= k}
<1>1. U \subseteq Nat /\ b \in U
  OBVIOUS
<1>2. PICK m \in U : \A y \in U : ~ (<<y, m>> \in OpToRel(<, Nat))
  BY ONLY <1>1, NatLessThanWellFounded, WFMin
<1>3. \A y \in U : ~(y < m)
  BY <1>1, <1>2 DEF OpToRel
<1>4. m \in S
  <2> SUFFICES ASSUME m \notin S PROVE FALSE
    OBVIOUS
  <2>1. PICK k \in S : m >= k
    BY <1>1
  <2>2. k \in Nat /\ m # k /\ m \in Nat
    BY <1>1
  <2>3. m # 0
    BY <2>1, <2>2
  <2>4. \A j \in S : m - 1 >= j
    BY <1>1
  <2>5. m - 1 \in U
    BY <2>2, <2>3, <2>4
  <2> QED
    BY <1>1, <1>3, <2>2, <2>5
<1> QED
  BY <1>4

(* One number more than there are elements: one of them is not taken.      *)
LEMMA OneIsFree ==
    ASSUME NEW S, IsFiniteSet(S), NEW f \in [S -> Int]
    PROVE  \E i \in 1..Cardinality(S) + 1 : \A r \in S : f[r] # i
<1> DEFINE T == {f[r] : r \in S}
<1>1. f \in Surjection(S, T)
  BY DEF Surjection
<1>2. IsFiniteSet(T) /\ Cardinality(T) <= Cardinality(S)
  BY <1>1, FS_Surjection
<1>3. Cardinality(S) \in Nat /\ Cardinality(T) \in Nat
  BY <1>2, FS_CardinalityType
<1>4. \A n \in Nat : Cardinality(1..n + 1) = n + 1
  <2> SUFFICES ASSUME NEW n \in Nat PROVE Cardinality(1..n + 1) = n + 1
    OBVIOUS
  <2>1. /\ 1 \in Int /\ n + 1 \in Int
        /\ ~(1 > n + 1) /\ (n + 1) - 1 + 1 = n + 1
    OBVIOUS
  <2> HIDE DEF T
  <2> QED
    BY ONLY <2>1, FS_Interval
<1> HIDE DEF T
<1>5. 1..Cardinality(S) + 1 \notin SUBSET T
  <2> SUFFICES ASSUME 1..Cardinality(S) + 1 \in SUBSET T PROVE FALSE
    OBVIOUS
  <2>1. Cardinality(1..Cardinality(S) + 1) <= Cardinality(T)
    BY <1>2, FS_Subset
  <2> QED
    BY <1>2, <1>3, <1>4, <2>1
<1>6. \E i \in 1..Cardinality(S) + 1 : i \notin T
  BY <1>5
<1> QED
  BY <1>6 DEF T
-----------------------------------------------------------------------------
Editor(s) == s.kind \in {"tag", "grade", "bulk"}

(* On the way to the rows; saving an edit, then writing it to the file.    *)
Asking == {"count", "insert", "mstats", "mwstats", "file"}
Mirroring == {"stats", "wstats", "lock", "table", "towrite", "write", "clear"}

(* The episode file has the edit, as far as it could be written.           *)
Wrote(s) == Editor(s) /\ \/ s.pc \in {"clear", "done"}
                         \/ s.for = "answer" /\ s.pc \in Asking

(* What a request knows at each place.                                     *)
Proper(s) ==
    /\ s.kind \in {"tag", "grade"} => Len(s.on) = 1
    /\ s.kind = "bulk" => s.on # <<>>
    /\ s.pc \in {"wstats", "mwstats"} => s.sum \in [Episode -> Nat]
    /\ s.pc \in Asking /\ s.for = "edit" /\ s.kind = "grade" => s.got \in Rows
    /\ s.pc \in {"save", "file"} => s.rows \in Rows
    /\ s.pc = "save" => s.kind = "bulk" /\ s.left # <<>>
    /\ s.pc \in Asking /\ s.for # "answer" => Editor(s) /\ s.left = s.on
    /\ s.pc \in Asking /\ s.for = "tags" => s.kind = "grade"
    /\ s.pc \in {"table", "towrite", "write"} =>
           s.file \in Tree([Episode -> Nat])
    /\ s.pc \notin {"new", "done", "failed"} => s.ctx \in Context
    /\ s.pc = "save" \/ s.pc \in Mirroring => Editor(s) /\ s.for = "edit"
    /\ s.pc \in Mirroring => s.left = <<>>
    /\ s.pc \in {"commit", "committing"} =>
           s.kind = "instruct" /\ s.for = "answer"

(* An edit has saved each of its episodes, or has it left to save.         *)
Saved(s) ==
    s.pc = "save" \/ s.pc \in Mirroring \/ Wrote(s) =>
        \A i \in DOMAIN s.on : \/ \E j \in DOMAIN s.left : s.left[j] = s.on[i]
                               \/ s.floor[s.on[i]] > 1

(* No request is obliged to show a row that is not there yet.              *)
Backed(s) == \A e \in Episode : s.floor[e] <= db[e].save

RequestsInv == TypeOK /\ \A r \in Request : /\ Proper(req[r]) /\ Saved(req[r])
                                            /\ Backed(req[r])

LEMMA FreeIsFree ==
    ASSUME TypeOK
    PROVE  /\ Free \in Context
           /\ \A r \in Request : Ended(r) \/ req[r].ctx # Free
<1> DEFINE f == [r \in Request |-> req[r].ctx]
<1>1. f \in [Request -> Int]
  <2> SUFFICES ASSUME NEW r \in Request PROVE req[r].ctx \in Int
    OBVIOUS
  <2>1. req[r].ctx \in Context \cup {0}
    BY DEF TypeOK, RequestRecord
  <2>2. Cardinality(Request) \in Nat
    BY RequestAssumption, FS_CardinalityType
  <2> QED
    BY <2>1, <2>2 DEF Context
<1> HIDE DEF f
<1>2. \E i \in Context : \A r \in Request : f[r] # i
  BY <1>1, RequestAssumption, OneIsFree DEF Context
<1>3. \E i \in Context : \A r \in Request : Ended(r) \/ req[r].ctx # i
  BY <1>2 DEF f
<1> QED
  BY <1>3 DEF Free

(* What is owed is one of the floors of the requests answered.             *)
LEMMA OwedIsGreatest ==
    ASSUME RequestsInv, NEW e \in Episode
    PROVE  /\ Owed[e] \in Nat /\ Owed[e] <= db[e].save
           /\ \A d \in Request : req[d].pc = "done"
               => Owed[e] >= req[d].floor[e]
           /\ \/ Owed[e] = 0
              \/ \E d \in Request : /\ req[d].pc = "done"
                                    /\ Owed[e] = req[d].floor[e]
<1> DEFINE given == {req[r].floor[e] : r \in {q \in Request : req[q].pc = "done"}}
           best == CHOOSE n \in given \cup {0} : \A k \in given : n >= k
<1>1. Owed[e] = best
  BY DEF Owed
<1>2. \A r \in Request : req[r].floor[e] \in Nat
      /\ req[r].floor[e] <= db[e].save
  BY DEF RequestsInv, TypeOK, RequestRecord, Backed
<1>3. db[e].save \in Nat
  BY DEF RequestsInv, TypeOK, Rows, Row
<1>4. given \cup {0} \in SUBSET Nat
      /\ \A k \in given \cup {0} : k <= db[e].save
  BY <1>2, <1>3
<1>5. \E n \in given \cup {0} : \A k \in given \cup {0} : n >= k
  <2> HIDE DEF given
  <2> QED
    BY <1>3, <1>4, Greatest
<1>6. best \in given \cup {0} /\ \A k \in given : best >= k
  <2> HIDE DEF given
  <2> QED
    BY <1>5
<1> QED
  BY <1>1, <1>3, <1>4, <1>6
-----------------------------------------------------------------------------
Good(s) == s \in RequestRecord /\ Proper(s) /\ Saved(s)

(* A step of one request, which may save.                                  *)
LEMMA OneMoves ==
    ASSUME RequestsInv, NEW r \in Request, NEW s, Good(s), To(r, s),
           \A e \in Episode : /\ db'[e].save \in Nat
                              /\ db'[e].save >= db[e].save
                              /\ s.floor[e] <= db'[e].save
    PROVE  /\ req' \in [Request -> RequestRecord]
           /\ \A q \in Request : /\ Proper(req'[q]) /\ Saved(req'[q])
                                 /\ \A e \in Episode :
                                        req'[q].floor[e] <= db'[e].save
<1>1. req \in [Request -> RequestRecord] /\ db \in Rows
  BY DEF RequestsInv, TypeOK
<1>2. req' = [req EXCEPT ![r] = s] /\ s \in RequestRecord
  BY DEF To, Good
<1>3. req' \in [Request -> RequestRecord] /\ req'[r] = s
  BY <1>1, <1>2
<1>4. ASSUME NEW q \in Request
      PROVE  /\ Proper(req'[q]) /\ Saved(req'[q])
             /\ \A e \in Episode : req'[q].floor[e] <= db'[e].save
  <2>1. CASE q = r
    BY <1>3, <2>1 DEF Good
  <2>2. CASE q # r
    <3>1. req'[q] = req[q]
      BY <1>1, <1>2, <2>2
    <3>2. \A e \in Episode : req[q].floor[e] \in Nat /\ db[e].save \in Nat
      BY <1>1 DEF RequestRecord, Rows, Row
    <3> QED
      BY <3>1, <3>2 DEF RequestsInv, Backed
  <2> QED
    BY <2>1, <2>2
<1> QED
  BY <1>3, <1>4

(* A step of one request that saves nothing, obliged as before.            *)
LEMMA OneReads ==
    ASSUME RequestsInv, NEW r \in Request, NEW s, Good(s), To(r, s),
           UNCHANGED db,
           \A e \in Episode : s.floor[e] <= db[e].save
    PROVE  /\ req' \in [Request -> RequestRecord]
           /\ \A q \in Request : /\ Proper(req'[q]) /\ Saved(req'[q])
                                 /\ \A e \in Episode :
                                        req'[q].floor[e] <= db'[e].save
<1>1. \A e \in Episode : db[e].save \in Nat
  BY DEF RequestsInv, TypeOK, Rows, Row
<1> QED
  BY <1>1, OneMoves

LEMMA RequestTypes ==
    ASSUME RequestsInv, NEW r \in Request
    PROVE  /\ req[r] \in RequestRecord /\ Proper(req[r]) /\ Saved(req[r])
           /\ \A e \in Episode : req[r].floor[e] <= db[e].save
           /\ db \in Rows /\ stats \in [Episode -> Nat]
           /\ registry \in [ctx : Context \cup {0}, dict : Nat]
           /\ contexts \in [Context -> [stamp : Nat, dict : Nat,
                                        cache : Rows \cup {NoRows}]]
BY DEF RequestsInv, TypeOK, Backed

LEMMA FailedGood ==
    ASSUME RequestsInv, NEW r \in Request
    PROVE  /\ Good(Failed(r))
           /\ \A e \in Episode : Failed(r).floor[e] <= db[e].save
           /\ Good(Fresh(req[r]))
           /\ \A e \in Episode : Fresh(req[r]).floor[e] <= db[e].save
<1>1. /\ req[r] \in RequestRecord /\ Proper(req[r])
      /\ \A e \in Episode : db[e].save \in Nat
  BY RequestTypes DEF Rows, Row
<1>2. Fresh(req[r]) \in RequestRecord /\ Failed(r) \in RequestRecord
  <2>1. <<>> \in Seq(Episode)
    OBVIOUS
  <2> QED
    BY <1>1, <2>1 DEF RequestRecord, Fresh, Failed, PC, NoRows
<1>3. /\ Proper(Fresh(req[r])) /\ Proper(Failed(r))
      /\ Saved(Fresh(req[r])) /\ Saved(Failed(r))
  BY <1>1 DEF Proper, Saved, Fresh, Failed, Asking, Mirroring, Editor, Wrote
<1>4. \A e \in Episode : /\ Fresh(req[r]).floor[e] = 0
                         /\ Failed(r).floor[e] = 0
  BY DEF Fresh, Failed
<1> QED
  BY <1>1, <1>2, <1>3, <1>4 DEF Good
-----------------------------------------------------------------------------
(* A request that may look for the rows, now or again.                     *)
Looks(s) ==
    /\ s \in RequestRecord
    /\ s.kind \in {"tag", "grade"} => Len(s.on) = 1
    /\ s.kind = "bulk" => s.on # <<>>
    /\ s.ctx \in Context
    /\ s.for # "answer" => Editor(s) /\ s.left = s.on
    /\ s.for = "tags" => s.kind = "grade"
    /\ s.for = "edit" /\ s.kind = "grade" => s.got \in Rows
    /\ s.for = "answer" /\ Editor(s) =>
           \A i \in DOMAIN s.on : s.floor[s.on[i]] > 1

LEMMA ReachedGood ==
    ASSUME NEW s, Looks(s), NEW rows \in Rows, s.for # "edit"
    PROVE  Good(Reached(s, rows)) /\ Reached(s, rows).floor = s.floor
<1>1. Reached(s, rows) \in RequestRecord
  BY DEF Looks, Reached, RequestRecord, PC, Context
<1>2. Proper(Reached(s, rows)) /\ Saved(Reached(s, rows))
  BY DEF Looks, Reached, RequestRecord, Proper, Saved, Wrote, Asking,
         Mirroring, Editor
<1>3. Reached(s, rows).floor = s.floor
  BY DEF Looks, Reached, RequestRecord
<1> QED
  BY <1>1, <1>2, <1>3 DEF Good

LEMMA CountGood ==
    ASSUME NEW s, Looks(s)
    PROVE  Good([s EXCEPT !.pc = "count"])
<1> DEFINE t == [s EXCEPT !.pc = "count"]
<1>1. t \in RequestRecord
  BY DEF Looks, RequestRecord, PC
<1>2. /\ t.pc = "count" /\ t.kind = s.kind /\ t.for = s.for /\ t.on = s.on
      /\ t.left = s.left /\ t.got = s.got /\ t.ctx = s.ctx
      /\ t.floor = s.floor
  BY DEF Looks, RequestRecord
<1> HIDE DEF t
<1>3. Proper(t)
  BY <1>2 DEF Looks, Proper, Asking, Mirroring, Editor
<1>4. Saved(t)
  BY <1>2 DEF Looks, Saved, Wrote, Asking, Mirroring, Editor
<1> QED
  BY <1>1, <1>3, <1>4 DEF Good, t

LEMMA EnteredGood ==
    ASSUME NEW s, Looks(s), NEW cache \in Rows \cup {NoRows}
    PROVE  Good(Entered(s, cache)) /\ Entered(s, cache).floor = s.floor
<1>1. CASE s.for # "edit" /\ cache # NoRows
  BY <1>1, ReachedGood DEF Entered
<1>2. CASE ~(s.for # "edit" /\ cache # NoRows)
  BY <1>2, CountGood DEF Entered, Looks, RequestRecord
<1> QED
  BY <1>1, <1>2

LEMMA AskedLooks ==
    ASSUME RequestsInv, NEW r \in Request, NEW c \in Context, req[r].pc = "new"
    PROVE  /\ Looks(Asked(r, c))
           /\ \A e \in Episode : Asked(r, c).floor[e] <= db[e].save
           /\ Asked(r, c).kind = req[r].kind /\ Asked(r, c).on = req[r].on
           /\ Asked(r, c).ctx = c /\ Asked(r, c).pc = "new"
           /\ Asked(r, c).floor = Owed /\ Asked(r, c).rows = req[r].rows
           /\ Asked(r, c).got = req[r].got
           /\ Asked(r, c).for # "answer" <=> Edits(r)
<1>1. req[r] \in RequestRecord /\ Proper(req[r])
  BY RequestTypes
<1>2. Owed \in [Episode -> Nat] /\ \A e \in Episode : Owed[e] <= db[e].save
  <2>1. \A e \in Episode : Owed[e] \in Nat /\ Owed[e] <= db[e].save
    BY OwedIsGreatest
  <2> QED
    BY <2>1 DEF Owed
<1> DEFINE for == CASE req[r].kind = "grade" -> "tags"
                    [] req[r].kind \in {"tag", "bulk"} -> "edit"
                    [] OTHER -> "answer"
<1>3. /\ for \in {"tags", "edit", "answer"}
      /\ for = "tags" => req[r].kind = "grade"
      /\ for = "edit" => req[r].kind \in {"tag", "bulk"}
      /\ for # "answer" <=> Edits(r)
  BY DEF Edits
<1>4. Asked(r, c) = [req[r] EXCEPT !.ctx = c, !.left = req[r].on, !.for = for,
                                   !.floor = Owed]
  BY DEF Asked
<1> HIDE DEF for
<1> QED
  BY <1>1, <1>2, <1>3, <1>4 DEF Looks, RequestRecord, Proper, Editor, Edits

LEMMA ArrivedGood ==
    ASSUME RequestsInv, NEW r \in Request, NEW c \in Context,
           req[r].pc = "new", NEW cache \in Rows \cup {NoRows}
    PROVE  /\ Good(Arrived(Asked(r, c), cache))
           /\ \A e \in Episode :
                  Arrived(Asked(r, c), cache).floor[e] <= db[e].save
<1> DEFINE s == Asked(r, c)
<1>1. /\ Looks(s) /\ \A e \in Episode : s.floor[e] <= db[e].save
      /\ s.for # "answer" <=> Edits(r)
      /\ s.kind = req[r].kind
  BY AskedLooks
<1> HIDE DEF s
<1>2. CASE s.kind = "instruct"
  <2>1. Arrived(s, cache) = [s EXCEPT !.pc = "commit"]
    BY <1>2 DEF Arrived
  <2>2. s.for = "answer"
    BY <1>1, <1>2 DEF Edits
  <2>3. Good([s EXCEPT !.pc = "commit"])
        /\ [s EXCEPT !.pc = "commit"].floor = s.floor
    <3> DEFINE t == [s EXCEPT !.pc = "commit"]
    <3>1. t \in RequestRecord /\ t.floor = s.floor
      BY <1>1 DEF Looks, RequestRecord, PC
    <3>2. /\ t.pc = "commit" /\ t.kind = s.kind /\ t.for = s.for
          /\ t.ctx = s.ctx
      BY <1>1 DEF Looks, RequestRecord
    <3> HIDE DEF t
    <3>3. Proper(t) /\ Saved(t)
      BY <1>1, <1>2, <2>2, <3>2 DEF Looks, Proper, Saved, Wrote, Asking,
         Mirroring, Editor
    <3> QED
      BY <3>1, <3>3 DEF Good, t
  <2> QED
    BY <1>1, <2>1, <2>3 DEF s
<1>3. CASE s.kind # "instruct"
  BY <1>1, <1>3, EnteredGood DEF Arrived, s
<1> QED
  BY <1>2, <1>3
-----------------------------------------------------------------------------
(* Steps that leave the data set alone.                                    *)
LEMMA BeginRequest ==
    ASSUME RequestsInv, NEW r \in Request, Begin(r) PROVE RequestsInv'
<1>1. /\ UNCHANGED <<commitVars, db, stats, marks, stops>> /\ req[r].pc = "new"
      /\ root.stamp \in Nat \/ ~Exists(root)
  BY DEF Begin, Segment, RequestsInv, TypeOK, CommitTypeOK, Tree, Exists
<1>2. /\ registry' \in [ctx : Context \cup {0}, dict : Nat]
      /\ contexts' \in [Context -> [stamp : Nat, dict : Nat,
                                    cache : Rows \cup {NoRows}]]
      /\ \E s : /\ Good(s) /\ To(r, s)
                /\ \A e \in Episode : s.floor[e] <= db[e].save
  <2>1. CASE /\ Exists(root) /\ Current
             /\ To(r, Arrived(Asked(r, registry.ctx),
                              contexts[registry.ctx].cache))
             /\ UNCHANGED memory
    <3>1. registry.ctx \in Context
      BY <2>1, RequestTypes DEF Current
    <3>2. contexts[registry.ctx].cache \in Rows \cup {NoRows}
      BY <3>1, RequestTypes
    <3> QED
      BY <1>1, <2>1, <3>1, <3>2, ArrivedGood, RequestTypes DEF memory
  <2>2. CASE /\ Exists(root) /\ ~Current /\ Loadable
             /\ contexts' = [contexts EXCEPT ![Free] = New(registry.dict)]
             /\ registry' = [registry EXCEPT !.ctx = Free]
             /\ To(r, Arrived(Asked(r, Free), NoRows))
    <3>1. Free \in Context
      BY FreeIsFree DEF RequestsInv
    <3>2. New(registry.dict) \in [stamp : Nat, dict : Nat,
                                  cache : Rows \cup {NoRows}]
      BY <1>1, <2>2, RequestTypes DEF New
    <3>3. /\ Good(Arrived(Asked(r, Free), NoRows))
          /\ \A e \in Episode :
                 Arrived(Asked(r, Free), NoRows).floor[e] <= db[e].save
      BY <1>1, <3>1, ArrivedGood
    <3> QED
      BY <2>2, <3>1, <3>2, <3>3, RequestTypes
  <2>3. CASE Fail(r) /\ UNCHANGED memory
    BY <2>3, FailedGood, RequestTypes DEF Fail, memory
  <2> QED
    BY <2>1, <2>2, <2>3 DEF Begin
<1>3. /\ req' \in [Request -> RequestRecord]
      /\ \A q \in Request : /\ Proper(req'[q]) /\ Saved(req'[q])
                            /\ \A e \in Episode : req'[q].floor[e] <= db'[e].save
  BY <1>1, <1>2, OneReads
<1> QED
  BY <1>1, <1>2, <1>3 DEF RequestsInv, TypeOK, CommitTypeOK, commitVars, trees,
     Backed

(* Of a step of one request little is left to show.                        *)
LEMMA OneSteps ==
    ASSUME RequestsInv, UNCHANGED <<commitVars, stops>>,
           NEW r \in Request, NEW s, Good(s), To(r, s),
           db' \in Rows, stats' \in [Episode -> Nat],
           \A e \in Episode : /\ db'[e].save >= db[e].save
                              /\ s.floor[e] <= db'[e].save,
           registry' = registry,
           contexts' \in [Context -> [stamp : Nat, dict : Nat,
                                      cache : Rows \cup {NoRows}]],
           marks' \subseteq {"skipped", "forked", "cut", "overtaken",
                             "crossed", "unrefreshed"}
    PROVE  RequestsInv'
<1>1. \A e \in Episode : db'[e].save \in Nat
  BY DEF Rows, Row
<1>2. /\ req' \in [Request -> RequestRecord]
      /\ \A q \in Request : /\ Proper(req'[q]) /\ Saved(req'[q])
                            /\ \A e \in Episode : req'[q].floor[e] <= db'[e].save
  BY <1>1, OneMoves
<1> QED
  BY <1>2 DEF RequestsInv, TypeOK, CommitTypeOK, commitVars, trees, Backed

LEMMA NotesType ==
    ASSUME RequestsInv, NEW set, Note(set),
           set \subseteq {"skipped", "forked", "cut", "overtaken",
                          "crossed", "unrefreshed"}
    PROVE  marks' \subseteq {"skipped", "forked", "cut", "overtaken",
                             "crossed", "unrefreshed"}
BY DEF RequestsInv, TypeOK, Note

LEMMA MarksType ==
    ASSUME RequestsInv
    PROVE  /\ marks \subseteq {"skipped", "forked", "cut", "overtaken",
                               "crossed", "unrefreshed"}
           /\ \A e \in Episode : db[e] \in Row /\ db[e].save \in Nat
                                 /\ db[e].tags \in Nat
BY DEF RequestsInv, TypeOK, Rows, Row

LEMMA UnrefreshedType ==
    ASSUME NEW set
    PROVE  Unrefreshed(set) \subseteq {"skipped", "forked", "cut", "overtaken",
                                       "crossed", "unrefreshed"}
BY DEF Unrefreshed

LEMMA CountRequest ==
    ASSUME RequestsInv, NEW r \in Request,
           Count(r) \/ ReadStats(r) \/ Load(r)
    PROVE  RequestsInv'
<1>1. /\ req[r] \in RequestRecord /\ Proper(req[r]) /\ Saved(req[r])
      /\ Saves(db) \in [Episode -> Nat]
  BY RequestTypes, MarksType DEF Saves
<1>2. \E s : /\ Good(s) /\ To(r, s)
             /\ s.floor = req[r].floor
  <2>1. CASE Count(r)
    <3> DEFINE s == [req[r] EXCEPT !.pc = "insert"]
    <3>1. s \in RequestRecord /\ s.floor = req[r].floor /\ To(r, s)
      BY <1>1, <2>1 DEF RequestRecord, PC, Count, Then
    <3>2. Proper(s) /\ Saved(s)
      BY <1>1, <2>1 DEF RequestRecord, Proper, Saved, Wrote, Asking, Mirroring,
         Editor, Count, Segment
    <3> QED
      BY <3>1, <3>2 DEF Good
  <2>2. CASE req[r].pc = "stats"
        /\ To(r, [req[r] EXCEPT !.pc = "wstats", !.sum = Saves(db)])
    <3> DEFINE s == [req[r] EXCEPT !.pc = "wstats", !.sum = Saves(db)]
    <3>1. s \in RequestRecord /\ s.floor = req[r].floor /\ To(r, s)
      BY <1>1, <2>2 DEF RequestRecord, PC
    <3>2. Proper(s) /\ Saved(s)
      BY <1>1, <2>2 DEF RequestRecord, Proper, Saved, Wrote, Asking, Mirroring,
         Editor
    <3> QED
      BY <3>1, <3>2 DEF Good
  <2>3. CASE req[r].pc = "mstats"
        /\ To(r, [req[r] EXCEPT !.pc = "mwstats", !.sum = Saves(db)])
    <3> DEFINE s == [req[r] EXCEPT !.pc = "mwstats", !.sum = Saves(db)]
    <3>1. s \in RequestRecord /\ s.floor = req[r].floor /\ To(r, s)
      BY <1>1, <2>3 DEF RequestRecord, PC
    <3>2. Proper(s) /\ Saved(s)
      BY <1>1, <2>3 DEF RequestRecord, Proper, Saved, Wrote, Asking, Mirroring,
         Editor
    <3> QED
      BY <3>1, <3>2 DEF Good
  <2>4. CASE Load(r)
    <3> DEFINE pc == IF req[r].for = "edit" THEN "save" ELSE "file"
               s == [req[r] EXCEPT !.rows = db, !.pc = pc]
    <3>1. /\ req[r].pc = "count" /\ To(r, s) /\ db \in Rows
          /\ pc = "save" => req[r].for = "edit" /\ req[r].kind = "bulk"
          /\ pc = "file" => req[r].for # "edit"
          /\ pc \in {"save", "file"}
      BY <2>4, RequestTypes DEF Load, Counted, Segment, Loads
    <3> HIDE DEF pc
    <3>2. s \in RequestRecord /\ s.floor = req[r].floor
      BY <1>1, <3>1 DEF RequestRecord, PC
    <3>3. /\ s.pc = pc /\ s.kind = req[r].kind /\ s.on = req[r].on
          /\ s.left = req[r].left /\ s.for = req[r].for /\ s.rows = db
          /\ s.ctx = req[r].ctx /\ s.got = req[r].got
      BY <1>1 DEF RequestRecord
    <3> HIDE DEF s
    <3>4. Proper(s)
      BY <1>1, <3>1, <3>3 DEF Proper, Asking, Mirroring, Editor
    <3>5. Saved(s)
      <4>1. CASE pc = "save"
        BY <1>1, <3>1, <3>3, <4>1 DEF Proper, Saved, Asking
      <4>2. CASE pc = "file"
        BY <1>1, <3>1, <3>2, <3>3, <4>2 DEF Saved, Wrote, Asking, Mirroring,
           Editor
      <4> QED
        BY <3>1, <4>1, <4>2
    <3> QED
      BY <3>1, <3>2, <3>4, <3>5 DEF Good
  <2> QED
    BY <2>1, <2>2, <2>3, <2>4 DEF ReadStats, Segment
<1>3. UNCHANGED <<commitVars, db, stats, memory, marks, stops>>
  BY DEF Count, ReadStats, Load
<1> QED
  BY <1>2, <1>3, OneSteps, RequestTypes, MarksType DEF memory

LEMMA InsertRequest ==
    ASSUME RequestsInv, NEW r \in Request, Insert(r) PROVE RequestsInv'
<1>1. req[r] \in RequestRecord /\ Proper(req[r]) /\ Saved(req[r])
  BY RequestTypes
<1> DEFINE s == [req[r] EXCEPT !.pc = "mstats"]
<1>2. s \in RequestRecord /\ s.floor = req[r].floor /\ To(r, s)
  BY <1>1 DEF RequestRecord, PC, Insert, Then
<1>3. Proper(s) /\ Saved(s)
  BY <1>1 DEF RequestRecord, Proper, Saved, Wrote, Asking, Mirroring,
     Editor, Insert, Segment
<1>4. db' \in Rows /\ \A e \in Episode : db'[e].save >= db[e].save
  <2>1. \A e \in Episode : db'[e] \in Row /\ db'[e].save >= db[e].save
    BY MarksType DEF Insert, Migrated, NoRow, Row
  <2> QED
    BY <2>1 DEF Insert, Rows
<1>5. \A e \in Episode : req[r].floor[e] <= db'[e].save
  BY <1>1, <1>4, RequestTypes DEF RequestRecord, Rows, Row
<1>6. /\ UNCHANGED <<commitVars, stats, memory, stops>>
      /\ marks' \subseteq {"skipped", "forked", "cut", "overtaken",
                           "crossed", "unrefreshed"}
  BY NotesType DEF Insert, Overtaken
<1> QED
  BY <1>2, <1>3, <1>4, <1>5, <1>6, OneSteps, RequestTypes DEF Good, memory

LEMMA WriteStatsRequest ==
    ASSUME RequestsInv, NEW r \in Request, WriteStats(r) PROVE RequestsInv'
<1>1. req[r] \in RequestRecord /\ Proper(req[r]) /\ Saved(req[r])
  BY RequestTypes
<1>2. /\ UNCHANGED <<commitVars, db, memory, marks, stops>>
      /\ stats' \in [Episode -> Nat]
  BY <1>1 DEF WriteStats, Segment, Proper
<1>3. \E s : Good(s) /\ To(r, s) /\ s.floor = req[r].floor
  <2>1. CASE req[r].pc = "wstats"
        /\ To(r, [req[r] EXCEPT !.pc = "lock", !.sum = NoRows])
    <3> DEFINE s == [req[r] EXCEPT !.pc = "lock", !.sum = NoRows]
    <3>1. s \in RequestRecord /\ s.floor = req[r].floor /\ To(r, s)
      BY <1>1, <2>1 DEF RequestRecord, PC
    <3>2. Proper(s) /\ Saved(s)
      BY <1>1, <2>1 DEF RequestRecord, Proper, Saved, Wrote, Asking, Mirroring,
         Editor
    <3> QED
      BY <3>1, <3>2 DEF Good
  <2>2. CASE req[r].pc = "mwstats"
        /\ To(r, [req[r] EXCEPT !.pc = "count", !.sum = NoRows])
    <3> DEFINE s == [req[r] EXCEPT !.pc = "count", !.sum = NoRows]
    <3>1. s \in RequestRecord /\ s.floor = req[r].floor /\ To(r, s)
      BY <1>1, <2>2 DEF RequestRecord, PC
    <3>2. Proper(s) /\ Saved(s)
      BY <1>1, <2>2 DEF RequestRecord, Proper, Saved, Wrote, Asking, Mirroring,
         Editor
    <3> QED
      BY <3>1, <3>2 DEF Good
  <2> QED
    BY <2>1, <2>2 DEF WriteStats, Segment
<1> QED
  BY <1>2, <1>3, OneSteps, RequestTypes, MarksType DEF memory

LEMMA FileRequest ==
    ASSUME RequestsInv, NEW r \in Request, File(r) PROVE RequestsInv'
<1>1. /\ req[r] \in RequestRecord /\ Proper(req[r]) /\ Saved(req[r])
      /\ req[r].pc = "file" /\ To(r, Reached(req[r], req[r].rows))
      /\ UNCHANGED <<commitVars, db, stats, registry, marks, stops>>
  BY RequestTypes DEF File, Segment
<1>2. /\ req[r].rows \in Rows /\ req[r].ctx \in Context
  BY <1>1 DEF Proper
<1>3. Good(Reached(req[r], req[r].rows))
      /\ Reached(req[r], req[r].rows).floor = req[r].floor
  <2>1. CASE req[r].for = "answer"
    <3> DEFINE s == Reached(req[r], req[r].rows)
    <3>1. s = [req[r] EXCEPT !.got = req[r].rows, !.rows = NoRows,
          !.pc = "done",
                             !.ctx = 0]
      BY <2>1 DEF Reached
    <3>2. s \in RequestRecord /\ s.floor = req[r].floor
      BY <1>1, <1>2, <3>1 DEF RequestRecord, PC
    <3>3. Proper(s) /\ Saved(s)
      BY <1>1, <2>1, <3>1 DEF RequestRecord, Proper, Saved, Wrote, Asking,
         Mirroring, Editor
    <3> QED
      BY <3>2, <3>3 DEF Good
  <2>2. CASE req[r].for # "answer"
    <3> DEFINE s == Reached(req[r], req[r].rows)
    <3>1. s = [req[r] EXCEPT !.got = req[r].rows, !.rows = NoRows,
          !.pc = "count",
                             !.for = "edit"]
      BY <1>1, <2>2 DEF Reached, RequestRecord
    <3>2. s \in RequestRecord /\ s.floor = req[r].floor
      BY <1>1, <1>2, <3>1 DEF RequestRecord, PC
    <3>3. Proper(s) /\ Saved(s)
      BY <1>1, <1>2, <2>2, <3>1 DEF RequestRecord, Proper, Saved, Wrote,
         Asking,
         Mirroring, Editor
    <3> QED
      BY <3>2, <3>3 DEF Good
  <2> QED
    BY <2>1, <2>2
<1>4. contexts' \in [Context -> [stamp : Nat, dict : Nat,
                                 cache : Rows \cup {NoRows}]]
  <2>1. CASE req[r].kind = "list"
    <3>1. contexts' = [contexts EXCEPT ![req[r].ctx].cache = req[r].rows]
      BY <2>1 DEF File
    <3> QED
      BY <1>2, <3>1, RequestTypes
  <2>2. CASE req[r].kind # "list"
    BY <2>2, RequestTypes DEF File
  <2> QED
    BY <2>1, <2>2
<1> QED
  BY <1>1, <1>3, <1>4, OneSteps, RequestTypes, MarksType

LEMMA FailRequest ==
    ASSUME RequestsInv, NEW r \in Request,
           FileFails(r) \/ Resend(r) \/ RefreshFails(r) \/ SaveFails(r)
    PROVE  RequestsInv'
<1>1. /\ UNCHANGED <<commitVars, db, stats, memory, stops>>
      /\ UNCHANGED marks \/ Note(Unrefreshed({r}))
  BY DEF FileFails, Resend, RefreshFails, SaveFails
<1>2. To(r, Failed(r)) \/ To(r, Fresh(req[r]))
  BY DEF FileFails, Resend, RefreshFails, SaveFails, Fail
<1>3. marks' \subseteq {"skipped", "forked", "cut", "overtaken",
                        "crossed", "unrefreshed"}
  BY <1>1, NotesType, UnrefreshedType, MarksType
<1> QED
  BY <1>1, <1>2, <1>3, FailedGood, OneSteps, RequestTypes, MarksType
     DEF memory

LEMMA SaveRequest ==
    ASSUME RequestsInv, NEW r \in Request, Save(r) PROVE RequestsInv'
<1>1. /\ req[r] \in RequestRecord /\ Proper(req[r]) /\ Saved(req[r])
      /\ db \in Rows /\ req[r].left \in Seq(Episode)
      /\ req[r].on \in Seq(Episode) /\ req[r].floor \in [Episode -> Nat]
  BY RequestTypes DEF RequestRecord
<1>2. /\ req[r].pc \in {"save", "count"} /\ req[r].left # <<>>
      /\ Editor(req[r]) /\ req[r].for = "edit"
      /\ req[r].ctx \in Context
      /\ req[r].pc = "save" => req[r].rows \in Rows /\ req[r].kind = "bulk"
      /\ req[r].pc = "count" => /\ req[r].kind \in {"tag", "grade"}
                                /\ Len(req[r].on) = 1
                                /\ req[r].left = req[r].on
                                /\ req[r].kind = "grade" => req[r].got \in Rows
  <2>1. CASE req[r].pc = "save"
    BY <1>1, <2>1 DEF Proper
  <2>2. CASE req[r].pc = "count" /\ ~Loads(r)
    <3>1. req[r].for = "edit" /\ req[r].kind # "bulk"
      BY <2>2 DEF Loads
    <3>2. /\ req[r].kind \in {"tag", "grade"} /\ Len(req[r].on) = 1
          /\ req[r].left = req[r].on
      BY <1>1, <2>2, <3>1 DEF Proper, Asking, Editor
    <3>3. Len(<<>>) = 0
      BY EmptySeq
    <3>4. ASSUME req[r].left = <<>> PROVE FALSE
      <4>1. req[r].on = <<>>
        BY <3>2, <3>4
      <4>2. Len(req[r].on) = 0
        BY <3>3, <4>1, Zenon
      <4>3. Len(req[r].on) # 0
        BY <3>2
      <4> QED
        BY <4>2, <4>3
    <3> QED
      BY <1>1, <2>2, <3>1, <3>2, <3>4 DEF Proper, Asking, Editor
  <2> QED
    BY <2>1, <2>2 DEF Save, Saving, Segment, Counted
<1> DEFINE e == Head(req[r].left)
           left == Tail(req[r].left)
           n == NextSave(e)
<1>3. e \in Episode /\ left \in Seq(Episode)
  BY <1>1, <1>2
<1>4. n \in Nat /\ n > 1 /\ n > db[e].save
  <2>1. db[e].save \in Nat
    BY <1>3, MarksType
  <2> QED
    BY <2>1 DEF NextSave
<1>5. TagsOf(r, e) \in Nat
  <2>1. CASE req[r].kind = "tag"
    BY <1>4, <2>1 DEF TagsOf
  <2>2. CASE req[r].kind = "grade"
    <3>1. req[r].got \in Rows
      BY <1>2, <2>2
    <3> QED
      BY <1>3, <2>2, <3>1 DEF TagsOf, Rows, Row
  <2>3. CASE req[r].kind = "bulk"
    <3>1. req[r].rows \in Rows
      BY <1>2, <2>3
    <3> QED
      BY <1>3, <2>3, <3>1 DEF TagsOf, Rows, Row
  <2> QED
    BY <1>2, <2>1, <2>2, <2>3 DEF Editor
<1> DEFINE row == [save |-> n, tags |-> TagsOf(r, e)]
           s == [req[r] EXCEPT
                !.left = left,
                !.floor[e] = n,
                !.got = IF left = <<>> THEN NoRows ELSE @,
                !.rows = IF left = <<>> THEN NoRows ELSE @,
                !.pc = AfterSave(left)]
<1>6. db' = [db EXCEPT ![e] = row] /\ To(r, s)
      /\ UNCHANGED <<commitVars, stats, memory, stops>>
  BY DEF Save
<1>7. row \in Row
  BY <1>4, <1>5 DEF Row
<1>8. marks' \subseteq {"skipped", "forked", "cut", "overtaken",
                        "crossed", "unrefreshed"}
  BY NotesType DEF Save, Overtaken, Crossed
<1> HIDE DEF row
<1>9. /\ db' \in Rows
      /\ \A f \in Episode : db'[f] = IF f = e THEN row ELSE db[f]
  BY <1>1, <1>3, <1>6, <1>7 DEF Rows
<1>10. \A f \in Episode : db'[f].save >= db[f].save
  <2>1. row.save = n
    BY DEF row
  <2> QED
    BY <1>4, <1>9, <2>1, MarksType
<1>11. /\ s.left = left /\ s.kind = req[r].kind /\ s.for = "edit"
       /\ s.on = req[r].on /\ s.ctx = req[r].ctx
       /\ s.floor = [req[r].floor EXCEPT ![e] = n]
       /\ s.pc = IF left = <<>> THEN "stats" ELSE "save"
       /\ left # <<>> => s.rows = req[r].rows
       /\ s.floor \in [Episode -> Nat]
  BY <1>1, <1>2, <1>3, <1>4 DEF RequestRecord, AfterSave
<1>12. s \in RequestRecord
  <2> HIDE DEF left, e, n
  <2> QED
    BY <1>1, <1>3, <1>4 DEF RequestRecord, PC, AfterSave
<1>13. left # <<>> => req[r].pc = "save"
  <2>1. CASE req[r].pc = "count"
    <3>1. Len(req[r].left) = 1
      BY <1>2, <2>1
    <3>2. Len(left) = 0
      BY <1>1, <1>2, <3>1
    <3> HIDE DEF left
    <3> QED
      BY <1>3, <3>2, EmptySeq
  <2> QED
    BY <1>2, <2>1
<1> HIDE DEF s, n, e
<1>13a. s.on \in Seq(Episode)
  BY <1>1, <1>11
<1>14. \A i \in DOMAIN s.on :
           \/ \E j \in DOMAIN s.left : s.left[j] = s.on[i]
           \/ s.floor[s.on[i]] > 1
  <2> SUFFICES ASSUME NEW i \in DOMAIN s.on, s.floor[s.on[i]] <= 1
               PROVE  \E j \in DOMAIN s.left : s.left[j] = s.on[i]
    <3>1. \A i \in DOMAIN s.on : s.floor[s.on[i]] \in Nat
      <4>1. \A i \in DOMAIN s.on : s.on[i] \in Episode
        BY ONLY <1>13a
      <4> QED
        BY ONLY <1>11, <4>1
    <3> QED
      BY <3>1
  <2>1. s.on[i] \in Episode
    BY ONLY <1>13a, i \in DOMAIN s.on
  <2>2. s.on[i] # e
    <3>1. s.floor[e] = n
      BY <1>1, <1>3, <1>11
    <3>2. ~(n <= 1)
      BY <1>4
    <3> QED
      BY <3>1, <3>2
  <2>3. req[r].floor[s.on[i]] <= 1
    BY <1>1, <1>11, <2>1, <2>2
  <2>4. req[r].floor[s.on[i]] \in Nat
    BY <1>1, <2>1
  <2>5. \E j \in DOMAIN req[r].left : req[r].left[j] = s.on[i]
    <3>1. CASE req[r].pc = "save"
      <4>1. i \in DOMAIN req[r].on /\ s.on[i] = req[r].on[i]
        BY <1>11
      <4>2. ~(req[r].floor[req[r].on[i]] > 1)
        BY <2>3, <2>4, <4>1
      <4>3. \E j \in DOMAIN req[r].left : req[r].left[j] = req[r].on[i]
        BY <1>1, <3>1, <4>1, <4>2 DEF Saved
      <4> QED
        BY <4>1, <4>3
    <3>2. CASE req[r].pc = "count"
      BY <1>2, <1>11, <3>2
    <3> QED
      BY <1>2, <3>1, <3>2
  <2>6. PICK j \in DOMAIN req[r].left : req[r].left[j] = s.on[i]
    BY <2>5
  <2>7. j \in 1..Len(req[r].left) /\ j # 1
    BY <1>1, <2>2, <2>6 DEF e
  <2>8. j - 1 \in DOMAIN left /\ left[j - 1] = s.on[i]
    BY <1>1, <1>2, <2>6, <2>7
  <2> QED
    BY <1>11, <2>8
<1>15. Saved(s)
  BY <1>14 DEF Saved
<1>16. Proper(s)
  <2> HIDE DEF left
  <2>1. left # <<>> => req[r].rows \in Rows /\ req[r].kind = "bulk"
    BY <1>2, <1>13
  <2> QED
    BY <1>1, <1>2, <1>11, <2>1 DEF Proper, Asking, Mirroring, Editor
<1>17. \A f \in Episode : s.floor[f] <= db'[f].save
  <2> SUFFICES ASSUME NEW f \in Episode PROVE s.floor[f] <= db'[f].save
    OBVIOUS
  <2>1. CASE f = e
    <3>1. s.floor[e] = n
      BY <1>1, <1>3, <1>11
    <3>2. row.save = n
      BY DEF row
    <3>3. db'[e] = row
      BY <1>3, <1>9
    <3> QED
      BY <1>4, <2>1, <3>1, <3>2, <3>3
  <2>2. CASE f # e
    BY <1>1, <1>9, <1>11, <2>2, RequestTypes
  <2> QED
    BY <2>1, <2>2
<1> QED
  BY <1>6, <1>8, <1>9, <1>10, <1>12, <1>15, <1>16, <1>17, OneSteps,
     RequestTypes
     DEF Good, memory

LEMMA AcquireRequest ==
    ASSUME RequestsInv, NEW r \in Request, Acquire(r) \/ Build(r) \/ Skip(r)
    PROVE  RequestsInv'
<1>1. /\ req[r] \in RequestRecord /\ Proper(req[r]) /\ Saved(req[r])
      /\ req[r].floor \in [Episode -> Nat]
  BY RequestTypes DEF RequestRecord
<1>2. \E s : Good(s) /\ To(r, s) /\ s.floor = req[r].floor
  <2>1. CASE Acquire(r)
    <3> DEFINE s == [req[r] EXCEPT !.pc = "table", !.file = root]
    <3>1. root \in Tree([Episode -> Nat]) /\ req[r].pc = "lock" /\ To(r, s)
      BY <2>1 DEF Acquire, Exists, RequestsInv, TypeOK, CommitTypeOK, Segment
    <3>2. s \in RequestRecord /\ s.floor = req[r].floor /\ s.file = root
      BY <1>1, <3>1 DEF RequestRecord, PC
    <3>3. Proper(s) /\ Saved(s)
      BY <1>1, <3>1 DEF RequestRecord, Proper, Saved, Wrote, Asking, Mirroring,
         Editor
    <3> QED
      BY <3>1, <3>2, <3>3 DEF Good
  <2>2. CASE Build(r)
    <3> DEFINE s == [req[r] EXCEPT !.pc = "towrite",
        !.file.rows = Annotated(r)]
    <3>1. req[r].file \in Tree([Episode -> Nat]) /\ req[r].pc = "table"
          /\ To(r, s)
      BY <1>1, <2>2 DEF Build, Segment, Proper
    <3>2. Annotated(r) \in [Episode -> Nat]
      BY <1>1, <3>1 DEF Annotated, Tree
    <3>3. [req[r].file EXCEPT !.rows = Annotated(r)] \in Tree([Episode -> Nat])
      BY <3>1, <3>2 DEF Tree
    <3>4. s \in RequestRecord /\ s.floor = req[r].floor
          /\ s.file \in Tree([Episode -> Nat])
      BY <1>1, <3>3 DEF RequestRecord, PC
    <3>5. Proper(s) /\ Saved(s)
      BY <1>1, <3>1, <3>4 DEF RequestRecord, Proper, Saved, Wrote, Asking,
         Mirroring, Editor
    <3> QED
      BY <3>1, <3>4, <3>5 DEF Good
  <2>3. CASE Skip(r)
    <3> DEFINE s == [req[r] EXCEPT !.pc = "clear", !.file = NoRows]
    <3>1. req[r].pc = "towrite" /\ To(r, s)
      BY <2>3 DEF Skip, Thread
    <3>2. s \in RequestRecord /\ s.floor = req[r].floor
      BY <1>1 DEF RequestRecord, PC
    <3>3. Proper(s) /\ Saved(s)
      BY <1>1, <3>1 DEF RequestRecord, Proper, Saved, Wrote, Asking, Mirroring,
         Editor
    <3> QED
      BY <3>1, <3>2, <3>3 DEF Good
  <2> QED
    BY <2>1, <2>2, <2>3
<1>3. /\ UNCHANGED <<commitVars, db, stats, memory, stops>>
      /\ marks' \subseteq {"skipped", "forked", "cut", "overtaken",
                           "crossed", "unrefreshed"}
  BY NotesType, MarksType DEF Acquire, Build, Skip
<1> QED
  BY <1>2, <1>3, OneSteps, RequestTypes, MarksType DEF memory

LEMMA ClearRequest ==
    ASSUME RequestsInv, NEW r \in Request, Clear(r) PROVE RequestsInv'
<1>1. /\ req[r] \in RequestRecord /\ Proper(req[r]) /\ Saved(req[r])
      /\ req[r].on \in Seq(Episode) /\ req[r].floor \in [Episode -> Nat]
      /\ req[r].pc = "clear"
      /\ UNCHANGED <<commitVars, db, stats, registry, marks, stops>>
  BY RequestTypes DEF RequestRecord, Clear, Segment
<1>2. /\ req[r].left = <<>> /\ req[r].ctx \in Context /\ Editor(req[r])
  BY <1>1 DEF Proper, Mirroring
<1>3. \A i \in DOMAIN req[r].on : req[r].floor[req[r].on[i]] > 1
  BY <1>1, <1>2 DEF Saved, Mirroring
<1>4. /\ contexts' \in [Context -> [stamp : Nat, dict : Nat,
                                    cache : Rows \cup {NoRows}]]
      /\ contexts'[req[r].ctx].cache \in Rows \cup {NoRows}
  <2>1. contexts' = [contexts EXCEPT ![req[r].ctx].cache = NoRows]
    BY DEF Clear, Cleared
  <2> QED
    BY <1>2, <2>1, RequestTypes
<1>5. \E s : Good(s) /\ To(r, s) /\ s.floor = req[r].floor
  <2>1. CASE req[r].kind = "bulk"
    <3> DEFINE s == [req[r] EXCEPT !.pc = "done", !.ctx = 0]
    <3>1. s \in RequestRecord /\ s.floor = req[r].floor /\ To(r, s)
      BY <1>1, <2>1 DEF RequestRecord, PC, Clear
    <3>2. Proper(s) /\ Saved(s)
      BY <1>1, <1>2 DEF RequestRecord, Proper, Saved, Wrote, Asking, Mirroring,
         Editor
    <3> QED
      BY <3>1, <3>2 DEF Good
  <2>2. CASE req[r].kind # "bulk"
    <3> DEFINE s == [req[r] EXCEPT !.for = "answer"]
    <3>1. To(r, Entered(s, contexts'[req[r].ctx].cache))
      BY <2>2 DEF Clear
    <3>2. s \in RequestRecord /\ s.floor = req[r].floor /\ s.on = req[r].on
          /\ s.for = "answer" /\ s.kind = req[r].kind /\ s.ctx = req[r].ctx
      BY <1>1 DEF RequestRecord
    <3> HIDE DEF s
    <3>3. Looks(s)
      BY <1>1, <1>2, <1>3, <3>2 DEF Looks, Proper
    <3> QED
      BY <1>4, <3>1, <3>2, <3>3, EnteredGood
  <2> QED
    BY <2>1, <2>2
<1>6. PICK s : Good(s) /\ To(r, s) /\ s.floor = req[r].floor
  BY <1>5
<1>7. db' \in Rows /\ stats' \in [Episode -> Nat] /\ registry' = registry
  BY <1>1, RequestTypes
<1>8. \A e \in Episode : /\ db'[e].save >= db[e].save
                         /\ s.floor[e] <= db'[e].save
  BY <1>1, <1>6, RequestTypes, MarksType
<1>9. marks' \subseteq {"skipped", "forked", "cut", "overtaken",
                        "crossed", "unrefreshed"}
  BY <1>1, MarksType
<1> QED
  BY <1>1, <1>4, <1>6, <1>7, <1>8, <1>9, OneSteps
-----------------------------------------------------------------------------
(* Steps that change the data set, and the commit.                         *)

LEMMA TreeTypes ==
    ASSUME RequestsInv
    PROVE  /\ root \in Tree([Episode -> Nat]) \cup {Gone}
           /\ backup \in Tree([Episode -> Nat]) \cup {Gone}
           /\ staging \in Tree([Episode -> Nat]) \cup {Gone}
           /\ Exists(root) => root \in Tree([Episode -> Nat])
           /\ Exists(backup) => backup \in Tree([Episode -> Nat])
           /\ Exists(staging) => staging \in Tree([Episode -> Nat])
           /\ clock \in Nat /\ clock + 1 \in Nat
           /\ errors \in 0..MaxErrors /\ MaxErrors \in Nat
BY BoundsAssumption DEF RequestsInv, TypeOK, CommitTypeOK, Exists

(* A tree of the type exists, whatever is said of it.                      *)
LEMMA TreeChanges ==
    ASSUME NEW t \in Tree([Episode -> Nat])
    PROVE  /\ Exists(t)
           /\ \A x \in BOOLEAN :
                  /\ [t EXCEPT !.half = x] \in Tree([Episode -> Nat])
                  /\ Exists([t EXCEPT !.half = x])
BY DEF Tree, Exists, Gone

LEMMA MirrorFailsRequest ==
    ASSUME RequestsInv, NEW r \in Request, MirrorFails(r) PROVE RequestsInv'
<1>1. /\ To(r, Failed(r))
      /\ UNCHANGED <<trees, manifest, step, clock, late, db, stats, memory,
          stops>>
  BY DEF MirrorFails, Fail
<1>2. /\ req' \in [Request -> RequestRecord]
      /\ \A q \in Request : /\ Proper(req'[q]) /\ Saved(req'[q])
                            /\ \A e \in Episode : req'[q].floor[e] <= db'[e].save
  BY <1>1, FailedGood, OneReads
<1>3. errors' \in 0..MaxErrors
  BY TreeTypes DEF MirrorFails
<1>4. marks' \subseteq {"skipped", "forked", "cut", "overtaken",
                        "crossed", "unrefreshed"}
  BY MarksType, NotesType DEF MirrorFails
<1>5. CommitTypeOK([Episode -> Nat])'
  BY <1>1, <1>3 DEF RequestsInv, TypeOK, CommitTypeOK, trees
<1> QED
  BY <1>1, <1>2, <1>4, <1>5 DEF RequestsInv, TypeOK, Backed, memory

LEMMA TruncateRequest ==
    ASSUME RequestsInv, NEW r \in Request, Truncate(r) PROVE RequestsInv'
<1>1. /\ req[r] \in RequestRecord /\ Proper(req[r]) /\ Saved(req[r])
      /\ req[r].pc = "towrite"
  BY RequestTypes DEF Truncate, Thread
<1> DEFINE s == [req[r] EXCEPT !.pc = "write"]
<1>2. s \in RequestRecord /\ s.floor = req[r].floor /\ To(r, s)
  BY <1>1 DEF RequestRecord, PC, Truncate, Then
<1>3. Proper(s) /\ Saved(s)
  BY <1>1 DEF RequestRecord, Proper, Saved, Wrote, Asking, Mirroring, Editor
<1>4. UNCHANGED <<backup, staging, manifest, step, late, errors,
                  db, stats, memory, marks, stops>>
  BY DEF Truncate
<1>5. /\ req' \in [Request -> RequestRecord]
      /\ \A q \in Request : /\ Proper(req'[q]) /\ Saved(req'[q])
                            /\ \A e \in Episode : req'[q].floor[e] <= db'[e].save
  BY <1>2, <1>3, <1>4, OneReads, RequestTypes DEF Good
<1>6. root' \in Tree([Episode -> Nat]) /\ clock' \in Nat
  BY TreeTypes DEF Truncate, Tree
<1>7. CommitTypeOK([Episode -> Nat])'
  BY <1>4, <1>6 DEF RequestsInv, TypeOK, CommitTypeOK
<1> QED
  BY <1>4, <1>5, <1>7 DEF RequestsInv, TypeOK, Backed, memory

(* What a write leaves of a tree.                                          *)
Filled(r, t, torn) ==
    IF Exists(t) /\ t.torn
    THEN [t EXCEPT !.torn = torn, !.stamp = clock + 1,
                   !.rows = req[r].file.rows, !.edition = req[r].file.edition]
    ELSE t

LEMMA WrittenTrees ==
    ASSUME RequestsInv, NEW r \in Request, Written(r)
    PROVE  \E torn \in BOOLEAN :
               /\ root' = Filled(r, root, torn)
               /\ backup' = Filled(r, backup, torn)
               /\ "forked" \notin marks =>
                      torn = \E q \in Request \ {r} : req[q].pc = "write"
               /\ (\E q \in Request \ {r} : req[q].pc = "write") => torn
<1>1. PICK mixed \in IF "forked" \in marks THEN BOOLEAN ELSE {FALSE} :
        LET other == \E q \in Request \ {r} : req[q].pc = "write"
        IN  /\ root' = Filled(r, root, other \/ mixed)
            /\ backup' = Filled(r, backup, other \/ mixed)
  BY DEF Written, Filled
<1> DEFINE other == \E q \in Request \ {r} : req[q].pc = "write"
<1>2. (other \/ mixed) \in BOOLEAN
  OBVIOUS
<1>3. "forked" \notin marks => (other \/ mixed) = other
  <2>1. "forked" \notin marks => mixed = FALSE
    BY <1>1
  <2> QED
    BY <2>1
<1> QED
  BY <1>1, <1>2, <1>3

LEMMA WrittenRequest ==
    ASSUME RequestsInv, NEW r \in Request, Written(r) PROVE RequestsInv'
<1>1. /\ req[r] \in RequestRecord /\ Proper(req[r]) /\ Saved(req[r])
      /\ req[r].pc = "write"
  BY RequestTypes DEF Written, Thread
<1>2. req[r].file \in Tree([Episode -> Nat])
  BY <1>1 DEF Proper
<1> DEFINE s == [req[r] EXCEPT !.pc = "clear", !.file = NoRows]
<1>3. s \in RequestRecord /\ s.floor = req[r].floor /\ To(r, s)
  BY <1>1 DEF RequestRecord, PC, Written
<1>4. Proper(s) /\ Saved(s)
  BY <1>1 DEF RequestRecord, Proper, Saved, Wrote, Asking, Mirroring, Editor
<1>5. UNCHANGED <<staging, manifest, step, late, errors,
                  db, stats, memory, marks, stops>>
  BY DEF Written
<1>6. /\ req' \in [Request -> RequestRecord]
      /\ \A q \in Request : /\ Proper(req'[q]) /\ Saved(req'[q])
                            /\ \A e \in Episode : req'[q].floor[e] <= db'[e].save
  BY <1>3, <1>4, <1>5, OneReads, RequestTypes DEF Good
<1>7. \A torn \in BOOLEAN, t \in Tree([Episode -> Nat]) \cup {Gone} :
          Filled(r, t, torn) \in Tree([Episode -> Nat]) \cup {Gone}
  BY <1>2, TreeTypes DEF Filled, Exists, Tree
<1>8. /\ root' \in Tree([Episode -> Nat]) \cup {Gone}
      /\ backup' \in Tree([Episode -> Nat]) \cup {Gone}
      /\ clock' \in Nat
  <2>1. PICK torn \in BOOLEAN : /\ root' = Filled(r, root, torn)
                                /\ backup' = Filled(r, backup, torn)
    BY WrittenTrees
  <2> QED
    BY <1>7, <2>1, TreeTypes DEF Written
<1>9. CommitTypeOK([Episode -> Nat])'
  BY <1>5, <1>8 DEF RequestsInv, TypeOK, CommitTypeOK
<1> QED
  BY <1>5, <1>6, <1>9 DEF RequestsInv, TypeOK, Backed, memory

LEMMA EvictRequest == RequestsInv /\ Evict => RequestsInv'
BY DEF RequestsInv, TypeOK, CommitTypeOK, Backed, Evict, commitVars, trees

LEMMA StopRequest == RequestsInv /\ Stop => RequestsInv'
<1> SUFFICES ASSUME RequestsInv, Stop PROVE RequestsInv'
  OBVIOUS
<1>1. /\ step' = "idle"
      /\ UNCHANGED <<trees, manifest, clock, late, db, stats>>
      /\ req' = [r \in Request |-> IF Ended(r) THEN req[r] ELSE Failed(r)]
      /\ registry' = [ctx |-> 0, dict |-> 1]
      /\ contexts' = [i \in Context |-> NoContext]
  BY DEF Stop, Go
<1>2. \A r \in Request : /\ req'[r] \in {req[r], Failed(r)}
                         /\ req'[r] \in RequestRecord
                         /\ Proper(req'[r]) /\ Saved(req'[r])
                         /\ \A e \in Episode : req'[r].floor[e] <= db'[e].save
  <2> SUFFICES ASSUME NEW r \in Request
               PROVE  /\ req'[r] \in {req[r], Failed(r)}
                      /\ req'[r] \in RequestRecord
                      /\ Proper(req'[r]) /\ Saved(req'[r])
                      /\ \A e \in Episode : req'[r].floor[e] <= db'[e].save
    OBVIOUS
  <2>1. req'[r] = req[r] \/ req'[r] = Failed(r)
    BY <1>1
  <2> QED
    BY <1>1, <2>1, FailedGood, RequestTypes DEF Good
<1>3. req' \in [Request -> RequestRecord]
  BY <1>1, <1>2
<1>4. errors' \in 0..MaxErrors /\ stops' \in 0..MaxStops
  BY BoundsAssumption, TreeTypes DEF Stop, RequestsInv, TypeOK
<1>5. /\ registry' \in [ctx : Context \cup {0}, dict : Nat]
      /\ contexts' \in [Context -> [stamp : Nat, dict : Nat,
                                    cache : Rows \cup {NoRows}]]
  BY <1>1 DEF NoContext
<1>6. marks' \subseteq {"skipped", "forked", "cut", "overtaken",
                        "crossed", "unrefreshed"}
  <2>1. marks' = marks \cup ((IF Writing THEN {"cut"} ELSE {})
                             \cup Unrefreshed(Request))
    BY DEF Stop, Note
  <2> QED
    BY <2>1, MarksType, UnrefreshedType
<1>7. CommitTypeOK([Episode -> Nat])'
  BY <1>1, <1>4 DEF RequestsInv, TypeOK, CommitTypeOK, trees
<1> QED
  BY <1>1, <1>2, <1>3, <1>4, <1>5, <1>6, <1>7 DEF RequestsInv, TypeOK, Backed

LEMMA EnterRequest ==
    ASSUME RequestsInv, NEW r \in Request, Enter(r) PROVE RequestsInv'
<1>1. /\ req[r] \in RequestRecord /\ Proper(req[r]) /\ Saved(req[r])
      /\ req[r].pc = "commit"
  BY RequestTypes DEF Enter, Segment
<1> DEFINE s == [req[r] EXCEPT !.pc = "committing"]
<1>2. s \in RequestRecord /\ s.floor = req[r].floor /\ To(r, s)
  BY <1>1 DEF RequestRecord, PC, Enter, Then
<1>3. Proper(s) /\ Saved(s)
  BY <1>1 DEF RequestRecord, Proper, Saved, Wrote, Asking, Mirroring, Editor
<1>4. /\ step' = "recover"
      /\ UNCHANGED <<trees, manifest, clock, late, errors,
                     db, stats, memory, marks, stops>>
  BY DEF Enter, Go
<1>5. /\ req' \in [Request -> RequestRecord]
      /\ \A q \in Request : /\ Proper(req'[q]) /\ Saved(req'[q])
                            /\ \A e \in Episode : req'[q].floor[e] <= db'[e].save
  BY <1>2, <1>3, <1>4, OneReads, RequestTypes DEF Good
<1>6. CommitTypeOK([Episode -> Nat])'
  BY <1>4 DEF RequestsInv, TypeOK, CommitTypeOK, trees
<1> QED
  BY <1>4, <1>5, <1>6 DEF RequestsInv, TypeOK, Backed, memory

LEMMA LeaveRequest ==
    ASSUME RequestsInv, NEW r \in Request, Leave(r) PROVE RequestsInv'
<1>1. /\ req[r] \in RequestRecord /\ Proper(req[r]) /\ Saved(req[r])
      /\ req[r].pc = "committing" /\ req[r].for = "answer" /\ ~Editor(req[r])
      /\ step' = "idle"
      /\ UNCHANGED <<trees, manifest, clock, late, errors, db, stats, stops>>
  BY RequestTypes DEF Leave, Go, Proper, Editor
<1>2. /\ \E s : /\ Good(s) /\ To(r, s)
                  /\ \A e \in Episode : s.floor[e] <= db[e].save
      /\ registry' \in [ctx : Context \cup {0}, dict : Nat]
      /\ contexts' \in [Context -> [stamp : Nat, dict : Nat,
                                    cache : Rows \cup {NoRows}]]
      /\ marks' \subseteq {"skipped", "forked", "cut", "overtaken",
                           "crossed", "unrefreshed"}
  <2>1. CASE At("answer") /\ Exists(root) /\ Loadable
    <3> DEFINE s == [req[r] EXCEPT !.ctx = Free, !.pc = "count"]
               dict == registry.dict + 1
    <3>1. Free \in Context
      BY FreeIsFree DEF RequestsInv
    <3>2. s \in RequestRecord /\ s.floor = req[r].floor /\ To(r, s)
      BY <1>1, <2>1, <3>1 DEF RequestRecord, PC, Leave
    <3>3. Proper(s) /\ Saved(s)
      BY <1>1, <3>1 DEF RequestRecord, Proper, Saved, Wrote, Asking, Mirroring,
         Editor
    <3>4. dict \in Nat
      BY RequestTypes
    <3>5. /\ registry' = [ctx |-> Free, dict |-> dict]
          /\ contexts' = [contexts EXCEPT ![Free] = New(dict)]
          /\ Note(Fork)
      BY <2>1 DEF Leave
    <3>6. New(dict) \in [stamp : Nat, dict : Nat, cache : Rows \cup {NoRows}]
      BY <2>1, <3>4, TreeTypes DEF New, Tree
    <3> HIDE DEF dict
    <3>7. /\ registry' \in [ctx : Context \cup {0}, dict : Nat]
          /\ contexts' \in [Context -> [stamp : Nat, dict : Nat,
                                        cache : Rows \cup {NoRows}]]
      BY <3>1, <3>4, <3>5, <3>6, RequestTypes
    <3>8. marks' \subseteq {"skipped", "forked", "cut", "overtaken",
                            "crossed", "unrefreshed"}
      BY <3>5, NotesType DEF Fork
    <3> QED
      BY <3>2, <3>3, <3>7, <3>8, RequestTypes DEF Good
  <2>2. CASE At("answer") /\ ~(Exists(root) /\ Loadable)
    <3>1. /\ registry' = [ctx |-> 0, dict |-> registry.dict + 1]
          /\ contexts' = contexts /\ Note(Fork) /\ To(r, Failed(r))
      BY <2>2 DEF Leave, Fail
    <3>2. marks' \subseteq {"skipped", "forked", "cut", "overtaken",
                            "crossed", "unrefreshed"}
      BY <3>1, NotesType DEF Fork
    <3>3. registry' \in [ctx : Context \cup {0}, dict : Nat]
      BY <3>1, RequestTypes
    <3> QED
      BY <3>1, <3>2, <3>3, FailedGood, RequestTypes
  <2>3. CASE ~At("answer")
    <3>1. To(r, Failed(r)) /\ UNCHANGED <<memory, marks>>
      BY <2>3 DEF Leave, Fail
    <3> QED
      BY <3>1, FailedGood, RequestTypes, MarksType DEF memory
  <2> QED
    BY <2>1, <2>2, <2>3
<1>3. /\ req' \in [Request -> RequestRecord]
      /\ \A q \in Request : /\ Proper(req'[q]) /\ Saved(req'[q])
                            /\ \A e \in Episode : req'[q].floor[e] <= db'[e].save
  BY <1>1, <1>2, OneReads
<1>4. CommitTypeOK([Episode -> Nat])'
  BY <1>1 DEF RequestsInv, TypeOK, CommitTypeOK, trees
<1> QED
  BY <1>1, <1>2, <1>3, <1>4 DEF RequestsInv, TypeOK, Backed
-----------------------------------------------------------------------------
(* What is where while no commit runs, by what the manifest says.          *)
Apart ==
    /\ manifest = "prepared" => (Exists(root) <=> ~Exists(backup))
    /\ manifest = "moved" => Exists(root) \/ Exists(backup)
    /\ manifest # "none" /\ Exists(root) => ~Exists(staging)

(* While the exception handler runs: only when the commit had put the new  *)
(* data set in place do both exist, or is the manifest gone.               *)
Undone ==
    /\ Exists(root) => ~Exists(staging)
    /\ Exists(root) /\ Exists(backup) => late /\ manifest # "prepared"
    /\ Exists(root) /\ ~Exists(backup) => manifest = "prepared"
    /\ ~Exists(root) => Exists(backup) /\ (manifest # "none" \/ late)

StepInv ==
    /\ step \in {"idle", "recover", "raised"} => Apart
    /\ step = "sweep" =>
           /\ manifest # "none" /\ Exists(root) /\ ~Exists(staging)
           /\ manifest = "prepared" => ~Exists(backup)
    /\ step \in {"preview", "prepare", "answer"} => manifest = "none"
    /\ step \in {"prepare", "answer"} => Exists(root)
    /\ step = "move" => /\ manifest = "prepared" /\ Exists(root)
                        /\ ~Exists(backup) /\ ~Exists(staging)
    /\ step = "mark" => manifest = "prepared" /\ ~Exists(staging)
    /\ step \in {"mark", "copy", "mutate", "promote"} =>
           ~Exists(root) /\ Exists(backup)
    /\ step \in {"copy", "mutate", "promote"} => manifest = "moved"
    /\ step = "copy" => ~Exists(staging)
    /\ step \in {"mutate", "promote"} => Exists(staging)
    /\ step \in {"unlink", "clean"} =>
           Exists(root) /\ Exists(backup) /\ ~Exists(staging)
    /\ step = "unlink" => manifest = "moved"
    /\ step = "clean" => manifest = "none"
    /\ step \in {"undo", "discard", "restore"} => Undone
    /\ step \in {"discard", "restore"} => ~(Exists(root) /\ Exists(backup))
    /\ step = "restore" => ~Exists(staging)
    /\ step = "forget" =>
           Exists(root) /\ ~Exists(backup) /\ ~Exists(staging)

(* Unless a late failure was met, only what is being copied or removed is  *)
(* a half.                                                                 *)
WholeInv ==
    \/ late
    \/ /\ Exists(root) => ~root.half
       /\ ~Exists(root) => Exists(backup) /\ ~backup.half /\ manifest # "none"
       /\ step = "promote" => ~staging.half

LEMMA CommitSteps ==
    ASSUME RequestsInv, StepInv, WholeInv, Working \/ Promote \/ Raises
    PROVE  CommitTypeOK([Episode -> Nat])' /\ StepInv' /\ WholeInv'
<1> USE DEF At, Go, KeepRest, trees
<1>0. /\ CommitTypeOK([Episode -> Nat])
      /\ Exists(root) => root \in Tree([Episode -> Nat])
      /\ Exists(backup) => backup \in Tree([Episode -> Nat])
      /\ Exists(staging) => staging \in Tree([Episode -> Nat])
      /\ ~Exists(Gone)
  BY TreeTypes DEF RequestsInv, TypeOK, Exists
<1>1. CASE RecoverNothing
  <2>1. CommitTypeOK([Episode -> Nat])'
    BY <1>0, <1>1, TreeTypes, TreeChanges DEF RecoverNothing, CommitTypeOK,
       StepInv
  <2>2. StepInv'
    BY <1>0, <1>1, TreeChanges DEF RecoverNothing, StepInv, Apart, Undone,
       WholeInv
  <2>3. WholeInv'
    BY <1>0, <1>1, TreeChanges DEF RecoverNothing, StepInv, Undone, WholeInv
  <2> QED
    BY <2>1, <2>2, <2>3
<1>2. CASE RecoverPromoted
  <2>1. CommitTypeOK([Episode -> Nat])'
    BY <1>0, <1>2, TreeTypes, TreeChanges DEF RecoverPromoted, CommitTypeOK,
       StepInv
  <2>2. StepInv'
    BY <1>0, <1>2, TreeChanges DEF RecoverPromoted, StepInv, Apart, Undone,
       WholeInv
  <2>3. WholeInv'
    BY <1>0, <1>2, TreeChanges DEF RecoverPromoted, StepInv, Undone, WholeInv
  <2> QED
    BY <2>1, <2>2, <2>3
<1>3. CASE RecoverBack
  <2>1. CommitTypeOK([Episode -> Nat])'
    BY <1>0, <1>3, TreeTypes, TreeChanges DEF RecoverBack, CommitTypeOK,
       StepInv
  <2>2. StepInv'
    BY <1>0, <1>3, TreeChanges DEF RecoverBack, StepInv, Apart, Undone,
       WholeInv
  <2>3. ~Exists(root)
    BY <1>0, <1>3 DEF RecoverBack, StepInv, Apart, CommitTypeOK
  <2>4. WholeInv'
    BY <1>0, <1>3, <2>3 DEF RecoverBack, WholeInv
  <2> QED
    BY <2>1, <2>2, <2>4
<1>4. CASE Sweep
  <2>1. CommitTypeOK([Episode -> Nat])'
    BY <1>0, <1>4, TreeTypes, TreeChanges DEF Sweep, CommitTypeOK, StepInv
  <2>2. StepInv'
    BY <1>0, <1>4, TreeChanges DEF Sweep, StepInv, Apart, Undone, WholeInv
  <2>3. WholeInv'
    BY <1>0, <1>4, TreeChanges DEF Sweep, StepInv, Undone, WholeInv
  <2> QED
    BY <2>1, <2>2, <2>3
<1>5. CASE RecoverRefuses
  <2>1. CommitTypeOK([Episode -> Nat])'
    BY <1>0, <1>5, TreeTypes, TreeChanges DEF RecoverRefuses, CommitTypeOK,
       StepInv
  <2>2. StepInv'
    BY <1>0, <1>5, TreeChanges DEF RecoverRefuses, StepInv, Apart, Undone,
       WholeInv
  <2>3. WholeInv'
    BY <1>0, <1>5, TreeChanges DEF RecoverRefuses, StepInv, Undone, WholeInv
  <2> QED
    BY <2>1, <2>2, <2>3
<1>6. CASE Preview
  <2>1. CommitTypeOK([Episode -> Nat])'
    BY <1>0, <1>6, TreeTypes, TreeChanges DEF Preview, CommitTypeOK, StepInv
  <2>2. StepInv'
    BY <1>0, <1>6, TreeChanges DEF Preview, StepInv, Apart, Undone, WholeInv
  <2>3. WholeInv'
    BY <1>0, <1>6, TreeChanges DEF Preview, StepInv, Undone, WholeInv
  <2> QED
    BY <2>1, <2>2, <2>3
<1>7. CASE Prepare
  <2>1. CommitTypeOK([Episode -> Nat])'
    BY <1>0, <1>7, TreeTypes, TreeChanges DEF Prepare, CommitTypeOK, StepInv
  <2>2. StepInv'
    BY <1>0, <1>7, TreeChanges DEF Prepare, StepInv, Apart, Undone, WholeInv
  <2>3. WholeInv'
    BY <1>0, <1>7, TreeChanges DEF Prepare, StepInv, Undone, WholeInv
  <2> QED
    BY <2>1, <2>2, <2>3
<1>8. CASE Move
  <2>1. CommitTypeOK([Episode -> Nat])'
    BY <1>0, <1>8, TreeTypes, TreeChanges DEF Move, CommitTypeOK, StepInv
  <2>2. StepInv'
    BY <1>0, <1>8, TreeChanges DEF Move, StepInv, Apart, Undone, WholeInv
  <2>3. WholeInv'
    BY <1>0, <1>8, TreeChanges DEF Move, StepInv, Undone, WholeInv
  <2> QED
    BY <2>1, <2>2, <2>3
<1>9. CASE Mark
  <2>1. CommitTypeOK([Episode -> Nat])'
    BY <1>0, <1>9, TreeTypes, TreeChanges DEF Mark, CommitTypeOK, StepInv
  <2>2. StepInv'
    BY <1>0, <1>9, TreeChanges DEF Mark, StepInv, Apart, Undone, WholeInv
  <2>3. WholeInv'
    BY <1>0, <1>9, TreeChanges DEF Mark, StepInv, Undone, WholeInv
  <2> QED
    BY <2>1, <2>2, <2>3
<1>10. CASE Copy
  <2>1. CommitTypeOK([Episode -> Nat])'
    BY <1>0, <1>10, TreeTypes, TreeChanges DEF Copy, CommitTypeOK, StepInv
  <2>2. StepInv'
    BY <1>0, <1>10, TreeChanges DEF Copy, StepInv, Apart, Undone, WholeInv
  <2>3. WholeInv'
    BY <1>0, <1>10, TreeChanges DEF Copy, StepInv, Undone, WholeInv
  <2> QED
    BY <2>1, <2>2, <2>3
<1>11. CASE Mutate
  <2>0. /\ staging' \in Tree([Episode -> Nat]) /\ Exists(staging')
        /\ UNCHANGED <<root, backup, manifest, late, errors>>
        /\ step = "mutate" /\ step' = "promote" /\ clock' = clock + 1
    <3>1. staging \in Tree([Episode -> Nat])
      BY <1>0, <1>11 DEF Mutate, StepInv
    <3> DEFINE t == [staging EXCEPT !.half = FALSE, !.edition = @ + 1,
                                    !.stamp = clock + 1]
    <3>2. t \in Tree([Episode -> Nat])
      <4>1. staging.edition + 1 \in Nat /\ clock + 1 \in Nat
        BY <3>1, TreeTypes DEF Tree
      <4>2. \A n, m \in Nat :
                [staging EXCEPT !.half = FALSE, !.edition = n, !.stamp = m]
                    \in Tree([Episode -> Nat])
        BY <3>1 DEF Tree
      <4>3. t = [staging EXCEPT !.half = FALSE,
            !.edition = staging.edition + 1,
                                !.stamp = clock + 1]
        OBVIOUS
      <4> QED
        BY <4>1, <4>2, <4>3
    <3>3. staging' = t
      BY <1>11 DEF Mutate
    <3>4. staging' \in Tree([Episode -> Nat]) /\ Exists(staging')
      BY <3>2, <3>3, TreeChanges
    <3> QED
      BY <1>11, <3>4 DEF Mutate
  <2>1. CommitTypeOK([Episode -> Nat])'
    BY <1>0, <2>0, TreeTypes DEF CommitTypeOK
  <2>2. StepInv'
    BY <2>0 DEF StepInv, Exists
  <2>3. WholeInv'
    BY <1>0, <1>11, TreeChanges DEF Mutate, StepInv, Undone, WholeInv
  <2> QED
    BY <2>1, <2>2, <2>3
<1>12. CASE Unlink
  <2>1. CommitTypeOK([Episode -> Nat])'
    BY <1>0, <1>12, TreeTypes, TreeChanges DEF Unlink, CommitTypeOK, StepInv
  <2>2. StepInv'
    BY <1>0, <1>12, TreeChanges DEF Unlink, StepInv, Apart, Undone, WholeInv
  <2>3. WholeInv'
    BY <1>0, <1>12, TreeChanges DEF Unlink, StepInv, Undone, WholeInv
  <2> QED
    BY <2>1, <2>2, <2>3
<1>13. CASE Clean
  <2>1. CommitTypeOK([Episode -> Nat])'
    BY <1>0, <1>13, TreeTypes, TreeChanges DEF Clean, CommitTypeOK, StepInv
  <2>2. StepInv'
    BY <1>0, <1>13, TreeChanges DEF Clean, StepInv, Apart, Undone, WholeInv
  <2>3. WholeInv'
    BY <1>0, <1>13, TreeChanges DEF Clean, StepInv, Undone, WholeInv
  <2> QED
    BY <2>1, <2>2, <2>3
<1>14. CASE Unreadable
  <2>1. CommitTypeOK([Episode -> Nat])'
    BY <1>0, <1>14, TreeTypes, TreeChanges DEF Unreadable, CommitTypeOK,
       StepInv
  <2>2. StepInv'
    BY <1>0, <1>14, TreeChanges DEF Unreadable, StepInv, Apart, Undone,
       WholeInv
  <2>3. WholeInv'
    BY <1>0, <1>14, TreeChanges DEF Unreadable, StepInv, Undone, WholeInv
  <2> QED
    BY <2>1, <2>2, <2>3
<1>15. CASE Undo
  <2>1. CommitTypeOK([Episode -> Nat])'
    BY <1>0, <1>15, TreeTypes, TreeChanges DEF Undo, CommitTypeOK, StepInv
  <2>2. StepInv'
    BY <1>0, <1>15, TreeChanges DEF Undo, StepInv, Apart, Undone, WholeInv
  <2>3. WholeInv'
    BY <1>0, <1>15, TreeChanges DEF Undo, StepInv, Undone, WholeInv
  <2> QED
    BY <2>1, <2>2, <2>3
<1>16. CASE Discard
  <2>1. CommitTypeOK([Episode -> Nat])'
    BY <1>0, <1>16, TreeTypes, TreeChanges DEF Discard, CommitTypeOK, StepInv
  <2>2. StepInv'
    BY <1>0, <1>16, TreeChanges DEF Discard, StepInv, Apart, Undone, WholeInv
  <2>3. WholeInv'
    BY <1>0, <1>16, TreeChanges DEF Discard, StepInv, Undone, WholeInv
  <2> QED
    BY <2>1, <2>2, <2>3
<1>17. CASE Restore
  <2>1. CommitTypeOK([Episode -> Nat])'
    BY <1>0, <1>17, TreeTypes, TreeChanges DEF Restore, CommitTypeOK, StepInv
  <2>2. StepInv'
    BY <1>0, <1>17, TreeChanges DEF Restore, StepInv, Apart, Undone, WholeInv
  <2>3. WholeInv'
    BY <1>0, <1>17, TreeChanges DEF Restore, StepInv, Undone, WholeInv
  <2> QED
    BY <2>1, <2>2, <2>3
<1>18. CASE Forget
  <2>1. CommitTypeOK([Episode -> Nat])'
    BY <1>0, <1>18, TreeTypes, TreeChanges DEF Forget, CommitTypeOK, StepInv
  <2>2. StepInv'
    BY <1>0, <1>18, TreeChanges DEF Forget, StepInv, Apart, Undone, WholeInv
  <2>3. WholeInv'
    BY <1>0, <1>18, TreeChanges DEF Forget, StepInv, Undone, WholeInv
  <2> QED
    BY <2>1, <2>2, <2>3
<1>19. CASE Promote
  <2>1. CommitTypeOK([Episode -> Nat])'
    BY <1>0, <1>19, TreeTypes, TreeChanges DEF Promote, CommitTypeOK, StepInv
  <2>2. StepInv'
    BY <1>0, <1>19, TreeChanges DEF Promote, StepInv, Apart, Undone, WholeInv
  <2>3. WholeInv'
    BY <1>0, <1>19, TreeChanges DEF Promote, StepInv, Undone, WholeInv
  <2> QED
    BY <2>1, <2>2, <2>3
<1>20. CASE Raises
  <2>1. CommitTypeOK([Episode -> Nat])'
    <3>1. errors' \in 0..MaxErrors
      BY <1>20, TreeTypes DEF Raises
    <3>2. step' \in {"undo", "raised"} /\ UNCHANGED <<trees, manifest, clock>>
      BY <1>20 DEF Raises
    <3>3. late' \in BOOLEAN
      BY <1>0, <1>20 DEF Raises, CommitTypeOK
    <3> QED
      BY <1>0, <3>1, <3>2, <3>3 DEF CommitTypeOK
  <2>2. StepInv'
    BY <1>0, <1>20, TreeChanges DEF Raises, StepInv, Apart, Undone, WholeInv
  <2>3. WholeInv'
    BY <1>0, <1>20, TreeChanges DEF Raises, StepInv, Undone, WholeInv
  <2> QED
    BY <2>1, <2>2, <2>3
<1> QED
  BY <1>1, <1>2, <1>3, <1>4, <1>5, <1>6, <1>7, <1>8, <1>9, <1>10, <1>11,
     <1>12, <1>13, <1>14, <1>15, <1>16, <1>17, <1>18, <1>19, <1>20 DEF Working

(* Threads write into the files, but neither make nor remove a tree.       *)
LEMMA ShapeKept ==
    ASSUME StepInv, WholeInv, UNCHANGED <<step, manifest, late, staging>>,
           Exists(root)' <=> Exists(root), Exists(backup)' <=> Exists(backup),
           Exists(root) => root'.half = root.half,
           Exists(backup) => backup'.half = backup.half
    PROVE  StepInv' /\ WholeInv'
BY DEF StepInv, Apart, Undone, WholeInv, Exists

LEMMA FilledShape ==
    ASSUME RequestsInv, NEW r \in Request, req[r].pc = "write",
           NEW t \in Tree([Episode -> Nat]) \cup {Gone}, NEW torn \in BOOLEAN
    PROVE  /\ Filled(r, t, torn) \in Tree([Episode -> Nat]) \cup {Gone}
           /\ Exists(Filled(r, t, torn)) <=> Exists(t)
           /\ Exists(t) => Filled(r, t, torn).half = t.half
<1>1. req[r].file \in Tree([Episode -> Nat])
  BY RequestTypes DEF Proper
<1>2. CASE Exists(t) /\ t.torn
  <2>1. t \in Tree([Episode -> Nat])
    BY <1>2 DEF Exists
  <2>2. Filled(r, t, torn) \in Tree([Episode -> Nat])
    BY <1>1, <1>2, <2>1, TreeTypes DEF Filled, Tree
  <2>3. Filled(r, t, torn).half = t.half
    BY <1>2, <2>1 DEF Filled, Tree
  <2> QED
    BY <1>2, <2>2, <2>3, TreeChanges
<1>3. CASE ~(Exists(t) /\ t.torn)
  BY <1>3 DEF Filled
<1> QED
  BY <1>2, <1>3

DiskInv == RequestsInv /\ StepInv /\ WholeInv

LEMMA DiskInit == Init => DiskInv
<1> SUFFICES ASSUME Init PROVE DiskInv
  OBVIOUS
<1> DEFINE rows == [e \in Episode |-> 0]
<1>1. /\ root = [rows |-> rows, torn |-> FALSE, edition |-> 0, stamp |-> 0,
                 half |-> FALSE]
      /\ backup = Gone /\ staging = Gone /\ manifest = "none" /\ step = "idle"
      /\ clock = 0 /\ late = FALSE /\ errors = 0
  BY DEF Init, CommitInit
<1>2. root \in Tree([Episode -> Nat])
  <2>1. rows \in [Episode -> Nat]
    OBVIOUS
  <2> QED
    BY <1>1, <2>1 DEF Tree
<1>3. CommitTypeOK([Episode -> Nat])
  <2>1. 0 \in 0..MaxErrors
    BY BoundsAssumption
  <2>2. \A t \in {root, backup, staging} :
            t \in Tree([Episode -> Nat]) \cup {Gone}
    BY <1>1, <1>2
  <2> HIDE DEF rows
  <2> QED
    BY <1>1, <2>1, <2>2 DEF CommitTypeOK
<1>4. StepInv /\ WholeInv
  BY <1>1, <1>2, TreeChanges DEF StepInv, Apart, WholeInv
<1>5. PICK ask \in Ask :
          req = [r \in Request |-> Fresh(IF r \in DOMAIN ask THEN ask[r]
                                         ELSE [kind |-> "none", on |-> <<>>])]
  BY DEF Init
<1>6. ASSUME NEW r \in Request
      PROVE  /\ req[r] \in RequestRecord /\ Proper(req[r]) /\ Saved(req[r])
             /\ \A e \in Episode : req[r].floor[e] = 0
  <2> DEFINE s == IF r \in DOMAIN ask THEN ask[r]
                  ELSE [kind |-> "none", on |-> <<>>]
  <2>1. <<>> \in Seq(Episode)
    OBVIOUS
  <2>2. /\ s \in [kind : Kind, on : Seq(Episode)]
        /\ s.kind \in {"tag", "grade"} => Len(s.on) = 1
        /\ s.kind = "bulk" => s.on # <<>>
    <3>1. CASE r \in DOMAIN ask
      BY <3>1, AskAssumption
    <3>2. CASE r \notin DOMAIN ask
      BY <2>1, <3>2 DEF Kind
    <3> QED
      BY <3>1, <3>2
  <2>3. req[r] = Fresh(s)
    BY <1>5
  <2> HIDE DEF s
  <2>4. Fresh(s) \in RequestRecord
    BY <2>1, <2>2 DEF Fresh, RequestRecord, PC, NoRows
  <2>5. Proper(Fresh(s)) /\ Saved(Fresh(s))
    BY <2>2 DEF Fresh, Proper, Saved, Asking, Mirroring, Wrote, Editor
  <2> QED
    BY <2>3, <2>4, <2>5 DEF Fresh
<1>7. \A e \in Episode : db[e].save = 0
  BY DEF Init, NoRow
<1>8. \A r \in Request : Backed(req[r])
  BY <1>6, <1>7 DEF Backed
<1>9. req \in [Request -> RequestRecord]
  BY <1>5, <1>6
<1>10. /\ db \in Rows /\ stats \in [Episode -> Nat]
       /\ registry \in [ctx : Context \cup {0}, dict : Nat]
       /\ contexts \in [Context -> [stamp : Nat, dict : Nat,
                                    cache : Rows \cup {NoRows}]]
       /\ marks = {} /\ stops \in 0..MaxStops
  BY BoundsAssumption DEF Init, Rows, Row, NoRow, NoContext
<1> QED
  BY <1>3, <1>4, <1>6, <1>8, <1>9, <1>10 DEF DiskInv, RequestsInv, TypeOK

(* Of the request's steps all but these leave the disk alone.              *)
Quietly(r) ==
    \/ Begin(r) \/ Count(r) \/ Insert(r) \/ ReadStats(r) \/ WriteStats(r)
    \/ Load(r) \/ File(r) \/ FileFails(r) \/ RefreshFails(r) \/ SaveFails(r)
    \/ Save(r) \/ Acquire(r) \/ Build(r) \/ Clear(r) \/ Skip(r) \/ Resend(r)

Commits == CommitWorks \/ CommitPromotes \/ CommitRaises

LEMMA NextCases ==
    ASSUME Next
    PROVE  \/ \E r \in Request : \/ Quietly(r) \/ MirrorFails(r) \/ Truncate(r)
                                 \/ Written(r) \/ Enter(r) \/ Leave(r)
           \/ Commits \/ Evict \/ Stop
BY DEF Next, Advance, Reading, Edit, Quietly, Commits

LEMMA QuietlyUnchanged ==
    ASSUME NEW r \in Request, Quietly(r)
    PROVE  UNCHANGED <<commitVars, stops>>
BY DEF Quietly, Begin, Count, Insert, ReadStats, WriteStats, Load, File,
       FileFails, RefreshFails, SaveFails, Save, Acquire, Build, Clear, Skip,
       Resend

LEMMA CommitsUnchanged ==
    ASSUME Commits
    PROVE  /\ Working \/ Promote \/ Raises
           /\ UNCHANGED <<db, stats, memory, req, stops>>
BY DEF Commits, CommitWorks, CommitPromotes, CommitRaises

LEMMA DiskNext == DiskInv /\ [Next]_vars => DiskInv'
<1> SUFFICES ASSUME DiskInv, [Next]_vars PROVE DiskInv'
  OBVIOUS
<1>0. RequestsInv /\ StepInv /\ WholeInv
  BY DEF DiskInv
<1>1. ASSUME NEW r \in Request, Quietly(r) PROVE DiskInv'
  <2>1. RequestsInv'
    BY <1>0, <1>1, BeginRequest, CountRequest, InsertRequest,
       WriteStatsRequest,
       FileRequest, FailRequest, SaveRequest, AcquireRequest, ClearRequest
       DEF Quietly
  <2>2. StepInv' /\ WholeInv'
    BY <1>0, <1>1, QuietlyUnchanged, ShapeKept DEF commitVars, trees, Exists
  <2> QED
    BY <2>1, <2>2 DEF DiskInv
<1>2. ASSUME NEW r \in Request, MirrorFails(r) PROVE DiskInv'
  <2>1. UNCHANGED <<trees, manifest, step, late>>
    BY <1>2 DEF MirrorFails
  <2>2. StepInv' /\ WholeInv'
    BY <1>0, <2>1, ShapeKept DEF trees, Exists
  <2> QED
    BY <1>0, <1>2, <2>2, MirrorFailsRequest DEF DiskInv
<1>3. ASSUME NEW r \in Request, Truncate(r) PROVE DiskInv'
  <2>1. /\ Exists(root)
        /\ root' = [root EXCEPT !.torn = TRUE, !.stamp = clock + 1]
        /\ UNCHANGED <<backup, staging, manifest, step, late>>
    BY <1>3 DEF Truncate
  <2>2. Exists(root') /\ root'.half = root.half
    BY <1>0, <2>1, TreeTypes DEF Tree, Exists, Gone
  <2>3. StepInv' /\ WholeInv'
    BY <1>0, <2>1, <2>2, ShapeKept DEF Exists
  <2> QED
    BY <1>0, <1>3, <2>3, TruncateRequest DEF DiskInv
<1>4. ASSUME NEW r \in Request, Written(r) PROVE DiskInv'
  <2>1. PICK torn \in BOOLEAN : /\ root' = Filled(r, root, torn)
                                /\ backup' = Filled(r, backup, torn)
    BY <1>0, <1>4, WrittenTrees
  <2>2. UNCHANGED <<staging, manifest, step, late>> /\ req[r].pc = "write"
    BY <1>4 DEF Written, Thread
  <2>3. /\ Exists(root') <=> Exists(root)
        /\ Exists(backup') <=> Exists(backup)
        /\ Exists(root) => root'.half = root.half
        /\ Exists(backup) => backup'.half = backup.half
    BY <1>0, <2>1, <2>2, FilledShape, TreeTypes
  <2>4. StepInv' /\ WholeInv'
    BY <1>0, <2>2, <2>3, ShapeKept DEF Exists
  <2> QED
    BY <1>0, <1>4, <2>4, WrittenRequest DEF DiskInv
<1>5. ASSUME NEW r \in Request, Enter(r) PROVE DiskInv'
  <2>1. step = "idle" /\ step' = "recover"
        /\ UNCHANGED <<trees, manifest, late>>
    BY <1>5 DEF Enter, Segment, At, Go
  <2>2. StepInv' /\ WholeInv'
    BY <1>0, <2>1 DEF StepInv, Apart, WholeInv, trees, Exists
  <2> QED
    BY <1>0, <1>5, <2>2, EnterRequest DEF DiskInv
<1>6. ASSUME NEW r \in Request, Leave(r) PROVE DiskInv'
  <2>1. /\ step \in {"answer", "raised"} /\ step' = "idle"
        /\ UNCHANGED <<trees, manifest, late>>
    BY <1>6 DEF Leave, Go
  <2>2. StepInv' /\ WholeInv'
    BY <1>0, <2>1 DEF StepInv, Apart, WholeInv, trees, Exists
  <2> QED
    BY <1>0, <1>6, <2>2, LeaveRequest DEF DiskInv
<1>7. CASE Commits
  <2>1. CommitTypeOK([Episode -> Nat])' /\ StepInv' /\ WholeInv'
    BY <1>0, <1>7, CommitsUnchanged, CommitSteps
  <2>2. marks' \subseteq {"skipped", "forked", "cut", "overtaken",
                          "crossed", "unrefreshed"}
    BY <1>0, <1>7, NotesType, MarksType DEF Commits, CommitWorks,
       CommitPromotes,
       CommitRaises, Fork
  <2>3. RequestsInv'
    BY <1>0, <1>7, <2>1, <2>2, CommitsUnchanged
       DEF RequestsInv, TypeOK, Backed, memory
  <2> QED
    BY <2>1, <2>3 DEF DiskInv
<1>8. CASE Evict
  <2>1. UNCHANGED commitVars
    BY <1>8 DEF Evict
  <2>2. StepInv' /\ WholeInv'
    BY <1>0, <2>1, ShapeKept DEF commitVars, trees, Exists
  <2> QED
    BY <1>0, <1>8, <2>2, EvictRequest DEF DiskInv
<1>9. CASE Stop
  <2>1. step' = "idle" /\ UNCHANGED <<trees, manifest, late>>
    BY <1>9 DEF Stop, Go
  <2>2. Apart
    BY <1>0 DEF RequestsInv, TypeOK, CommitTypeOK, StepInv, Apart, Undone
  <2>3. StepInv' /\ WholeInv'
    BY <1>0, <2>1, <2>2 DEF StepInv, Apart, WholeInv, trees, Exists
  <2> QED
    BY <1>0, <1>9, <2>3, StopRequest DEF DiskInv
<1>10. CASE UNCHANGED vars
  BY <1>0, <1>10 DEF DiskInv, RequestsInv, TypeOK, CommitTypeOK, Backed, vars,
     commitVars, trees, memory, StepInv, Apart, Undone, WholeInv, Exists
<1> QED
  BY <1>1, <1>2, <1>3, <1>4, <1>5, <1>6, <1>7, <1>8, <1>9, <1>10, NextCases

LEMMA DiskInvariant == Spec => []DiskInv
BY DiskInit, DiskNext, PTL DEF Spec

(* Every variable keeps its type: the requests wherever they are, the      *)
(* contexts, and the data set with its backup and its copy.                *)
THEOREM TypeCorrect == Spec => []TypeOK
<1>1. DiskInv => TypeOK
  BY DEF DiskInv, RequestsInv
<1> QED
  BY <1>1, DiskInvariant, PTL

(* No kill, no failing call and no write by another thread at any step of  *)
(* a commit or of a recovery leaves only halves of the data set, or a      *)
(* whole one that no manifest names.                                       *)
THEOREM DataSetIsKept == Spec => []DataSetKept
<1>1. DiskInv => DataSetKept
  BY DEF DiskInv, WholeInv, DataSetKept
<1> QED
  BY <1>1, DiskInvariant, PTL
-----------------------------------------------------------------------------
(* What a step of request r does to its record, and to nobody else's.      *)
Others(r) == \A q \in Request \ {r} : req'[q] = req[q]
Same(s, t) == s.kind = t.kind /\ s.on = t.on
Stays(s, t) == Same(s, t) /\ s.for = t.for /\ s.ctx = t.ctx
    /\ s.floor = t.floor

LEMMA OneChanges ==
    ASSUME RequestsInv, NEW r \in Request, NEW s, To(r, s)
    PROVE  req'[r] = s /\ Others(r)
BY DEF RequestsInv, TypeOK, To, Others

LEMMA FailedStep ==
    ASSUME RequestsInv, NEW r \in Request, NEW s \in {Failed(r), Fresh(req[r])}
    PROVE  /\ Same(s, req[r]) /\ s.pc \in {"failed", "new"}
           /\ s.got = NoRows /\ s.for = "answer"
           /\ s.floor = [e \in Episode |-> 0]
<1>1. req[r] \in RequestRecord
  BY RequestTypes
<1> QED
  BY <1>1 DEF Failed, Fresh, Same, RequestRecord

LEMMA FailsStep ==
    ASSUME RequestsInv, NEW r \in Request,
           \/ FileFails(r) \/ Resend(r) \/ MirrorFails(r)
           \/ RefreshFails(r) \/ SaveFails(r)
    PROVE  /\ Others(r) /\ Same(req'[r], req[r])
           /\ req'[r].pc \in {"failed", "new"} /\ req'[r].got = NoRows
           /\ req'[r].for = "answer"
           /\ req'[r].floor = [e \in Episode |-> 0]
           /\ req[r].pc \in {"file", "failed", "lock", "towrite", "write",
                             "count", "save", "wstats", "mwstats"}
           /\ UNCHANGED <<trees, manifest, step, clock, late, db, stats,
               memory>>
           /\ marks \subseteq marks'
           /\ req[r].pc = "write" => "cut" \in marks'
           /\ RefreshDue(r) => "unrefreshed" \in marks'
<1>1. To(r, Failed(r)) \/ To(r, Fresh(req[r]))
  BY DEF FileFails, Resend, MirrorFails, RefreshFails, SaveFails, Fail
<1>2. PICK s \in {Failed(r), Fresh(req[r])} : To(r, s)
  BY <1>1
<1>3. req'[r] = s /\ Others(r)
  BY <1>2, OneChanges
<1>4. /\ UNCHANGED <<trees, manifest, step, clock, late, db, stats, memory>>
      /\ marks \subseteq marks'
      /\ req[r].pc \in {"file", "failed", "lock", "towrite", "write",
                        "count", "save", "wstats", "mwstats"}
      /\ req[r].pc = "write" => "cut" \in marks'
      /\ RefreshDue(r) => "unrefreshed" \in marks'
  <2>1. CASE FileFails(r) \/ Resend(r) \/ MirrorFails(r)
    BY <2>1 DEF FileFails, Resend, MirrorFails, Thread, Segment, commitVars,
       Note, RefreshDue
  <2>2. CASE RefreshFails(r)
    BY <2>2 DEF RefreshFails, Thread, commitVars, Note, Unrefreshed
  <2>3. CASE SaveFails(r)
    BY <2>3 DEF SaveFails, Saving, Counted, Segment, commitVars, Note,
       Unrefreshed
  <2> QED
    BY <2>1, <2>2, <2>3
<1> QED
  BY <1>3, <1>4, FailedStep

LEMMA ReachedStep ==
    ASSUME NEW s \in RequestRecord, NEW rows \in Rows
    PROVE  LET t == Reached(s, rows)
           IN  /\ Same(t, s) /\ t.floor = s.floor /\ t.got = rows
               /\ s.for = "answer" => t.pc = "done" /\ t.for = "answer"
               /\ s.for # "answer" => /\ t.pc = "count" /\ t.for = "edit"
                                    /\ t.ctx = s.ctx
BY DEF Reached, RequestRecord, Same

LEMMA EnteredStep ==
    ASSUME NEW s \in RequestRecord, NEW cache \in Rows \cup {NoRows}
    PROVE  LET t == Entered(s, cache)
           IN  /\ Same(t, s) /\ t.floor = s.floor
               /\ \/ /\ t.pc = "count" /\ t.ctx = s.ctx
                     /\ t.got = s.got /\ t.for = s.for
                  \/ /\ t.pc = "count" /\ t.ctx = s.ctx
                     /\ s.for = "tags" /\ t.for = "edit"
                     /\ t.got = cache /\ cache # NoRows
                  \/ /\ t.pc = "done" /\ s.for = "answer" /\ t.for = "answer"
                     /\ t.got = cache /\ cache # NoRows
<1>1. CASE s.for # "edit" /\ cache # NoRows
  <2>1. cache \in Rows
    BY <1>1
  <2>2. s.for \in {"tags", "answer"}
    BY <1>1 DEF RequestRecord
  <2> QED
    BY <1>1, <2>1, <2>2, ReachedStep DEF Entered
<1>2. CASE ~(s.for # "edit" /\ cache # NoRows)
  BY <1>2 DEF Entered, Same, RequestRecord
<1> QED
  BY <1>1, <1>2

LEMMA ArrivedStep ==
    ASSUME RequestsInv, NEW r \in Request, NEW c \in Context,
           req[r].pc = "new", NEW cache \in Rows \cup {NoRows}
    PROVE  LET t == Arrived(Asked(r, c), cache)
           IN  /\ Same(t, req[r]) /\ t.floor = Owed
               /\ t.pc \in {"commit", "count", "done"}
               /\ t.pc = "commit" => ~Edits(r)
               /\ t.pc # "done" => t.ctx = c
               /\ t.pc = "done" \/ t.pc = "commit" => t.for = "answer"
                   /\ ~Edits(r)
               /\ t.for # "answer" <=> Edits(r)
               /\ t.got # req[r].got => /\ t.got = cache /\ cache # NoRows
                                        /\ req[r].kind # "bulk"
<1> DEFINE s == Asked(r, c)
<1>1. /\ s \in RequestRecord /\ Same(s, req[r])
      /\ s.floor = Owed /\ s.ctx = c /\ s.got = req[r].got
      /\ s.for # "answer" <=> Edits(r)
      /\ s.for = "tags" => s.kind = "grade"
  BY AskedLooks DEF Looks, Same
<1> HIDE DEF s
<1>2. CASE s.kind = "instruct"
  <2>1. Arrived(s, cache) = [s EXCEPT !.pc = "commit"]
    BY <1>2 DEF Arrived
  <2>2. ~Edits(r)
    BY <1>1, <1>2 DEF Edits, Same
  <2> QED
    BY <1>1, <2>1, <2>2 DEF Same, RequestRecord, s
<1>3. CASE s.kind # "instruct"
  <2>1. Arrived(s, cache) = Entered(s, cache)
    BY <1>3 DEF Arrived
  <2> QED
    BY <1>1, <2>1, EnteredStep DEF Same, Edits, s
<1> QED
  BY <1>2, <1>3

LEMMA BeginStep ==
    ASSUME RequestsInv, NEW r \in Request, Begin(r)
    PROVE  /\ UNCHANGED <<commitVars, db, stats, marks, stops>>
           /\ req[r].pc = "new" /\ step = "idle"
           /\ Others(r) /\ Same(req'[r], req[r])
           /\ \/ /\ req'[r].pc = "failed" /\ req'[r].got = NoRows
                 /\ req'[r].for = "answer" /\ UNCHANGED memory
                 /\ req'[r].floor = [e \in Episode |-> 0]
              \/ \E c \in Context :
                 /\ req'[r].floor = Owed
                 /\ req'[r].pc \in {"commit", "count", "done"}
                 /\ req'[r].pc # "done" => req'[r].ctx = c
                 /\ req'[r].pc \in {"done", "commit"} =>
                        req'[r].for = "answer" /\ ~Edits(r)
                 /\ req'[r].for # "answer" <=> Edits(r)
                 /\ Exists(root)
                 /\ \/ /\ Current /\ c = registry.ctx /\ UNCHANGED memory
                       /\ req'[r].got # req[r].got =>
                              /\ req'[r].got = contexts[c].cache
                              /\ req'[r].got # NoRows
                              /\ req[r].kind # "bulk"
                    \/ /\ ~Current /\ c = Free /\ req'[r].got = req[r].got
                       /\ contexts' = [contexts EXCEPT
                                       ![c] = New(registry.dict)]
                       /\ registry' = [registry EXCEPT !.ctx = c]
<1>1. /\ UNCHANGED <<commitVars, db, stats, marks, stops>>
      /\ req[r].pc = "new" /\ step = "idle"
  BY DEF Begin, Segment, At
<1>2. CASE /\ Exists(root) /\ Current
           /\ To(r, Arrived(Asked(r, registry.ctx),
                            contexts[registry.ctx].cache))
           /\ UNCHANGED memory
  <2>1. registry.ctx \in Context
    BY <1>2, RequestTypes DEF Current
  <2> DEFINE c == registry.ctx
  <2>2. contexts[c].cache \in Rows \cup {NoRows}
    BY <2>1, RequestTypes
  <2>3. /\ req'[r] = Arrived(Asked(r, c), contexts[c].cache) /\ Others(r)
    BY <1>2, OneChanges
  <2> HIDE DEF c
  <2>4. c \in Context
    BY <2>1 DEF c
  <2> QED
    BY <1>1, <1>2, <2>2, <2>3, <2>4, ArrivedStep DEF c
<1>3. CASE /\ Exists(root) /\ ~Current /\ Loadable
           /\ contexts' = [contexts EXCEPT ![Free] = New(registry.dict)]
           /\ registry' = [registry EXCEPT !.ctx = Free]
           /\ To(r, Arrived(Asked(r, Free), NoRows))
  <2>1. Free \in Context
    BY FreeIsFree DEF RequestsInv
  <2>2. NoRows \in Rows \cup {NoRows}
    OBVIOUS
  <2>3. req'[r] = Arrived(Asked(r, Free), NoRows) /\ Others(r)
    BY <1>3, OneChanges
  <2> DEFINE t == req'[r]
  <2>4. /\ Same(t, req[r]) /\ t.floor = Owed
        /\ t.pc \in {"commit", "count", "done"}
        /\ t.pc # "done" => t.ctx = Free
        /\ t.pc \in {"done", "commit"} => t.for = "answer" /\ ~Edits(r)
        /\ t.for # "answer" <=> Edits(r)
        /\ t.got = req[r].got
    BY <1>1, <2>1, <2>2, <2>3, ArrivedStep
  <2> QED
    BY <1>1, <1>3, <2>1, <2>3, <2>4
<1>4. CASE Fail(r) /\ UNCHANGED memory
  <2>1. req'[r] = Failed(r) /\ Others(r)
    BY <1>4, OneChanges DEF Fail
  <2>2. Failed(r).pc = "failed"
    BY DEF Failed, Fresh
  <2> QED
    BY <1>1, <1>4, <2>1, <2>2, FailedStep
<1> QED
  BY <1>2, <1>3, <1>4 DEF Begin

LEMMA ReadingStep ==
    ASSUME RequestsInv, NEW r \in Request,
           Count(r) \/ Insert(r) \/ ReadStats(r) \/ WriteStats(r) \/ Load(r)
    PROVE  /\ UNCHANGED <<commitVars, memory, stops>>
           /\ Others(r) /\ Stays(req'[r], req[r])
           /\ req'[r].got = req[r].got /\ req'[r].left = req[r].left
           /\ <<req[r].pc, req'[r].pc>> \in
                {<<"count", "insert">>, <<"insert", "mstats">>,
                 <<"stats", "wstats">>, <<"mstats", "mwstats">>,
                 <<"wstats", "lock">>, <<"mwstats", "count">>,
                 <<"count", "file">>, <<"count", "save">>}
           /\ req'[r].pc = "save" => req[r].for = "edit"
           /\ req'[r].pc = "file" => req[r].for # "edit" /\ req'[r].rows = db
           /\ req'[r].pc \in {"wstats", "mwstats"} => req'[r].sum = Saves(db)
           /\ \/ stats' = stats
              \/ stats' = req[r].sum /\ req[r].pc \in {"wstats", "mwstats"}
           /\ req[r].pc \in {"wstats", "mwstats"} => stats' = req[r].sum
           /\ marks \subseteq marks'
           /\ \/ UNCHANGED <<db, marks>>
              \/ Insert(r) /\ req[r].pc = "insert" /\ UNCHANGED stats
<1>1. req[r] \in RequestRecord
  BY RequestTypes
<1> DEFINE o == req[r]
<1>2. CASE Count(r)
  <2>1. req'[r] = [o EXCEPT !.pc = "insert"] /\ Others(r)
    BY <1>2, OneChanges DEF Count, Then
  <2> QED
    BY <1>1, <1>2, <2>1 DEF Count, Segment, Stays, Same, RequestRecord
<1>3. CASE Insert(r)
  <2>1. req'[r] = [o EXCEPT !.pc = "mstats"] /\ Others(r)
    BY <1>3, OneChanges DEF Insert, Then
  <2>2. marks \subseteq marks'
    BY <1>3 DEF Insert, Note
  <2> QED
    BY <1>1, <1>3, <2>1, <2>2 DEF Insert, Segment, Stays, Same, RequestRecord
<1>4. CASE ReadStats(r)
  <2>1. \/ /\ o.pc = "stats" /\ Others(r)
           /\ req'[r] = [o EXCEPT !.pc = "wstats", !.sum = Saves(db)]
        \/ /\ o.pc = "mstats" /\ Others(r)
           /\ req'[r] = [o EXCEPT !.pc = "mwstats", !.sum = Saves(db)]
    BY <1>4, OneChanges DEF ReadStats, Segment
  <2>2. UNCHANGED <<commitVars, db, stats, memory, marks, stops>>
    BY <1>4 DEF ReadStats
  <2> QED
    BY <1>1, <2>1, <2>2 DEF Stays, Same, RequestRecord
<1>5. CASE WriteStats(r)
  <2>1. \/ /\ o.pc = "wstats" /\ Others(r)
           /\ req'[r] = [o EXCEPT !.pc = "lock", !.sum = NoRows]
        \/ /\ o.pc = "mwstats" /\ Others(r)
           /\ req'[r] = [o EXCEPT !.pc = "count", !.sum = NoRows]
    BY <1>5, OneChanges DEF WriteStats, Segment
  <2>2. /\ UNCHANGED <<commitVars, db, memory, marks, stops>>
        /\ stats' = o.sum
    BY <1>5 DEF WriteStats
  <2> QED
    BY <1>1, <2>1, <2>2 DEF Stays, Same, RequestRecord
<1>6. CASE Load(r)
  <2>1. /\ req'[r] = [o EXCEPT !.rows = db,
                          !.pc = IF o.for = "edit" THEN "save" ELSE "file"]
        /\ Others(r) /\ o.pc = "count"
        /\ UNCHANGED <<commitVars, db, stats, memory, marks, stops>>
    BY <1>6, OneChanges DEF Load, Counted, Segment
  <2> QED
    BY <1>1, <2>1 DEF Stays, Same, RequestRecord
<1> QED
  BY <1>2, <1>3, <1>4, <1>5, <1>6

LEMMA FileStep ==
    ASSUME RequestsInv, NEW r \in Request, File(r)
    PROVE  /\ UNCHANGED <<commitVars, db, stats, registry, marks, stops>>
           /\ Others(r) /\ Same(req'[r], req[r])
           /\ req[r].pc = "file" /\ req[r].rows \in Rows
           /\ req[r].ctx \in Context
           /\ req[r].for # "answer" => Editor(req[r])
           /\ req'[r].floor = req[r].floor /\ req'[r].got = req[r].rows
           /\ req[r].for = "answer" =>
                  req'[r].pc = "done" /\ req'[r].for = "answer"
           /\ req[r].for # "answer" => /\ req'[r].pc = "count"
                                        /\ req'[r].for = "edit"
                                        /\ req'[r].ctx = req[r].ctx
           /\ Exists(root) /\ ~root.torn
           /\ contexts' = IF req[r].kind = "list"
                THEN [contexts EXCEPT ![req[r].ctx].cache = req[r].rows]
                ELSE contexts
<1>1. req[r] \in RequestRecord /\ Proper(req[r])
  BY RequestTypes
<1>2. /\ req[r].pc = "file" /\ To(r, Reached(req[r], req[r].rows))
      /\ UNCHANGED <<commitVars, db, stats, registry, marks, stops>>
      /\ Exists(root) /\ ~root.torn
  BY DEF File, Segment
<1>3. /\ req[r].rows \in Rows /\ req[r].ctx \in Context
      /\ req[r].for # "answer" => Editor(req[r])
  BY <1>1, <1>2 DEF Proper, Asking
<1>5. req'[r] = Reached(req[r], req[r].rows) /\ Others(r)
  BY <1>2, OneChanges
<1>6. contexts' = IF req[r].kind = "list"
                  THEN [contexts EXCEPT ![req[r].ctx].cache = req[r].rows]
                  ELSE contexts
  BY DEF File
<1> QED
  BY <1>1, <1>2, <1>3, <1>5, <1>6, ReachedStep

LEMMA SaveStep ==
    ASSUME RequestsInv, NEW r \in Request, Save(r)
    PROVE  /\ UNCHANGED <<commitVars, stats, memory, stops>>
           /\ Others(r) /\ Same(req'[r], req[r])
           /\ req'[r].for = req[r].for /\ req'[r].ctx = req[r].ctx
           /\ req[r].pc \in {"count", "save"} /\ req[r].for = "edit"
           /\ Editor(req[r]) /\ req'[r].pc \in {"save", "stats"}
           /\ req'[r].got = IF req'[r].left = <<>> THEN NoRows ELSE req[r].got
           /\ req[r].kind # "bulk" => req'[r].left = <<>>
           /\ req[r].left \in Seq(Episode) /\ req[r].left # <<>>
           /\ req[r].pc = "count" => req[r].left = req[r].on
           /\ Note(Overtaken(r) \cup Crossed(r))
           /\ \E e \in Episode :
                /\ db' = [db EXCEPT ![e] = [save |-> NextSave(e),
                                            tags |-> TagsOf(r, e)]]
                /\ req'[r].floor = [req[r].floor EXCEPT ![e] = NextSave(e)]
                /\ NextSave(e) > db[e].save /\ NextSave(e) > 1
                /\ NextSave(e) \in Nat
                /\ e = Head(req[r].left) /\ req'[r].left = Tail(req[r].left)
<1>1. /\ req[r] \in RequestRecord /\ Proper(req[r])
      /\ req[r].left \in Seq(Episode) /\ req[r].on \in Seq(Episode)
      /\ req[r].floor \in [Episode -> Nat]
  BY RequestTypes DEF RequestRecord
<1>2. /\ req[r].pc \in {"count", "save"} /\ req[r].left # <<>>
      /\ req[r].for = "edit" /\ Editor(req[r])
      /\ req[r].pc = "count" => req[r].left = req[r].on
  <2>1. CASE req[r].pc = "save"
    BY <1>1, <2>1 DEF Proper
  <2>2. CASE req[r].pc = "count" /\ ~Loads(r)
    <3>1. req[r].for = "edit" /\ req[r].kind \in {"tag", "grade"}
      BY <1>1, <2>2 DEF Loads, Proper, Asking, Editor
    <3>2. Len(req[r].on) = 1 /\ req[r].left = req[r].on
      BY <1>1, <2>2, <3>1 DEF Proper, Asking
    <3>3. req[r].left # <<>>
      <4>1. Len(<<>>) = 0
        BY EmptySeq
      <4> SUFFICES ASSUME req[r].left = <<>> PROVE FALSE
        OBVIOUS
      <4>2. Len(req[r].on) = 0
        BY <3>2, <4>1, Zenon
      <4>3. Len(req[r].on) # 0
        BY <3>2
      <4> QED
        BY <4>2, <4>3
    <3> QED
      BY <2>2, <3>1, <3>2, <3>3 DEF Editor
  <2> QED
    BY <2>1, <2>2 DEF Save, Saving, Segment, Counted
<1> DEFINE e == Head(req[r].left)
           left == Tail(req[r].left)
           s == [req[r] EXCEPT
                !.left = left,
                !.floor[e] = NextSave(e),
                !.got = IF left = <<>> THEN NoRows ELSE @,
                !.rows = IF left = <<>> THEN NoRows ELSE @,
                !.pc = AfterSave(left)]
<1>3. e \in Episode /\ left \in Seq(Episode)
  BY <1>1, <1>2
<1>5. NextSave(e) \in Nat /\ NextSave(e) > db[e].save /\ NextSave(e) > 1
  <2>1. db[e].save \in Nat
    BY <1>3, MarksType
  <2> QED
    BY <2>1 DEF NextSave
<1>4. req[r].kind # "bulk" => left = <<>>
  <2> SUFFICES ASSUME req[r].kind # "bulk" PROVE left = <<>>
    OBVIOUS
  <2>1. req[r].kind \in {"tag", "grade"} /\ req[r].pc = "count"
    BY <1>1, <1>2 DEF Proper, Editor
  <2>2. Len(req[r].left) = 1
    BY <1>1, <1>2, <2>1 DEF Proper
  <2>3. Len(left) = 0 /\ left \in Seq(Episode)
    BY <1>1, <1>2, <2>2
  <2> HIDE DEF left
  <2> QED
    BY <2>3, EmptySeq
<1>6. req'[r] = s /\ Others(r)
  BY OneChanges DEF Save
<1>7. /\ Same(s, req[r]) /\ s.for = req[r].for /\ s.ctx = req[r].ctx
      /\ s.pc = AfterSave(left)
          /\ s.got = IF left = <<>> THEN NoRows ELSE req[r].got
      /\ s.floor = [req[r].floor EXCEPT ![e] = NextSave(e)]
      /\ s.left = left
  <2> HIDE DEF left, e
  <2> QED
    BY <1>1 DEF Same, RequestRecord
<1>8. s.pc \in {"save", "stats"}
  BY <1>7 DEF AfterSave
<1>9. /\ UNCHANGED <<commitVars, stats, memory, stops>>
      /\ Note(Overtaken(r) \cup Crossed(r))
      /\ db' = [db EXCEPT ![e] = [save |-> NextSave(e), tags |-> TagsOf(r, e)]]
  BY DEF Save
<1> HIDE DEF s
<1> QED
  BY <1>1, <1>2, <1>3, <1>4, <1>5, <1>6, <1>7, <1>8, <1>9

LEMMA MirrorStep ==
    ASSUME RequestsInv, NEW r \in Request,
           Acquire(r) \/ Build(r) \/ Truncate(r) \/ Written(r) \/ Skip(r)
    PROVE  /\ UNCHANGED <<staging, manifest, step, late, errors, db, stats,
                          memory, stops>>
           /\ Others(r) /\ Stays(req'[r], req[r])
           /\ req'[r].got = req[r].got /\ req'[r].left = req[r].left
           /\ Editor(req[r]) /\ req[r].for = "edit" /\ req[r].ctx \in Context
           /\ req[r].left = <<>>
           /\ <<req[r].pc, req'[r].pc>> \in
                {<<"lock", "table">>, <<"table", "towrite">>,
                 <<"towrite", "write">>, <<"write", "clear">>,
                 <<"towrite", "clear">>}
           /\ \/ UNCHANGED marks
              \/ Skip(r) /\ "skipped" \in marks' /\ marks \subseteq marks'
           /\ \/ UNCHANGED <<root, backup, clock>>
              \/ Truncate(r) \/ Written(r)
           /\ req[r].pc = "lock" => /\ req'[r].file = root /\ Exists(root)
                                    /\ ~root.torn /\ ~Held(req[r].ctx)
           /\ req[r].pc = "table" =>
                  req'[r].file = [req[r].file EXCEPT !.rows = Annotated(r)]
           /\ req'[r].pc = "write" => req'[r].file = req[r].file
<1>1. req[r] \in RequestRecord /\ Proper(req[r])
  BY RequestTypes
<1> DEFINE o == req[r]
<1>2. o.pc \in Mirroring =>
          /\ Editor(o) /\ o.for = "edit" /\ o.ctx \in Context /\ o.left = <<>>
          /\ o.pc \in {"table", "towrite", "write"} =>
                 o.file \in Tree([Episode -> Nat])
  BY <1>1 DEF Proper, Mirroring
<1>3. CASE Acquire(r)
  <2>1. /\ o.pc = "lock" /\ Others(r)
        /\ req'[r] = [o EXCEPT !.pc = "table", !.file = root]
        /\ ~Held(o.ctx) /\ Exists(root) /\ ~root.torn
        /\ UNCHANGED <<commitVars, db, stats, memory, marks, stops>>
    BY <1>3, OneChanges DEF Acquire, Segment
  <2> QED
    BY <1>1, <1>2, <2>1
       DEF Stays, Same, RequestRecord, Mirroring, commitVars, trees
<1>4. CASE Build(r)
  <2>1. /\ o.pc = "table" /\ Others(r)
        /\ req'[r] = [o EXCEPT !.pc = "towrite", !.file.rows = Annotated(r)]
        /\ UNCHANGED <<commitVars, db, stats, memory, marks, stops>>
    BY <1>4, OneChanges DEF Build, Segment
  <2>2. req'[r].file = [o.file EXCEPT !.rows = Annotated(r)]
    BY <1>1, <2>1 DEF RequestRecord
  <2> QED
    BY <1>1, <1>2, <2>1, <2>2
       DEF Stays, Same, RequestRecord, Mirroring, commitVars, trees
<1>5. CASE Truncate(r)
  <2>1. /\ o.pc = "towrite" /\ Others(r)
        /\ req'[r] = [o EXCEPT !.pc = "write"]
        /\ UNCHANGED <<backup, staging, manifest, step, late, errors,
                       db, stats, memory, marks, stops>>
    BY <1>5, OneChanges DEF Truncate, Thread, Then
  <2> QED
    BY <1>1, <1>2, <1>5, <2>1 DEF Stays, Same, RequestRecord, Mirroring
<1>6. CASE Written(r)
  <2>1. /\ o.pc = "write" /\ Others(r)
        /\ req'[r] = [o EXCEPT !.pc = "clear", !.file = NoRows]
        /\ UNCHANGED <<staging, manifest, step, late, errors,
                       db, stats, memory, marks, stops>>
    BY <1>6, OneChanges DEF Written, Thread
  <2> QED
    BY <1>1, <1>2, <1>6, <2>1 DEF Stays, Same, RequestRecord, Mirroring
<1>7. CASE Skip(r)
  <2>1. /\ o.pc = "towrite" /\ Others(r)
        /\ req'[r] = [o EXCEPT !.pc = "clear", !.file = NoRows]
        /\ UNCHANGED <<commitVars, db, stats, memory, stops>>
        /\ marks' = marks \cup {"skipped"}
    BY <1>7, OneChanges DEF Skip, Thread, Note
  <2> QED
    BY <1>1, <1>2, <1>7, <2>1
       DEF Stays, Same, RequestRecord, Mirroring, commitVars, trees
<1> QED
  BY <1>3, <1>4, <1>5, <1>6, <1>7

LEMMA ClearStep ==
    ASSUME RequestsInv, NEW r \in Request, Clear(r)
    PROVE  /\ UNCHANGED <<commitVars, db, stats, registry, marks, stops>>
           /\ Others(r) /\ Same(req'[r], req[r])
           /\ req[r].pc = "clear" /\ Editor(req[r]) /\ req[r].ctx \in Context
           /\ req'[r].floor = req[r].floor
           /\ req'[r].pc \in {"count", "done"}
           /\ req'[r].pc = "count" => /\ req'[r].ctx = req[r].ctx
                                      /\ req'[r].for = "answer"
                                      /\ req[r].kind # "bulk"
           /\ req'[r].got = req[r].got
           /\ contexts' = [contexts EXCEPT ![req[r].ctx].cache = NoRows]
<1>1. req[r] \in RequestRecord /\ Proper(req[r])
  BY RequestTypes
<1>2. /\ req[r].pc = "clear"
      /\ UNCHANGED <<commitVars, db, stats, registry, marks, stops>>
      /\ contexts' = [contexts EXCEPT ![req[r].ctx].cache = NoRows]
  BY DEF Clear, Segment, Cleared
<1>3. Editor(req[r]) /\ req[r].ctx \in Context
  BY <1>1, <1>2 DEF Proper, Mirroring
<1>4. contexts'[req[r].ctx].cache = NoRows
  BY <1>2, <1>3, RequestTypes
<1>5. CASE req[r].kind = "bulk"
  <2>1. /\ req'[r] = [req[r] EXCEPT !.pc = "done", !.ctx = 0] /\ Others(r)
    BY <1>5, OneChanges DEF Clear
  <2> QED
    BY <1>1, <1>2, <1>3, <2>1 DEF Same, RequestRecord
<1>6. CASE req[r].kind # "bulk"
  <2> DEFINE s == [req[r] EXCEPT !.for = "answer"]
  <2>1. req'[r] = Entered(s, contexts'[req[r].ctx].cache) /\ Others(r)
    BY <1>6, OneChanges DEF Clear
  <2>2. req'[r] = [s EXCEPT !.pc = "count"]
    BY <1>4, <2>1 DEF Entered
  <2> QED
    BY <1>1, <1>2, <1>3, <1>6, <2>1, <2>2 DEF Same, RequestRecord
<1> QED
  BY <1>5, <1>6

LEMMA EnterStep ==
    ASSUME RequestsInv, NEW r \in Request, Enter(r)
    PROVE  /\ UNCHANGED <<trees, manifest, clock, late, db, stats, memory,
                          marks, stops>>
           /\ step = "idle" /\ step' = "recover"
           /\ Others(r) /\ Stays(req'[r], req[r])
           /\ req'[r].got = req[r].got
           /\ req[r].pc = "commit" /\ req'[r].pc = "committing"
           /\ ~Editor(req[r]) /\ req[r].for = "answer"
<1>1. req[r] \in RequestRecord /\ Proper(req[r])
  BY RequestTypes
<1>2. /\ req[r].pc = "commit" /\ req'[r] = [req[r] EXCEPT !.pc = "committing"]
      /\ Others(r)
      /\ UNCHANGED <<trees, manifest, clock, late, db, stats, memory, marks,
                     stops>>
      /\ step = "idle" /\ step' = "recover"
  BY OneChanges DEF Enter, Segment, Then, At, Go
<1>3. ~Editor(req[r]) /\ req[r].for = "answer"
  BY <1>1, <1>2 DEF Proper, Editor
<1> QED
  BY <1>1, <1>2, <1>3 DEF Stays, Same, RequestRecord

LEMMA LeaveStep ==
    ASSUME RequestsInv, NEW r \in Request, Leave(r)
    PROVE  /\ UNCHANGED <<trees, manifest, clock, late, db, stats, stops>>
           /\ step \in {"answer", "raised"} /\ step' = "idle"
           /\ Others(r) /\ Same(req'[r], req[r])
           /\ req[r].pc = "committing" /\ ~Editor(req[r])
           /\ req[r].for = "answer" /\ req'[r].for = "answer"
           /\ \/ /\ req'[r].pc = "failed" /\ req'[r].got = NoRows
                 /\ req'[r].floor = [e \in Episode |-> 0]
                 /\ UNCHANGED contexts
                 /\ \/ UNCHANGED <<registry, marks>>
                    \/ /\ registry' = [ctx |-> 0, dict |-> registry.dict + 1]
                       /\ Note(Fork)
              \/ /\ req'[r].pc = "count" /\ req'[r].ctx = Free
                 /\ req'[r].floor = req[r].floor /\ req'[r].got = req[r].got
                 /\ Exists(root) /\ Note(Fork)
                 /\ registry' = [ctx |-> Free, dict |-> registry.dict + 1]
                 /\ contexts' = [contexts EXCEPT
                                 ![Free] = New(registry.dict + 1)]
<1>1. req[r] \in RequestRecord /\ Proper(req[r])
  BY RequestTypes
<1>2. /\ UNCHANGED <<trees, manifest, clock, late, db, stats, stops>>
      /\ step \in {"answer", "raised"} /\ step' = "idle"
      /\ req[r].pc = "committing" /\ ~Editor(req[r]) /\ req[r].for = "answer"
  BY <1>1 DEF Leave, Go, Proper, Editor
<1>3. CASE Fail(r) /\ UNCHANGED contexts
  <2>1. req'[r] = Failed(r) /\ Others(r) /\ Failed(r).pc = "failed"
    BY <1>3, OneChanges DEF Fail, Failed, Fresh
  <2>2. \/ UNCHANGED <<registry, marks>>
        \/ /\ registry' = [ctx |-> 0, dict |-> registry.dict + 1]
           /\ Note(Fork)
    <3>1. CASE At("answer") /\ Exists(root) /\ Loadable
      <4>1. To(r, [req[r] EXCEPT !.ctx = Free, !.pc = "count"])
        BY <3>1 DEF Leave
      <4>2. req'[r] = [req[r] EXCEPT !.ctx = Free, !.pc = "count"]
        BY <4>1, OneChanges
      <4>3. req'[r].pc = "count"
        BY <1>1, <4>2 DEF RequestRecord
      <4> QED
        BY <2>1, <4>3
    <3>2. CASE ~(At("answer") /\ Exists(root) /\ Loadable)
      BY <3>2 DEF Leave, memory
    <3> QED
      BY <3>1, <3>2
  <2> QED
    BY <1>2, <1>3, <2>1, <2>2, FailedStep
<1>4. CASE /\ Exists(root) /\ Note(Fork)
           /\ registry' = [ctx |-> Free, dict |-> registry.dict + 1]
           /\ contexts' = [contexts EXCEPT ![Free] = New(registry.dict + 1)]
           /\ To(r, [req[r] EXCEPT !.ctx = Free, !.pc = "count"])
  <2>1. /\ req'[r] = [req[r] EXCEPT !.ctx = Free, !.pc = "count"] /\ Others(r)
    BY <1>4, OneChanges
  <2>2. Free \in Context
    BY FreeIsFree DEF RequestsInv
  <2>3. /\ Same(req'[r], req[r]) /\ req'[r].for = req[r].for
        /\ req'[r].pc = "count" /\ req'[r].ctx = Free
        /\ req'[r].floor = req[r].floor /\ req'[r].got = req[r].got
    BY <1>1, <2>1, <2>2 DEF Same, RequestRecord
  <2> QED
    BY <1>2, <1>4, <2>1, <2>3
<1>5. \/ /\ Exists(root) /\ Note(Fork)
         /\ registry' = [ctx |-> Free, dict |-> registry.dict + 1]
         /\ contexts' = [contexts EXCEPT ![Free] = New(registry.dict + 1)]
         /\ To(r, [req[r] EXCEPT !.ctx = Free, !.pc = "count"])
      \/ Fail(r) /\ UNCHANGED contexts
  BY DEF Leave, memory
<1> QED
  BY <1>3, <1>4, <1>5

LEMMA StopStep ==
    ASSUME RequestsInv, Stop
    PROVE  /\ UNCHANGED <<trees, manifest, clock, late, db, stats>>
           /\ step' = "idle" /\ marks \subseteq marks'
           /\ Writing => "cut" \in marks'
           /\ (\E q \in Request : RefreshDue(q)) => "unrefreshed" \in marks'
           /\ registry' = [ctx |-> 0, dict |-> 1]
           /\ contexts' = [i \in Context |-> NoContext]
           /\ \A q \in Request :
                \/ Ended(q) /\ req'[q] = req[q]
                \/ /\ ~Ended(q) /\ Same(req'[q], req[q])
                   /\ req'[q].pc = "failed" /\ req'[q].got = NoRows
                   /\ req'[q].for = "answer"
                   /\ req'[q].floor = [e \in Episode |-> 0]
<1>1. /\ UNCHANGED <<trees, manifest, clock, late, db, stats>>
      /\ step' = "idle" /\ marks \subseteq marks'
      /\ Writing => "cut" \in marks'
      /\ (\E q \in Request : RefreshDue(q)) => "unrefreshed" \in marks'
      /\ registry' = [ctx |-> 0, dict |-> 1]
      /\ contexts' = [i \in Context |-> NoContext]
  BY DEF Stop, Go, Note, Unrefreshed
<1>2. ASSUME NEW q \in Request
      PROVE  \/ Ended(q) /\ req'[q] = req[q]
             \/ /\ ~Ended(q) /\ Same(req'[q], req[q])
                /\ req'[q].pc = "failed" /\ req'[q].got = NoRows
                /\ req'[q].for = "answer"
                /\ req'[q].floor = [e \in Episode |-> 0]
  <2>1. req'[q] = IF Ended(q) THEN req[q] ELSE Failed(q)
    BY DEF Stop
  <2>2. CASE Ended(q)
    BY <2>1, <2>2
  <2>3. CASE ~Ended(q)
    <3>1. req'[q] = Failed(q) /\ Failed(q).pc = "failed"
      BY <2>1, <2>3 DEF Failed, Fresh
    <3> QED
      BY <2>3, <3>1, FailedStep
  <2> QED
    BY <2>2, <2>3
<1> QED
  BY <1>1, <1>2

(* The steps of Next, one operation each.                                  *)
Mirrors(r) == \/ Acquire(r) \/ Build(r) \/ Truncate(r) \/ Written(r) \/ Skip(r)
Fails(r) == \/ FileFails(r) \/ Resend(r) \/ MirrorFails(r)
            \/ RefreshFails(r) \/ SaveFails(r)
Reads(r) == \/ Count(r) \/ Insert(r) \/ ReadStats(r) \/ WriteStats(r)
            \/ Load(r)

LEMMA AllSteps ==
    ASSUME Next
    PROVE  \/ \E r \in Request :
                 \/ Begin(r) \/ Reads(r) \/ File(r) \/ Fails(r) \/ Save(r)
                 \/ Mirrors(r) \/ Clear(r) \/ Enter(r) \/ Leave(r)
           \/ Commits \/ Evict \/ Stop
BY DEF Next, Advance, Reading, Edit, Reads, Fails, Mirrors, Commits
(* What happened is not forgotten.                                         *)
LEMMA MarksGrow ==
    ASSUME RequestsInv, [Next]_vars
    PROVE  marks \subseteq marks'
<1>1. ASSUME NEW r \in Request,
             \/ Begin(r) \/ Reads(r) \/ File(r) \/ Fails(r) \/ Save(r)
             \/ Mirrors(r) \/ Clear(r) \/ Enter(r) \/ Leave(r)
      PROVE  marks \subseteq marks'
  <2>1. CASE Begin(r) \/ File(r) \/ Clear(r)
    BY <2>1, BeginStep, FileStep, ClearStep
  <2>2. CASE Reads(r)
    BY <2>2, ReadingStep DEF Reads
  <2>3. CASE Fails(r)
    BY <2>3, FailsStep DEF Fails
  <2>4. CASE Save(r)
    BY <2>4, SaveStep DEF Note
  <2>5. CASE Mirrors(r)
    BY <2>5, MirrorStep DEF Mirrors
  <2>6. CASE Enter(r)
    BY <2>6, EnterStep
  <2>7. CASE Leave(r)
    BY <2>7, LeaveStep DEF Note
  <2> QED
    BY <1>1, <2>1, <2>2, <2>3, <2>4, <2>5, <2>6, <2>7
<1>2. CASE Commits \/ Evict \/ UNCHANGED vars
  BY <1>2 DEF Commits, CommitWorks, CommitPromotes, CommitRaises, Evict, vars,
     Note
<1>3. CASE Stop
  BY <1>3, StopStep
<1> QED
  BY <1>1, <1>2, <1>3, AllSteps
-----------------------------------------------------------------------------
(* What a refresh of the statistics has read is what it will write, unless *)
(* a save came between; bulk_grade has no more left than it was asked.     *)
StatsInv ==
    /\ StatsCurrent
    /\ "overtaken" \in marks \/ \A r \in Request :
           req[r].pc \in {"wstats", "mwstats"} => req[r].sum = Saves(db)
    /\ \A r \in Request :
           req[r].pc = "save" => Len(req[r].left) <= Len(req[r].on)

LEMMA StatsStay ==
    ASSUME StatsInv, UNCHANGED <<db, stats>>, marks \subseteq marks',
           NEW r \in Request, Others(r),
           RefreshDue(r) => RefreshDue(r)' \/ "unrefreshed" \in marks',
           req'[r].pc \in {"wstats", "mwstats"} => req'[r].sum = Saves(db),
           req'[r].pc = "save" => Len(req'[r].left) <= Len(req'[r].on)
    PROVE  StatsInv'
<1>1. Saves(db)' = Saves(db)
  BY DEF Saves
<1>2. \A q \in Request :
          req'[q].pc = "save" => Len(req'[q].left) <= Len(req'[q].on)
  BY DEF StatsInv, Others
<1>3. "overtaken" \in marks' \/ \A q \in Request :
          req'[q].pc \in {"wstats", "mwstats"} => req'[q].sum = Saves(db)
  BY DEF StatsInv, Others
<1>4. (\E q \in Request : RefreshDue(q)) =>
          (\E q \in Request : RefreshDue(q)') \/ "unrefreshed" \in marks'
  BY DEF Others, RefreshDue
<1>5. StatsCurrent'
  BY <1>1, <1>4 DEF StatsInv, StatsCurrent
<1> QED
  BY <1>1, <1>2, <1>3, <1>5 DEF StatsInv

(* A step that saves leaves a refresh due, or is one.                      *)
LEMMA StatsSaved ==
    ASSUME StatsInv, NEW r \in Request, Others(r),
           NEW more, Note(Overtaken(r) \cup more),
           RefreshDue(r)', req'[r].pc \notin {"wstats", "mwstats"},
           req'[r].pc = "save" => Len(req'[r].left) <= Len(req'[r].on)
    PROVE  StatsInv'
<1>1. \A q \in Request :
          req'[q].pc = "save" => Len(req'[q].left) <= Len(req'[q].on)
  BY DEF StatsInv, Others
<1>2. StatsCurrent'
  BY DEF StatsCurrent
<1>3. CASE "overtaken" \in marks'
  BY <1>1, <1>2, <1>3 DEF StatsInv
<1>4. CASE "overtaken" \notin marks'
  <2>1. \A q \in Request \ {r} : req[q].pc \notin {"wstats", "mwstats"}
    BY <1>4 DEF Note, Overtaken
  <2>2. \A q \in Request : req'[q].pc \notin {"wstats", "mwstats"}
    BY <2>1 DEF Others
  <2> QED
    BY <1>1, <1>2, <2>2 DEF StatsInv
<1> QED
  BY <1>3, <1>4

LEMMA StatsNext ==
    ASSUME RequestsInv, StatsInv, [Next]_vars
    PROVE  StatsInv'
<1>1. ASSUME NEW r \in Request, Reads(r) PROVE StatsInv'
  <2>1. /\ Others(r) /\ marks \subseteq marks' /\ Stays(req'[r], req[r])
        /\ req'[r].left = req[r].left
        /\ <<req[r].pc, req'[r].pc>> \in
                {<<"count", "insert">>, <<"insert", "mstats">>,
                 <<"stats", "wstats">>, <<"mstats", "mwstats">>,
                 <<"wstats", "lock">>, <<"mwstats", "count">>,
                 <<"count", "file">>, <<"count", "save">>}
        /\ req'[r].pc = "save" => req[r].for = "edit"
        /\ req'[r].pc \in {"wstats", "mwstats"} => req'[r].sum = Saves(db)
        /\ \/ stats' = stats
           \/ stats' = req[r].sum /\ req[r].pc \in {"wstats", "mwstats"}
        /\ req[r].pc \in {"wstats", "mwstats"} => stats' = req[r].sum
        /\ \/ UNCHANGED <<db, marks>>
           \/ Insert(r) /\ req[r].pc = "insert" /\ UNCHANGED stats
    BY <1>1, ReadingStep DEF Reads
  <2>2. req'[r].pc = "save" => Len(req'[r].left) <= Len(req'[r].on)
    <3> SUFFICES ASSUME req'[r].pc = "save"
                 PROVE  Len(req'[r].left) <= Len(req'[r].on)
      OBVIOUS
    <3>1. req[r].pc = "count" /\ req[r].for = "edit"
      BY <2>1
    <3>2. req[r].left = req[r].on /\ req[r].on \in Seq(Episode)
      BY <3>1, RequestTypes DEF Proper, Asking, RequestRecord
    <3>3. req'[r].left = req[r].on /\ req'[r].on = req[r].on
      BY <2>1, <3>2 DEF Stays, Same
    <3>4. Len(req[r].on) \in Nat
      BY <3>2
    <3> QED
      BY <3>3, <3>4
  <2>3. CASE Insert(r)
    <3>1. Note(Overtaken(r) \cup {}) /\ req[r].pc = "insert"
      BY <2>3 DEF Insert, Segment, Note
    <3>2. req'[r].pc = "mstats"
      BY <2>1, <3>1
    <3>3. RefreshDue(r)'
      BY <3>2 DEF RefreshDue
    <3> QED
      BY <2>1, <3>1, <3>2, <3>3, StatsSaved
  <2>4. CASE req[r].pc \in {"wstats", "mwstats"}
    <3>1. UNCHANGED <<db, marks>> /\ stats' = req[r].sum
      BY <2>1, <2>4
    <3>2. "overtaken" \in marks \/ stats' = Saves(db)
      BY <2>4, <3>1 DEF StatsInv
    <3>3. Saves(db)' = Saves(db)
      BY <3>1 DEF Saves
    <3>4. req'[r].pc \notin {"wstats", "mwstats"}
      BY <2>1, <2>4
    <3>5. "overtaken" \in marks \/ \A q \in Request :
              req'[q].pc \in {"wstats", "mwstats"} => req'[q].sum = Saves(db)
      BY <2>1, <3>4 DEF StatsInv, Others
    <3>6. \A q \in Request :
              req'[q].pc = "save" => Len(req'[q].left) <= Len(req'[q].on)
      BY <2>1, <2>2 DEF StatsInv, Others
    <3> QED
      BY <3>1, <3>2, <3>3, <3>5, <3>6 DEF StatsInv, StatsCurrent
  <2>5. CASE ~Insert(r) /\ req[r].pc \notin {"wstats", "mwstats"}
    <3>1. UNCHANGED <<db, stats>>
      BY <2>1, <2>5
    <3>2. RefreshDue(r) => RefreshDue(r)'
      BY <2>1, <2>5 DEF RefreshDue
    <3> QED
      BY <2>1, <2>2, <3>1, <3>2, StatsStay
  <2> QED
    BY <2>3, <2>4, <2>5
<1>2. ASSUME NEW r \in Request, Save(r) PROVE StatsInv'
  <2>1. /\ Others(r) /\ Note(Overtaken(r) \cup Crossed(r))
        /\ req'[r].pc \in {"save", "stats"} /\ Same(req'[r], req[r])
        /\ req[r].pc \in {"count", "save"}
        /\ req[r].left \in Seq(Episode) /\ req[r].left # <<>>
        /\ req[r].pc = "count" => req[r].left = req[r].on
        /\ req'[r].left = Tail(req[r].left)
    BY <1>2, SaveStep
  <2>2. Len(req[r].left) <= Len(req[r].on)
    BY <2>1 DEF StatsInv
  <2>3. req[r].on \in Seq(Episode)
    BY RequestTypes DEF RequestRecord
  <2>4. Len(req'[r].left) < Len(req'[r].on)
        /\ Len(req'[r].left) <= Len(req'[r].on)
    BY <2>1, <2>2, <2>3 DEF Same
  <2>5. RefreshDue(r)'
    BY <2>1, <2>4 DEF RefreshDue
  <2> QED
    BY <2>1, <2>4, <2>5, StatsSaved
<1>3. ASSUME NEW r \in Request,
             \/ Begin(r) \/ File(r) \/ Fails(r) \/ Mirrors(r) \/ Clear(r)
             \/ Enter(r) \/ Leave(r)
      PROVE  StatsInv'
  <2>1. /\ UNCHANGED <<db, stats>> /\ marks \subseteq marks' /\ Others(r)
        /\ RefreshDue(r) => "unrefreshed" \in marks'
        /\ req'[r].pc \notin {"save", "wstats", "mwstats"}
    <3>1. CASE Begin(r)
      BY <3>1, BeginStep DEF RefreshDue
    <3>2. CASE File(r)
      BY <3>2, FileStep, RequestTypes DEF RefreshDue, RequestRecord
    <3>3. CASE Fails(r)
      BY <3>3, FailsStep DEF Fails
    <3>4. CASE Mirrors(r)
      BY <3>4, MirrorStep DEF RefreshDue, Mirrors
    <3>5. CASE Clear(r)
      BY <3>5, ClearStep DEF RefreshDue
    <3>6. CASE Enter(r)
      BY <3>6, EnterStep DEF RefreshDue
    <3>7. CASE Leave(r)
      BY <3>7, LeaveStep DEF RefreshDue, Note
    <3> QED
      BY <1>3, <3>1, <3>2, <3>3, <3>4, <3>5, <3>6, <3>7
  <2> QED
    BY <2>1, StatsStay
<1>4. CASE Commits \/ Evict \/ UNCHANGED vars
  <2>1. UNCHANGED <<db, stats, req>> /\ marks \subseteq marks'
    BY <1>4 DEF Commits, CommitWorks, CommitPromotes, CommitRaises, Evict,
       vars, Note
  <2>2. Saves(db)' = Saves(db)
    BY <2>1 DEF Saves
  <2>3. \A q \in Request : RefreshDue(q)' <=> RefreshDue(q)
    BY <2>1 DEF RefreshDue
  <2> QED
    BY <2>1, <2>2, <2>3 DEF StatsInv, StatsCurrent
<1>5. CASE Stop
  <2>1. /\ UNCHANGED <<db, stats>> /\ marks \subseteq marks'
        /\ (\E q \in Request : RefreshDue(q)) => "unrefreshed" \in marks'
        /\ \A q \in Request : req'[q].pc \in {"new", "done", "failed"}
    BY <1>5, StopStep DEF Ended
  <2>2. Saves(db)' = Saves(db)
    BY <2>1 DEF Saves
  <2> QED
    BY <2>1, <2>2 DEF StatsInv, StatsCurrent
<1> QED
  BY <1>1, <1>2, <1>3, <1>4, <1>5, AllSteps

(* The statistics are those of the rows, or a refresh is on its way,       *)
(* unless a save came between what one reads and what it writes, or a      *)
(* request ended between its saves and its refresh.                        *)
THEOREM StatsAreCurrent == Spec => []StatsCurrent
<1>1. Init => StatsInv
  <2> SUFFICES ASSUME Init PROVE StatsInv
    OBVIOUS
  <2>1. stats = Saves(db)
    BY DEF Init, Saves, NoRow
  <2>2. \A r \in Request : req[r].pc = "new"
    BY DEF Init, Fresh
  <2> QED
    BY <2>1, <2>2 DEF StatsInv, StatsCurrent
<1>2. DiskInv => RequestsInv
  BY DEF DiskInv
<1>3. StatsInv => StatsCurrent
  BY DEF StatsInv
<1> QED
  BY <1>1, <1>2, <1>3, StatsNext, DiskInvariant, PTL DEF Spec
-----------------------------------------------------------------------------
(* Until the edits it has saved are mirrored a request has the newest row  *)
(* of each of them, unless another saved the same episode since.           *)
OrderInv == "crossed" \in marks \/
    \A r \in Request : \A e \in Unmirrored(r) : db[e].save <= req[r].floor[e]

LEMMA OrderStay ==
    ASSUME RequestsInv, OrderInv, UNCHANGED db, marks \subseteq marks',
           NEW r \in Request, Others(r), Same(req'[r], req[r]),
           req'[r].pc \in {"save", "stats", "wstats", "lock"} =>
               /\ req[r].pc \in {"save", "stats", "wstats"}
                  \/ req[r].left = req[r].on
               /\ req'[r].left = req[r].left /\ req'[r].floor = req[r].floor
    PROVE  OrderInv'
<1> SUFFICES ASSUME "crossed" \notin marks, NEW q \in Request,
                    NEW e \in Unmirrored(q)'
             PROVE  db[e].save <= req'[q].floor[e]
  BY DEF OrderInv
<1>1. CASE q # r
  <2>1. req'[q] = req[q]
    BY <1>1 DEF Others
  <2>2. e \in Unmirrored(q)
    BY <2>1 DEF Unmirrored, On
  <2> QED
    BY <2>1, <2>2 DEF OrderInv
<1>2. CASE q = r
  <2>1. /\ req'[r].pc \in {"save", "stats", "wstats", "lock"}
        /\ \E i \in DOMAIN req'[r].on : req'[r].on[i] = e
        /\ \A i \in DOMAIN req'[r].left : req'[r].left[i] # e
    BY <1>2 DEF Unmirrored, On
  <2>2. /\ req'[r].left = req[r].left /\ req'[r].floor = req[r].floor
        /\ req'[r].on = req[r].on
    BY <2>1 DEF Same
  <2>3. req[r].pc \in {"save", "stats", "wstats"}
    BY <2>1, <2>2
  <2>4. e \in Unmirrored(r)
    BY <2>1, <2>2, <2>3 DEF Unmirrored, On
  <2> QED
    BY <1>2, <2>2, <2>4 DEF OrderInv
<1> QED
  BY <1>1, <1>2

(* Rows are inserted only where nobody has saved.                          *)
LEMMA OrderInsert ==
    ASSUME RequestsInv, OrderInv, NEW r \in Request, Insert(r)
    PROVE  OrderInv'
<1>1. /\ Others(r) /\ req'[r].pc = "mstats" /\ marks \subseteq marks'
  <2>1. /\ Others(r) /\ marks \subseteq marks' /\ req[r].pc = "insert"
        /\ <<req[r].pc, req'[r].pc>> \in
                {<<"count", "insert">>, <<"insert", "mstats">>,
                 <<"stats", "wstats">>, <<"mstats", "mwstats">>,
                 <<"wstats", "lock">>, <<"mwstats", "count">>,
                 <<"count", "file">>, <<"count", "save">>}
    BY ReadingStep DEF Insert, Segment
  <2> QED
    BY <2>1
<1> SUFFICES ASSUME "crossed" \notin marks, NEW q \in Request,
                    NEW e \in Unmirrored(q)'
             PROVE  db'[e].save <= req'[q].floor[e]
  BY <1>1 DEF OrderInv
<1>2. q # r
  BY <1>1 DEF Unmirrored
<1>3. req'[q] = req[q]
  BY <1>1, <1>2 DEF Others
<1>4. e \in Unmirrored(q)
  BY <1>3 DEF Unmirrored, On
<1>5. db[e].save <= req[q].floor[e]
  BY <1>4 DEF OrderInv
<1>6. PICK i \in DOMAIN req[q].on : req[q].on[i] = e
  BY <1>4 DEF Unmirrored, On
<1>7. e \in Episode /\ req[q].floor[e] \in Nat
  <2>1. req[q].on \in Seq(Episode) /\ req[q].floor \in [Episode -> Nat]
    BY RequestTypes DEF RequestRecord
  <2>2. e \in Episode
    BY <1>6, <2>1
  <2> QED
    BY <2>1, <2>2
<1>8. req[q].floor[e] > 1
  <2>1. Saved(req[q])
    BY RequestTypes
  <2>2. req[q].pc \in {"save", "stats", "wstats", "lock"}
        /\ \A j \in DOMAIN req[q].left : req[q].left[j] # e
    BY <1>4 DEF Unmirrored
  <2>3. req[q].pc = "save" \/ req[q].pc \in Mirroring
    BY <2>2 DEF Mirroring
  <2> QED
    BY <1>6, <2>1, <2>2, <2>3 DEF Saved
<1>9. req[q].floor[e] <= db[e].save /\ db[e].save \in Nat
  BY <1>7, MarksType DEF RequestsInv, Backed
<1>10. db[e] # NoRow
  BY <1>7, <1>8, <1>9 DEF NoRow
<1>11. db'[e] = db[e]
  BY <1>7, <1>10 DEF Insert, Migrated
<1> QED
  BY <1>3, <1>5, <1>11

(* The saver has the newest row; a request that had it is crossed.         *)
LEMMA OrderSave ==
    ASSUME RequestsInv, OrderInv, NEW r \in Request, Save(r)
    PROVE  OrderInv'
<1>1. /\ Others(r) /\ Same(req'[r], req[r])
      /\ req[r].pc \in {"count", "save"}
      /\ req[r].left \in Seq(Episode) /\ req[r].left # <<>>
      /\ req[r].pc = "count" => req[r].left = req[r].on
      /\ Note(Overtaken(r) \cup Crossed(r))
  BY SaveStep
<1>2. PICK e \in Episode :
        /\ db' = [db EXCEPT ![e] = [save |-> NextSave(e),
                                    tags |-> TagsOf(r, e)]]
        /\ req'[r].floor = [req[r].floor EXCEPT ![e] = NextSave(e)]
        /\ NextSave(e) \in Nat
        /\ e = Head(req[r].left) /\ req'[r].left = Tail(req[r].left)
  BY SaveStep
<1>3. db \in Rows /\ req[r].floor \in [Episode -> Nat]
  BY RequestTypes DEF RequestRecord
<1>4. /\ db'[e].save = NextSave(e) /\ req'[r].floor[e] = NextSave(e)
      /\ \A f \in Episode : f # e => /\ db'[f] = db[f]
                                     /\ req'[r].floor[f] = req[r].floor[f]
  BY <1>2, <1>3 DEF Rows
<1> SUFFICES ASSUME "crossed" \notin marks', NEW q \in Request,
                    NEW f \in Unmirrored(q)'
             PROVE  db'[f].save <= req'[q].floor[f]
  BY DEF OrderInv
<1>5. f \in Episode
  <2>1. req[q].on \in Seq(Episode) /\ req'[q].on = req[q].on
    BY <1>1, RequestTypes DEF RequestRecord, Others, Same
  <2>2. \E i \in DOMAIN req[q].on : req[q].on[i] = f
    BY <2>1 DEF Unmirrored, On
  <2> QED
    BY <2>1, <2>2
<1>6. "crossed" \notin marks /\ Crossed(r) = {}
  BY <1>1 DEF Note, Crossed
<1>7. CASE q # r
  <2>1. req'[q] = req[q]
    BY <1>1, <1>7 DEF Others
  <2>2. f \in Unmirrored(q)
    BY <2>1 DEF Unmirrored, On
  <2>3. f # e
    BY <1>2, <1>6, <1>7, <2>2 DEF Crossed
  <2> QED
    BY <1>4, <1>5, <1>6, <2>1, <2>2, <2>3 DEF OrderInv
<1>8. CASE q = r /\ f = e
  <2>1. db'[f].save = NextSave(e) /\ req'[q].floor[f] = NextSave(e)
    BY <1>4, <1>8
  <2>2. NextSave(e) <= NextSave(e)
    BY <1>2
  <2> QED
    BY <2>1, <2>2
<1>9. CASE q = r /\ f # e
  <2>1. /\ \E i \in DOMAIN req'[r].on : req'[r].on[i] = f
        /\ \A i \in DOMAIN req'[r].left : req'[r].left[i] # f
    BY <1>9 DEF Unmirrored, On
  <2>2. ASSUME NEW j \in DOMAIN req[r].left, req[r].left[j] = f PROVE FALSE
    <3>1. j \in 1..Len(req[r].left) /\ j # 1
      BY <1>1, <1>2, <1>9, <2>2
    <3>2. j - 1 \in DOMAIN req'[r].left /\ req'[r].left[j - 1] = f
      BY <1>1, <1>2, <2>2, <3>1
    <3> QED
      BY <2>1, <3>2
  <2>3. \E i \in DOMAIN req[r].on : req[r].on[i] = f
    BY <1>1, <2>1 DEF Same
  <2>4. req[r].pc = "save"
    BY <1>1, <2>2, <2>3
  <2>5. f \in Unmirrored(r)
    BY <2>2, <2>3, <2>4 DEF Unmirrored, On
  <2> QED
    BY <1>4, <1>5, <1>6, <1>9, <2>5 DEF OrderInv
<1> QED
  BY <1>7, <1>8, <1>9

LEMMA OrderNext ==
    ASSUME RequestsInv, OrderInv, [Next]_vars
    PROVE  OrderInv'
<1>1. ASSUME NEW r \in Request, Reads(r) PROVE OrderInv'
  <2>1. CASE Insert(r)
    BY <2>1, OrderInsert
  <2>2. CASE ~Insert(r)
    <3>1. /\ Others(r) /\ Stays(req'[r], req[r]) /\ marks \subseteq marks'
          /\ req'[r].left = req[r].left
          /\ <<req[r].pc, req'[r].pc>> \in
                {<<"count", "insert">>, <<"insert", "mstats">>,
                 <<"stats", "wstats">>, <<"mstats", "mwstats">>,
                 <<"wstats", "lock">>, <<"mwstats", "count">>,
                 <<"count", "file">>, <<"count", "save">>}
          /\ req'[r].pc = "save" => req[r].for = "edit"
          /\ UNCHANGED db
      BY <1>1, <2>2, ReadingStep DEF Reads
    <3>2. req'[r].pc \in {"save", "stats", "wstats", "lock"} =>
              \/ req[r].pc \in {"save", "stats", "wstats"}
              \/ req[r].pc = "count" /\ req[r].for = "edit"
      BY <3>1
    <3>3. req[r].pc = "count" /\ req[r].for = "edit" =>
              req[r].left = req[r].on
      BY RequestTypes DEF Proper, Asking
    <3> QED
      BY <3>1, <3>2, <3>3, OrderStay DEF Stays
  <2> QED
    BY <2>1, <2>2
<1>2. ASSUME NEW r \in Request,
             \/ Begin(r) \/ File(r) \/ Fails(r) \/ Mirrors(r) \/ Clear(r)
             \/ Enter(r) \/ Leave(r)
      PROVE  OrderInv'
  <2>1. /\ UNCHANGED db /\ marks \subseteq marks' /\ Others(r)
        /\ Same(req'[r], req[r])
        /\ req'[r].pc \notin {"save", "stats", "wstats", "lock"}
    <3>1. CASE Begin(r)
      BY <3>1, BeginStep
    <3>2. CASE File(r)
      BY <3>2, FileStep, RequestTypes DEF RequestRecord
    <3>3. CASE Fails(r)
      BY <3>3, FailsStep DEF Fails
    <3>4. CASE Mirrors(r)
      BY <3>4, MirrorStep DEF Mirrors, Stays
    <3>5. CASE Clear(r)
      BY <3>5, ClearStep
    <3>6. CASE Enter(r)
      BY <3>6, EnterStep DEF Stays
    <3>7. CASE Leave(r)
      BY <3>7, LeaveStep DEF Note
    <3> QED
      BY <1>2, <3>1, <3>2, <3>3, <3>4, <3>5, <3>6, <3>7
  <2> QED
    BY <2>1, OrderStay
<1>3. CASE Commits \/ Evict \/ UNCHANGED vars
  <2>1. UNCHANGED <<db, req>> /\ marks \subseteq marks'
    BY <1>3 DEF Commits, CommitWorks, CommitPromotes, CommitRaises, Evict,
       vars, Note
  <2>2. \A q \in Request : Unmirrored(q)' = Unmirrored(q)
    BY <2>1 DEF Unmirrored, On
  <2> QED
    BY <2>1, <2>2 DEF OrderInv
<1>4. CASE Stop
  <2>1. \A q \in Request : req'[q].pc \in {"new", "done", "failed"}
    BY <1>4, StopStep DEF Ended
  <2> QED
    BY <2>1 DEF OrderInv, Unmirrored
<1> QED
  BY <1>1, <1>2, <1>3, <1>4, OrderSave, AllSteps

LEMMA OrderInvariant == Spec => []OrderInv
<1>1. Init => OrderInv
  BY DEF Init, Fresh, OrderInv, Unmirrored
<1>2. DiskInv => RequestsInv
  BY DEF DiskInv
<1> QED
  BY <1>1, <1>2, OrderNext, DiskInvariant, PTL DEF Spec
-----------------------------------------------------------------------------
(* The episode file.  What is said here is said of a file that was neither *)
(* cut off nor written under two locks.                                    *)
Kept == marks \cap {"cut", "forked"} = {}

Active(s) == Editor(s) /\ s.pc \notin {"new", "done", "failed"}
Holding(s) == s.pc \in {"table", "towrite", "write", "clear"}

(* All edits under way are under the registry's locks, one holds the lock. *)
LockInv ==
    /\ registry.ctx # 0 => contexts[registry.ctx].dict = registry.dict
    /\ \A r \in Request : Active(req[r]) =>
           contexts[req[r].ctx].dict = registry.dict
    /\ \A q, r \in Request : Holding(req[q]) /\ Holding(req[r]) => q = r

(* Only the file being written is torn, where it is, and in the copy of a  *)
(* commit; when the copy is in place no edit is under way.                 *)
Replacing == \/ step \in {"unlink", "clean"}
             \/ step = "undo" /\ Exists(root) /\ Exists(backup)

TornInv ==
    /\ step \in {"mutate", "promote"} /\ backup.torn => staging.torn
    /\ step = "promote" => ~staging.torn
    /\ Writing => /\ Exists(root) => root.torn
                  /\ ~Exists(root) /\ Exists(backup) => backup.torn
    /\ Exists(root) /\ root.torn => Writing
    /\ ~Exists(root) /\ Exists(backup) /\ backup.torn => Writing
    /\ Replacing => ~backup.torn /\ \A r \in Request : ~Active(req[r])

(* Every edit written is in the rows of the data set, wherever it is, and  *)
(* in what a request is about to write.                                    *)
Said(requests, rows) == \A r \in Request : Wrote(requests[r]) =>
    \A i \in DOMAIN requests[r].on :
        rows[requests[r].on[i]] >= requests[r].floor[requests[r].on[i]]

(* What a request that holds the lock writes, or is going to.              *)
Draft(s) == IF s.pc = "table"
            THEN [e \in Episode |-> IF \E i \in DOMAIN s.on : s.on[i] = e
                                    THEN s.floor[e] ELSE s.file.rows[e]]
            ELSE s.file.rows

(* A mirror was skipped, or two may have come in the other order.          *)
Loose == marks \cap {"skipped", "crossed"} # {}

SaidInv ==
    /\ Exists(root) /\ ~root.torn => Said(req, root.rows)
    /\ /\ Exists(backup) /\ ~backup.torn
       /\ ~Exists(root) \/ step \in {"unlink", "clean", "undo"}
       => Said(req, backup.rows)
    /\ step \in {"mutate", "promote"} /\ ~staging.torn
        => Said(req, staging.rows)
    /\ \A r \in Request : req[r].pc \in {"table", "towrite", "write"} =>
           Said(req, Draft(req[r]))
    /\ \A r \in Request : req[r].pc \in {"towrite", "write"} =>
           \A i \in DOMAIN req[r].on :
               req[r].file.rows[req[r].on[i]] >= req[r].floor[req[r].on[i]]

FileInv == Kept => /\ LockInv /\ TornInv
                   /\ Loose \/ SaidInv

LEMMA WritingIsActive ==
    ASSUME RequestsInv
    PROVE  /\ \A r \in Request : Holding(req[r]) => Active(req[r])
           /\ Writing <=> \E r \in Request : req[r].pc = "write"
<1>1. ASSUME NEW r \in Request, Holding(req[r]) PROVE Active(req[r])
  <2>1. Editor(req[r])
    BY <1>1, RequestTypes DEF Proper, Mirroring, Holding
  <2> QED
    BY <1>1, <2>1 DEF Active, Holding
<1> QED
  BY <1>1 DEF Writing

(* A step of a request that leaves the locks as they are.                  *)
LEMMA LockStay ==
    ASSUME RequestsInv, LockInv, NEW r \in Request, Others(r),
           UNCHANGED registry,
           \A i \in Context : contexts'[i].dict = contexts[i].dict,
           Active(req'[r]) => Active(req[r]) /\ req'[r].ctx = req[r].ctx,
           Holding(req'[r]) => Holding(req[r])
    PROVE  LockInv'
<1>1. registry.ctx \in Context \cup {0}
  BY RequestTypes
<1>2. registry'.ctx # 0 => contexts'[registry'.ctx].dict = registry'.dict
  BY <1>1 DEF LockInv
<1>3. ASSUME NEW q \in Request, Active(req'[q])
      PROVE  contexts'[req'[q].ctx].dict = registry'.dict
  <2>1. Active(req[q]) /\ req'[q].ctx = req[q].ctx
    BY <1>3 DEF Others
  <2>2. req[q].ctx \in Context
    BY <2>1, RequestTypes DEF Proper, Active
  <2> QED
    BY <2>1, <2>2 DEF LockInv
<1>4. \A p, q \in Request : Holding(req'[p]) /\ Holding(req'[q]) => p = q
  <2>1. \A q \in Request : Holding(req'[q]) => Holding(req[q])
    BY DEF Others
  <2> QED
    BY <2>1 DEF LockInv
<1> QED
  BY <1>2, <1>3, <1>4 DEF LockInv

(* A step of a request that leaves the trees alone, and neither starts nor *)
(* ends a write.                                                           *)
LEMMA TornStay ==
    ASSUME RequestsInv, TornInv, NEW r \in Request, Others(r),
           UNCHANGED trees, step' \in {step, "idle", "recover"},
           Active(req'[r]) => Active(req[r]) \/ step' = "idle",
           req'[r].pc # "write", req[r].pc # "write"
    PROVE  TornInv'
<1>1. Writing' <=> Writing
  BY DEF Writing, Others
<1>2. \A q \in Request : Active(req'[q]) => Active(req[q]) \/ step' = "idle"
  BY DEF Others
<1>3. Replacing' => Replacing /\ step' # "idle"
  BY DEF Replacing, trees, Exists
<1>4. /\ root' = root /\ backup' = backup /\ staging' = staging
      /\ Exists(root)' <=> Exists(root)
      /\ Exists(backup)' <=> Exists(backup)
  BY DEF trees, Exists
<1> QED
  BY <1>1, <1>2, <1>3, <1>4 DEF TornInv

LEMMA SaidStay ==
    ASSUME RequestsInv, SaidInv, NEW r \in Request, Others(r),
           UNCHANGED trees, step' \in {step, "idle", "recover"},
           Same(req'[r], req[r]),
           Wrote(req'[r]) => Wrote(req[r]) /\ req'[r].floor = req[r].floor,
           req'[r].pc # "write",
           req'[r].pc \in {"table", "towrite"} => Said(req, Draft(req'[r])),
           req'[r].pc = "towrite" => \A i \in DOMAIN req[r].on :
               req'[r].file.rows[req[r].on[i]] >= req'[r].floor[req[r].on[i]]
    PROVE  SaidInv'
<1>1. \A q \in Request : /\ Wrote(req'[q]) => /\ Wrote(req[q])
                                              /\ req'[q].floor = req[q].floor
                         /\ req'[q].on = req[q].on
  BY DEF Others, Same
<1>2. ASSUME NEW rows, Said(req, rows) PROVE Said(req', rows)
  BY <1>1, <1>2 DEF Said
<1>3. /\ root' = root /\ backup' = backup /\ staging' = staging
      /\ Exists(root)' <=> Exists(root)
      /\ Exists(backup)' <=> Exists(backup)
  BY DEF trees, Exists
<1>4. /\ (Exists(root) /\ ~root.torn => Said(req, root.rows))'
      /\ (/\ Exists(backup) /\ ~backup.torn
          /\ ~Exists(root) \/ step \in {"unlink", "clean", "undo"}
          => Said(req, backup.rows))'
      /\ (step \in {"mutate", "promote"} /\ ~staging.torn
            => Said(req, staging.rows))'
  BY <1>2, <1>3 DEF SaidInv
<1>5. ASSUME NEW q \in Request, req'[q].pc \in {"table", "towrite", "write"}
      PROVE  /\ Said(req', Draft(req'[q]))
             /\ req'[q].pc # "table" => \A i \in DOMAIN req'[q].on :
                    req'[q].file.rows[req'[q].on[i]]
                        >= req'[q].floor[req'[q].on[i]]
  <2>1. CASE q = r
    <3>1. Said(req, Draft(req'[r]))
      BY <1>5, <2>1
    <3> QED
      BY <1>2, <1>5, <2>1, <3>1 DEF Same
  <2>2. CASE q # r
    <3>1. req'[q] = req[q]
      BY <2>2 DEF Others
    <3>2. Said(req, Draft(req[q]))
      BY <1>5, <3>1 DEF SaidInv
    <3> QED
      BY <1>2, <1>5, <3>1, <3>2 DEF SaidInv
  <2> QED
    BY <2>1, <2>2
<1> QED
  BY <1>4, <1>5 DEF SaidInv
-----------------------------------------------------------------------------
(* What the steps of a commit do to the trees.                             *)
Trimmed(t) == [t EXCEPT !.half = TRUE]

Passes ==
    /\ UNCHANGED trees /\ clock' = clock
    /\ step' \notin {"mutate", "promote"}
    /\ step' \in {"unlink", "clean", "undo"} /\ Exists(root) /\ Exists(backup)
         => step \in {"unlink", "clean", "undo"}

Sweeps ==
    /\ root' = root /\ clock' = clock
    /\ \/ backup' = backup
       \/ Exists(root) /\ backup' = Gone
       \/ Exists(root) /\ Exists(backup) /\ backup' = Trimmed(backup)
    /\ staging' \in {staging, Gone}
    /\ step' \notin {"mutate", "promote", "unlink", "undo"}
    /\ step' = "clean" => step = "clean"

Returns ==
    /\ ~Exists(root) /\ Exists(backup) /\ root' = backup /\ backup' = Gone
    /\ staging' \in {staging, Gone} /\ clock' = clock
    /\ step' \notin {"mutate", "promote", "unlink", "clean", "undo"}

Moves ==
    /\ Exists(root) /\ root' = Gone /\ backup' = root
    /\ UNCHANGED <<staging, clock>> /\ step' = "mark"

Copies ==
    /\ ~Exists(root) /\ Exists(backup) /\ UNCHANGED <<root, backup, clock>>
    /\ staging' = Trimmed(backup) /\ step' = "mutate"

Mutates ==
    /\ ~Exists(root) /\ Exists(backup) /\ UNCHANGED <<root, backup>>
    /\ ~staging.torn /\ ~staging'.torn /\ staging'.rows = staging.rows
    /\ clock' = clock + 1 /\ staging'.stamp = clock + 1
    /\ step = "mutate" /\ step' = "promote"

Promotes ==
    /\ ~Exists(root) /\ Exists(backup) /\ Exists(staging)
    /\ root' = staging /\ staging' = Gone /\ UNCHANGED <<backup, clock>>
    /\ step = "promote" /\ step' = "unlink"

Undoes ==
    /\ Exists(root) /\ Exists(backup) /\ late
    /\ root' \in {Gone, Trimmed(root)} /\ UNCHANGED <<backup, staging, clock>>
    /\ step = "undo" /\ step' = "undo"

LEMMA CommitMoves ==
    ASSUME RequestsInv, StepInv, Working \/ Promote \/ Raises
    PROVE  /\ \/ Passes \/ Sweeps \/ Returns \/ Moves \/ Copies \/ Mutates
              \/ (Promote /\ Promotes) \/ Undoes
           /\ late => late'
<1> USE DEF At, Go, KeepRest, trees
<1>0. Gone \in {Gone} /\ ~Exists(Gone)
  BY DEF Exists
<1>1. CASE RecoverNothing \/ RecoverRefuses \/ Preview \/ Mark \/ Forget
  <2>1. Passes /\ late' = late
    BY <1>1 DEF RecoverNothing, RecoverRefuses, Preview, Mark, Forget, Passes
  <2> QED
    BY <2>1
<1>2. CASE Unlink \/ Unreadable
  <2>1. Passes /\ late' = late
    BY <1>2 DEF Unlink, Unreadable, StepInv, Passes
  <2> QED
    BY <2>1
<1>3. CASE Raises
  <2>1. UNCHANGED trees /\ clock' = clock /\ (late => late')
    BY <1>3 DEF Raises
  <2>2. /\ step' \in {"undo", "raised"}
        /\ step' = "undo" => step \in {"move", "mark", "copy", "mutate",
                                       "promote", "unlink", "clean"}
    BY <1>3 DEF Raises
  <2>3. Passes
    BY <2>1, <2>2 DEF StepInv, Passes
  <2> QED
    BY <2>1, <2>3
<1>4. CASE RecoverPromoted \/ Sweep \/ Prepare \/ Clean
  <2>1. Exists(root)
    BY <1>4 DEF RecoverPromoted, Sweep, Prepare, Clean, StepInv
  <2>2. Sweeps /\ late' = late
    <3>1. CASE RecoverPromoted
      BY <2>1, <3>1 DEF RecoverPromoted, Sweeps, Trimmed
    <3>2. CASE Sweep
      BY <2>1, <3>2 DEF Sweep, Sweeps
    <3>3. CASE Prepare
      BY <2>1, <3>3 DEF Prepare, Sweeps
    <3>4. CASE Clean
      BY <2>1, <3>4 DEF Clean, Sweeps, Trimmed, StepInv
    <3> QED
      BY <1>4, <3>1, <3>2, <3>3, <3>4
  <2> QED
    BY <2>2
<1>5. CASE Discard
  <2>1. Sweeps /\ late' = late
    BY <1>5 DEF Discard, Sweeps
  <2> QED
    BY <2>1
<1>6. CASE RecoverBack
  <2>1. ~Exists(root)
    BY <1>6 DEF RecoverBack, StepInv, Apart, RequestsInv, TypeOK, CommitTypeOK
  <2>2. Returns /\ late' = late
    BY <1>6, <2>1 DEF RecoverBack, Returns
  <2> QED
    BY <2>2
<1>7. CASE Restore
  <2>1. CASE Exists(backup)
    <3>1. ~Exists(root)
      BY <1>7, <2>1 DEF Restore, StepInv
    <3>2. Returns /\ late' = late
      BY <1>7, <2>1, <3>1 DEF Restore, Returns
    <3> QED
      BY <3>2
  <2>2. CASE ~Exists(backup)
    <3>1. Passes /\ late' = late
      BY <1>7, <2>2 DEF Restore, Passes
    <3> QED
      BY <3>1
  <2> QED
    BY <2>1, <2>2
<1>8. CASE Move
  <2>1. Moves /\ late' = late
    BY <1>8 DEF Move, Moves, StepInv
  <2> QED
    BY <2>1
<1>9. CASE Copy
  <2>1. Copies /\ late' = late
    BY <1>9 DEF Copy, Copies, Trimmed, StepInv
  <2> QED
    BY <2>1
<1>10. CASE Mutate
  <2>1. staging \in Tree([Episode -> Nat]) /\ ~staging.torn
    BY <1>10, TreeTypes DEF Mutate, StepInv
  <2>2. /\ staging' = [staging EXCEPT !.half = FALSE, !.edition = @ + 1,
                                      !.stamp = clock + 1]
        /\ UNCHANGED <<root, backup, late>> /\ clock' = clock + 1
        /\ step = "mutate" /\ step' = "promote"
    BY <1>10 DEF Mutate
  <2>3. /\ staging'.torn = staging.torn /\ staging'.rows = staging.rows
        /\ staging'.stamp = clock + 1
    BY <2>1, <2>2 DEF Tree
  <2>4. Mutates
    BY <2>1, <2>2, <2>3 DEF Mutates, StepInv
  <2> QED
    BY <2>2, <2>4
<1>11. CASE Promote
  <2>1. Promotes /\ late' = late
    BY <1>11 DEF Promote, Promotes, StepInv
  <2> QED
    BY <1>11, <2>1
<1>12. CASE Undo
  <2>1. CASE Exists(root) /\ Exists(backup)
    <3>1. Undoes /\ late' = late
      BY <1>12, <2>1 DEF Undo, Undoes, Trimmed, StepInv, Undone
    <3> QED
      BY <3>1
  <2>2. CASE ~(Exists(root) /\ Exists(backup))
    <3>1. Passes /\ late' = late
      BY <1>12, <2>2 DEF Undo, Passes
    <3> QED
      BY <3>1
  <2> QED
    BY <2>1, <2>2
<1> QED
  BY <1>1, <1>2, <1>3, <1>4, <1>5, <1>6, <1>7, <1>8, <1>9, <1>10, <1>11, <1>12
     DEF Working

LEMMA TrimmedTree ==
    ASSUME RequestsInv, NEW t \in {root, backup}, Exists(t)
    PROVE  /\ Trimmed(t).torn = t.torn /\ Trimmed(t).rows = t.rows
           /\ Trimmed(t).stamp = t.stamp /\ Exists(Trimmed(t))
<1>1. t \in Tree([Episode -> Nat])
  BY TreeTypes
<1> QED
  BY <1>1, TreeChanges DEF Trimmed, Tree

LEMMA CommitTorn ==
    ASSUME RequestsInv, StepInv, StepInv', TornInv, UNCHANGED req,
           Promotes => \A r \in Request : ~Active(req[r]),
           \/ Passes \/ Sweeps \/ Returns \/ Moves \/ Copies \/ Mutates
           \/ Promotes \/ Undoes
    PROVE  TornInv'
<1>0. /\ ~Exists(Gone) /\ ~Gone.torn
      /\ Writing' <=> Writing
      /\ Writing => \E r \in Request : Active(req[r])
  BY WritingIsActive DEF Exists, Gone, Writing, Holding
<1>1. CASE Passes
  <2>1. /\ root' = root /\ backup' = backup /\ staging' = staging
        /\ step' \notin {"mutate", "promote"}
    BY <1>1 DEF Passes, trees
  <2>2. Replacing' => Replacing
    BY <1>1, <2>1 DEF Passes, Replacing, StepInv, Exists
  <2> QED
    BY <1>0, <2>1, <2>2 DEF TornInv, Exists
<1>2. CASE Sweeps
  <2>1. /\ root' = root
        /\ \/ backup' = backup
           \/ Exists(root) /\ backup' = Gone
           \/ Exists(root) /\ Exists(backup) /\ backup' = Trimmed(backup)
        /\ step' \notin {"mutate", "promote", "unlink", "undo"}
        /\ step' = "clean" => step = "clean"
    BY <1>2 DEF Sweeps
  <2>2. /\ Exists(root)' <=> Exists(root)
        /\ Replacing' => Replacing
    BY <2>1 DEF Exists, Replacing
  <2>3. /\ ~Exists(root) => backup' = backup
        /\ backup'.torn => backup.torn
    BY <1>0, <2>1, TrimmedTree
  <2> QED
    BY <1>0, <2>1, <2>2, <2>3 DEF TornInv, Exists
<1>3. CASE Returns
  <2>1. ~Replacing'
    BY <1>3 DEF Returns, Replacing
  <2> QED
    BY <1>0, <1>3, <2>1 DEF TornInv, Returns, Exists
<1>4. CASE Moves
  <2>1. ~Replacing'
    BY <1>4 DEF Moves, Replacing
  <2> QED
    BY <1>0, <1>4, <2>1 DEF TornInv, Moves, Exists
<1>5. CASE Copies
  <2>1. ~Replacing' /\ staging'.torn = backup.torn
    BY <1>5, TrimmedTree DEF Copies, Replacing
  <2> QED
    BY <1>0, <1>5, <2>1 DEF TornInv, Copies, Exists
<1>6. CASE Mutates
  <2>1. ~Replacing' /\ ~backup.torn
    BY <1>6 DEF Mutates, Replacing, TornInv
  <2> QED
    BY <1>0, <1>6, <2>1 DEF TornInv, Mutates, Exists
<1>7. CASE Promotes
  <2>1. (\A r \in Request : ~Active(req[r])) /\ ~Writing
    BY <1>0, <1>7
  <2>2. ~staging.torn /\ ~backup.torn
    BY <1>7, <2>1 DEF Promotes, TornInv
  <2>3. Exists(root)' /\ root' = staging /\ backup' = backup
        /\ step' = "unlink"
    BY <1>7 DEF Promotes, Exists
  <2> QED
    BY <1>0, <2>1, <2>2, <2>3 DEF TornInv
<1>8. CASE Undoes
  <2>1. Replacing /\ backup' = backup /\ step' = "undo"
    BY <1>8 DEF Undoes, Replacing
  <2>2. (\A r \in Request : ~Active(req[r])) /\ ~Writing /\ ~backup.torn
    BY <1>0, <2>1 DEF TornInv
  <2>3. ~root.torn
    BY <1>8, <2>2 DEF TornInv, Undoes
  <2>4. ~root'.torn
    BY <1>0, <1>8, <2>3, TrimmedTree DEF Undoes
  <2> QED
    BY <1>0, <2>1, <2>2, <2>4 DEF TornInv
<1> QED
  BY <1>1, <1>2, <1>3, <1>4, <1>5, <1>6, <1>7, <1>8

LEMMA CommitSaid ==
    ASSUME RequestsInv, StepInv, TornInv, SaidInv, UNCHANGED req,
           \/ Passes \/ Sweeps \/ Returns \/ Moves \/ Copies \/ Mutates
           \/ Promotes \/ Undoes
    PROVE  SaidInv'
<1>0. /\ ~Exists(Gone) /\ req' = req
      /\ \A r \in Request : req[r].pc \in {"table", "towrite", "write"} =>
             Said(req, Draft(req[r]))
      /\ \A r \in Request : req[r].pc \in {"towrite", "write"} =>
             \A i \in DOMAIN req[r].on :
                 req[r].file.rows[req[r].on[i]] >= req[r].floor[req[r].on[i]]
  BY DEF Exists, SaidInv
<1>1. SUFFICES
        /\ Exists(root)' /\ ~root'.torn => Said(req, root'.rows)
        /\ /\ Exists(backup)' /\ ~backup'.torn
           /\ ~Exists(root)' \/ step' \in {"unlink", "clean", "undo"}
           => Said(req, backup'.rows)
        /\ step' \in {"mutate", "promote"} /\ ~staging'.torn
             => Said(req, staging'.rows)
  BY <1>0 DEF SaidInv
<1>2. CASE Passes
  BY <1>2 DEF Passes, trees, SaidInv, Exists
<1>3. CASE Sweeps
  <2>1. /\ root' = root
        /\ \/ backup' = backup \/ backup' = Gone
           \/ Exists(backup) /\ backup' = Trimmed(backup)
        /\ step' \notin {"mutate", "promote", "unlink", "undo"}
        /\ step' = "clean" => step = "clean"
        /\ ~Exists(root) => backup' = backup
    BY <1>3 DEF Sweeps
  <2>2. Exists(backup') /\ ~backup'.torn =>
            Exists(backup) /\ ~backup.torn /\ backup'.rows = backup.rows
    BY <1>0, <2>1, TrimmedTree
  <2> QED
    BY <2>1, <2>2 DEF SaidInv, Exists
<1>4. CASE Returns
  BY <1>0, <1>4 DEF Returns, SaidInv, Exists
<1>5. CASE Moves
  BY <1>0, <1>5 DEF Moves, SaidInv, Exists
<1>6. CASE Copies
  <2>1. staging'.torn = backup.torn /\ staging'.rows = backup.rows
    BY <1>6, TrimmedTree DEF Copies
  <2> QED
    BY <1>0, <1>6, <2>1 DEF Copies, SaidInv, Exists
<1>7. CASE Mutates
  BY <1>0, <1>7 DEF Mutates, SaidInv, Exists
<1>8. CASE Promotes
  BY <1>0, <1>8 DEF Promotes, SaidInv, TornInv, Exists
<1>9. CASE Undoes
  <2>1. \/ root'.torn = root.torn /\ root'.rows = root.rows
        \/ ~Exists(root')
    BY <1>0, <1>9, TrimmedTree DEF Undoes
  <2> QED
    BY <1>0, <1>9, <2>1 DEF Undoes, SaidInv, Exists
<1> QED
  BY <1>2, <1>3, <1>4, <1>5, <1>6, <1>7, <1>8, <1>9

(* A request that neither reads nor writes the file for an edit.           *)
LEMMA FileIdle ==
    ASSUME RequestsInv, FileInv, Kept, NEW r \in Request, Others(r),
           Same(req'[r], req[r]), marks \subseteq marks', LockInv',
           UNCHANGED trees, step' \in {step, "idle", "recover"},
           Wrote(req'[r]) => Wrote(req[r]) /\ req'[r].floor = req[r].floor,
           Active(req'[r]) => Active(req[r]) \/ step' = "idle",
           req'[r].pc \notin {"table", "towrite", "write"},
           req[r].pc # "write"
    PROVE  FileInv'
<1>1. TornInv'
  BY TornStay DEF FileInv
<1>2. Loose' \/ SaidInv'
  <2>1. CASE Loose
    BY <2>1 DEF Loose
  <2>2. CASE ~Loose
    BY <2>2, SaidStay DEF FileInv
  <2> QED
    BY <2>1, <2>2
<1> QED
  BY <1>1, <1>2 DEF FileInv

LEMMA BeginFile ==
    ASSUME RequestsInv, FileInv, Kept, NEW r \in Request, Begin(r)
    PROVE  FileInv'
<1>1. /\ UNCHANGED <<commitVars, db, stats, marks, stops>>
      /\ req[r].pc = "new" /\ step = "idle"
      /\ Others(r) /\ Same(req'[r], req[r])
  BY BeginStep
<1>2. LockInv
  BY DEF FileInv
<1>3. /\ req'[r].pc \in {"failed", "commit", "count", "done"}
      /\ Active(req'[r]) => req'[r].for # "answer"
      /\ ~Holding(req'[r]) /\ ~Wrote(req'[r])
  <2>1. CASE req'[r].pc = "failed"
    BY <2>1, <1>1 DEF Active, Holding, Wrote, Asking
  <2>2. CASE req'[r].pc # "failed"
    <3>1. /\ req'[r].pc \in {"commit", "count", "done"}
          /\ req'[r].pc \in {"done", "commit"} =>
                 req'[r].for = "answer" /\ ~Edits(r)
          /\ req'[r].for # "answer" <=> Edits(r)
      BY <2>2, BeginStep
    <3>2. Editor(req'[r]) <=> Edits(r)
      BY <1>1 DEF Same, Editor, Edits
    <3> QED
      BY <3>1, <3>2 DEF Active, Holding, Wrote, Asking
  <2> QED
    BY <2>1, <2>2
<1>4. LockInv'
  <2>1. CASE UNCHANGED memory /\ ~Active(req'[r])
    BY <1>1, <1>2, <1>3, <2>1, LockStay DEF memory
  <2>2. CASE /\ Current /\ UNCHANGED memory
             /\ req'[r].pc # "done" => req'[r].ctx = registry.ctx
    <3>1. ASSUME NEW q \in Request, Active(req'[q])
          PROVE  contexts'[req'[q].ctx].dict = registry'.dict
      <4>1. CASE q = r
        BY <1>2, <2>2, <3>1, <4>1 DEF LockInv, Current, memory, Active
      <4>2. CASE q # r
        BY <1>1, <1>2, <2>2, <3>1, <4>2 DEF LockInv, Others, memory
      <4> QED
        BY <4>1, <4>2
    <3>2. \A q \in Request : Holding(req'[q]) => Holding(req[q])
      BY <1>1, <1>3 DEF Others
    <3> QED
      BY <1>2, <2>2, <3>1, <3>2 DEF LockInv, memory
  <2>3. CASE /\ contexts' = [contexts EXCEPT ![Free] = New(registry.dict)]
             /\ registry' = [registry EXCEPT !.ctx = Free]
             /\ req'[r].pc # "done" => req'[r].ctx = Free
    <3>1. /\ Free \in Context
          /\ \A q \in Request : Ended(q) \/ req[q].ctx # Free
      BY FreeIsFree DEF RequestsInv
    <3>2. /\ contexts'[Free].dict = registry.dict
          /\ \A i \in Context : i # Free => contexts'[i] = contexts[i]
          /\ registry'.dict = registry.dict /\ registry'.ctx = Free
      BY <2>3, <3>1, RequestTypes DEF New
    <3>3. ASSUME NEW q \in Request, Active(req'[q])
          PROVE  contexts'[req'[q].ctx].dict = registry'.dict
      <4>1. CASE q = r
        BY <2>3, <3>2, <3>3, <4>1 DEF Active
      <4>2. CASE q # r
        <5>1. req'[q] = req[q] /\ Active(req[q]) /\ ~Ended(q)
          BY <1>1, <3>3, <4>2 DEF Others, Active, Ended
        <5>2. req[q].ctx \in Context /\ req[q].ctx # Free
          BY <3>1, <5>1, RequestTypes DEF Proper, Active
        <5> QED
          BY <1>2, <3>2, <5>1, <5>2 DEF LockInv
      <4> QED
        BY <4>1, <4>2
    <3>4. \A q \in Request : Holding(req'[q]) => Holding(req[q])
      BY <1>1, <1>3 DEF Others
    <3> QED
      BY <1>2, <3>2, <3>3, <3>4 DEF LockInv
  <2>4. \/ UNCHANGED memory /\ ~Active(req'[r])
        \/ /\ Current /\ UNCHANGED memory
           /\ req'[r].pc # "done" => req'[r].ctx = registry.ctx
        \/ /\ contexts' = [contexts EXCEPT ![Free] = New(registry.dict)]
           /\ registry' = [registry EXCEPT !.ctx = Free]
           /\ req'[r].pc # "done" => req'[r].ctx = Free
    <3>1. CASE req'[r].pc = "failed" /\ UNCHANGED memory
      BY <3>1 DEF Active
    <3>2. CASE ~(req'[r].pc = "failed" /\ UNCHANGED memory)
      BY <3>2, BeginStep
    <3> QED
      BY <3>1, <3>2
  <2> QED
    BY <2>1, <2>2, <2>3, <2>4
<1> QED
  BY <1>1, <1>3, <1>4, FileIdle DEF commitVars

(* Reading, saving, clearing the cache, failing.                           *)
LEMMA RequestFile ==
    ASSUME RequestsInv, FileInv, Kept, Kept', NEW r \in Request,
           \/ Reads(r) \/ File(r) \/ Fails(r) \/ Save(r) \/ Clear(r)
           \/ Enter(r) \/ Skip(r)
    PROVE  FileInv'
<1>0. LockInv /\ req[r] \in RequestRecord /\ Proper(req[r])
  BY RequestTypes DEF FileInv
<1> DEFINE Goal ==
    /\ Others(r) /\ Same(req'[r], req[r]) /\ marks \subseteq marks'
    /\ UNCHANGED registry
    /\ \A i \in Context : contexts'[i].dict = contexts[i].dict
    /\ UNCHANGED trees /\ step' \in {step, "recover"}
    /\ Wrote(req'[r]) => \/ Wrote(req[r]) /\ req'[r].floor = req[r].floor
                         \/ Loose'
    /\ Active(req'[r]) => Active(req[r]) /\ req'[r].ctx = req[r].ctx
    /\ Holding(req'[r]) => Holding(req[r])
    /\ req'[r].pc \notin {"table", "towrite", "write"}
    /\ req[r].pc # "write"
<1>1. ASSUME Reads(r) PROVE Goal
  <2>1. /\ UNCHANGED <<commitVars, memory, stops>>
        /\ Others(r) /\ Stays(req'[r], req[r]) /\ marks \subseteq marks'
        /\ <<req[r].pc, req'[r].pc>> \in
                {<<"count", "insert">>, <<"insert", "mstats">>,
                 <<"stats", "wstats">>, <<"mstats", "mwstats">>,
                 <<"wstats", "lock">>, <<"mwstats", "count">>,
                 <<"count", "file">>, <<"count", "save">>}
    BY <1>1, ReadingStep DEF Reads
  <2>2. /\ req[r].pc \notin {"new", "done", "failed", "write"}
        /\ req'[r].pc \notin {"table", "towrite", "write", "clear", "done"}
        /\ req'[r].pc \in Asking => req[r].pc \in Asking
    BY <2>1 DEF Asking
  <2>3. Goal
    BY <2>1, <2>2 DEF Stays, Same, Wrote, Active, Editor, Holding, memory,
       commitVars
  <2> QED
    BY <2>3
<1>2. ASSUME File(r) PROVE Goal
  <2>1. /\ UNCHANGED <<commitVars, registry, marks>>
        /\ Others(r) /\ Same(req'[r], req[r])
        /\ req[r].pc = "file" /\ req[r].ctx \in Context
        /\ req'[r].floor = req[r].floor
        /\ req[r].for = "answer" =>
               req'[r].pc = "done" /\ req'[r].for = "answer"
        /\ req[r].for # "answer" => /\ req'[r].pc = "count"
                                    /\ req'[r].for = "edit"
                                    /\ req'[r].ctx = req[r].ctx
        /\ contexts' = IF req[r].kind = "list"
                THEN [contexts EXCEPT ![req[r].ctx].cache = req[r].rows]
                ELSE contexts
    BY <1>2, FileStep
  <2>2. \A i \in Context : contexts'[i].dict = contexts[i].dict
    BY <2>1, RequestTypes
  <2>3. Goal
    BY <2>1, <2>2 DEF Same, Wrote, Active, Editor, Holding, Asking, commitVars
  <2> QED
    BY <2>3
<1>3. ASSUME Fails(r) PROVE Goal
  <2>1. /\ Others(r) /\ Same(req'[r], req[r])
        /\ req'[r].pc \in {"failed", "new"}
        /\ UNCHANGED <<trees, manifest, step, clock, late, db, stats, memory>>
        /\ marks \subseteq marks' /\ req[r].pc # "write"
    BY <1>3, FailsStep DEF Fails, Kept
  <2>2. Goal
    BY <2>1 DEF Wrote, Active, Holding, Asking, memory
  <2> QED
    BY <2>2
<1>4. ASSUME Save(r) PROVE Goal
  <2>1. /\ UNCHANGED <<commitVars, memory>>
        /\ Others(r) /\ Same(req'[r], req[r])
        /\ req'[r].for = req[r].for /\ req'[r].ctx = req[r].ctx
        /\ req[r].pc \in {"count", "save"} /\ req[r].for = "edit"
        /\ req'[r].pc \in {"save", "stats"}
        /\ Note(Overtaken(r) \cup Crossed(r))
    BY <1>4, SaveStep
  <2>2. Goal
    BY <2>1 DEF Same, Wrote, Active, Editor, Holding, Asking, memory, Note,
       commitVars
  <2> QED
    BY <2>2
<1>5. ASSUME Clear(r) PROVE Goal
  <2>1. /\ UNCHANGED <<commitVars, registry, marks>>
        /\ Others(r) /\ Same(req'[r], req[r])
        /\ req[r].pc = "clear" /\ req[r].ctx \in Context
        /\ req'[r].floor = req[r].floor
        /\ req'[r].pc \in {"count", "done"}
        /\ req'[r].pc = "count" => req'[r].ctx = req[r].ctx
        /\ contexts' = [contexts EXCEPT ![req[r].ctx].cache = NoRows]
    BY <1>5, ClearStep
  <2>2. \A i \in Context : contexts'[i].dict = contexts[i].dict
    BY <2>1, RequestTypes
  <2>3. Goal
    BY <2>1, <2>2 DEF Same, Wrote, Active, Editor, Holding, commitVars
  <2> QED
    BY <2>3
<1>6. ASSUME Enter(r) PROVE Goal
  <2>1. /\ UNCHANGED <<trees, memory, marks>> /\ step' = "recover"
        /\ Others(r) /\ Stays(req'[r], req[r])
        /\ req[r].pc = "commit" /\ req'[r].pc = "committing"
    BY <1>6, EnterStep
  <2>2. Goal
    BY <2>1 DEF Stays, Same, Wrote, Active, Editor, Holding, Asking, memory
  <2> QED
    BY <2>2
<1>7. ASSUME Skip(r) PROVE Goal
  <2>1. /\ Others(r) /\ Stays(req'[r], req[r]) /\ UNCHANGED <<step, memory>>
        /\ <<req[r].pc, req'[r].pc>> \in
                {<<"lock", "table">>, <<"table", "towrite">>,
                 <<"towrite", "write">>, <<"write", "clear">>,
                 <<"towrite", "clear">>}
    BY <1>7, MirrorStep
  <2>2. marks' = marks \cup {"skipped"} /\ req[r].pc = "towrite"
    BY <1>7 DEF Skip, Thread, Note
  <2>3. UNCHANGED trees
    BY <1>7 DEF Skip, commitVars
  <2>4. Loose' /\ marks \subseteq marks'
    BY <2>2 DEF Loose
  <2>5. req'[r].pc = "clear"
    <3>1. To(r, [req[r] EXCEPT !.pc = "clear", !.file = NoRows])
      BY <1>7 DEF Skip
    <3>2. req'[r] = [req[r] EXCEPT !.pc = "clear", !.file = NoRows]
      BY <3>1, OneChanges
    <3> QED
      BY <1>0, <3>2 DEF RequestRecord
  <2>6. Goal
    BY <2>1, <2>2, <2>3, <2>4, <2>5
       DEF Stays, Same, Wrote, Active, Editor, Holding, memory
  <2> QED
    BY <2>6
<1>8. Goal
  <2> HIDE DEF Goal
  <2> QED
    BY <1>1, <1>2, <1>3, <1>4, <1>5, <1>6, <1>7
<1> HIDE DEF Goal
<1>9. LockInv'
  BY <1>0, <1>8, LockStay DEF Goal
<1>10. CASE Loose'
  <2>1. TornInv'
    BY <1>8, TornStay DEF FileInv, Goal
  <2> QED
    BY <1>9, <1>10, <2>1 DEF FileInv
<1>11. CASE ~Loose'
  BY <1>8, <1>9, <1>11, FileIdle DEF Goal
<1> QED
  BY <1>10, <1>11

LEMMA AcquireFile ==
    ASSUME RequestsInv, OrderInv, FileInv, Kept, NEW r \in Request, Acquire(r)
    PROVE  FileInv'
<1>1. /\ Others(r) /\ Stays(req'[r], req[r])
      /\ Editor(req[r]) /\ req[r].for = "edit" /\ req[r].ctx \in Context
      /\ req[r].left = <<>>
      /\ <<req[r].pc, req'[r].pc>> \in
                {<<"lock", "table">>, <<"table", "towrite">>,
                 <<"towrite", "write">>, <<"write", "clear">>,
                 <<"towrite", "clear">>}
      /\ req[r].pc = "lock" => /\ req'[r].file = root /\ Exists(root)
                               /\ ~root.torn /\ ~Held(req[r].ctx)
  BY MirrorStep
<1>2. /\ req[r].pc = "lock" /\ UNCHANGED <<memory, marks>>
      /\ UNCHANGED <<trees, step>>
  BY DEF Acquire, Segment, commitVars
<1>3. LockInv /\ TornInv /\ (Loose \/ SaidInv)
  BY DEF FileInv
<1>4. \A q \in Request : ~Holding(req[q])
  <2> SUFFICES ASSUME NEW q \in Request, Holding(req[q]) PROVE FALSE
    OBVIOUS
  <2>1. Active(req[q])
    BY WritingIsActive
  <2>2. Active(req[r])
    BY <1>1, <1>2 DEF Active
  <2>3. contexts[req[q].ctx].dict = contexts[req[r].ctx].dict
    BY <1>3, <2>1, <2>2 DEF LockInv
  <2> QED
    BY <1>1, <1>2, <2>3 DEF Held, Holds, Holding
<1>5. LockInv'
  <2>1. \A q \in Request : Holding(req'[q]) => q = r
    BY <1>1, <1>4 DEF Others
  <2>2. ASSUME NEW q \in Request, Active(req'[q])
        PROVE  contexts'[req'[q].ctx].dict = registry'.dict
    <3>1. Active(req[q]) /\ req'[q].ctx = req[q].ctx
      BY <1>1, <1>2, <2>2 DEF Others, Active, Stays
    <3> QED
      BY <1>2, <1>3, <3>1 DEF LockInv, memory
  <2> QED
    BY <1>2, <1>3, <2>1, <2>2 DEF LockInv, memory
<1>6. TornInv'
  BY <1>1, <1>2, <1>3, TornStay DEF Active, Stays, Same
<1>7. ~Wrote(req'[r]) /\ Same(req'[r], req[r]) /\ req'[r].pc = "table"
  BY <1>1, <1>2 DEF Stays, Wrote, Asking
<1>8. Loose \/ SaidInv'
  <2> SUFFICES ASSUME ~Loose, SaidInv PROVE SaidInv'
    BY <1>3
  <2>1. ASSUME NEW q \in Request, Wrote(req[q]), NEW i \in DOMAIN req[q].on
        PROVE  Draft(req'[r])[req[q].on[i]] >= req[q].floor[req[q].on[i]]
    <3> DEFINE e == req[q].on[i]
    <3>1. e \in Episode
      <4>1. req[q].on \in Seq(Episode)
        BY RequestTypes DEF RequestRecord
      <4> QED
        BY <4>1
    <3>2. /\ req[q].floor[e] \in Nat /\ req[r].floor[e] \in Nat
          /\ db[e].save \in Nat /\ req[q].floor[e] <= db[e].save
      BY <3>1, RequestTypes, MarksType DEF RequestRecord, RequestsInv, Backed
    <3>3. root.rows[e] >= req[q].floor[e]
      BY <1>1, <1>2, <2>1 DEF SaidInv, Said
    <3>4. /\ req'[r].on = req[r].on /\ req'[r].floor = req[r].floor
          /\ req'[r].file = root /\ req'[r].pc = "table"
      BY <1>1, <1>2, <1>7 DEF Stays, Same
    <3> HIDE DEF e
    <3>5. CASE \E j \in DOMAIN req[r].on : req[r].on[j] = e
      <4>1. e \in Unmirrored(r)
        BY <1>1, <1>2, <3>5 DEF Unmirrored, On
      <4>2. db[e].save <= req[r].floor[e]
        BY <4>1 DEF OrderInv, Loose
      <4>3. Draft(req'[r])[e] = req[r].floor[e]
        BY <3>1, <3>4, <3>5 DEF Draft
      <4>4. Draft(req'[r])[e] >= req[q].floor[e]
        BY <3>2, <4>2, <4>3
      <4> QED
        BY <4>4 DEF e
    <3>6. CASE ~\E j \in DOMAIN req[r].on : req[r].on[j] = e
      <4>1. Draft(req'[r])[e] = root.rows[e]
        BY <3>1, <3>4, <3>6 DEF Draft
      <4>2. Draft(req'[r])[e] >= req[q].floor[e]
        BY <3>3, <4>1
      <4> QED
        BY <4>2 DEF e
    <3> QED
      BY <3>5, <3>6
  <2>2. Said(req, Draft(req'[r]))
    BY <2>1 DEF Said
  <2> QED
    BY <1>1, <1>2, <1>7, <2>2, SaidStay
<1> QED
  BY <1>2, <1>5, <1>6, <1>8 DEF FileInv, Loose

LEMMA BuildFile ==
    ASSUME RequestsInv, FileInv, Kept, NEW r \in Request, Build(r)
    PROVE  FileInv'
<1>1. /\ Others(r) /\ Stays(req'[r], req[r])
      /\ Editor(req[r]) /\ req[r].for = "edit" /\ req[r].left = <<>>
      /\ <<req[r].pc, req'[r].pc>> \in
                {<<"lock", "table">>, <<"table", "towrite">>,
                 <<"towrite", "write">>, <<"write", "clear">>,
                 <<"towrite", "clear">>}
      /\ req[r].pc = "table" =>
                  req'[r].file = [req[r].file EXCEPT !.rows = Annotated(r)]
  BY MirrorStep
<1>2. /\ req[r].pc = "table" /\ UNCHANGED <<memory, marks>>
      /\ UNCHANGED <<trees, step>>
  BY DEF Build, Segment, commitVars
<1>3. LockInv /\ TornInv /\ (Loose \/ SaidInv)
  BY DEF FileInv
<1>4. req'[r].pc = "towrite" /\ Same(req'[r], req[r]) /\ ~Wrote(req'[r])
  BY <1>1, <1>2 DEF Stays, Wrote, Asking
<1>5. LockInv'
  <2>1. /\ Active(req'[r]) => Active(req[r]) /\ req'[r].ctx = req[r].ctx
        /\ Holding(req'[r]) => Holding(req[r])
    BY <1>1, <1>2 DEF Active, Holding, Stays
  <2> QED
    BY <1>1, <1>2, <1>3, <2>1, LockStay DEF memory
<1>6. TornInv'
  BY <1>1, <1>2, <1>3, <1>4, TornStay DEF Active
<1>7. req'[r].file.rows = Annotated(r)
  <2>1. req[r].file \in Tree([Episode -> Nat])
    BY <1>2, RequestTypes DEF Proper
  <2> QED
    BY <1>1, <1>2, <2>1 DEF Tree
<1>8. \A i \in DOMAIN req[r].on :
          req[r].on[i] \in Episode /\ req[r].floor[req[r].on[i]] \in Nat
  <2>1. req[r].floor \in [Episode -> Nat] /\ req[r].on \in Seq(Episode)
    BY RequestTypes DEF RequestRecord
  <2>2. \A i \in DOMAIN req[r].on : req[r].on[i] \in Episode
    BY <2>1
  <2> QED
    BY <2>1, <2>2
<1>9. \A i \in DOMAIN req[r].on :
          req'[r].file.rows[req[r].on[i]] >= req'[r].floor[req[r].on[i]]
  BY <1>1, <1>7, <1>8 DEF Annotated, On, Stays
<1>10. SaidInv => Said(req, Draft(req'[r]))
  <2>1. \A e \in Episode :
            e \in On(r) <=> \E i \in DOMAIN req[r].on : req[r].on[i] = e
    BY DEF On
  <2>2. Draft(req[r]) = Annotated(r)
    BY <1>2, <2>1 DEF Draft, Annotated
  <2>3. Draft(req'[r]) = Annotated(r)
    BY <1>4, <1>7 DEF Draft
  <2> QED
    BY <1>2, <2>2, <2>3 DEF SaidInv
<1>11. Loose \/ SaidInv'
  BY <1>1, <1>2, <1>3, <1>4, <1>9, <1>10, SaidStay
<1> QED
  BY <1>2, <1>5, <1>6, <1>11 DEF FileInv, Loose

LEMMA TruncateFile ==
    ASSUME RequestsInv, FileInv, Kept, NEW r \in Request, Truncate(r)
    PROVE  FileInv'
<1>1. /\ Others(r) /\ Stays(req'[r], req[r])
      /\ Editor(req[r]) /\ req[r].for = "edit"
      /\ UNCHANGED <<staging, manifest, step, memory>>
      /\ req'[r].pc = "write" => req'[r].file = req[r].file
      /\ <<req[r].pc, req'[r].pc>> \in
                {<<"lock", "table">>, <<"table", "towrite">>,
                 <<"towrite", "write">>, <<"write", "clear">>,
                 <<"towrite", "clear">>}
  BY MirrorStep
<1>2. /\ req[r].pc = "towrite" /\ UNCHANGED <<backup, marks>> /\ Exists(root)
      /\ root' = [root EXCEPT !.torn = TRUE, !.stamp = clock + 1]
      /\ To(r, [req[r] EXCEPT !.pc = "write"])
  BY DEF Truncate, Thread, Then
<1>3. LockInv /\ TornInv /\ (Loose \/ SaidInv)
  BY DEF FileInv
<1>4. req'[r].pc = "write" /\ ~Wrote(req'[r])
  <2>1. req'[r] = [req[r] EXCEPT !.pc = "write"]
    BY <1>2, OneChanges
  <2>2. req'[r].pc = "write"
    BY <2>1, RequestTypes DEF RequestRecord
  <2> QED
    BY <1>1, <2>2 DEF Wrote, Asking
<1>5. root'.torn /\ Exists(root')
  <2>1. root \in Tree([Episode -> Nat])
    BY <1>2, TreeTypes
  <2>2. root'.torn
    BY <1>2, <2>1 DEF Tree
  <2> QED
    BY <2>2 DEF Exists, Gone
<1>6. LockInv'
  <2>1. /\ Active(req'[r]) => Active(req[r]) /\ req'[r].ctx = req[r].ctx
        /\ Holding(req'[r]) => Holding(req[r])
    BY <1>1, <1>2 DEF Active, Holding, Stays, Same, Editor
  <2> QED
    BY <1>1, <1>3, <2>1, LockStay DEF memory
<1>7. TornInv'
  <2>1. Writing' /\ Active(req[r])
    BY <1>1, <1>2, <1>4 DEF Writing, Active
  <2>2. ~Replacing
    BY <1>3, <2>1 DEF TornInv
  <2>3. ~Replacing'
    BY <1>1, <1>2, <1>5, <2>2 DEF Replacing, Exists
  <2> QED
    BY <1>1, <1>2, <1>3, <1>5, <2>1, <2>3 DEF TornInv, Exists
<1>8. Loose \/ SaidInv'
  <2> SUFFICES ASSUME SaidInv PROVE SaidInv'
    BY <1>3
  <2>1. ASSUME NEW q \in Request
        PROVE  /\ Wrote(req'[q]) => Wrote(req[q])
               /\ req'[q].on = req[q].on /\ req'[q].floor = req[q].floor
               /\ req'[q].pc \in {"table", "towrite", "write"} =>
                      req[q].pc \in {"table", "towrite", "write"}
               /\ req'[q].pc \in {"towrite", "write"} =>
                      req[q].pc \in {"towrite", "write"}
               /\ req'[q].file = req[q].file
               /\ Draft(req'[q]) = Draft(req[q])
    BY <1>1, <1>2, <1>4 DEF Others, Stays, Same, Draft
  <2>2. ASSUME NEW rows, Said(req, rows) PROVE Said(req', rows)
    BY <2>1, <2>2 DEF Said
  <2>3. \A q \in Request : req'[q].pc \in {"table", "towrite", "write"} =>
            Said(req', Draft(req'[q]))
    BY <2>1, <2>2 DEF SaidInv
  <2>4. \A q \in Request : req'[q].pc \in {"towrite", "write"} =>
            \A i \in DOMAIN req'[q].on :
              req'[q].file.rows[req'[q].on[i]] >= req'[q].floor[req'[q].on[i]]
    BY <2>1 DEF SaidInv
  <2> QED
    BY <1>1, <1>2, <1>5, <2>2, <2>3, <2>4 DEF SaidInv, Exists
<1> QED
  BY <1>2, <1>6, <1>7, <1>8 DEF FileInv, Loose

LEMMA FilledTree ==
    ASSUME RequestsInv, NEW r \in Request, req[r].pc = "write",
           NEW t \in {root, backup}
    PROVE  /\ Exists(Filled(r, t, FALSE)) <=> Exists(t)
           /\ ~Filled(r, t, FALSE).torn
           /\ t.torn => Filled(r, t, FALSE).rows = req[r].file.rows
           /\ Exists(t) /\ t.torn => Filled(r, t, FALSE).stamp = clock + 1
           /\ ~t.torn => Filled(r, t, FALSE) = t
<1>1. Exists(t) => t \in Tree([Episode -> Nat])
  BY TreeTypes
<1>2. ~Gone.torn /\ t.torn => Exists(t)
  BY DEF Gone, Exists
<1>3. CASE Exists(t) /\ t.torn
  <2>1. /\ ~Filled(r, t, FALSE).torn
        /\ Filled(r, t, FALSE).rows = req[r].file.rows
        /\ Filled(r, t, FALSE).stamp = clock + 1
    BY <1>1, <1>3 DEF Filled, Tree
  <2>2. t \in Tree([Episode -> Nat]) \cup {Gone}
    BY TreeTypes
  <2>3. Exists(Filled(r, t, FALSE))
    BY <1>3, <2>2, FilledShape
  <2> QED
    BY <1>3, <2>1, <2>3
<1>4. CASE ~t.torn
  <2>1. Filled(r, t, FALSE) = t
    BY <1>4 DEF Filled
  <2> QED
    BY <1>4, <2>1
<1>5. t.torn => Exists(t)
  BY DEF Gone, Exists
<1> QED
  BY <1>3, <1>4, <1>5

LEMMA WrittenFile ==
    ASSUME RequestsInv, StepInv, FileInv, Kept, NEW r \in Request, Written(r)
    PROVE  FileInv'
<1>1. /\ Others(r) /\ Stays(req'[r], req[r])
      /\ Editor(req[r]) /\ req[r].for = "edit"
      /\ UNCHANGED <<staging, manifest, step, memory>>
      /\ <<req[r].pc, req'[r].pc>> \in
                {<<"lock", "table">>, <<"table", "towrite">>,
                 <<"towrite", "write">>, <<"write", "clear">>,
                 <<"towrite", "clear">>}
  BY MirrorStep
<1>2. req[r].pc = "write" /\ UNCHANGED marks
  BY DEF Written, Thread
<1>3. LockInv /\ TornInv /\ (Loose \/ SaidInv)
  BY DEF FileInv
<1>4. req'[r].pc = "clear"
  BY <1>1, <1>2
<1>5. \A q \in Request \ {r} : ~Holding(req[q])
  BY <1>2, <1>3 DEF LockInv, Holding
<1>6. /\ root' = Filled(r, root, FALSE) /\ backup' = Filled(r, backup, FALSE)
  <2>1. PICK torn \in BOOLEAN :
               /\ root' = Filled(r, root, torn)
               /\ backup' = Filled(r, backup, torn)
               /\ "forked" \notin marks =>
                      torn = \E q \in Request \ {r} : req[q].pc = "write"
    BY WrittenTrees
  <2>2. torn = FALSE
    BY <1>5, <2>1 DEF Kept, Holding
  <2> QED
    BY <2>1, <2>2
<1>7. /\ Exists(root') <=> Exists(root)
      /\ Exists(backup') <=> Exists(backup)
      /\ ~root'.torn /\ ~backup'.torn
      /\ root.torn => root'.rows = req[r].file.rows
      /\ backup.torn => backup'.rows = req[r].file.rows
      /\ ~backup.torn => backup' = backup
  BY <1>2, <1>6, FilledTree
<1>8. /\ Writing /\ ~Writing'
      /\ Exists(root) => root.torn
      /\ ~Exists(root) /\ Exists(backup) => backup.torn
  BY <1>1, <1>2, <1>3, <1>4, <1>5 DEF Writing, TornInv, Others, Holding
<1>9. LockInv'
  <2>1. /\ Active(req'[r]) => Active(req[r]) /\ req'[r].ctx = req[r].ctx
        /\ Holding(req'[r]) => Holding(req[r])
    BY <1>1, <1>2 DEF Active, Holding, Stays, Same, Editor
  <2> QED
    BY <1>1, <1>3, <2>1, LockStay DEF memory
<1>10. ~Replacing /\ ~Replacing'
  <2>1. Active(req[r])
    BY <1>1, <1>2 DEF Active
  <2> QED
    BY <1>1, <1>3, <1>7, <2>1 DEF TornInv, Replacing, Exists
<1>11. TornInv'
  BY <1>1, <1>3, <1>7, <1>8, <1>10 DEF TornInv, Exists
<1>12. ASSUME SaidInv PROVE SaidInv'
  <2>1. /\ Said(req, req[r].file.rows)
        /\ \A i \in DOMAIN req[r].on :
               req[r].file.rows[req[r].on[i]] >= req[r].floor[req[r].on[i]]
    BY <1>2, <1>12 DEF SaidInv, Draft
  <2>2. Said(req', req[r].file.rows)
    <3> SUFFICES ASSUME NEW q \in Request, Wrote(req'[q]),
                        NEW i \in DOMAIN req'[q].on
                 PROVE  req[r].file.rows[req'[q].on[i]]
                            >= req'[q].floor[req'[q].on[i]]
      BY DEF Said
    <3>1. CASE q = r
      BY <1>1, <2>1, <3>1 DEF Stays, Same
    <3>2. CASE q # r
      BY <1>1, <2>1, <3>2 DEF Others, Said
    <3> QED
      BY <3>1, <3>2
  <2>3. \A q \in Request : req'[q].pc \notin {"table", "towrite", "write"}
    BY <1>1, <1>4, <1>5 DEF Others, Holding
  <2>4. Exists(root') => Said(req', root'.rows)
    BY <1>7, <1>8, <2>2
  <2>5. /\ Exists(backup')
        /\ ~Exists(root') \/ step' \in {"unlink", "clean", "undo"}
        => Said(req', backup'.rows)
    <3>1. ~Exists(root) /\ Exists(backup) => backup.torn
      BY <1>8
    <3>2. ~(Exists(root) /\ Exists(backup)
              /\ step \in {"unlink", "clean", "undo"})
      BY <1>10 DEF Replacing
    <3> QED
      BY <1>1, <1>7, <2>2, <3>1, <3>2
  <2>6. step \in {"mutate", "promote"} => staging.torn
    BY <1>3, <1>8 DEF StepInv, TornInv
  <2> QED
    BY <1>1, <2>3, <2>4, <2>5, <2>6 DEF SaidInv, Exists
<1> QED
  BY <1>2, <1>3, <1>9, <1>11, <1>12 DEF FileInv, Loose

LEMMA LeaveFile ==
    ASSUME RequestsInv, FileInv, Kept, Kept', NEW r \in Request, Leave(r)
    PROVE  FileInv'
<1>1. /\ UNCHANGED trees /\ step' = "idle"
      /\ Others(r) /\ Same(req'[r], req[r])
      /\ req[r].pc = "committing" /\ ~Editor(req[r])
      /\ req'[r].pc \in {"failed", "count"}
  BY LeaveStep
<1>2. LockInv
  BY DEF FileInv
<1>3. ~Active(req'[r]) /\ ~Wrote(req'[r]) /\ ~Holding(req'[r])
  BY <1>1 DEF Same, Active, Wrote, Editor, Holding
<1>4. \A q \in Request : Holding(req'[q]) => Holding(req[q])
  BY <1>1, <1>3 DEF Others
<1>5. LockInv' /\ marks \subseteq marks'
  <2>1. CASE UNCHANGED <<memory, marks>>
    BY <1>1, <1>2, <1>3, <2>1, LockStay DEF memory
  <2>2. CASE /\ Note(Fork) /\ registry'.dict = registry.dict + 1
             /\ registry'.ctx # 0 =>
                    contexts'[registry'.ctx].dict = registry'.dict
    <3>1. \A q \in Request : ~Active(req[q])
      BY <2>2 DEF Note, Fork, Kept, Ended, Edits, Active, Editor
    <3>2. \A q \in Request : ~Active(req'[q])
      BY <1>1, <1>3, <3>1 DEF Others
    <3>3. marks \subseteq marks'
      BY <2>2 DEF Note
    <3> QED
      BY <1>2, <1>4, <2>2, <3>2, <3>3 DEF LockInv
  <2>3. \/ UNCHANGED <<memory, marks>>
        \/ /\ Note(Fork) /\ registry'.dict = registry.dict + 1
           /\ registry'.ctx # 0 =>
                  contexts'[registry'.ctx].dict = registry'.dict
    <3>1. CASE /\ UNCHANGED contexts
               /\ \/ UNCHANGED <<registry, marks>>
                  \/ /\ registry' = [ctx |-> 0, dict |-> registry.dict + 1]
                     /\ Note(Fork)
      BY <3>1 DEF memory
    <3>2. CASE /\ Note(Fork)
               /\ registry' = [ctx |-> Free, dict |-> registry.dict + 1]
               /\ contexts' = [contexts EXCEPT
                               ![Free] = New(registry.dict + 1)]
      <4>1. Free \in Context
        BY FreeIsFree DEF RequestsInv
      <4>2. contexts'[Free].dict = registry.dict + 1
        BY <3>2, <4>1, RequestTypes DEF New
      <4> QED
        BY <3>2, <4>2
    <3> QED
      BY <3>1, <3>2, LeaveStep
  <2> QED
    BY <2>1, <2>2, <2>3
<1> QED
  BY <1>1, <1>3, <1>5, FileIdle

LEMMA CommitsFile ==
    ASSUME DiskInv, DiskInv', FileInv, Kept, Kept', Commits
    PROVE  FileInv'
<1>1. /\ RequestsInv /\ StepInv /\ StepInv' /\ LockInv /\ TornInv
      /\ Loose \/ SaidInv
  BY DEF DiskInv, FileInv
<1>2. /\ Working \/ Promote \/ Raises
      /\ UNCHANGED <<db, stats, memory, req, stops>>
  BY CommitsUnchanged
<1>3. marks \subseteq marks'
  BY DEF Commits, CommitWorks, CommitPromotes, CommitRaises, Note
<1>4. /\ \/ Passes \/ Sweeps \/ Returns \/ Moves \/ Copies \/ Mutates
         \/ Promotes \/ Undoes
      /\ Promotes => Promote
  <2>1. Promotes => Promote
    <3> SUFFICES ASSUME Promotes PROVE Promote
      OBVIOUS
    <3>1. step = "promote" /\ step' = "unlink"
      BY DEF Promotes
    <3> QED
      BY <1>2, <3>1 DEF Working, Raises, RecoverNothing, RecoverPromoted,
         RecoverBack, Sweep, RecoverRefuses, Preview, Prepare, Move, Mark,
         Copy, Mutate, Unlink, Clean, Unreadable, Undo, Discard, Restore,
         Forget, At, Go
  <2> QED
    BY <1>1, <1>2, <2>1, CommitMoves
<1>5. Promotes => \A r \in Request : ~Active(req[r])
  <2> SUFFICES ASSUME Promotes, NEW r \in Request, Active(req[r]) PROVE FALSE
    OBVIOUS
  <2>1. step = "promote" /\ step' = "unlink"
    BY DEF Promotes
  <2>2. CommitPromotes
    BY <2>1 DEF Commits, CommitWorks, CommitRaises, Working, Raises,
       RecoverNothing, RecoverPromoted, RecoverBack, Sweep, RecoverRefuses,
       Preview, Prepare, Move, Mark, Copy, Mutate, Unlink, Clean, Unreadable,
       Undo, Discard, Restore, Forget, At, Go
  <2>3. ~Ended(r) /\ Edits(r)
    BY DEF Active, Ended, Edits, Editor
  <2> QED
    BY <2>2, <2>3 DEF CommitPromotes, Note, Fork, Kept
<1>6. LockInv'
  BY <1>1, <1>2 DEF LockInv, memory
<1>7. TornInv'
  BY <1>1, <1>2, <1>4, <1>5, CommitTorn
<1>8. SaidInv => SaidInv'
  BY <1>1, <1>2, <1>4, CommitSaid
<1> QED
  BY <1>1, <1>3, <1>6, <1>7, <1>8 DEF FileInv, Loose

LEMMA StopFile ==
    ASSUME RequestsInv, FileInv, Kept, Kept', Stop
    PROVE  FileInv'
<1>1. /\ UNCHANGED trees /\ step' = "idle" /\ marks \subseteq marks'
      /\ Writing => "cut" \in marks'
      /\ registry' = [ctx |-> 0, dict |-> 1]
      /\ \A q \in Request :
            \/ Ended(q) /\ req'[q] = req[q]
            \/ /\ ~Ended(q) /\ Same(req'[q], req[q])
               /\ req'[q].pc = "failed" /\ req'[q].for = "answer"
  BY StopStep
<1>2. LockInv /\ TornInv /\ (Loose \/ SaidInv) /\ ~Writing
  BY <1>1 DEF FileInv, Kept
<1>3. \A q \in Request : /\ req'[q].pc \in {"new", "done", "failed"}
                         /\ Wrote(req'[q]) => req'[q] = req[q]
                         /\ req'[q].on = req[q].on
  BY <1>1 DEF Ended, Wrote, Asking, Same
<1>4. LockInv'
  BY <1>1, <1>3 DEF LockInv, Active, Holding
<1>5. TornInv'
  BY <1>1, <1>2, <1>3 DEF TornInv, Replacing, Writing, trees, Exists
<1>6. SaidInv => SaidInv'
  <2>1. ASSUME NEW rows, Said(req, rows) PROVE Said(req', rows)
    BY <1>3, <2>1 DEF Said
  <2> QED
    BY <1>1, <1>3, <2>1 DEF SaidInv, trees, Exists
<1> QED
  BY <1>1, <1>2, <1>4, <1>5, <1>6 DEF FileInv, Loose

LEMMA FileNext ==
    ASSUME DiskInv, DiskInv', OrderInv, FileInv, [Next]_vars
    PROVE  FileInv'
<1> SUFFICES ASSUME Kept' PROVE FileInv'
  BY DEF FileInv
<1>0. RequestsInv /\ StepInv
  BY DEF DiskInv
<1>1. CASE Kept
  <2>1. ASSUME NEW r \in Request,
               \/ Begin(r) \/ Reads(r) \/ File(r) \/ Fails(r) \/ Save(r)
               \/ Mirrors(r) \/ Clear(r) \/ Enter(r) \/ Leave(r)
        PROVE  FileInv'
    BY <1>0, <1>1, <2>1, BeginFile, RequestFile, AcquireFile, BuildFile,
       TruncateFile, WrittenFile, LeaveFile DEF Mirrors
  <2>2. CASE Commits
    BY <1>1, <2>2, CommitsFile
  <2>3. CASE Stop
    BY <1>0, <1>1, <2>3, StopFile
  <2>4. CASE Evict
    <3>1. /\ UNCHANGED <<commitVars, contexts, req, marks>>
          /\ registry' = [registry EXCEPT !.ctx = 0]
      BY <2>4 DEF Evict
    <3>2. registry'.ctx = 0 /\ registry'.dict = registry.dict
      BY <1>0, <3>1, RequestTypes
    <3>3. LockInv => LockInv'
      BY <3>1, <3>2 DEF LockInv
    <3>4. (TornInv => TornInv') /\ (SaidInv => SaidInv')
      BY <3>1 DEF TornInv, SaidInv, Replacing, Writing, Exists, commitVars,
         trees
    <3> QED
      BY <1>1, <3>1, <3>3, <3>4 DEF FileInv, Loose
  <2>5. CASE UNCHANGED vars
    BY <1>1, <2>5 DEF FileInv, Loose, LockInv, TornInv, SaidInv, Replacing,
       Writing,
       Exists, vars, commitVars, trees, memory
  <2> QED
    BY <2>1, <2>2, <2>3, <2>4, <2>5, AllSteps
<1>2. CASE ~Kept
  <2>1. marks \subseteq marks'
    BY <1>0, MarksGrow
  <2> QED
    BY <1>2, <2>1 DEF Kept
<1> QED
  BY <1>1, <1>2

(* The episode file is readable unless it is being written, and for every  *)
(* answered edit it has the row that edit saved or a newer one, whoever    *)
(* reads and writes it and whatever a commit does with it, where no write  *)
(* was cut off or done under two locks, no mirror was skipped and no two   *)
(* edits of one episode overlapped between their saves and the lock.       *)
THEOREM FileIsTruthful == Spec => []FileTruthful
<1>1. Init => FileInv
  <2> SUFFICES ASSUME Init PROVE FileInv
    OBVIOUS
  <2>1. /\ root = [rows |-> [e \in Episode |-> 0], torn |-> FALSE,
                   edition |-> 0, stamp |-> 0, half |-> FALSE]
        /\ backup = Gone /\ staging = Gone /\ step = "idle"
        /\ registry = [ctx |-> 0, dict |-> 1]
    BY DEF Init, CommitInit
  <2>2. \A r \in Request : req[r].pc = "new" /\ req[r].for = "answer"
    BY DEF Init, Fresh
  <2>3. \A r \in Request : /\ ~Active(req[r]) /\ ~Wrote(req[r])
                           /\ ~Holding(req[r])
    BY <2>2 DEF Active, Wrote, Holding, Asking
  <2>4. LockInv
    BY <2>1, <2>3 DEF LockInv
  <2>5. TornInv
    BY <2>1, <2>2, <2>3 DEF TornInv, Replacing, Writing, Exists
  <2>6. SaidInv
    BY <2>1, <2>2, <2>3 DEF SaidInv, Said, Exists
  <2> QED
    BY <2>4, <2>5, <2>6 DEF FileInv
<1>2. DiskInv /\ FileInv => FileTruthful
  <2> SUFFICES ASSUME DiskInv, FileInv, Kept PROVE FileTruthful
    BY DEF FileTruthful, Kept
  <2>1. Exists(root) /\ root.torn => Writing
    BY DEF FileInv, TornInv
  <2>2. ASSUME Exists(root), ~root.torn, ~Loose, NEW r \in Request,
               req[r].pc = "done", Edits(r), NEW e \in On(r)
        PROVE  root.rows[e] >= req[r].floor[e]
    <3>1. Wrote(req[r])
      BY <2>2 DEF Wrote, Editor, Edits
    <3>2. Said(req, root.rows)
      BY <2>2 DEF FileInv, SaidInv
    <3> QED
      BY <2>2, <3>1, <3>2 DEF Said, On
  <2> QED
    BY <2>1, <2>2 DEF FileTruthful, Loose
<1>3. DiskInv /\ DiskInv' /\ OrderInv /\ FileInv /\ [Next]_vars => FileInv'
  BY FileNext
<1> QED
  BY <1>1, <1>2, <1>3, DiskInvariant, OrderInvariant, PTL DEF Spec
-----------------------------------------------------------------------------
(* What requests answer.  A late failure of a commit apart, a file that is *)
(* being written is torn where it is, and so is the copy a commit made.    *)
WriteInv ==
    late \/ /\ step \in {"mutate", "promote"} /\ backup.torn => staging.torn
            /\ step = "promote" => ~staging.torn
            /\ Writing => /\ Exists(root) => root.torn
                          /\ ~Exists(root) /\ Exists(backup) => backup.torn

LEMMA WriteStay ==
    ASSUME WriteInv, UNCHANGED trees, step' \in {step, "idle", "recover"},
           Writing' => Writing, late => late'
    PROVE  WriteInv'
BY DEF WriteInv, trees, Exists

LEMMA CommitWrites ==
    ASSUME RequestsInv, StepInv, WriteInv, UNCHANGED req, late => late',
           \/ Passes \/ Sweeps \/ Returns \/ Moves \/ Copies \/ Mutates
           \/ Promotes \/ Undoes
    PROVE  WriteInv'
<1>0. /\ ~Exists(Gone) /\ ~Gone.torn
      /\ Writing' <=> Writing
  BY DEF Exists, Gone, Writing
<1> SUFFICES ASSUME ~late PROVE WriteInv'
  BY DEF WriteInv
<1>1. CASE Passes
  BY <1>0, <1>1 DEF Passes, trees, WriteInv, Exists
<1>2. CASE Sweeps
  <2>1. /\ root' = root
        /\ \/ backup' = backup
           \/ Exists(root) /\ backup' = Gone
           \/ Exists(root) /\ Exists(backup) /\ backup' = Trimmed(backup)
        /\ step' \notin {"mutate", "promote", "unlink", "undo"}
    BY <1>2 DEF Sweeps
  <2>2. ~Exists(root) => backup' = backup
    BY <2>1
  <2> QED
    BY <1>0, <2>1, <2>2 DEF WriteInv, Exists
<1>3. CASE Returns
  BY <1>0, <1>3 DEF WriteInv, Returns, Exists
<1>4. CASE Moves
  BY <1>0, <1>4 DEF WriteInv, Moves, Exists
<1>5. CASE Copies
  <2>1. staging'.torn = backup.torn
    BY <1>5, TrimmedTree DEF Copies
  <2> QED
    BY <1>0, <1>5, <2>1 DEF WriteInv, Copies, Exists
<1>6. CASE Mutates
  BY <1>0, <1>6 DEF WriteInv, Mutates, Exists
<1>7. CASE Promotes
  BY <1>0, <1>7 DEF WriteInv, Promotes, Exists
<1>8. CASE Undoes
  BY <1>8 DEF Undoes
<1> QED
  BY <1>1, <1>2, <1>3, <1>4, <1>5, <1>6, <1>7, <1>8

(* The steps that leave the disk to the others.                            *)
LEMMA DiskAlone ==
    ASSUME RequestsInv, NEW r \in Request,
           \/ Begin(r) \/ Reads(r) \/ File(r) \/ Fails(r) \/ Save(r)
           \/ Acquire(r) \/ Build(r) \/ Skip(r) \/ Clear(r)
           \/ Enter(r) \/ Leave(r)
    PROVE  /\ UNCHANGED <<trees, clock, late>> /\ Others(r)
           /\ step' \in {step, "idle", "recover"}
           /\ req'[r].pc # "write" /\ Same(req'[r], req[r])
<1>1. CASE Begin(r)
  <2>1. /\ UNCHANGED commitVars /\ Others(r) /\ Same(req'[r], req[r])
        /\ req'[r].pc \in {"failed", "commit", "count", "done"}
    BY <1>1, BeginStep
  <2> QED
    BY <2>1 DEF commitVars
<1>2. CASE Reads(r)
  <2>1. /\ UNCHANGED commitVars /\ Others(r) /\ Stays(req'[r], req[r])
        /\ <<req[r].pc, req'[r].pc>> \in
                {<<"count", "insert">>, <<"insert", "mstats">>,
                 <<"stats", "wstats">>, <<"mstats", "mwstats">>,
                 <<"wstats", "lock">>, <<"mwstats", "count">>,
                 <<"count", "file">>, <<"count", "save">>}
    BY <1>2, ReadingStep DEF Reads
  <2> QED
    BY <2>1 DEF commitVars, Stays
<1>3. CASE File(r)
  <2>1. req[r].for \in {"tags", "edit", "answer"}
    BY RequestTypes DEF RequestRecord
  <2>2. /\ UNCHANGED commitVars /\ Others(r) /\ Same(req'[r], req[r])
        /\ req'[r].pc \in {"count", "done"}
    BY <1>3, <2>1, FileStep
  <2> QED
    BY <2>2 DEF commitVars
<1>4. CASE Fails(r)
  BY <1>4, FailsStep DEF Fails
<1>5. CASE Save(r)
  <2>1. /\ UNCHANGED commitVars /\ Others(r) /\ Same(req'[r], req[r])
        /\ req'[r].pc \in {"save", "stats"}
    BY <1>5, SaveStep
  <2> QED
    BY <2>1 DEF commitVars
<1>6. CASE Acquire(r) \/ Build(r) \/ Skip(r)
  <2>1. UNCHANGED commitVars
    BY <1>6 DEF Acquire, Build, Skip
  <2>2. Others(r) /\ Stays(req'[r], req[r])
    BY <1>6, MirrorStep
  <2>3. \E pc \in {"table", "towrite", "clear"} : \E file :
            To(r, [req[r] EXCEPT !.pc = pc, !.file = file])
    <3>1. CASE Acquire(r) \/ Skip(r)
      BY <3>1 DEF Acquire, Skip
    <3>2. CASE Build(r)
      <4>1. To(r, [req[r] EXCEPT !.pc = "towrite",
                                 !.file.rows = Annotated(r)])
        BY <3>2 DEF Build
      <4>2. [req[r] EXCEPT !.pc = "towrite", !.file.rows = Annotated(r)] =
            [req[r] EXCEPT !.pc = "towrite",
                           !.file = [req[r].file EXCEPT
                                     !.rows = Annotated(r)]]
        BY RequestTypes DEF RequestRecord
      <4> QED
        BY <4>1, <4>2
    <3> QED
      BY <1>6, <3>1, <3>2
  <2>4. PICK pc \in {"table", "towrite", "clear"} :
                \E file : To(r, [req[r] EXCEPT !.pc = pc, !.file = file])
    BY <2>3
  <2>4a. PICK file : To(r, [req[r] EXCEPT !.pc = pc, !.file = file])
    BY <2>4
  <2>5. req'[r] = [req[r] EXCEPT !.pc = pc, !.file = file]
    BY <2>4a, OneChanges
  <2>6. req'[r].pc = pc /\ pc \in {"table", "towrite", "clear"}
    BY <2>4, <2>5, RequestTypes DEF RequestRecord
  <2> QED
    BY <2>1, <2>2, <2>6 DEF commitVars, Stays
<1>7. CASE Clear(r)
  <2>1. /\ UNCHANGED commitVars /\ Others(r) /\ Same(req'[r], req[r])
        /\ req'[r].pc \in {"count", "done"}
    BY <1>7, ClearStep
  <2> QED
    BY <2>1 DEF commitVars
<1>8. CASE Enter(r)
  BY <1>8, EnterStep DEF Stays
<1>9. CASE Leave(r)
  BY <1>9, LeaveStep
<1> QED
  BY <1>1, <1>2, <1>3, <1>4, <1>5, <1>6, <1>7, <1>8, <1>9

LEMMA WriteNext ==
    ASSUME DiskInv, WriteInv, [Next]_vars
    PROVE  WriteInv'
<1>0. RequestsInv /\ StepInv
  BY DEF DiskInv
<1>1. ASSUME NEW r \in Request,
             \/ Begin(r) \/ Reads(r) \/ File(r) \/ Fails(r) \/ Save(r)
             \/ Acquire(r) \/ Build(r) \/ Skip(r) \/ Clear(r)
             \/ Enter(r) \/ Leave(r)
      PROVE  WriteInv'
  <2>1. /\ UNCHANGED <<trees, clock, late>> /\ Others(r)
        /\ step' \in {step, "idle", "recover"} /\ req'[r].pc # "write"
    BY <1>0, <1>1, DiskAlone
  <2>2. Writing' => Writing
    BY <2>1 DEF Writing, Others
  <2> QED
    BY <2>1, <2>2, WriteStay
<1>2. ASSUME NEW r \in Request, Truncate(r) PROVE WriteInv'
  <2>1. /\ UNCHANGED <<backup, staging, step, late>> /\ Exists(root)
        /\ root' = [root EXCEPT !.torn = TRUE, !.stamp = clock + 1]
    BY <1>2 DEF Truncate
  <2>2. root'.torn /\ Exists(root')
    <3>1. root \in Tree([Episode -> Nat])
      BY <1>0, <2>1, TreeTypes
    <3>2. root'.torn
      BY <2>1, <3>1 DEF Tree
    <3> QED
      BY <3>2 DEF Exists, Gone
  <2> QED
    BY <2>1, <2>2 DEF WriteInv, Exists
<1>3. ASSUME NEW r \in Request, Written(r) PROVE WriteInv'
  <2>1. PICK torn \in BOOLEAN :
               /\ root' = Filled(r, root, torn)
               /\ backup' = Filled(r, backup, torn)
               /\ (\E q \in Request \ {r} : req[q].pc = "write") => torn
    BY <1>0, <1>3, WrittenTrees
  <2>2. /\ UNCHANGED <<staging, step, late>> /\ Others(r)
        /\ req[r].pc = "write" /\ req'[r].pc # "write"
    <3>1. /\ UNCHANGED <<staging, step, late>> /\ Others(r)
          /\ <<req[r].pc, req'[r].pc>> \in
                {<<"lock", "table">>, <<"table", "towrite">>,
                 <<"towrite", "write">>, <<"write", "clear">>,
                 <<"towrite", "clear">>}
      BY <1>0, <1>3, MirrorStep
    <3>2. req[r].pc = "write"
      BY <1>3 DEF Written, Thread
    <3> QED
      BY <3>1, <3>2
  <2>3. Writing' => torn
    BY <2>1, <2>2 DEF Writing, Others
  <2>4. Writing
    BY <2>2 DEF Writing
  <2>5. ASSUME NEW t \in {root, backup}
        PROVE  /\ Exists(Filled(r, t, torn)) <=> Exists(t)
               /\ torn => (t.torn <=> Filled(r, t, torn).torn)
               /\ Filled(r, t, torn).torn => t.torn
    <3>1. Exists(Filled(r, t, torn)) <=> Exists(t)
      BY <1>0, <2>2, FilledShape, TreeTypes
    <3>2. CASE Exists(t) /\ t.torn
      <4>1. t \in Tree([Episode -> Nat])
        BY <1>0, <3>2, TreeTypes
      <4>2. Filled(r, t, torn).torn = torn
        BY <3>2, <4>1 DEF Filled, Tree
      <4> QED
        BY <3>1, <3>2, <4>2
    <3>3. CASE ~(Exists(t) /\ t.torn)
      BY <3>1, <3>3 DEF Filled
    <3> QED
      BY <3>2, <3>3
  <2> QED
    BY <2>1, <2>2, <2>3, <2>4, <2>5 DEF WriteInv, Exists
<1>4. CASE Commits
  BY <1>0, <1>4, CommitsUnchanged, CommitMoves, CommitWrites
<1>5. CASE Evict \/ UNCHANGED vars
  <2>1. UNCHANGED <<commitVars, req>>
    BY <1>5 DEF Evict, vars
  <2> QED
    BY <2>1, WriteStay DEF Writing, commitVars
<1>6. CASE Stop
  <2>1. /\ UNCHANGED <<trees, late>> /\ step' = "idle"
        /\ \A q \in Request : req'[q].pc \in {"new", "done", "failed"}
    BY <1>0, <1>6, StopStep DEF Ended
  <2> QED
    BY <2>1, WriteStay DEF Writing
<1> QED
  BY <1>1, <1>2, <1>3, <1>4, <1>5, <1>6, AllSteps DEF Mirrors

(* What a step of request r does to a context: it keeps it, or clears or   *)
(* installs its cache, or makes it anew where no request under way has its *)
(* own.                                                                    *)
LEMMA ContextsMove ==
    ASSUME RequestsInv, NEW r \in Request, NEW i \in Context,
           \/ Begin(r) \/ Reads(r) \/ File(r) \/ Fails(r) \/ Save(r)
           \/ Mirrors(r) \/ Clear(r) \/ Enter(r) \/ Leave(r)
    PROVE  \/ /\ contexts'[i].stamp = contexts[i].stamp
              /\ \/ contexts'[i].cache = contexts[i].cache
                 \/ contexts'[i].cache = NoRows
                 \/ /\ File(r) /\ i = req[r].ctx
                    /\ contexts'[i].cache = req[r].rows
           \/ /\ i = Free /\ Exists(root)
              /\ contexts'[i].stamp = root.stamp
              /\ contexts'[i].cache = NoRows
<1>1. CASE UNCHANGED contexts
  BY <1>1
<1>2. CASE \E dict : contexts' = [contexts EXCEPT ![Free] = New(dict)]
                     /\ Exists(root)
  <2>1. PICK dict : contexts' = [contexts EXCEPT ![Free] = New(dict)]
                    /\ Exists(root)
    BY <1>2
  <2>2. CASE i = Free
    <3>1. contexts'[i] = New(dict)
      BY <2>1, <2>2, RequestTypes
    <3> QED
      BY <2>1, <2>2, <3>1 DEF New
  <2>3. CASE i # Free
    <3>1. contexts'[i] = contexts[i]
      BY <2>1, <2>3, RequestTypes
    <3> QED
      BY <3>1
  <2> QED
    BY <2>2, <2>3
<1>3. CASE Begin(r)
  BY <1>1, <1>2, <1>3, BeginStep DEF memory
<1>4. CASE File(r)
  <2>1. /\ contexts' = IF req[r].kind = "list"
                THEN [contexts EXCEPT ![req[r].ctx].cache = req[r].rows]
                ELSE contexts
    BY <1>4, FileStep
  <2> QED
    BY <1>4, <2>1, RequestTypes
<1>5. CASE Clear(r)
  <2>1. contexts' = [contexts EXCEPT ![req[r].ctx].cache = NoRows]
    BY <1>5, ClearStep
  <2> QED
    BY <2>1, RequestTypes
<1>6. CASE Leave(r)
  BY <1>1, <1>2, <1>6, LeaveStep
<1>7. CASE Reads(r) \/ Fails(r) \/ Save(r) \/ Mirrors(r) \/ Enter(r)
  <2>1. UNCHANGED memory
    BY <1>7, ReadingStep, FailsStep, SaveStep, MirrorStep, EnterStep
       DEF Reads, Fails, Mirrors
  <2> QED
    BY <1>1, <2>1 DEF memory
<1> QED
  BY <1>3, <1>4, <1>5, <1>6, <1>7

(* No modification time is later than the last given.                      *)
StampInv == /\ Exists(root) => root.stamp <= clock
            /\ Exists(backup) => backup.stamp <= clock
            /\ Exists(staging) => staging.stamp <= clock
            /\ \A i \in Context : contexts[i].stamp <= clock

LEMMA StampTypes ==
    ASSUME RequestsInv
    PROVE  /\ clock \in Nat
           /\ Exists(root) => root.stamp \in Nat
           /\ Exists(backup) => backup.stamp \in Nat
           /\ Exists(staging) => staging.stamp \in Nat
           /\ \A i \in Context : contexts[i].stamp \in Nat
<1>1. \A i \in Context : contexts[i].stamp \in Nat
  <2>1. contexts \in [Context -> [stamp : Nat, dict : Nat,
                                  cache : Rows \cup {NoRows}]]
    BY DEF RequestsInv, TypeOK
  <2> QED
    BY <2>1
<1>2. \A t \in Tree([Episode -> Nat]) : t.stamp \in Nat
  BY DEF Tree
<1>3. clock \in Nat
  BY TreeTypes
<1> QED
  BY <1>1, <1>2, <1>3, TreeTypes

(* A write gives what it writes the time of its end, and lets the rest be. *)
LEMMA WrittenStamps ==
    ASSUME RequestsInv, NEW r \in Request, Written(r)
    PROVE  /\ req[r].pc = "write"
           /\ Exists(root') <=> Exists(root)
           /\ Exists(backup') <=> Exists(backup)
           /\ Exists(root) => \/ root.torn /\ root'.stamp = clock + 1
                              \/ ~root.torn /\ root'.stamp = root.stamp
           /\ Exists(backup) =>
                  \/ backup.torn /\ backup'.stamp = clock + 1
                  \/ ~backup.torn /\ backup'.stamp = backup.stamp
<1>1. PICK torn \in BOOLEAN : /\ root' = Filled(r, root, torn)
                              /\ backup' = Filled(r, backup, torn)
  BY WrittenTrees
<1>2. req[r].pc = "write"
  BY DEF Written, Thread
<1>3. ASSUME NEW t \in {root, backup}
      PROVE  /\ Exists(Filled(r, t, torn)) <=> Exists(t)
             /\ Exists(t) => \/ t.torn /\ Filled(r, t, torn).stamp = clock + 1
                             \/ /\ ~t.torn
                                /\ Filled(r, t, torn).stamp = t.stamp
  <2>1. Exists(Filled(r, t, torn)) <=> Exists(t)
    BY <1>2, FilledShape, TreeTypes
  <2>2. CASE Exists(t) /\ t.torn
    <3>1. t \in Tree([Episode -> Nat])
      BY <2>2, TreeTypes
    <3>2. Filled(r, t, torn).stamp = clock + 1
      BY <2>2, <3>1 DEF Filled, Tree
    <3> QED
      BY <2>1, <2>2, <3>2
  <2>3. CASE Exists(t) /\ ~t.torn
    BY <2>1, <2>3 DEF Filled
  <2>4. CASE ~Exists(t)
    BY <2>1, <2>4
  <2> QED
    BY <2>2, <2>3, <2>4
<1> QED
  BY <1>1, <1>2, <1>3

LEMMA StampNext ==
    ASSUME DiskInv, StampInv, [Next]_vars
    PROVE  StampInv'
<1>0. RequestsInv /\ StepInv
  BY DEF DiskInv
<1>1. ASSUME NEW r \in Request,
             \/ Begin(r) \/ Reads(r) \/ File(r) \/ Fails(r) \/ Save(r)
             \/ Acquire(r) \/ Build(r) \/ Skip(r) \/ Clear(r)
             \/ Enter(r) \/ Leave(r)
      PROVE  StampInv'
  <2>1. UNCHANGED <<trees, clock>>
    BY <1>0, <1>1, DiskAlone
  <2>2. ASSUME NEW i \in Context PROVE contexts'[i].stamp <= clock
    <3>1. \/ contexts'[i].stamp = contexts[i].stamp
          \/ Exists(root) /\ contexts'[i].stamp = root.stamp
      BY <1>0, <1>1, ContextsMove DEF Mirrors
    <3> QED
      BY <3>1 DEF StampInv
  <2> QED
    BY <2>1, <2>2 DEF StampInv, trees, Exists
<1>2. ASSUME NEW r \in Request, Truncate(r) PROVE StampInv'
  <2>1. /\ UNCHANGED <<backup, staging, memory>> /\ Exists(root)
        /\ root' = [root EXCEPT !.torn = TRUE, !.stamp = clock + 1]
        /\ clock' = clock + 1
    BY <1>2 DEF Truncate
  <2>2. root'.stamp = clock + 1
    BY <1>0, <2>1, TreeTypes DEF Tree
  <2> QED
    BY <1>0, <2>1, <2>2, StampTypes DEF StampInv, Exists, memory
<1>3. ASSUME NEW r \in Request, Written(r) PROVE StampInv'
  <2>1. /\ UNCHANGED <<staging, memory>> /\ clock' = clock + 1
    BY <1>3 DEF Written
  <2> QED
    BY <1>0, <1>3, <2>1, WrittenStamps, StampTypes
       DEF StampInv, Exists, memory
<1>4. CASE Commits
  <2>1. UNCHANGED memory
    BY <1>4, CommitsUnchanged
  <2>2. StepInv'
    BY <1>4, DiskNext DEF DiskInv
  <2>3. /\ clock' \in Nat /\ clock' >= clock
        /\ Exists(root)' => root'.stamp <= clock'
        /\ Exists(backup)' => backup'.stamp <= clock'
        /\ Exists(staging)' => staging'.stamp <= clock'
    <3>0. ~Exists(Gone)
      BY DEF Exists
    <3> USE <1>0, <3>0, StampTypes DEF StampInv, Exists
    <3>1. CASE Passes
      BY <3>1 DEF Passes, trees
    <3>2. CASE Sweeps
      <4>1. /\ root' = root /\ clock' = clock
            /\ \/ backup' = backup \/ backup' = Gone
               \/ backup # Gone /\ backup' = Trimmed(backup)
            /\ staging' = staging \/ staging' = Gone
        BY <3>2 DEF Sweeps
      <4> QED
        BY <4>1, TrimmedTree
    <3>3. CASE Returns
      BY <3>3 DEF Returns
    <3>4. CASE Moves
      BY <3>4 DEF Moves
    <3>5. CASE Copies
      BY <3>5, TrimmedTree DEF Copies
    <3>6. CASE Mutates
      BY <3>6 DEF Mutates
    <3>7. CASE Promotes
      BY <3>7 DEF Promotes
    <3>8. CASE Undoes
      BY <3>8, TrimmedTree DEF Undoes
    <3> QED
      BY <1>4, <3>1, <3>2, <3>3, <3>4, <3>5, <3>6, <3>7, <3>8,
         CommitsUnchanged, CommitMoves
  <2>4. \A i \in Context : contexts'[i].stamp <= clock'
    BY <1>0, <2>1, <2>3, StampTypes DEF StampInv, memory
  <2> QED
    BY <2>3, <2>4 DEF StampInv
<1>5. CASE Evict \/ UNCHANGED vars
  <2>1. UNCHANGED <<commitVars, contexts>>
    BY <1>5 DEF Evict, vars, memory
  <2> QED
    BY <2>1 DEF StampInv, commitVars, trees, Exists
<1>6. CASE Stop
  <2>1. /\ UNCHANGED <<trees, clock>>
        /\ contexts' = [i \in Context |-> NoContext]
    BY <1>0, <1>6, StopStep
  <2>2. \A i \in Context : contexts'[i].stamp = 0
    BY <2>1 DEF NoContext
  <2> QED
    BY <1>0, <2>1, <2>2, StampTypes DEF StampInv, trees, Exists
<1> QED
  BY <1>1, <1>2, <1>3, <1>4, <1>5, <1>6, AllSteps DEF Mirrors

(* A request under way; its record at its next step.                       *)
Owing(s) == s.pc \notin {"new", "done", "failed"}
Names(s, e) == \E i \in DOMAIN s.on : s.on[i] = e
Moving(r) == \/ Begin(r) \/ Reads(r) \/ File(r) \/ Fails(r) \/ Save(r)
             \/ Mirrors(r) \/ Clear(r) \/ Enter(r) \/ Leave(r)

LEMMA RecordMoves ==
    ASSUME RequestsInv, NEW r \in Request, Moving(r)
    PROVE  /\ Others(r) /\ Same(req'[r], req[r]) /\ req[r].pc # "done"
           /\ \/ /\ req'[r].pc \in {"failed", "new"} /\ req'[r].got = NoRows
                 /\ req'[r].floor = [e \in Episode |-> 0]
              \/ Begin(r)
              \/ Save(r)
              \/ File(r)
              \/ /\ Owing(req[r]) /\ req'[r].floor = req[r].floor
                 /\ req'[r].got = req[r].got /\ req'[r].pc # "new"
                 /\ Owing(req'[r]) /\ req[r].kind = "bulk" =>
                        req'[r].for = req[r].for
                 /\ \/ req'[r].pc \notin {"file", "save"}
                    \/ Load(r)
<1>1. CASE Begin(r)
  BY <1>1, BeginStep
<1>2. CASE Reads(r)
  <2>1. /\ Others(r) /\ Stays(req'[r], req[r]) /\ req'[r].got = req[r].got
        /\ <<req[r].pc, req'[r].pc>> \in
                {<<"count", "insert">>, <<"insert", "mstats">>,
                 <<"stats", "wstats">>, <<"mstats", "mwstats">>,
                 <<"wstats", "lock">>, <<"mwstats", "count">>,
                 <<"count", "file">>, <<"count", "save">>}
    BY <1>2, ReadingStep DEF Reads
  <2>2. ~Load(r) => req'[r].pc \notin {"file", "save"}
    <3>1. CASE Count(r) \/ Insert(r) \/ WriteStats(r) \/ ReadStats(r)
      <4>1. \E pc \in {"insert", "mstats", "wstats", "mwstats",
                       "lock", "count"} : \E sum :
                req'[r] = [req[r] EXCEPT !.pc = pc, !.sum = sum]
        <5>1. CASE Count(r) \/ Insert(r)
          <6>1. req'[r] = [req[r] EXCEPT !.pc = "insert"]
                \/ req'[r] = [req[r] EXCEPT !.pc = "mstats"]
            BY <5>1, OneChanges DEF Count, Insert, Then
          <6>2. \A pc : [req[r] EXCEPT !.pc = pc] =
                        [req[r] EXCEPT !.pc = pc, !.sum = req[r].sum]
            BY RequestTypes DEF RequestRecord
          <6> QED
            BY <6>1, <6>2
        <5>2. CASE WriteStats(r) \/ ReadStats(r)
          <6>1. \E pc \in {"wstats", "mwstats", "lock", "count"} : \E sum :
                    To(r, [req[r] EXCEPT !.pc = pc, !.sum = sum])
            BY <5>2 DEF WriteStats, ReadStats
          <6>2. PICK pc \in {"wstats", "mwstats", "lock", "count"} :
                        \E sum : To(r, [req[r] EXCEPT !.pc = pc, !.sum = sum])
            BY <6>1
          <6>2a. PICK sum : To(r, [req[r] EXCEPT !.pc = pc, !.sum = sum])
            BY <6>2
          <6>3. req'[r] = [req[r] EXCEPT !.pc = pc, !.sum = sum]
            BY <6>2a, OneChanges
          <6> QED
            BY <6>3
        <5> QED
          BY <3>1, <5>1, <5>2
      <4>2. PICK pc \in {"insert", "mstats", "wstats", "mwstats",
                         "lock", "count"} :
                    \E sum : req'[r] = [req[r] EXCEPT !.pc = pc, !.sum = sum]
        BY <4>1
      <4>2a. PICK sum : req'[r] = [req[r] EXCEPT !.pc = pc, !.sum = sum]
        BY <4>2
      <4> QED
        BY <4>2, <4>2a, RequestTypes DEF RequestRecord
    <3> QED
      BY <1>2, <3>1 DEF Reads
  <2> QED
    BY <2>1, <2>2 DEF Stays, Owing
<1>3. CASE File(r)
  BY <1>3, FileStep
<1>4. CASE Fails(r)
  BY <1>4, FailsStep DEF Fails
<1>5. CASE Save(r)
  BY <1>5, SaveStep
<1>6. CASE Mirrors(r)
  <2>1. /\ Others(r) /\ Stays(req'[r], req[r]) /\ req'[r].got = req[r].got
        /\ <<req[r].pc, req'[r].pc>> \in
                {<<"lock", "table">>, <<"table", "towrite">>,
                 <<"towrite", "write">>, <<"write", "clear">>,
                 <<"towrite", "clear">>}
    BY <1>6, MirrorStep DEF Mirrors
  <2> QED
    BY <2>1 DEF Stays, Owing
<1>7. CASE Clear(r)
  BY <1>7, ClearStep DEF Owing
<1>8. CASE Enter(r)
  BY <1>8, EnterStep DEF Stays, Owing
<1>9. CASE Leave(r)
  BY <1>9, LeaveStep DEF Owing
<1> QED
  BY <1>1, <1>2, <1>3, <1>4, <1>5, <1>6, <1>7, <1>8, <1>9 DEF Moving

(* What a request has of rows, and which episodes it has left.             *)
Knows(s) ==
    /\ s.pc = "new" \/ s.kind = "bulk" => s.got = NoRows
    /\ Owing(s) /\ s.kind = "bulk" => s.for = "edit"
    /\ s.pc = "file" => s.for # "edit"
    /\ s.pc = "save" => \A i \in DOMAIN s.left : Names(s, s.left[i])

LEMMA LoadStep ==
    ASSUME RequestsInv, NEW r \in Request, Load(r)
    PROVE  /\ req[r].pc = "count" /\ req'[r].left = req[r].left
           /\ req'[r].on = req[r].on /\ req'[r].for = req[r].for
           /\ req'[r].ctx = req[r].ctx
           /\ req'[r].pc = "save" => req[r].for = "edit"
           /\ req'[r].pc = "file" => req[r].for # "edit" /\ req'[r].rows = db
           /\ UNCHANGED <<commitVars, db, memory, marks>>
<1>1. /\ To(r, [req[r] EXCEPT !.rows = db,
                 !.pc = IF req[r].for = "edit" THEN "save" ELSE "file"])
      /\ req[r].pc = "count"
      /\ UNCHANGED <<commitVars, db, memory, marks>>
  BY DEF Load, Counted, Segment
<1>2. req'[r] = [req[r] EXCEPT !.rows = db,
                    !.pc = IF req[r].for = "edit" THEN "save" ELSE "file"]
  BY <1>1, OneChanges
<1> QED
  BY <1>1, <1>2, RequestTypes DEF RequestRecord

KnowsInv == \A r \in Request : Knows(req[r])

LEMMA KnowsMoves ==
    ASSUME RequestsInv, RequestsInv', KnowsInv, NEW r \in Request, Moving(r)
    PROVE  KnowsInv'
<1>0. /\ Others(r) /\ Same(req'[r], req[r]) /\ Knows(req[r])
      /\ req[r] \in RequestRecord /\ Proper(req[r])
  BY RecordMoves, RequestTypes DEF KnowsInv
<1> SUFFICES Knows(req'[r])
  BY <1>0 DEF KnowsInv, Others
<1>1. CASE req'[r].pc \in {"failed", "new"} /\ req'[r].got = NoRows
  BY <1>1 DEF Knows, Owing
<1>2. CASE Begin(r)
  <2>1. req[r].pc = "new" /\ req[r].got = NoRows
    BY <1>0, <1>2, BeginStep DEF Knows
  <2>2. /\ req'[r].pc \in {"failed", "commit", "count", "done"}
        /\ req[r].kind = "bulk" => req'[r].got = NoRows
        /\ Owing(req'[r]) => (req'[r].for # "answer" <=> Edits(r))
    BY <1>2, <2>1, BeginStep DEF Owing
  <2>3. req'[r] \in RequestRecord /\ Proper(req'[r])
    BY DEF RequestsInv, TypeOK
  <2>4. Owing(req'[r]) /\ req'[r].kind = "bulk" => req'[r].for = "edit"
    BY <1>0, <2>2, <2>3 DEF Owing, RequestRecord, Proper, Asking, Edits, Same
  <2> QED
    BY <1>0, <2>2, <2>4 DEF Knows, Same
<1>3. CASE Save(r)
  <2>1. /\ req'[r].pc \in {"save", "stats"}
        /\ req'[r].got \in {req[r].got, NoRows} /\ req'[r].for = req[r].for
        /\ req[r].left \in Seq(Episode) /\ req[r].left # <<>>
        /\ req[r].pc = "count" => req[r].left = req[r].on
        /\ req'[r].left = Tail(req[r].left) /\ req[r].pc \in {"count", "save"}
    BY <1>3, SaveStep
  <2>2. \A i \in DOMAIN req[r].left : Names(req[r], req[r].left[i])
    BY <1>0, <2>1 DEF Knows, Names
  <2>3. \A i \in DOMAIN Tail(req[r].left) :
            \E j \in DOMAIN req[r].left :
                Tail(req[r].left)[i] = req[r].left[j]
    BY <2>1
  <2>4. \A i \in DOMAIN req'[r].left : Names(req'[r], req'[r].left[i])
    <3>1. \A e : Names(req'[r], e) <=> Names(req[r], e)
      BY <1>0 DEF Same, Names
    <3> QED
      BY <2>1, <2>2, <2>3, <3>1
  <2> QED
    BY <1>0, <2>1, <2>4 DEF Knows, Same, Owing
<1>4. CASE File(r)
  <2>1. /\ req[r].pc = "file" /\ req'[r].pc \in {"count", "done"}
    BY <1>0, <1>4, FileStep DEF RequestRecord
  <2>2. req[r].kind # "bulk"
    BY <1>0, <2>1 DEF Knows, Owing
  <2> QED
    BY <1>0, <2>1, <2>2 DEF Knows, Same
<1>5. CASE /\ Owing(req[r]) /\ req'[r].got = req[r].got /\ req'[r].pc # "new"
           /\ Owing(req'[r]) /\ req[r].kind = "bulk" =>
                  req'[r].for = req[r].for
           /\ req'[r].pc \notin {"file", "save"} \/ Load(r)
  <2>1. /\ req'[r].pc = "file" => req'[r].for # "edit"
        /\ req'[r].pc = "save" =>
               \A i \in DOMAIN req'[r].left : Names(req'[r], req'[r].left[i])
    <3>1. CASE req'[r].pc \notin {"file", "save"}
      BY <3>1
    <3>2. CASE Load(r)
      <4>1. /\ req[r].pc = "count" /\ req'[r].left = req[r].left
            /\ req'[r].on = req[r].on /\ req'[r].for = req[r].for
            /\ req'[r].pc = "save" => req[r].for = "edit"
            /\ req'[r].pc = "file" => req[r].for # "edit"
        BY <3>2, LoadStep
      <4>2. req'[r].pc = "save" => req[r].left = req[r].on
        BY <1>0, <4>1 DEF Proper, Asking
      <4> QED
        BY <4>1, <4>2 DEF Names
    <3> QED
      BY <1>5, <3>1, <3>2
  <2> QED
    BY <1>0, <1>5, <2>1 DEF Knows, Same, Owing
<1> QED
  BY <1>1, <1>2, <1>3, <1>4, <1>5, RecordMoves

(* Steps of no request that the caches and the answers depend on.          *)
Aside == \/ Commits /\ UNCHANGED <<db, memory, req>>
         \/ UNCHANGED <<commitVars, db, contexts, req>>

LEMMA RestSteps ==
    ASSUME Next
    PROVE  (\E r \in Request : Moving(r)) \/ Aside \/ Stop
<1>1. Commits => UNCHANGED <<db, memory, req>>
  BY CommitsUnchanged DEF memory
<1>2. Evict => UNCHANGED <<commitVars, db, contexts, req>>
  BY DEF Evict
<1> QED
  BY <1>1, <1>2, AllSteps DEF Moving, Aside

LEMMA KnowsNext ==
    ASSUME RequestsInv, RequestsInv', KnowsInv, [Next]_vars
    PROVE  KnowsInv'
<1>1. CASE UNCHANGED req
  BY <1>1 DEF KnowsInv
<1>2. CASE Stop
  <2>1. ASSUME NEW q \in Request PROVE Knows(req'[q])
    <3>1. \/ req'[q] = req[q]
          \/ req'[q].pc = "failed" /\ req'[q].got = NoRows
      BY <1>2, StopStep
    <3> QED
      BY <3>1 DEF KnowsInv, Knows, Owing
  <2> QED
    BY <2>1 DEF KnowsInv
<1> QED
  BY <1>1, <1>2, KnowsMoves, RestSteps DEF Aside, vars
-----------------------------------------------------------------------------
(* A request is obliged by its own saves, or by an answer given.           *)
Answered(e, n) == \E d \in Request : req[d].pc = "done" /\ req[d].floor[e] >= n
FloorInv == \A r \in Request, e \in Episode : Owing(req[r]) =>
    \/ Editor(req[r]) /\ Names(req[r], e)
    \/ req[r].floor[e] = 0
    \/ Answered(e, req[r].floor[e])

LEMMA FloorMoves ==
    ASSUME RequestsInv, KnowsInv, FloorInv, NEW r \in Request, Moving(r)
    PROVE  FloorInv'
<1>0. /\ Others(r) /\ Same(req'[r], req[r]) /\ req[r].pc # "done"
      /\ Knows(req[r]) /\ req[r] \in RequestRecord
      /\ req[r].floor \in [Episode -> Nat]
  BY RecordMoves, RequestTypes DEF KnowsInv, RequestRecord
<1>1. \A d \in Request : req[d].pc = "done" => req'[d] = req[d]
  BY <1>0 DEF Others
<1>2. ASSUME NEW e \in Episode, NEW n, Answered(e, n)
      PROVE  \E d \in Request : req'[d].pc = "done" /\ req'[d].floor[e] >= n
  BY <1>1, <1>2 DEF Answered
<1>3. \A e : Editor(req'[r]) /\ Names(req'[r], e)
             <=> Editor(req[r]) /\ Names(req[r], e)
  BY <1>0 DEF Same, Editor, Names
<1> SUFFICES ASSUME NEW q \in Request, NEW e \in Episode, Owing(req'[q])
             PROVE  \/ Editor(req'[q]) /\ Names(req'[q], e)
                    \/ req'[q].floor[e] = 0
                    \/ \E d \in Request : /\ req'[d].pc = "done"
                                          /\ req'[d].floor[e] >= req'[q].floor[e]
  BY DEF FloorInv, Answered
<1>4. CASE \/ q # r
           \/ q = r /\ Owing(req[r]) /\ req'[r].floor[e] = req[r].floor[e]
  <2>1. /\ Owing(req[q]) /\ req'[q].floor[e] = req[q].floor[e]
        /\ Editor(req'[q]) /\ Names(req'[q], e)
             <=> Editor(req[q]) /\ Names(req[q], e)
    BY <1>0, <1>3, <1>4 DEF Others
  <2> QED
    BY <1>2, <2>1 DEF FloorInv
<1>5. CASE q = r /\ Begin(r)
  <2>1. req'[r].floor = Owed
    BY <1>5, BeginStep DEF Owing
  <2>2. Owed[e] = 0 \/ Answered(e, Owed[e])
    <3>1. \/ Owed[e] = 0
          \/ \E d \in Request : /\ req[d].pc = "done"
                                /\ Owed[e] = req[d].floor[e]
      BY OwedIsGreatest
    <3>2. Owed[e] \in Nat
      BY OwedIsGreatest
    <3> QED
      BY <3>1, <3>2 DEF Answered
  <2> QED
    BY <1>2, <1>5, <2>1, <2>2
<1>6. CASE q = r /\ Save(r) /\ req'[r].floor[e] # req[r].floor[e]
  <2>1. /\ Editor(req[r]) /\ req[r].left \in Seq(Episode)
        /\ req[r].left # <<>> /\ req[r].pc \in {"count", "save"}
        /\ req[r].pc = "count" => req[r].left = req[r].on
    BY <1>6, SaveStep
  <2>2. e = Head(req[r].left)
    BY <1>0, <1>6, SaveStep
  <2>3. 1 \in DOMAIN req[r].left /\ Head(req[r].left) = req[r].left[1]
    BY <2>1
  <2>4. Names(req[r], e)
    BY <1>0, <2>1, <2>2, <2>3 DEF Knows, Names
  <2> QED
    BY <1>3, <1>6, <2>1, <2>4
<1>7. Save(r) \/ File(r) => Owing(req[r])
  BY SaveStep, FileStep DEF Owing
<1>8. File(r) => req'[r].floor = req[r].floor
  BY FileStep
<1> QED
  BY <1>4, <1>5, <1>6, <1>7, <1>8, RecordMoves DEF Owing

LEMMA FloorNext ==
    ASSUME RequestsInv, KnowsInv, FloorInv, [Next]_vars
    PROVE  FloorInv'
<1>1. CASE UNCHANGED req
  BY <1>1 DEF FloorInv, Answered
<1>2. CASE Stop
  <2>1. \A q \in Request : \/ req[q].pc = "done" /\ req'[q] = req[q]
                           \/ ~Owing(req'[q])
    BY <1>2, StopStep DEF Ended, Owing
  <2> QED
    BY <2>1 DEF FloorInv, Owing
<1> QED
  BY <1>1, <1>2, FloorMoves, RestSteps DEF Aside, vars
-----------------------------------------------------------------------------
(* What a cache with this stamp is not used any more for: the data set is  *)
(* newer, where it is, and in the copy that a commit puts in its place.    *)
Past(rt, bk, sg, sp, s) ==
    /\ Exists(rt) => rt.stamp > s
    /\ ~Exists(rt) /\ Exists(bk) => bk.stamp > s
    /\ sp \in {"mutate", "promote"} /\ ~sg.torn => sg.stamp > s
Below(s) == Past(root, backup, staging, step, s)

LEMMA BelowCommit ==
    ASSUME DiskInv, WriteInv, StampInv, ~late', StepInv',
           NEW s \in Nat, s <= clock, Below(s),
           \/ Passes \/ Sweeps \/ Returns \/ Moves \/ Copies \/ Mutates
           \/ Promotes \/ Undoes,
           late => late'
    PROVE  Past(root', backup', staging', step', s)
<1>0. RequestsInv /\ StepInv /\ ~late /\ ~Exists(Gone)
  BY DEF DiskInv, Exists
<1> USE <1>0, StampTypes DEF Below, Past, StampInv, Exists
<1>1. CASE Passes
  BY <1>1 DEF Passes, trees
<1>2. CASE Sweeps
  <2>1. /\ root' = root /\ step' \notin {"mutate", "promote"}
        /\ ~Exists(root) => backup' = backup
    BY <1>2 DEF Sweeps
  <2> QED
    BY <2>1
<1>3. CASE Returns
  BY <1>3 DEF Returns
<1>4. CASE Moves
  BY <1>4 DEF Moves
<1>5. CASE Copies
  BY <1>5, TrimmedTree DEF Copies
<1>6. CASE Mutates
  BY <1>6 DEF Mutates
<1>7. CASE Promotes
  BY <1>7 DEF Promotes, WriteInv
<1>8. CASE Undoes
  BY <1>8 DEF Undoes
<1> QED
  BY <1>1, <1>2, <1>3, <1>4, <1>5, <1>6, <1>7, <1>8

LEMMA BelowNext ==
    ASSUME DiskInv, DiskInv', WriteInv, StampInv, [Next]_vars, ~late',
           NEW s \in Nat, s <= clock, Below(s)
    PROVE  Past(root', backup', staging', step', s)
<1>0. RequestsInv /\ StepInv /\ StepInv'
  BY DEF DiskInv
<1>1. CASE UNCHANGED trees /\ step' \in {step, "idle", "recover"}
  BY <1>1 DEF Below, Past, trees
<1>2. ASSUME NEW r \in Request, Truncate(r)
      PROVE  Past(root', backup', staging', step', s)
  <2>1. /\ UNCHANGED <<backup, staging, step>> /\ Exists(root)
        /\ root' = [root EXCEPT !.torn = TRUE, !.stamp = clock + 1]
    BY <1>2 DEF Truncate
  <2>2. root'.stamp = clock + 1 /\ root'.torn /\ clock \in Nat
    BY <1>0, <2>1, TreeTypes DEF Tree
  <2>3. Exists(root') /\ (Exists(staging) <=> Exists(staging'))
    BY <2>1, <2>2 DEF Exists, Gone
  <2> QED
    BY <1>0, <2>1, <2>2, <2>3 DEF Below, Past
<1>3. ASSUME NEW r \in Request, Written(r)
      PROVE  Past(root', backup', staging', step', s)
  <2>1. UNCHANGED <<staging, step>>
    BY <1>3 DEF Written
  <2> QED
    BY <1>0, <1>3, <2>1, WrittenStamps, StampTypes DEF Below, Past
<1>4. CASE Commits
  BY <1>0, <1>4, BelowCommit, CommitsUnchanged, CommitMoves
<1>5. ASSUME NEW r \in Request,
             \/ Begin(r) \/ Reads(r) \/ File(r) \/ Fails(r) \/ Save(r)
             \/ Acquire(r) \/ Build(r) \/ Skip(r) \/ Clear(r)
             \/ Enter(r) \/ Leave(r)
      PROVE  UNCHANGED trees /\ step' \in {step, "idle", "recover"}
  BY <1>0, <1>5, DiskAlone
<1>6. CASE Evict \/ UNCHANGED vars
  <2>1. UNCHANGED <<trees, step>>
    BY <1>6 DEF Evict, vars, commitVars
  <2> QED
    BY <1>1, <2>1
<1>7. CASE Stop
  BY <1>0, <1>1, <1>7, StopStep
<1> QED
  BY <1>1, <1>2, <1>3, <1>4, <1>5, <1>6, <1>7, AllSteps DEF Mirrors

(* After a write of the episode file, all there was is below.              *)
LEMMA WrittenPast ==
    ASSUME DiskInv, WriteInv, StampInv, ~late, NEW r \in Request, Written(r),
           NEW s \in Nat, s <= clock
    PROVE  Past(root', backup', staging', step', s)
<1>0. RequestsInv /\ StepInv /\ clock \in Nat
  BY StampTypes DEF DiskInv
<1>1. UNCHANGED <<staging, step>> /\ req[r].pc = "write"
  BY DEF Written, Thread
<1>2. Writing
  BY <1>1 DEF Writing
<1>3. Exists(root) => root'.stamp = clock + 1
  BY <1>0, <1>2, WrittenStamps DEF WriteInv
<1>4. ~Exists(root) /\ Exists(backup) => backup'.stamp = clock + 1
  BY <1>0, <1>2, WrittenStamps DEF WriteInv
<1>5. step \in {"mutate", "promote"} => staging.torn
  BY <1>0, <1>2 DEF WriteInv, StepInv
<1> QED
  BY <1>0, <1>1, <1>3, <1>4, <1>5, WrittenStamps DEF Past
-----------------------------------------------------------------------------
(* The floors that rows read before must reach: those of an answer given,  *)
(* and of an edit that is in the file, for its episodes.                   *)
Obliges(s, e) == s.pc = "done" \/ (Wrote(s) /\ Names(s, e))

(* The rows reach them, or are not used any more.                          *)
Upto(requests, rows, past) == \A q \in Request, e \in Episode :
    Obliges(requests[q], e) => rows[e].save >= requests[q].floor[e] \/ past

Reaches(s, rows) == \A e \in Episode : rows[e].save >= s.floor[e]

Excepted == "skipped" \in marks \/ late

CacheInv == Excepted \/
    /\ \A i \in Context : contexts[i].cache # NoRows =>
           Upto(req, contexts[i].cache, Below(contexts[i].stamp))
    /\ \A r \in Request : req[r].pc = "file" =>
           /\ Upto(req, req[r].rows, Below(contexts[req[r].ctx].stamp))
           /\ Reaches(req[r], req[r].rows)
    /\ \A r \in Request : req[r].got # NoRows => Reaches(req[r], req[r].got)

(* What is newly obliged was before, by as much, or the file was written.  *)
Covered(q, e) ==
    \/ req'[q].floor[e] = 0
    \/ \E d \in Request : /\ Obliges(req[d], e)
                          /\ req[d].floor[e] >= req'[q].floor[e]

LEMMA ObligesMoves ==
    ASSUME RequestsInv, FloorInv, NEW r \in Request, Moving(r),
           ~Written(r), ~Skip(r), NEW q \in Request, NEW e \in Episode,
           Obliges(req'[q], e)
    PROVE  Covered(q, e)
<1>0. /\ Others(r) /\ Same(req'[r], req[r]) /\ req[r].pc # "done"
      /\ \A d \in Request : req[d] \in RequestRecord
                            /\ req[d].floor[e] \in Nat
      /\ Proper(req[r])
  BY RecordMoves, RequestTypes DEF RequestRecord
<1>1. /\ Names(req'[r], e) <=> Names(req[r], e)
      /\ Editor(req'[r]) <=> Editor(req[r])
  BY <1>0 DEF Same, Names, Editor
<1>2. CASE q # r
  BY <1>0, <1>2 DEF Others, Covered
<1>3. ASSUME Obliges(req[r], e), req'[r].floor[e] = req[r].floor[e], q = r
      PROVE  Covered(q, e)
  BY <1>0, <1>3 DEF Covered
<1>4. ASSUME Owing(req[r]), req'[r].floor[e] = req[r].floor[e], q = r,
             ~(Editor(req[r]) /\ Names(req[r], e))
      PROVE  Covered(q, e)
  <2>1. \/ req[r].floor[e] = 0
        \/ \E d \in Request : /\ req[d].pc = "done"
                              /\ req[d].floor[e] >= req[r].floor[e]
    BY <1>4 DEF FloorInv, Answered
  <2> QED
    BY <1>4, <2>1 DEF Covered, Obliges
<1>5. CASE q = r /\ Editor(req[r]) /\ Names(req[r], e)
  <2>1. CASE Begin(r)
    <3>1. \/ req'[r].pc = "failed"
          \/ /\ req'[r].pc \in {"commit", "count", "done"}
             /\ req'[r].for # "answer" /\ req'[r].pc # "done"
      BY <1>5, <2>1, BeginStep DEF Editor, Edits
    <3> QED
      BY <1>5, <3>1 DEF Obliges, Wrote, Asking
  <2>2. CASE Fails(r)
    BY <1>5, <2>2, FailsStep DEF Fails, Obliges, Wrote, Asking
  <2>3. CASE Reads(r)
    <3>1. /\ Stays(req'[r], req[r])
          /\ <<req[r].pc, req'[r].pc>> \in
                 {<<"count", "insert">>, <<"insert", "mstats">>,
                  <<"stats", "wstats">>, <<"mstats", "mwstats">>,
                  <<"wstats", "lock">>, <<"mwstats", "count">>,
                  <<"count", "file">>, <<"count", "save">>}
      BY <2>3, ReadingStep DEF Reads
    <3>2. req[r].pc \in Asking /\ req[r].for = "answer"
      BY <1>5, <3>1 DEF Obliges, Wrote, Asking, Stays
    <3> QED
      BY <1>1, <1>3, <1>5, <3>1, <3>2 DEF Stays, Obliges, Wrote
  <2>4. CASE Save(r)
    BY <1>0, <1>5, <2>4, SaveStep DEF Obliges, Wrote, Asking
  <2>5. CASE Acquire(r) \/ Build(r) \/ Truncate(r)
    <3>1. req[r].pc \in {"lock", "table", "towrite"} /\ ~(req[r].pc = "write")
      BY <2>5 DEF Acquire, Build, Truncate, Segment, Thread
    <3>2. req'[r].pc \in {"table", "towrite", "write"}
      <4>1. Acquire(r)
            => req'[r] = [req[r] EXCEPT !.pc = "table", !.file = root]
        BY OneChanges DEF Acquire
      <4>2. Build(r) => req'[r] = [req[r] EXCEPT !.pc = "towrite",
                                                 !.file.rows = Annotated(r)]
        BY OneChanges DEF Build
      <4>3. Truncate(r) => req'[r] = [req[r] EXCEPT !.pc = "write"]
        BY OneChanges DEF Truncate, Then
      <4> QED
        BY <1>0, <2>5, <4>1, <4>2, <4>3 DEF RequestRecord
    <3> QED
      BY <1>5, <3>2 DEF Obliges, Wrote, Asking
  <2>6. CASE File(r)
    <3>1. /\ req[r].pc = "file" /\ req'[r].floor = req[r].floor
          /\ req[r].for # "answer" =>
                 req'[r].pc = "count" /\ req'[r].for = "edit"
      BY <2>6, FileStep
    <3> QED
      BY <1>1, <1>3, <1>5, <3>1 DEF Obliges, Wrote, Asking
  <2>7. CASE Clear(r)
    BY <1>1, <1>3, <1>5, <2>7, ClearStep DEF Obliges, Wrote
  <2>8. CASE Enter(r) \/ Leave(r)
    BY <1>5, <2>8, EnterStep, LeaveStep
  <2> QED
    BY <2>1, <2>2, <2>3, <2>4, <2>5, <2>6, <2>7, <2>8 DEF Moving, Mirrors
<1>6. CASE q = r /\ ~(Editor(req[r]) /\ Names(req[r], e))
  <2>1. req'[r].pc = "done"
    BY <1>1, <1>6 DEF Obliges, Wrote
  <2>2. CASE Begin(r)
    <3>1. req'[r].floor = Owed
      BY <2>1, <2>2, BeginStep
    <3>2. \/ Owed[e] = 0
          \/ \E d \in Request : /\ req[d].pc = "done"
                                /\ Owed[e] = req[d].floor[e]
      BY OwedIsGreatest
    <3> QED
      BY <1>0, <1>6, <3>1, <3>2 DEF Covered, Obliges
  <2>3. CASE File(r)
    BY <1>4, <1>6, <2>3, FileStep DEF Owing
  <2>4. CASE Owing(req[r]) /\ req'[r].floor = req[r].floor
    BY <1>4, <1>6, <2>4
  <2>5. CASE Save(r)
    BY <2>1, <2>5, SaveStep
  <2> QED
    BY <2>1, <2>2, <2>3, <2>4, <2>5, RecordMoves
<1> QED
  BY <1>2, <1>5, <1>6

LEMMA UptoMoves ==
    ASSUME DiskInv, DiskInv', WriteInv, StampInv, FloorInv,
           NEW r \in Request, Moving(r), ~Excepted, ~Excepted',
           NEW s \in Nat, s <= clock, NEW rows \in Rows,
           Upto(req, rows, Below(s))
    PROVE  Upto(req', rows, Past(root', backup', staging', step', s))
<1>0. /\ RequestsInv /\ RequestsInv' /\ ~late /\ ~late'
      /\ "skipped" \notin marks'
  BY DEF DiskInv, Excepted
<1>1. CASE Written(r)
  BY <1>0, <1>1, WrittenPast DEF Upto
<1>2. CASE ~Written(r)
  <2>1. ~Skip(r)
    BY <1>0 DEF Skip, Note
  <2>2. Below(s) => Past(root', backup', staging', step', s)
    <3>1. Next
      BY DEF Moving, Next, Advance, Reading, Edit, Reads, Fails, Mirrors
    <3> QED
      BY <1>0, <3>1, BelowNext
  <2> SUFFICES ASSUME NEW q \in Request, NEW e \in Episode,
                      Obliges(req'[q], e)
               PROVE  \/ rows[e].save >= req'[q].floor[e]
                      \/ Past(root', backup', staging', step', s)
    BY DEF Upto
  <2>3. Covered(q, e)
    BY <1>0, <1>2, <2>1, ObligesMoves
  <2>4. rows[e].save \in Nat
    BY DEF Rows, Row
  <2>5. \A d \in Request : req[d].floor[e] \in Nat /\ req'[d].floor[e] \in Nat
    <3>1. req \in [Request -> RequestRecord]
          /\ req' \in [Request -> RequestRecord]
      BY <1>0 DEF RequestsInv, TypeOK
    <3>2. \A d \in RequestRecord : d.floor[e] \in Nat
      BY DEF RequestRecord
    <3> QED
      BY <3>1, <3>2
  <2> QED
    BY <2>2, <2>3, <2>4, <2>5 DEF Upto, Covered
<1> QED
  BY <1>1, <1>2

LEMMA ContextsOf ==
    ASSUME RequestsInv, StampInv
    PROVE  /\ \A i \in Context : /\ contexts[i].stamp \in Nat
                                 /\ contexts[i].stamp <= clock
                                 /\ contexts[i].cache \in Rows \cup {NoRows}
           /\ \A r \in Request : req[r].pc = "file" =>
                  req[r].ctx \in Context /\ req[r].ctx # Free
                  /\ req[r].rows \in Rows
<1>1. ASSUME NEW r \in Request, req[r].pc = "file"
      PROVE  req[r].ctx \in Context /\ req[r].ctx # Free
          /\ req[r].rows \in Rows
  BY <1>1, FreeIsFree, RequestTypes DEF RequestsInv, Proper, Ended
<1>2. ASSUME NEW i \in Context
      PROVE  /\ contexts[i].stamp \in Nat /\ contexts[i].stamp <= clock
             /\ contexts[i].cache \in Rows \cup {NoRows}
  BY StampTypes DEF StampInv, RequestsInv, TypeOK
<1> QED
  BY <1>1, <1>2

LEMMA LoadedFresh ==
    ASSUME RequestsInv, NEW r \in Request, Load(r), req'[r].pc = "file",
        NEW past
    PROVE  Upto(req', db, past) /\ Reaches(req'[r], db)
<1>1. Others(r) /\ Stays(req'[r], req[r])
  BY ReadingStep
<1>2. \A q \in Request : req'[q].floor = req[q].floor
  BY <1>1 DEF Others, Stays
<1>3. \A q \in Request, e \in Episode :
          /\ req[q].floor[e] <= db[e].save
          /\ req[q].floor[e] \in Nat /\ db[e].save \in Nat
  BY RequestTypes DEF RequestRecord, Rows, Row
<1> QED
  BY <1>2, <1>3 DEF Upto, Reaches

LEMMA BeginFresh ==
    ASSUME RequestsInv, StampInv, CacheInv, ~Excepted, NEW r \in Request,
           Begin(r), req[r].got = NoRows, req'[r].got # NoRows
    PROVE  Reaches(req'[r], req'[r].got)
<1>1. PICK c \in Context :
        /\ req'[r].floor = Owed /\ Exists(root)
        /\ Current /\ c = registry.ctx /\ req'[r].got = contexts[c].cache
  BY BeginStep
<1>2. root.stamp = contexts[c].stamp
  BY <1>1 DEF Current
<1>3. ~Below(contexts[c].stamp)
  BY <1>1, <1>2, StampTypes DEF Below, Past
<1>4. Upto(req, contexts[c].cache, FALSE) /\ contexts[c].cache \in Rows
  BY <1>1, <1>3, ContextsOf DEF CacheInv, Upto
<1> SUFFICES ASSUME NEW e \in Episode
             PROVE  contexts[c].cache[e].save >= Owed[e]
  BY <1>1 DEF Reaches
<1>5. contexts[c].cache[e].save \in Nat
  BY <1>4 DEF Rows, Row
<1>6. \/ Owed[e] = 0
      \/ \E d \in Request : req[d].pc = "done" /\ Owed[e] = req[d].floor[e]
  BY OwedIsGreatest
<1> QED
  BY <1>4, <1>5, <1>6 DEF Upto, Obliges

(* The answer of the request that moves.                                   *)
LEMMA GotMoves ==
    ASSUME RequestsInv, StampInv, KnowsInv, CacheInv, ~Excepted,
           NEW r \in Request, Moving(r), req'[r].got # NoRows
    PROVE  Reaches(req'[r], req'[r].got)
<1>0. Knows(req[r]) /\ (req[r].got # NoRows => Reaches(req[r], req[r].got))
  BY DEF KnowsInv, CacheInv
<1>1. CASE Begin(r)
  <2>1. req[r].got = NoRows
    BY <1>0, <1>1, BeginStep DEF Knows
  <2> QED
    BY <1>1, <2>1, BeginFresh
<1>2. CASE Save(r)
  <2>1. req[r].kind # "bulk" => req'[r].got = NoRows
    BY <1>2, SaveStep
  <2>2. req[r].kind = "bulk" => req'[r].got = NoRows
    BY <1>0, <1>2, SaveStep DEF Knows
  <2> QED
    BY <2>1, <2>2
<1>3. CASE File(r)
  <2>1. /\ req[r].pc = "file" /\ req'[r].floor = req[r].floor
        /\ req'[r].got = req[r].rows
    BY <1>3, FileStep
  <2> QED
    BY <2>1 DEF CacheInv, Reaches
<1>4. CASE req'[r].floor = req[r].floor /\ req'[r].got = req[r].got
  BY <1>0, <1>4 DEF Reaches
<1> QED
  BY <1>1, <1>2, <1>3, <1>4, RecordMoves

LEMMA CacheMoves ==
    ASSUME DiskInv, DiskInv', WriteInv, StampInv, KnowsInv, FloorInv, CacheInv,
           NEW r \in Request, Moving(r), ~Excepted, ~Excepted'
    PROVE  CacheInv'
<1>0. /\ RequestsInv /\ Others(r)
      /\ \A q \in Request : req[q].pc = "file" \/ req'[q].pc = "file" =>
             (q # r => req'[q] = req[q])
  BY RecordMoves DEF DiskInv, Others
<1> DEFINE Now(s) == Past(root', backup', staging', step', s)
<1>1. \A i \in Context :
          /\ contexts[i].cache # NoRows =>
                 Upto(req', contexts[i].cache, Now(contexts[i].stamp))
          /\ contexts[i].stamp \in Nat /\ contexts[i].stamp <= clock
  <2> SUFFICES ASSUME NEW i \in Context
               PROVE  /\ contexts[i].cache # NoRows =>
                          Upto(req', contexts[i].cache, Now(contexts[i].stamp))
                      /\ contexts[i].stamp \in Nat
                      /\ contexts[i].stamp <= clock
    OBVIOUS
  <2>1. /\ contexts[i].stamp \in Nat /\ contexts[i].stamp <= clock
        /\ contexts[i].cache \in Rows \cup {NoRows}
    BY <1>0, ContextsOf
  <2>2. contexts[i].cache # NoRows =>
            Upto(req, contexts[i].cache, Below(contexts[i].stamp))
    BY DEF CacheInv
  <2> QED
    BY <2>1, <2>2, UptoMoves
<1>2. \A q \in Request : req[q].pc = "file" =>
          /\ req[q].ctx \in Context /\ req[q].ctx # Free
          /\ Upto(req', req[q].rows, Now(contexts[req[q].ctx].stamp))
          /\ Reaches(req[q], req[q].rows)
  <2> SUFFICES ASSUME NEW q \in Request, req[q].pc = "file"
               PROVE  /\ req[q].ctx \in Context /\ req[q].ctx # Free
                      /\ Upto(req', req[q].rows,
                          Now(contexts[req[q].ctx].stamp))
                      /\ Reaches(req[q], req[q].rows)
    OBVIOUS
  <2>1. /\ req[q].ctx \in Context /\ req[q].ctx # Free /\ req[q].rows \in Rows
    BY <1>0, ContextsOf
  <2>2. /\ Upto(req, req[q].rows, Below(contexts[req[q].ctx].stamp))
        /\ Reaches(req[q], req[q].rows)
    BY DEF CacheInv
  <2> QED
    BY <1>1, <2>1, <2>2, UptoMoves
<1>3. ASSUME NEW i \in Context, contexts'[i].cache # NoRows
      PROVE  Upto(req', contexts'[i].cache, Now(contexts'[i].stamp))
  <2>1. /\ contexts'[i].stamp = contexts[i].stamp
        /\ \/ contexts'[i].cache = contexts[i].cache
           \/ /\ File(r) /\ i = req[r].ctx
              /\ contexts'[i].cache = req[r].rows
    BY <1>0, <1>3, ContextsMove DEF Moving
  <2>2. File(r) => req[r].pc = "file"
    BY <1>0, FileStep
  <2> QED
    BY <1>1, <1>2, <1>3, <2>1, <2>2
<1>4. ASSUME NEW q \in Request, req'[q].pc = "file"
      PROVE  /\ Upto(req', req'[q].rows, Now(contexts'[req'[q].ctx].stamp))
             /\ Reaches(req'[q], req'[q].rows)
  <2>1. CASE q # r
    <3>1. req'[q] = req[q] /\ req[q].pc = "file"
      BY <1>0, <1>4, <2>1
    <3>2. contexts'[req[q].ctx].stamp = contexts[req[q].ctx].stamp
      BY <1>0, <1>2, <3>1, ContextsMove DEF Moving
    <3> QED
      BY <1>2, <3>1, <3>2
  <2>2. CASE q = r
    <3>1. Load(r)
      <4>1. Begin(r) => req'[r].pc # "file"
        BY <1>0, BeginStep
      <4>2. Save(r) \/ File(r) => req'[r].pc # "file"
        BY <1>0, SaveStep, FileStep
      <4> QED
        BY <1>0, <1>4, <2>2, <4>1, <4>2, RecordMoves
    <3>2. req'[r].rows = db
      BY <1>0, <1>4, <2>2, <3>1, LoadStep
    <3> QED
      BY <1>0, <1>4, <2>2, <3>1, <3>2, LoadedFresh
  <2> QED
    BY <2>1, <2>2
<1>5. ASSUME NEW q \in Request, req'[q].got # NoRows
      PROVE  Reaches(req'[q], req'[q].got)
  <2>1. CASE q # r
    BY <1>0, <1>5, <2>1 DEF Others, CacheInv
  <2>2. CASE q = r
    BY <1>0, <1>5, <2>2, GotMoves
  <2> QED
    BY <2>1, <2>2
<1> QED
  BY <1>3, <1>4, <1>5 DEF CacheInv, Below

LEMMA LateStays ==
    ASSUME DiskInv, [Next]_vars
    PROVE  late => late'
<1>0. RequestsInv /\ StepInv
  BY DEF DiskInv
<1>1. ASSUME NEW r \in Request,
             \/ Begin(r) \/ Reads(r) \/ File(r) \/ Fails(r) \/ Save(r)
             \/ Acquire(r) \/ Build(r) \/ Skip(r) \/ Clear(r)
             \/ Enter(r) \/ Leave(r)
      PROVE  late' = late
  BY <1>0, <1>1, DiskAlone
<1>2. ASSUME NEW r \in Request, Truncate(r) \/ Written(r)
      PROVE  late' = late
  BY <1>2 DEF Truncate, Written
<1>3. CASE Commits
  BY <1>0, <1>3, CommitsUnchanged, CommitMoves
<1>4. CASE Evict \/ UNCHANGED vars
  BY <1>4 DEF Evict, vars, commitVars
<1>5. CASE Stop
  BY <1>0, <1>5, StopStep
<1> QED
  BY <1>1, <1>2, <1>3, <1>4, <1>5, AllSteps DEF Mirrors

LEMMA CacheNext ==
    ASSUME DiskInv, DiskInv', WriteInv, StampInv, KnowsInv, FloorInv, CacheInv,
           [Next]_vars
    PROVE  CacheInv'
<1>0. RequestsInv /\ marks \subseteq marks' /\ (late => late')
  BY MarksGrow, LateStays DEF DiskInv
<1>1. CASE Excepted'
  BY <1>1 DEF CacheInv
<1> SUFFICES ASSUME ~Excepted' PROVE CacheInv'
  BY <1>1
<1>2. ~Excepted
  BY <1>0 DEF Excepted
<1>3. CASE Aside \/ UNCHANGED vars
  <2>1. UNCHANGED <<contexts, req>>
    BY <1>3 DEF Aside, vars, memory
  <2>2. ASSUME NEW i \in Context, NEW rows,
               Upto(req, rows, Below(contexts[i].stamp))
        PROVE  Upto(req', rows,
                    Past(root', backup', staging', step', contexts'[i].stamp))
    <3>1. Below(contexts[i].stamp) =>
              Past(root', backup', staging', step', contexts'[i].stamp)
      BY <1>0, <2>1, BelowNext, ContextsOf DEF Excepted
    <3> QED
      BY <2>1, <2>2, <3>1 DEF Upto
  <2>3. \A q \in Request : req[q].pc = "file" => req[q].ctx \in Context
    BY <1>0, ContextsOf
  <2>4. ASSUME NEW i \in Context, contexts'[i].cache # NoRows
        PROVE  Upto(req', contexts'[i].cache,
                    Past(root', backup', staging', step', contexts'[i].stamp))
    BY <1>2, <2>1, <2>2, <2>4 DEF CacheInv
  <2>5. ASSUME NEW q \in Request, req'[q].pc = "file"
        PROVE  /\ Upto(req', req'[q].rows,
                       Past(root', backup', staging', step',
                            contexts'[req'[q].ctx].stamp))
               /\ Reaches(req'[q], req'[q].rows)
    <3>1. /\ Upto(req, req[q].rows, Below(contexts[req[q].ctx].stamp))
          /\ Reaches(req[q], req[q].rows)
      BY <1>2, <2>1, <2>5 DEF CacheInv
    <3> QED
      BY <2>1, <2>2, <2>3, <2>5, <3>1
  <2>6. ASSUME NEW q \in Request, req'[q].got # NoRows
        PROVE  Reaches(req'[q], req'[q].got)
    BY <1>2, <2>1, <2>6 DEF CacheInv
  <2> QED
    BY <2>4, <2>5, <2>6 DEF CacheInv, Below
<1>4. CASE Stop
  <2>1. /\ contexts' = [i \in Context |-> NoContext]
        /\ \A q \in Request : \/ Ended(q) /\ req'[q] = req[q]
                              \/ req'[q].pc = "failed" /\ req'[q].got = NoRows
    BY <1>0, <1>4, StopStep
  <2>2. \A i \in Context : contexts'[i].cache = NoRows
    BY <2>1 DEF NoContext
  <2>3. \A q \in Request :
            /\ req'[q].pc # "file"
            /\ req'[q].got # NoRows => Reaches(req'[q], req'[q].got)
    BY <1>2, <2>1 DEF Ended, CacheInv
  <2> QED
    BY <2>2, <2>3 DEF CacheInv
<1>5. CASE \E r \in Request : Moving(r)
  BY <1>2, <1>5, CacheMoves
<1> QED
  BY <1>3, <1>4, <1>5, RestSteps

(* No answer shows an older row than an edit answered before it was asked  *)
(* for, whatever was cached and whatever a commit did with the data set,   *)
(* where the mirror was not skipped and no commit failed late.             *)
THEOREM AnswersAreFresh == Spec => []AnswersFresh
<1> DEFINE Inv == /\ DiskInv /\ WriteInv /\ StampInv /\ KnowsInv /\ FloorInv
                  /\ CacheInv
<1>1. Init => Inv
  <2> SUFFICES ASSUME Init PROVE Inv
    OBVIOUS
  <2>1. /\ root = [rows |-> [e \in Episode |-> 0], torn |-> FALSE,
                   edition |-> 0, stamp |-> 0, half |-> FALSE]
        /\ backup = Gone /\ staging = Gone /\ step = "idle" /\ clock = 0
        /\ contexts = [i \in Context |-> NoContext]
    BY DEF Init, CommitInit
  <2>2. \A r \in Request : req[r].pc = "new" /\ req[r].got = NoRows
    BY DEF Init, Fresh
  <2>3. \A i \in Context : /\ contexts[i].stamp = 0
                           /\ contexts[i].cache = NoRows
    BY <2>1 DEF NoContext
  <2>4. WriteInv
    BY <2>1, <2>2 DEF WriteInv, Writing
  <2>5. StampInv
    BY <2>1, <2>3 DEF StampInv, Exists
  <2>6. KnowsInv /\ FloorInv
    BY <2>2 DEF KnowsInv, FloorInv, Knows, Owing
  <2>7. CacheInv
    BY <2>2, <2>3 DEF CacheInv
  <2> QED
    BY <2>4, <2>5, <2>6, <2>7, DiskInit
<1>2. Inv /\ [Next]_vars => Inv'
  <2> SUFFICES ASSUME Inv, [Next]_vars PROVE Inv'
    OBVIOUS
  <2>1. DiskInv' /\ WriteInv' /\ StampInv'
    BY DiskNext, WriteNext, StampNext
  <2>2. KnowsInv' /\ FloorInv'
    BY <2>1, KnowsNext, FloorNext DEF DiskInv
  <2> QED
    BY <2>1, <2>2, CacheNext
<1>3. Inv => AnswersFresh
  <2> SUFFICES ASSUME DiskInv, CacheInv, ~Excepted PROVE AnswersFresh
    BY DEF AnswersFresh, Excepted
  <2>1. ASSUME NEW r \in Request, req[r].got # NoRows, NEW e \in Episode
        PROVE  req[r].got[e].save >= req[r].floor[e]
    BY <2>1 DEF CacheInv, Reaches
  <2>2. \A r \in Request : On(r) \subseteq Episode
    <3>1. \A r \in Request : req[r].on \in Seq(Episode)
      BY RequestTypes DEF RequestRecord, DiskInv
    <3> QED
      BY <3>1 DEF On
  <2> QED
    BY <2>1, <2>2 DEF AnswersFresh
<1> QED
  BY <1>1, <1>2, <1>3, PTL DEF Spec
=============================================================================
