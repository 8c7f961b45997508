------------------------ MODULE MCEpisodeAnnotations ------------------------
(* Instances of EpisodeAnnotations for TLC.                                *)
EXTENDS EpisodeAnnotations, TLC

CONSTANTS r1, r2, r3,   \* the requests
          a, b          \* the episodes

List == [kind |-> "list", on |-> <<>>]
Instruct == [kind |-> "instruct", on |-> <<>>]
Tag(e) == [kind |-> "tag", on |-> <<e>>]
Grade(e) == [kind |-> "grade", on |-> <<e>>]
Bulk == [kind |-> "bulk", on |-> <<a, b>>]

(* A PATCH that keeps the tags, between two readers and beside an edit of  *)
(* the same episode; two edits of one file; an instruction beside an edit, *)
(* and two beside each other.                                              *)
MCAsk == {(r1 :> List @@ r2 :> Grade(a) @@ r3 :> List),
          (r1 :> Tag(a) @@ r2 :> Grade(a)),
          (r1 :> Bulk @@ r2 :> Tag(b)),
          (r1 :> Instruct @@ r2 :> Tag(a)),
          (r1 :> Instruct @@ r2 :> Instruct)}

(* An instruction alone. *)
AloneAsk == {(r1 :> Instruct)}
=============================================================================
