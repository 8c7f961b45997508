----------------------------- MODULE StateFile -----------------------------
(***************************************************************************)
(* convert_state.json of the converter, as those rely on it who read it    *)
(* while others write it: what ConverterControl has to keep.               *)
(***************************************************************************)
CONSTANT Serial         \* the recordings of one task, or of all of them

VARIABLES
    file,               \* convert_state.json; part: it is not filled
    overlap,            \* two retries were between their read and their rename
    crossed             \* an outcome was recorded between the two

(* convert_state.json can be read at every moment, whatever is killed      *)
(* (_write_state): only two retries at once, which share the temporary     *)
(* file, can put a file there that is not filled.                          *)
StateReadable == ~file.part \/ overlap

(* A recording the converter has recorded as done stays so, over the       *)
(* retries and the kills: only a retry that read the state before the      *)
(* outcome was recorded, and renames its copy after it, takes it back      *)
(* (mark_failed_recordings_retryable, read_state to os.replace).           *)
OutcomesKept == [][
    \A s \in Serial : file.says[s] = "done" /\ ~overlap /\ ~crossed
                       => file'.says[s] = "done"]_file
=============================================================================
