--------------------------- MODULE WorkerStreams ---------------------------
(***************************************************************************)
(* The streams of a PySpark task, in cells, and what worker.py promises    *)
(* about them.  WorkerTask has the steps of main() and of the reader.      *)
(***************************************************************************)
EXTENDS Integers, Sequences

CONSTANTS NumIncludes,   \* python includes named in the header
          InBatch,       \* records in a frame of the input
          NumAccums      \* accumulators the function has

VARIABLES
    sent,     \* broadcast variables in the header
    cut,      \* cells of the input the JVM has written when it stops
    used,     \* records given to the function
    out,      \* what was written to outfile
    got,      \* the results the reader has taken
    status    \* "reading", "ok", "exception", "eof" or "garbled"

(* The header: split index, directory, includes, broadcasts, command; a    *)
(* length and its body are two cells.  A frame: two cells of length, two   *)
(* of body.                                                                *)
DirEnd       == 3
IncludesEnd  == DirEnd + 1 + 2 * NumIncludes
CommandStart == IncludesEnd + 1 + 3 * Len(sent)
HeaderEnd    == CommandStart + 2
Cells        == 4

(* The cells of the output.  The update of an accumulator is its count.    *)
Token(t)    == [t |-> t]
Length      == Token("length")
Body(objs)  == [t |-> "body", objs |-> objs]
Update(n)   == Body(<<n>>)

-----------------------------------------------------------------------------
(* The error marker of line 83 and the sections behind the data stand      *)
(* where the reader expects a length, whatever was being written when the  *)
(* error came; so the results it has taken are a prefix of the right ones  *)
(* at every moment, also when the task fails in the end.                   *)
StreamAligned ==
    status # "garbled" /\ got = [i \in 1..Len(got) |-> i] /\ Len(got) <= used

(* A task that counts as successful has delivered the result of every      *)
(* record of every frame that arrived whole, in order and once: of all it  *)
(* was sent unless the JVM stopped early.  A stop within a length is never *)
(* taken for the end of the data (one behind a length or within a payload  *)
(* may be).  What the accumulators report agrees with the results.  An     *)
(* error or a killed process never counts as success.                      *)
SuccessIsWhole ==
    status = "ok" =>
        LET frames == (cut - HeaderEnd) \div Cells
        IN /\ got = [i \in 1..(frames * InBatch) |-> i]
           /\ (cut - HeaderEnd) % Cells # 1
           /\ NumAccums > 0 => out[Len(out)] = Update(Len(got))
=============================================================================
