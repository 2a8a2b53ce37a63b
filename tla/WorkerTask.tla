---------------------------- MODULE WorkerTask -----------------------------
(***************************************************************************)
(* pyspark/worker.py main() with the streams it reads and writes: one task *)
(* in a fresh process.  The JVM writes a header, the command and frames of *)
(* records, and may stop anywhere; main() reads them lazily while it       *)
(* writes batches of results, then times and accumulators, or an error     *)
(* marker.  The process may be killed.  The JVM's reader is external: it   *)
(* takes a non-negative length as a record and a negative one as a marker. *)
(***************************************************************************)
EXTENDS WorkerStreams

CONSTANTS Broadcasts,    \* what a header may carry: sequences of broadcasts
          Needed,        \* broadcast variables the function refers to
          NumFrames,     \* frames of the input
          OutBatch       \* batch size of the results

(* Any sizes: a batch of results has at least one.                         *)
Sizes == /\ {NumIncludes, NumFrames, InBatch, NumAccums} \subseteq Nat
         /\ OutBatch \in Nat \ {0} /\ Broadcasts \subseteq Seq(Needed)

VARIABLES
    pos,      \* cells main() has read
    loaded,   \* _broadcastRegistry
    todo,     \* records unpickled and not yet given to the function
    items,    \* results not yet written: _batched's list
    pc,       \* where main() is
    flushed,  \* how much of the output has reached the JVM
    rpos      \* how much of it the reader has read

vars == <<sent, cut, pos, loaded, todo, items, used, pc, out, flushed, rpos, got, status>>
read == <<sent, cut, pos, loaded, todo, items, used>>
reader == <<rpos, got, status>>

InputEnd     == HeaderEnd + Cells * NumFrames
NumRecords   == NumFrames * InBatch
Frame(n)     == [i \in 1..InBatch |-> (n - 1) * InBatch + i]

Init ==
    /\ sent \in Broadcasts /\ cut \in 0..InputEnd /\ pos = 0
    /\ loaded = {} /\ todo = <<>> /\ items = <<>> /\ used = 0
    /\ pc = "header" /\ out = <<>> /\ flushed = 0
    /\ rpos = 0 /\ got = <<>> /\ status = "reading"

-----------------------------------------------------------------------------
(* The header up to the broadcast variables; the unit tests' split index   *)
(* of -1 ends main() at once.                                              *)
Raise == pc' = "raised" /\ UNCHANGED <<read, out, flushed, reader>>

UnitTest == /\ pc = "header" /\ cut > 0
            /\ pc' = "gone" /\ flushed' = Len(out)
            /\ UNCHANGED <<read, out, reader>>

ReadHeader ==
    /\ pc = "header" /\ cut > IncludesEnd
    /\ pos' = IncludesEnd + 1 /\ pc' = "broadcasts"
    /\ UNCHANGED <<sent, cut, loaded, todo, items, used, out, flushed, reader>>

ReadBroadcast ==
    /\ pc = "broadcasts" /\ pos < CommandStart /\ pos + 3 <= cut
    /\ loaded' = loaded \cup {sent[(pos - IncludesEnd - 1) \div 3 + 1]}
    /\ pos' = pos + 3
    /\ UNCHANGED <<sent, cut, todo, items, used, pc, out, flushed, reader>>

(* Unpickling the command looks its broadcast variables up (_from_id).     *)
ReadCommand ==
    /\ pc = "broadcasts" /\ pos = CommandStart /\ HeaderEnd <= cut
    /\ Needed \subseteq loaded
    /\ pos' = HeaderEnd /\ pc' = "loop"
    /\ UNCHANGED <<sent, cut, loaded, todo, items, used, out, flushed, reader>>

(* A read that comes short before the data, a broadcast variable that is   *)
(* not loaded.                                                             *)
HeaderError ==
    /\ \/ pc = "header" /\ cut <= IncludesEnd
       \/ pc = "broadcasts" /\ pos < CommandStart /\ pos + 3 > cut
       \/ pc = "broadcasts" /\ pos = CommandStart
          /\ (HeaderEnd > cut \/ ~ Needed \subseteq loaded)
    /\ Raise

-----------------------------------------------------------------------------
(* load_stream takes EOFError for the end of the data: it comes from a     *)
(* length or a payload that reads as empty, and mostly from loads() of a   *)
(* payload cut short (which may raise another error).  A length cut short  *)
(* is an error.                                                            *)
Left == cut - pos
MutEndOfData == Left \in 0..3
EndOfData == Left \in {0, 2, 3}

LoadFrame ==
    /\ pc = "loop" /\ todo = <<>> /\ Left >= Cells
    /\ todo' = Frame((pos - HeaderEnd) \div Cells + 1)
    /\ pos' = pos + Cells
    /\ UNCHANGED <<sent, cut, loaded, items, used, pc, out, flushed, reader>>

Full == Len(items) = OutBatch
(* The function takes a record and gives a result; a full batch is dumped. *)
Process ==
    /\ pc = "loop" /\ todo # <<>> /\ ~Full
    /\ items' = Append(items, Head(todo))
    /\ todo' = Tail(todo) /\ used' = used + 1
    /\ UNCHANGED <<sent, cut, pos, loaded, pc, out, flushed, reader>>

(* An error while reading, in the function, or while a batch is pickled,   *)
(* which happens before its length is written.                             *)
LoopError == pc = "loop" /\ Raise

BatchReady == Full \/ (items # <<>> /\ todo = <<>> /\ EndOfData)
WriteLength ==
    /\ pc = "loop" /\ BatchReady
    /\ out' = Append(out, Length) /\ pc' = "payload"
    /\ UNCHANGED <<read, flushed, reader>>
MutAfterLength == {"loop", "raised"}
AfterLength == {"loop"}
NewBatch == <<>>
WritePayload ==
    /\ pc = "payload"
    /\ pc' \in AfterLength
    /\ out' = IF pc' = "loop" THEN Append(out, Body(items)) ELSE out
    /\ items' = IF pc' = "loop" THEN NewBatch ELSE items
    /\ UNCHANGED <<sent, cut, pos, loaded, todo, used, flushed, reader>>

(* report_times, the end of the data section, the accumulators' number.    *)
FinishData ==
    /\ pc = "loop" /\ todo = <<>> /\ EndOfData /\ ~BatchReady
    /\ out' = out \o <<Token("timing"), Token("times"), Token("end"), Token("count")>>
    /\ pc' = "accums"
    /\ UNCHANGED <<read, flushed, reader>>

(* The accumulators: each has counted the records the function was given.  *)
Counted == used
FinishAccums ==
    /\ pc = "accums"
    /\ out' = out \o [i \in 1..(2 * NumAccums) |->
                        IF i % 2 = 1 THEN Length ELSE Update(Counted)]
    /\ pc' = "flush"
    /\ UNCHANGED <<read, flushed, reader>>

WriteException ==
    /\ pc = "raised"
    /\ out' = out \o <<Token("exception"), Length, Body(<<>>)>>
    /\ pc' = "flush"
    /\ UNCHANGED <<read, flushed, reader>>

(* The buffer of outfile fills and empties; the daemon flushes it when     *)
(* main() returns or exits, not when the process is killed.                *)
Flush ==
    /\ pc # "gone" /\ \E n \in (flushed + 1)..Len(out) : flushed' = n
    /\ UNCHANGED <<read, pc, out, reader>>
Exit ==
    /\ pc = "flush" /\ pc' = "gone" /\ flushed' = Len(out)
    /\ UNCHANGED <<read, out, reader>>
Killed ==
    /\ pc # "gone" /\ pc' = "gone"
    /\ UNCHANGED <<read, out, flushed, reader>>

-----------------------------------------------------------------------------
(* The JVM's reader.                                                       *)
Have(n) == rpos + n <= flushed
Take(n, ok) == /\ rpos' = rpos + n
               /\ status' = IF ok THEN status ELSE "garbled"
At(n) == out[rpos + n].t

Markers == {"timing", "exception", "end"}

ReadRecord ==
    /\ status = "reading" /\ Have(2) /\ At(1) \notin Markers
    /\ Take(2, At(1) = "length" /\ At(2) = "body")
    /\ got' = IF At(2) = "body" THEN got \o out[rpos + 2].objs ELSE got
    /\ UNCHANGED <<read, pc, out, flushed>>
ReadTiming ==
    /\ status = "reading" /\ Have(2) /\ At(1) = "timing"
    /\ Take(2, At(2) = "times")
    /\ UNCHANGED <<read, pc, out, flushed, got>>
ReadException ==
    /\ status = "reading" /\ Have(3) /\ At(1) = "exception"
    /\ rpos' = rpos + 3
    /\ status' = IF At(2) = "length" THEN "exception" ELSE "garbled"
    /\ UNCHANGED <<read, pc, out, flushed, got>>
ReadEnd ==
    /\ status = "reading" /\ Have(2 + 2 * NumAccums) /\ At(1) = "end"
    /\ rpos' = rpos + 2 + 2 * NumAccums
    /\ status' = IF \A i \in 1..NumAccums : At(1 + 2 * i) = "length"
                 THEN "ok" ELSE "garbled"
    /\ UNCHANGED <<read, pc, out, flushed, got>>
ReadEof ==
    /\ status = "reading" /\ pc = "gone"
    /\ \/ ~Have(1)
       \/ Have(1) /\ At(1) \notin {"exception", "end"} /\ ~Have(2)
       \/ Have(1) /\ At(1) = "exception" /\ ~Have(3)
       \/ Have(1) /\ At(1) = "end" /\ ~Have(2 + 2 * NumAccums)
    /\ status' = "eof"
    /\ UNCHANGED <<read, pc, out, flushed, rpos, got>>

Main == \/ UnitTest \/ ReadHeader \/ ReadBroadcast \/ ReadCommand \/ HeaderError
        \/ LoadFrame \/ Process \/ LoopError \/ WriteLength \/ WritePayload
        \/ FinishData \/ FinishAccums \/ WriteException \/ Exit
Reader == \/ ReadRecord \/ ReadTiming \/ ReadException \/ ReadEnd \/ ReadEof
Next == Main \/ Flush \/ Killed \/ Reader

Spec == Init /\ [][Next]_vars

-----------------------------------------------------------------------------
TypeOK ==
    /\ sent \in Broadcasts /\ cut \in 0..InputEnd /\ pos \in 0..cut
    /\ loaded \subseteq Needed /\ used \in 0..NumRecords
    /\ Len(items) <= OutBatch /\ Len(todo) <= InBatch
    /\ pc \in {"header", "broadcasts", "loop", "payload", "accums", "raised",
               "flush", "gone"}
    /\ flushed \in 0..Len(out) /\ rpos \in 0..flushed
    /\ status \in {"reading", "ok", "exception", "eof", "garbled"}
=============================================================================
