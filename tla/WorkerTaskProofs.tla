-------------------------- MODULE WorkerTaskProofs --------------------------
(***************************************************************************)
(* Proofs about WorkerTask for any header, number and size of frames, size *)
(* of batches and number of accumulators, and for an input that stops      *)
(* anywhere and a process that is killed anywhere.                         *)
(***************************************************************************)
EXTENDS WorkerTask, SequenceTheorems, TLAPS

-----------------------------------------------------------------------------
(* The results of the records a + 1 to a + n.                              *)
Numbers(a, n) == [i \in 1..n |-> a + i]

LEMMA NumbersType ==
    ASSUME NEW a \in Nat, NEW n \in Nat
    PROVE  /\ Numbers(a, n) \in Seq(Nat) /\ Len(Numbers(a, n)) = n
           /\ \A i \in 1..n : Numbers(a, n)[i] = a + i
BY DEF Numbers

LEMMA NumbersAppend ==
    ASSUME NEW a \in Nat, NEW n \in Nat
    PROVE  Append(Numbers(a, n), a + n + 1) = Numbers(a, n + 1)
<1> DEFINE s == Append(Numbers(a, n), a + n + 1)
           t == Numbers(a, n + 1)
<1>1. s \in Seq(Nat) /\ t \in Seq(Nat) /\ Len(s) = n + 1 /\ Len(t) = n + 1
  <2>1. n + 1 \in Nat /\ a + n + 1 \in Nat
    OBVIOUS
  <2>2. Numbers(a, n) \in Seq(Nat) /\ Len(Numbers(a, n)) = n
    BY NumbersType
  <2>3. t \in Seq(Nat) /\ Len(t) = n + 1
    BY <2>1, NumbersType
  <2> QED BY <2>1, <2>2, <2>3
<1>2. \A i \in 1..(n + 1) : s[i] = t[i]
  BY DEF Numbers
<1> HIDE DEF s, t
<1>3. s = t
  BY <1>1, <1>2, SeqEqual
<1> QED BY <1>3 DEF s, t

LEMMA NumbersTail ==
    ASSUME NEW a \in Nat, NEW n \in Nat \ {0}
    PROVE  /\ Numbers(a, n) # <<>> /\ Head(Numbers(a, n)) = a + 1
           /\ Tail(Numbers(a, n)) = Numbers(a + 1, n - 1)
<1> DEFINE s == Numbers(a, n)
           t == Numbers(a + 1, n - 1)
<1>1. s \in Seq(Nat) /\ Len(s) = n /\ t \in Seq(Nat) /\ Len(t) = n - 1
  <2>1. n \in Nat /\ n - 1 \in Nat /\ a + 1 \in Nat
    OBVIOUS
  <2>2. t \in Seq(Nat) /\ Len(t) = n - 1
    BY <2>1, NumbersType
  <2> QED BY <2>1, <2>2, NumbersType
<1>2. s # <<>> /\ s[1] = a + 1
  BY <1>1 DEF Numbers
<1>3. Head(s) = a + 1
  BY <1>1, <1>2
<1>4. Tail(s) \in Seq(Nat) /\ Len(Tail(s)) = n - 1
      /\ \A i \in 1..(n - 1) : Tail(s)[i] = s[i + 1]
  BY <1>1, <1>2, HeadTailProperties
<1>5. \A i \in 1..(n - 1) : s[i + 1] = t[i]
  BY DEF Numbers
<1> HIDE DEF s, t
<1>6. Tail(s) = t
  BY <1>1, <1>4, <1>5, SeqEqual
<1> QED BY <1>2, <1>3, <1>6 DEF s, t

LEMMA NumbersConcat ==
    ASSUME NEW a \in Nat, NEW b \in Nat, a <= b
    PROVE  Numbers(0, a) \o Numbers(a, b - a) = Numbers(0, b)
<1> DEFINE s == Numbers(0, a)
           u == Numbers(a, b - a)
           t == Numbers(0, b)
<1>1. /\ s \in Seq(Nat) /\ Len(s) = a /\ t \in Seq(Nat) /\ Len(t) = b
      /\ u \in Seq(Nat) /\ Len(u) = b - a
  <2>1. b - a \in Nat /\ 0 \in Nat
    OBVIOUS
  <2>2. u \in Seq(Nat) /\ Len(u) = b - a
    BY <2>1, NumbersType
  <2> QED BY <2>1, <2>2, NumbersType
<1>2. /\ s \o u \in Seq(Nat) /\ Len(s \o u) = b
      /\ \A i \in 1..b : (s \o u)[i] = IF i <= a THEN s[i] ELSE u[i - a]
  <2> HIDE DEF s, u
  <2> QED BY <1>1, ConcatProperties
<1>3. \A i \in 1..b : (s \o u)[i] = t[i]
  BY <1>2 DEF Numbers
<1> HIDE DEF s, u, t
<1>4. s \o u = t
  BY <1>1, <1>2, <1>3, SeqEqual
<1> QED BY <1>4 DEF s, u, t

-----------------------------------------------------------------------------
(* The inductive invariant.                                                *)
Names == {"length", "timing", "times", "end", "count", "exception"}
Cell == [t : Names] \cup [t : {"body"}, objs : Seq(Nat)]
TypeInv ==
    /\ sent \in Seq(Needed) /\ cut \in Nat /\ pos \in Nat /\ used \in Nat
    /\ todo \in Seq(Nat) /\ items \in Seq(Nat)
    /\ pc \in {"header", "broadcasts", "loop", "payload", "accums", "raised",
               "flush", "gone"}
    /\ out \in Seq(Cell) /\ flushed \in 0..Len(out) /\ rpos \in 0..flushed

(* Nothing is read of the data, and nothing written, before the command.   *)
StartInv == pc \in {"header", "broadcasts"} =>
    used = 0 /\ todo = <<>> /\ items = <<>> /\ out = <<>>

(* n whole frames are read; their records are used, or wait in order.      *)
FramesRead(n) == /\ pos = HeaderEnd + Cells * n /\ pos <= cut
                 /\ used + Len(todo) = n * InBatch /\ todo = Numbers(used, Len(todo))
InputInv == pc \in {"loop", "payload"} => \E n \in Nat : FramesRead(n)

(* All whole frames are used, and the rest of the input looks like an end. *)
Whole == \E n \in Nat : used = n * InBatch /\ cut - (HeaderEnd + Cells * n) \in {0, 2, 3}

(* What stands behind m pairs of a length and a batch in the output.       *)
Open(m)  == Len(out) = 2 * m
Half(m)  == Len(out) = 2 * m + 1 /\ out[2 * m + 1] = Length
Ended(m) == /\ Len(out) >= 2 * m + 4
            /\ out[2 * m + 1] = Token("timing") /\ out[2 * m + 2] = Token("times")
            /\ out[2 * m + 3] = Token("end") /\ out[2 * m + 4] = Token("count")
Updated(m) == /\ Ended(m) /\ Len(out) = 2 * m + 4 + 2 * NumAccums
              /\ \A i \in 1..NumAccums : /\ out[2 * m + 3 + 2 * i] = Length
                                         /\ out[2 * m + 4 + 2 * i] = Update(used)
Errored(m) == /\ Len(out) = 2 * m + 3 /\ out[2 * m + 1] = Token("exception")
              /\ out[2 * m + 2] = Length /\ out[2 * m + 3] = Body(<<>>)
Forms(m) == \/ Open(m) \/ Half(m) \/ Updated(m) \/ Errored(m)
            \/ (Ended(m) /\ Len(out) = 2 * m + 4)

(* The batches carry the results in order: c[k] of them in the first k.    *)
DataInv(m, c) ==
    /\ c[0] = 0 /\ Len(out) >= 2 * m
    /\ \A k \in 0..m : c[k] <= used
    /\ \A k \in 1..m : /\ c[k - 1] <= c[k] /\ out[2 * k - 1] = Length
                       /\ out[2 * k] = Body(Numbers(c[k - 1], c[k] - c[k - 1]))
FormInv(m, c) ==
    /\ Forms(m)
    /\ pc \in {"header", "broadcasts", "loop", "raised"} => Open(m)
    /\ pc = "payload" => Half(m)
    /\ pc = "accums" => Ended(m) /\ Len(out) = 2 * m + 4
    /\ pc \in {"loop", "payload"} => items = Numbers(c[m], used - c[m])
    /\ Ended(m) => Whole /\ c[m] = used

(* The reader stands before a length, or before a section marker.          *)
ReaderInv(m, c) ==
    /\ status \in {"reading", "ok", "exception", "eof"}
    /\ \E n \in 0..used : got = Numbers(0, n)
    /\ status = "reading" =>
          \/ \E k \in 0..m : rpos = 2 * k /\ got = Numbers(0, c[k])
          \/ rpos = 2 * m + 2 /\ Ended(m) /\ got = Numbers(0, c[m])
    /\ status = "ok" => /\ Updated(m) /\ got = Numbers(0, c[m])
                        /\ pc \in {"accums", "flush", "gone"}

Good(m, c) == DataInv(m, c) /\ FormInv(m, c) /\ ReaderInv(m, c)
Basic == TypeInv /\ StartInv /\ InputInv
IInv  == Basic /\ \E m \in Nat : \E c \in [0..m -> Nat] : Good(m, c)

LEMMA InitInv == ASSUME Sizes, Init PROVE IInv
<1>1. Len(sent) \in Nat /\ sent \in Seq(Needed)
  BY DEF Init, Sizes
<1>2. InputEnd \in Nat
  BY <1>1 DEF Sizes, InputEnd, HeaderEnd, CommandStart, IncludesEnd, DirEnd, Cells
<1>3. Basic
  BY <1>1, <1>2 DEF Basic, TypeInv, StartInv, InputInv, Init
<1> DEFINE c == [k \in 0..0 |-> 0]
<1>4. c \in [0..0 -> Nat] /\ c[0] = 0
  OBVIOUS
<1>5. Good(0, c)
  <2>1. got = Numbers(0, 0)
    BY DEF Init, Numbers
  <2>2. Open(0) /\ ~Ended(0)
    BY DEF Open, Ended, Init
  <2> HIDE DEF c
  <2>3. DataInv(0, c)
    BY <1>4 DEF DataInv, Init
  <2>4. FormInv(0, c)
    BY <2>2 DEF FormInv, Forms, Init
  <2>5. ReaderInv(0, c)
    BY <1>4, <2>1 DEF ReaderInv, Init
  <2> QED BY <2>3, <2>4, <2>5 DEF Good
<1> QED BY <1>3, <1>4, <1>5 DEF IInv

-----------------------------------------------------------------------------
(* Types, and the input.                                                   *)
LEMMA HeaderType ==
    ASSUME Sizes, TypeInv
    PROVE  /\ IncludesEnd \in Nat /\ CommandStart \in Nat /\ HeaderEnd \in Nat
           /\ HeaderEnd > IncludesEnd
<1>1. Len(sent) \in Nat /\ NumIncludes \in Nat
  BY DEF Sizes, TypeInv
<1> QED BY <1>1 DEF HeaderEnd, CommandStart, IncludesEnd, DirEnd

LEMMA CellType ==
    /\ Token("timing") \in Cell /\ Token("times") \in Cell /\ Token("end") \in Cell
    /\ Token("count") \in Cell /\ Token("exception") \in Cell
    /\ \A s \in Seq(Nat) : Body(s) \in Cell
    /\ Length \in Cell /\ \A n \in Nat : Update(n) \in Cell
<1>1. \A x \in Names : Token(x) \in Cell
  BY DEF Token, Cell
<1>2. \A s \in Seq(Nat) : Body(s) \in Cell
  BY DEF Body, Cell
<1>3. \A n \in Nat : <<n>> \in Seq(Nat)
  OBVIOUS
<1>4. \A n \in Nat : Update(n) \in Cell
  BY <1>2, <1>3 DEF Update
<1>5. Length \in Cell
  BY <1>1 DEF Length, Names
<1> QED BY <1>1, <1>2, <1>4, <1>5 DEF Names

LEMMA TypeStep == ASSUME Sizes, IInv, Next PROVE TypeInv'
<1>0. TypeInv /\ HeaderEnd \in Nat /\ IncludesEnd \in Nat
  BY HeaderType DEF IInv, Basic
<1> USE DEF TypeInv
<1>1. CASE UnitTest \/ Exit
  BY <1>0, <1>1 DEF UnitTest, Exit, read, reader
<1>2. CASE ReadHeader \/ ReadBroadcast \/ ReadCommand
  BY <1>0, <1>2 DEF ReadHeader, ReadBroadcast, ReadCommand, reader
<1>3. CASE HeaderError \/ LoopError
  BY <1>0, <1>3 DEF HeaderError, LoopError, Raise, read, reader
<1>4. CASE LoadFrame
  <2>1. PICK n \in Nat : FramesRead(n)
    BY <1>4 DEF IInv, Basic, InputInv, LoadFrame
  <2>2. (pos - HeaderEnd) \div Cells = n
    BY <1>0, <2>1 DEF FramesRead, Cells
  <2>3. n * InBatch \in Nat /\ InBatch \in Nat
    BY DEF Sizes
  <2>4. Frame(n + 1) = Numbers(n * InBatch, InBatch)
    BY <2>3 DEF Frame, Numbers
  <2>5. todo' \in Seq(Nat)
    BY <1>4, <2>2, <2>3, <2>4, NumbersType DEF LoadFrame
  <2> QED BY <1>0, <1>4, <2>5 DEF LoadFrame, reader, Cells
<1>5. CASE Process
  BY <1>0, <1>5 DEF Process, reader
<1>6. CASE WriteLength
  <2>1. out' \in Seq(Cell) /\ Len(out') = Len(out) + 1
    BY <1>0, <1>6, CellType DEF WriteLength
  <2> QED BY <1>0, <1>6, <2>1 DEF WriteLength, read, reader
<1>7. CASE WritePayload
  <2>1. pc' = "loop" /\ out' = Append(out, Body(items)) /\ items' = <<>>
    BY <1>7 DEF WritePayload, AfterLength, NewBatch
  <2>2. out' \in Seq(Cell) /\ Len(out') = Len(out) + 1
    BY <1>0, <2>1, CellType
  <2> QED BY <1>0, <1>7, <2>1, <2>2 DEF WritePayload, reader
<1>8. ASSUME NEW s \in Seq(Cell), out' = out \o s,
             UNCHANGED <<read, flushed, reader>>, pc' \in {"accums", "flush"}
      PROVE  TypeInv'
  <2>1. out' \in Seq(Cell) /\ Len(out') = Len(out) + Len(s) /\ Len(s) \in Nat
    BY <1>0, <1>8, ConcatProperties
  <2> QED BY <1>0, <1>8, <2>1 DEF read, reader
<1>9. CASE FinishData
  <2>1. <<Token("timing"), Token("times"), Token("end"), Token("count")>> \in Seq(Cell)
    BY CellType
  <2> QED BY <1>8, <1>9, <2>1 DEF FinishData
<1>10. CASE FinishAccums
  <2> DEFINE s == [i \in 1..(2 * NumAccums) |->
                      IF i % 2 = 1 THEN Length ELSE Update(Counted)]
  <2>1. 2 * NumAccums \in Nat /\ Counted \in Nat
    BY <1>0 DEF Sizes, Counted
  <2>2. Length \in Cell /\ Update(Counted) \in Cell
    BY <2>1, CellType
  <2>3. s \in Seq(Cell)
    BY <2>1, <2>2
  <2> QED BY <1>8, <1>10, <2>3 DEF FinishAccums
<1>11. CASE WriteException
  <2>1. <<>> \in Seq(Nat)
    OBVIOUS
  <2>2. Body(<<>>) \in Cell /\ Token("exception") \in Cell /\ Length \in Cell
    BY <2>1, CellType
  <2>3. <<Token("exception"), Length, Body(<<>>)>> \in Seq(Cell)
    BY <2>2
  <2> QED BY <1>8, <1>11, <2>3 DEF WriteException
<1>12. CASE Flush \/ Killed
  BY <1>0, <1>12 DEF Flush, Killed, read, reader
<1>13. CASE Reader
  <2>1. UNCHANGED <<read, pc, out, flushed>>
    BY <1>13 DEF Reader, ReadRecord, ReadTiming, ReadException, ReadEnd, ReadEof
  <2>2. rpos' \in 0..flushed
    BY <1>0, <1>13 DEF Reader, ReadRecord, ReadTiming, ReadException, ReadEnd, ReadEof,
       Have, Take, Sizes
  <2> QED BY <1>0, <2>1, <2>2 DEF read
<1> QED BY <1>1, <1>2, <1>3, <1>4, <1>5, <1>6, <1>7, <1>9, <1>10, <1>11, <1>12, <1>13
        DEF Next, Main

LEMMA StartStep == ASSUME Sizes, IInv, Next PROVE StartInv'
<1>1. TypeInv /\ StartInv
  BY DEF IInv, Basic
<1>2. CASE ReadHeader \/ ReadBroadcast
  BY <1>1, <1>2 DEF ReadHeader, ReadBroadcast, StartInv
<1>3. CASE Flush \/ Reader
  BY <1>1, <1>3 DEF Flush, Reader, ReadRecord, ReadTiming, ReadException, ReadEnd, ReadEof,
     StartInv, read
<1>4. ASSUME pc' \notin {"header", "broadcasts"} PROVE StartInv'
  BY <1>4 DEF StartInv
<1>5. CASE LoadFrame \/ Process
  BY <1>4, <1>5 DEF LoadFrame, Process
<1> QED BY <1>2, <1>3, <1>4, <1>5 DEF Next, Main, UnitTest, ReadCommand, HeaderError, Raise,
           LoopError, WriteLength, WritePayload, AfterLength, FinishData, FinishAccums,
           WriteException, Exit, Killed

(* Reading and using the frames.                                           *)
LEMMA InputStep == ASSUME Sizes, IInv, Next PROVE InputInv'
<1>0. /\ TypeInv /\ StartInv /\ InputInv /\ HeaderEnd \in Nat /\ InBatch \in Nat
      /\ sent' = sent /\ cut' = cut
  <2>1. sent' = sent /\ cut' = cut
    BY DEF Next, Main, Reader, UnitTest, ReadHeader, ReadBroadcast, ReadCommand, HeaderError,
       Raise, LoadFrame, Process, LoopError, WriteLength, WritePayload, FinishData,
       FinishAccums, WriteException, Exit, Flush, Killed, ReadRecord, ReadTiming,
       ReadException, ReadEnd, ReadEof, read
  <2> QED BY <2>1, HeaderType DEF IInv, Basic, Sizes
<1>1. HeaderEnd' = HeaderEnd
  BY <1>0 DEF HeaderEnd, CommandStart
<1>2. ASSUME pc' \notin {"loop", "payload"} PROVE InputInv'
  BY <1>2 DEF InputInv
<1>3. CASE ReadCommand
  <2>1. pos' = HeaderEnd /\ pos' <= cut /\ used' = 0 /\ todo' = <<>>
    BY <1>0, <1>3 DEF ReadCommand, StartInv
  <2>2. todo' = Numbers(used', Len(todo')) /\ Len(todo') = 0
    BY <2>1 DEF Numbers
  <2>3. 0 * InBatch = 0
    BY <1>0
  <2>4. FramesRead(0)'
    BY <1>0, <1>1, <2>1, <2>2, <2>3 DEF FramesRead, Cells
  <2> QED BY <2>4 DEF InputInv
<1>4. CASE LoadFrame
  <2>1. PICK n \in Nat : FramesRead(n)
    BY <1>0, <1>4 DEF InputInv, LoadFrame
  <2>2. (pos - HeaderEnd) \div Cells = n
    BY <1>0, <2>1 DEF FramesRead, Cells
  <2>3. n * InBatch \in Nat /\ (n + 1) * InBatch = n * InBatch + InBatch
    BY <1>0
  <2>4. used = n * InBatch
    BY <1>0, <1>4, <2>1, <2>3 DEF FramesRead, LoadFrame, TypeInv
  <2>5. Frame(n + 1) = Numbers(used, InBatch)
    BY <2>3, <2>4 DEF Frame, Numbers
  <2>6. todo' = Numbers(used', InBatch) /\ used' = used
    BY <1>4, <2>2, <2>5 DEF LoadFrame
  <2>7. Len(todo') = InBatch
    BY <1>0, <2>3, <2>4, <2>6, NumbersType
  <2>8. pos' = HeaderEnd + Cells * (n + 1) /\ pos' <= cut
    BY <1>0, <1>4, <2>1 DEF LoadFrame, FramesRead, Cells, Left, TypeInv
  <2>9. FramesRead(n + 1)'
    BY <1>0, <1>1, <2>3, <2>4, <2>6, <2>7, <2>8 DEF FramesRead
  <2> QED BY <2>9 DEF InputInv
<1>5. CASE Process
  <2>1. PICK n \in Nat : FramesRead(n)
    BY <1>0, <1>5 DEF InputInv, Process
  <2>2. todo \in Seq(Nat) /\ todo # <<>> /\ Len(todo) \in Nat \ {0} /\ used \in Nat
    BY <1>0, <1>5 DEF TypeInv, Process
  <2>3. todo' = Numbers(used + 1, Len(todo) - 1) /\ used' = used + 1
    BY <1>5, <2>1, <2>2, NumbersTail DEF FramesRead, Process
  <2>4. Len(todo') = Len(todo) - 1
    <3>1. used + 1 \in Nat /\ Len(todo) - 1 \in Nat
      BY <2>2
    <3> QED BY <2>3, <3>1, NumbersType
  <2>5. n * InBatch \in Nat
    BY <1>0
  <2>6. used' + Len(todo') = n * InBatch
    <3>1. used + Len(todo) = n * InBatch
      BY <2>1 DEF FramesRead
    <3>2. used' + Len(todo') = used + Len(todo)
      BY <2>2, <2>3, <2>4
    <3> QED BY <3>1, <3>2
  <2>7. FramesRead(n)'
    BY <1>0, <1>1, <1>5, <2>1, <2>3, <2>4, <2>6 DEF FramesRead, Process
  <2> QED BY <2>7 DEF InputInv
<1>6. ASSUME UNCHANGED <<pos, used, todo>>, pc' \in {"loop", "payload"} => pc \in {"loop", "payload"}
      PROVE  InputInv'
  <2>1. ASSUME NEW n \in Nat, FramesRead(n) PROVE FramesRead(n)'
    BY <1>0, <1>1, <1>6, <2>1 DEF FramesRead
  <2> QED BY <1>0, <1>6, <2>1 DEF InputInv
<1>7. CASE Reader \/ Flush
  BY <1>6, <1>7 DEF Flush, Reader, ReadRecord, ReadTiming, ReadException, ReadEnd, ReadEof, read
<1>8. CASE WriteLength \/ WritePayload
  BY <1>6, <1>8 DEF WriteLength, WritePayload, read
<1>9. CASE ReadHeader \/ ReadBroadcast
  BY <1>2, <1>9 DEF ReadHeader, ReadBroadcast
<1> QED BY <1>2, <1>3, <1>4, <1>5, <1>7, <1>8, <1>9 DEF Next, Main, UnitTest, HeaderError,
           Raise, LoopError, FinishData, FinishAccums, WriteException, Exit, Killed

-----------------------------------------------------------------------------
(* The output.  The tokens differ from one another.                        *)
LEMMA Tokens ==
    /\ Length.t = "length" /\ \A s : Body(s).t = "body" /\ Body(s).objs = s
    /\ Token("timing").t = "timing" /\ Token("times").t = "times"
    /\ Token("end").t = "end" /\ Token("exception").t = "exception"
BY DEF Length, Token, Body

(* What was written stays.                                                 *)
Grown == Len(out') >= Len(out) /\ \A i \in 1..Len(out) : out'[i] = out[i]

LEMMA DataKept ==
    ASSUME TypeInv, TypeInv', NEW m \in Nat, NEW c \in [0..m -> Nat], DataInv(m, c),
           Grown, used' >= used
    PROVE  DataInv(m, c)'
<1>1. Len(out) \in Nat /\ Len(out') \in Nat /\ used \in Nat /\ used' \in Nat
  BY DEF TypeInv
<1>2. \A k \in 0..m : c[k] \in Nat /\ c[k] <= used'
  BY <1>1 DEF DataInv
<1>3. ASSUME NEW k \in 1..m
      PROVE  out'[2 * k - 1] = out[2 * k - 1] /\ out'[2 * k] = out[2 * k]
  BY <1>1 DEF DataInv, Grown
<1>4. Len(out') >= 2 * m
  BY <1>1 DEF DataInv, Grown
<1> QED BY <1>2, <1>3, <1>4 DEF DataInv

(* A step of main() that writes nothing.                                   *)
LEMMA QuietGood ==
    ASSUME Sizes, Basic, NEW m \in Nat, NEW c \in [0..m -> Nat], Good(m, c),
           UNCHANGED <<sent, cut, used, out, reader>>,
           pc' \in {"header", "broadcasts", "loop", "raised"} =>
               pc \in {"header", "broadcasts", "loop"},
           pc' \in {"payload", "accums"} => pc' = pc,
           pc \in {"accums", "flush", "gone"} => pc' \in {"accums", "flush", "gone"},
           pc' \in {"loop", "payload"} => items' = Numbers(c[m], used - c[m])
    PROVE  Good(m, c)'
<1>1. DataInv(m, c)'
  BY DEF Good, DataInv
<1>2. /\ Open(m)' = Open(m) /\ Half(m)' = Half(m) /\ Ended(m)' = Ended(m)
      /\ Updated(m)' = Updated(m) /\ Errored(m)' = Errored(m) /\ Whole' = Whole
  BY DEF Open, Half, Ended, Updated, Errored, Whole, HeaderEnd, CommandStart
<1>3. FormInv(m, c)'
  BY <1>2 DEF Good, FormInv, Forms
<1>4. ReaderInv(m, c)'
  BY <1>2 DEF Good, ReaderInv, reader
<1> QED BY <1>1, <1>3, <1>4 DEF Good

(* A step that writes: the reader keeps its place in what was written.     *)
LEMMA WriteKeepsReader ==
    ASSUME TypeInv, TypeInv', NEW m \in Nat, NEW c \in [0..m -> Nat], Good(m, c), Grown,
           UNCHANGED <<reader, used>>, status # "ok"
    PROVE  ReaderInv(m, c)'
<1>1. Len(out) \in Nat /\ Len(out') \in Nat
  BY DEF TypeInv
<1>2. Ended(m) => Ended(m)'
  <2> SUFFICES ASSUME Ended(m) PROVE Ended(m)'
    OBVIOUS
  <2>1. Len(out) >= 2 * m + 4 /\ Len(out') >= 2 * m + 4
    BY <1>1 DEF Ended, Grown
  <2>2. {2 * m + 1, 2 * m + 2, 2 * m + 3, 2 * m + 4} \subseteq 1..Len(out)
    BY <1>1, <2>1
  <2> QED BY <2>1, <2>2 DEF Ended, Grown
<1> QED BY <1>2 DEF Good, ReaderInv, reader

LEMMA ProcessGood ==
    ASSUME Sizes, Basic, TypeInv', NEW m \in Nat, NEW c \in [0..m -> Nat], Good(m, c), Process
    PROVE  Good(m, c)'
<1>1. /\ pc = "loop" /\ pc' = "loop" /\ used' = used + 1 /\ used \in Nat
      /\ UNCHANGED <<sent, cut, out, reader>> /\ Len(out) \in Nat /\ TypeInv
  BY DEF Process, Basic, TypeInv
<1>2. Open(m) /\ ~Ended(m)' /\ Open(m)' /\ status # "ok"
  <2>1. Open(m) /\ status # "ok"
    BY <1>1 DEF Good, FormInv, ReaderInv
  <2> QED BY <1>1, <2>1 DEF Open, Ended
<1>3. items' = Numbers(c[m], used' - c[m])
  <2>1. Head(todo) = used + 1
    <3>1. todo = Numbers(used, Len(todo)) /\ Len(todo) \in Nat \ {0}
      BY <1>1 DEF Basic, InputInv, FramesRead, TypeInv, Process
    <3> QED BY <1>1, <3>1, NumbersTail
  <2>2. items = Numbers(c[m], used - c[m]) /\ c[m] \in Nat /\ used - c[m] \in Nat
    BY <1>1 DEF Good, FormInv, DataInv
  <2>3. Append(Numbers(c[m], used - c[m]), c[m] + (used - c[m]) + 1)
          = Numbers(c[m], (used - c[m]) + 1)
    BY <2>2, NumbersAppend
  <2>4. c[m] + (used - c[m]) + 1 = used + 1 /\ (used - c[m]) + 1 = used' - c[m]
    BY <1>1, <2>2
  <2> QED BY <2>1, <2>2, <2>3, <2>4 DEF Process
<1>4. DataInv(m, c)'
  <2>1. Grown /\ used' >= used
    BY <1>1 DEF Grown
  <2> QED BY <1>1, <2>1, DataKept DEF Good
<1>5. FormInv(m, c)'
  BY <1>1, <1>2, <1>3 DEF FormInv, Forms
<1>6. ReaderInv(m, c)'
  <2>1. ~Ended(m)
    BY <1>1, <1>2 DEF Ended, Open
  <2>2. \E n \in 0..used' : got' = Numbers(0, n)
    BY <1>1 DEF Good, ReaderInv, reader
  <2> QED BY <1>1, <1>2, <2>1, <2>2 DEF Good, ReaderInv, reader
<1> QED BY <1>4, <1>5, <1>6 DEF Good

LEMMA WriteLengthGood ==
    ASSUME Sizes, Basic, TypeInv', NEW m \in Nat, NEW c \in [0..m -> Nat], Good(m, c),
           WriteLength
    PROVE  Good(m, c)'
<1>1. /\ pc = "loop" /\ pc' = "payload" /\ out' = Append(out, Length)
      /\ UNCHANGED <<sent, cut, used, items, reader>> /\ TypeInv
  BY DEF WriteLength, Basic, read
<1>2. Open(m) /\ status # "ok" /\ Len(out) \in Nat
  BY <1>1 DEF Good, FormInv, ReaderInv, TypeInv
<1>3. Grown /\ Len(out') = Len(out) + 1 /\ out'[Len(out) + 1] = Length
  BY <1>1 DEF Grown, TypeInv
<1>4. Half(m)' /\ ~Ended(m)'
  BY <1>2, <1>3 DEF Open, Half, Ended
<1>5. DataInv(m, c)'
  <2>1. used' >= used
    BY <1>1 DEF TypeInv
  <2> QED BY <1>1, <1>3, <2>1, DataKept DEF Good
<1>6. FormInv(m, c)'
  BY <1>1, <1>4 DEF Good, FormInv, Forms
<1>7. ReaderInv(m, c)'
  BY <1>1, <1>2, <1>3, WriteKeepsReader
<1> QED BY <1>5, <1>6, <1>7 DEF Good

(* A batch is complete: one more pair, with all the results so far.        *)
LEMMA WritePayloadGood ==
    ASSUME Sizes, Basic, TypeInv', NEW m \in Nat, NEW c \in [0..m -> Nat], Good(m, c),
           WritePayload
    PROVE  \E d \in [0..(m + 1) -> Nat] : Good(m + 1, d)'
<1>1. /\ pc = "payload" /\ pc' = "loop" /\ out' = Append(out, Body(items)) /\ items' = <<>>
      /\ UNCHANGED <<sent, cut, used, reader>> /\ TypeInv /\ used \in Nat
  BY DEF WritePayload, AfterLength, NewBatch, Basic, TypeInv
<1>2. Half(m) /\ status # "ok" /\ Len(out) \in Nat /\ items = Numbers(c[m], used - c[m])
  BY <1>1 DEF Good, FormInv, ReaderInv, TypeInv
<1>3. Grown /\ Len(out') = Len(out) + 1 /\ out'[Len(out) + 1] = Body(items)
  BY <1>1 DEF Grown, TypeInv
<1>4. Len(out') = 2 * (m + 1) /\ out'[2 * m + 1] = Length /\ out'[2 * (m + 1)] = Body(items)
  BY <1>2, <1>3 DEF Half, Grown
<1>5. PICK d \in [0..(m + 1) -> Nat] : d[m + 1] = used /\ \A k \in 0..m : d[k] = c[k]
  <2> DEFINE e == [k \in 0..(m + 1) |-> IF k = m + 1 THEN used ELSE c[k]]
  <2>1. e \in [0..(m + 1) -> Nat] /\ e[m + 1] = used /\ \A k \in 0..m : e[k] = c[k]
    BY <1>1
  <2> QED BY <2>1
<1>6. DataInv(m, c)'
  <2>1. used' >= used
    BY <1>1
  <2> QED BY <1>1, <1>3, <2>1, DataKept DEF Good
<1>7. DataInv(m + 1, d)'
  <2>1. d[0] = 0 /\ Len(out') >= 2 * (m + 1)
    BY <1>4, <1>5, <1>6 DEF DataInv
  <2>2. \A k \in 0..(m + 1) : d[k] <= used'
    BY <1>1, <1>5, <1>6 DEF DataInv
  <2>3. ASSUME NEW k \in 1..(m + 1)
        PROVE  /\ d[k - 1] <= d[k] /\ out'[2 * k - 1] = Length
               /\ out'[2 * k] = Body(Numbers(d[k - 1], d[k] - d[k - 1]))
    <3>1. CASE k = m + 1
      <4>1. d[k - 1] = c[m] /\ d[k] = used /\ c[m] <= used
        BY <1>1, <1>5, <1>6, <3>1 DEF DataInv
      <4>2. 2 * k - 1 = 2 * m + 1 /\ 2 * k = 2 * (m + 1)
        BY <3>1
      <4> QED BY <1>2, <1>4, <4>1, <4>2
    <3>2. CASE k # m + 1
      <4>1. k \in 1..m /\ d[k - 1] = c[k - 1] /\ d[k] = c[k]
        BY <1>5, <3>2
      <4> QED BY <1>6, <4>1 DEF DataInv
    <3> QED BY <3>1, <3>2
  <2> QED BY <2>1, <2>2, <2>3 DEF DataInv
<1>8. FormInv(m + 1, d)'
  <2>1. Open(m + 1)' /\ ~Ended(m + 1)'
    BY <1>4 DEF Open, Ended
  <2>2. items' = Numbers(d[m + 1], used' - d[m + 1])
    BY <1>1, <1>5 DEF Numbers
  <2> QED BY <1>1, <2>1, <2>2 DEF FormInv, Forms
<1>9. ReaderInv(m + 1, d)'
  <2>1. ~Ended(m)
    BY <1>2 DEF Half, Ended
  <2>2. status = "reading" => \E k \in 0..(m + 1) : rpos = 2 * k /\ got = Numbers(0, d[k])
    BY <1>5, <2>1 DEF Good, ReaderInv
  <2> QED BY <1>1, <1>2, <2>2 DEF Good, ReaderInv, reader
<1> QED BY <1>7, <1>8, <1>9 DEF Good

(* A sequence written behind the output.                                   *)
LEMMA Written ==
    ASSUME TypeInv, NEW s \in Seq(Cell), out' = out \o s
    PROVE  /\ Grown /\ Len(out') = Len(out) + Len(s)
           /\ \A i \in 1..Len(s) : out'[Len(out) + i] = s[i]
<1>1. out \in Seq(Cell) /\ Len(out) \in Nat /\ Len(s) \in Nat
  BY DEF TypeInv
<1>2. /\ Len(out') = Len(out) + Len(s)
      /\ \A i \in 1..(Len(out) + Len(s)) :
            out'[i] = IF i <= Len(out) THEN out[i] ELSE s[i - Len(out)]
  BY <1>1, ConcatProperties
<1>3. \A i \in 1..Len(out) : out'[i] = out[i]
  BY <1>1, <1>2
<1>4. ASSUME NEW i \in 1..Len(s) PROVE out'[Len(out) + i] = s[i]
  BY <1>1, <1>2
<1> QED BY <1>1, <1>2, <1>3, <1>4 DEF Grown

(* The end of the data: nothing is left over.                              *)
LEMMA FinishDataGood ==
    ASSUME Sizes, Basic, TypeInv', NEW m \in Nat, NEW c \in [0..m -> Nat], Good(m, c),
           FinishData
    PROVE  Good(m, c)'
<1> DEFINE s == <<Token("timing"), Token("times"), Token("end"), Token("count")>>
<1>1. /\ pc = "loop" /\ pc' = "accums" /\ out' = out \o s
      /\ UNCHANGED <<sent, cut, used, reader>> /\ TypeInv /\ used \in Nat
  BY DEF FinishData, Basic, read, TypeInv
<1>2. Open(m) /\ status # "ok" /\ Len(out) \in Nat
  BY <1>1 DEF Good, FormInv, ReaderInv, TypeInv
<1>3. /\ Grown /\ Len(out') = Len(out) + 4
      /\ out'[Len(out) + 1] = Token("timing") /\ out'[Len(out) + 2] = Token("times")
      /\ out'[Len(out) + 3] = Token("end") /\ out'[Len(out) + 4] = Token("count")
  <2>1. s \in Seq(Cell) /\ Len(s) = 4
    BY CellType
  <2>2. /\ Grown /\ Len(out') = Len(out) + 4
        /\ \A i \in 1..4 : out'[Len(out) + i] = s[i]
    <3> HIDE DEF s
    <3> QED BY <1>1, <2>1, Written
  <2> QED BY <2>2
<1>4. Ended(m)' /\ Len(out') = 2 * m + 4
  BY <1>2, <1>3 DEF Open, Ended
<1>5. c[m] = used
  <2>1. items = <<>>
    BY DEF FinishData, BatchReady
  <2>2. items = Numbers(c[m], used - c[m]) /\ c[m] \in Nat /\ used - c[m] \in Nat
    BY <1>1 DEF Good, FormInv, DataInv
  <2>3. Len(items) = used - c[m]
    BY <2>2, NumbersType
  <2> QED BY <1>1, <2>1, <2>2, <2>3
<1>6. Whole'
  <2>1. PICK n \in Nat : FramesRead(n)
    BY <1>1 DEF Basic, InputInv
  <2>2. used = n * InBatch
    <3>1. Len(todo) = 0
      BY DEF FinishData
    <3>2. used + Len(todo) = n * InBatch
      BY <2>1 DEF FramesRead
    <3> QED BY <1>1, <3>1, <3>2
  <2>3. cut - (HeaderEnd + Cells * n) \in {0, 2, 3}
    BY <2>1 DEF FramesRead, FinishData, EndOfData, Left
  <2>4. HeaderEnd' = HeaderEnd
    BY <1>1 DEF HeaderEnd, CommandStart
  <2> QED BY <1>1, <2>2, <2>3, <2>4 DEF Whole
<1>7. DataInv(m, c)'
  <2>1. used' >= used
    BY <1>1
  <2> QED BY <1>1, <1>3, <2>1, DataKept DEF Good
<1>8. FormInv(m, c)'
  BY <1>1, <1>4, <1>5, <1>6 DEF FormInv, Forms
<1>9. ReaderInv(m, c)'
  BY <1>1, <1>2, <1>3, WriteKeepsReader
<1> QED BY <1>7, <1>8, <1>9 DEF Good

LEMMA FinishAccumsGood ==
    ASSUME Sizes, Basic, TypeInv', NEW m \in Nat, NEW c \in [0..m -> Nat], Good(m, c),
           FinishAccums
    PROVE  Good(m, c)'
<1> DEFINE s == [i \in 1..(2 * NumAccums) |->
                    IF i % 2 = 1 THEN Length ELSE Update(Counted)]
<1>1. /\ pc = "accums" /\ pc' = "flush" /\ out' = out \o s
      /\ UNCHANGED <<sent, cut, used, reader>> /\ TypeInv /\ used \in Nat
  BY DEF FinishAccums, Basic, read, TypeInv
<1>2. Ended(m) /\ Len(out) = 2 * m + 4
  BY <1>1 DEF Good, FormInv
<1>3. /\ Grown /\ Len(out') = Len(out) + 2 * NumAccums /\ NumAccums \in Nat
      /\ \A i \in 1..(2 * NumAccums) :
            out'[Len(out) + i] = IF i % 2 = 1 THEN Length ELSE Update(used)
  <2>1. 2 * NumAccums \in Nat /\ NumAccums \in Nat
    BY DEF Sizes
  <2>2. Length \in Cell /\ Update(used) \in Cell
    BY <1>1, CellType
  <2>3. s \in Seq(Cell) /\ Len(s) = 2 * NumAccums
    BY <2>1, <2>2 DEF Counted
  <2>4. /\ Grown /\ Len(out') = Len(out) + 2 * NumAccums
        /\ \A i \in 1..(2 * NumAccums) : out'[Len(out) + i] = s[i]
    <3> HIDE DEF s
    <3> QED BY <1>1, <2>3, Written
  <2> QED BY <2>1, <2>4 DEF Counted
<1>4. Ended(m)'
  <2>1. {2 * m + 1, 2 * m + 2, 2 * m + 3, 2 * m + 4} \subseteq 1..Len(out)
    BY <1>2
  <2> QED BY <1>2, <1>3, <2>1 DEF Ended, Grown
<1>5. Updated(m)'
  <2>1. Len(out') = 2 * m + 4 + 2 * NumAccums
    BY <1>2, <1>3
  <2>2. ASSUME NEW i \in 1..NumAccums
        PROVE  out'[2 * m + 3 + 2 * i] = Length /\ out'[2 * m + 4 + 2 * i] = Update(used)
    <3>1. /\ 2 * i - 1 \in 1..(2 * NumAccums) /\ 2 * i \in 1..(2 * NumAccums)
          /\ (2 * i - 1) % 2 = 1 /\ (2 * i) % 2 # 1
      BY <1>3
    <3>2. Len(out) + (2 * i - 1) = 2 * m + 3 + 2 * i /\ Len(out) + 2 * i = 2 * m + 4 + 2 * i
      BY <1>2, <1>3
    <3>3. \A j \in 1..(2 * NumAccums) : j % 2 = 1 => out'[Len(out) + j] = Length
      BY <1>3
    <3>4. \A j \in 1..(2 * NumAccums) : j % 2 # 1 => out'[Len(out) + j] = Update(used)
      BY <1>3
    <3>5. out'[Len(out) + (2 * i - 1)] = Length
      BY <3>1, <3>3
    <3>6. out'[Len(out) + 2 * i] = Update(used)
      BY <3>1, <3>4
    <3> QED BY <3>2, <3>5, <3>6
  <2> QED BY <1>1, <1>4, <2>1, <2>2 DEF Updated
<1>6. DataInv(m, c)'
  <2>1. used' >= used
    BY <1>1
  <2> QED BY <1>1, <1>3, <2>1, DataKept DEF Good
<1>7. FormInv(m, c)'
  <2>1. Whole' = Whole
    BY <1>1 DEF Whole, HeaderEnd, CommandStart
  <2> QED BY <1>1, <1>2, <1>4, <1>5, <2>1 DEF Good, FormInv, Forms
<1>8. ReaderInv(m, c)'
  BY <1>1, <1>4, <1>5 DEF Good, ReaderInv, reader
<1> QED BY <1>6, <1>7, <1>8 DEF Good

(* The error marker stands where a length would.                           *)
LEMMA WriteExceptionGood ==
    ASSUME Sizes, Basic, TypeInv', NEW m \in Nat, NEW c \in [0..m -> Nat], Good(m, c),
           WriteException
    PROVE  Good(m, c)'
<1> DEFINE s == <<Token("exception"), Length, Body(<<>>)>>
<1>1. /\ pc = "raised" /\ pc' = "flush" /\ out' = out \o s
      /\ UNCHANGED <<sent, cut, used, reader>> /\ TypeInv /\ used \in Nat
  BY DEF WriteException, Basic, read, TypeInv
<1>2. Open(m) /\ status # "ok" /\ Len(out) \in Nat
  BY <1>1 DEF Good, FormInv, ReaderInv, TypeInv
<1>3. /\ Grown /\ Len(out') = Len(out) + 3
      /\ out'[Len(out) + 1] = Token("exception") /\ out'[Len(out) + 2] = Length
      /\ out'[Len(out) + 3] = Body(<<>>)
  <2>1. <<>> \in Seq(Nat)
    OBVIOUS
  <2>2. Body(<<>>) \in Cell /\ Token("exception") \in Cell /\ Length \in Cell
    BY <2>1, CellType
  <2>3. s \in Seq(Cell) /\ Len(s) = 3
    BY <2>2
  <2>4. /\ Grown /\ Len(out') = Len(out) + 3
        /\ \A i \in 1..3 : out'[Len(out) + i] = s[i]
    <3> HIDE DEF s
    <3> QED BY <1>1, <2>3, Written
  <2> QED BY <2>4
<1>4. Errored(m)' /\ ~Ended(m)'
  BY <1>2, <1>3 DEF Open, Errored, Ended
<1>5. DataInv(m, c)'
  <2>1. used' >= used
    BY <1>1
  <2> QED BY <1>1, <1>3, <2>1, DataKept DEF Good
<1>6. FormInv(m, c)'
  BY <1>1, <1>4 DEF FormInv, Forms
<1>7. ReaderInv(m, c)'
  BY <1>1, <1>2, <1>3, WriteKeepsReader
<1> QED BY <1>5, <1>6, <1>7 DEF Good

-----------------------------------------------------------------------------
(* What the reader finds at its place, by the place.                       *)
LEMMA AtPair ==
    ASSUME Basic, NEW m \in Nat, NEW c \in [0..m -> Nat], Good(m, c),
           NEW k \in 0..m, rpos = 2 * k, k < m
    PROVE  /\ At(1) = "length" /\ At(2) = "body"
           /\ out[rpos + 2].objs = Numbers(c[k], c[k + 1] - c[k])
           /\ c[k] <= c[k + 1] /\ rpos + 2 = 2 * (k + 1)
<1>1. k + 1 \in 1..m /\ (k + 1) - 1 = k /\ 2 * (k + 1) - 1 = rpos + 1 /\ 2 * (k + 1) = rpos + 2
  OBVIOUS
<1>2. /\ c[k] <= c[k + 1] /\ out[rpos + 1] = Length
      /\ out[rpos + 2] = Body(Numbers(c[k], c[k + 1] - c[k]))
  BY <1>1 DEF Good, DataInv
<1> QED BY <1>1, <1>2, Tokens DEF At

LEMMA AtSection ==
    ASSUME Sizes, Basic, NEW m \in Nat, NEW c \in [0..m -> Nat], Good(m, c), rpos = 2 * m, Have(2)
    PROVE  \/ Ended(m) /\ At(1) = "timing" /\ At(2) = "times"
           \/ Errored(m) /\ At(1) = "exception" /\ At(2) = "length"
<1>1. Len(out) \in Nat /\ flushed <= Len(out) /\ flushed \in Nat
  BY DEF Basic, TypeInv
<1>2. Len(out) >= 2 * m + 2
  BY <1>1 DEF Have
<1>3. Ended(m) \/ Errored(m)
  BY <1>1, <1>2 DEF Good, FormInv, Forms, Open, Half, Updated
<1> QED BY <1>3, Tokens DEF Ended, Errored, At

LEMMA AtEnd ==
    ASSUME NEW m \in Nat, Ended(m), rpos = 2 * m + 2
    PROVE  At(1) = "end"
<1>1. rpos + 1 = 2 * m + 3
  OBVIOUS
<1> QED BY <1>1, Tokens DEF Ended, At

LEMMA ReaderGood ==
    ASSUME Sizes, Basic, NEW m \in Nat, NEW c \in [0..m -> Nat], Good(m, c), Reader
    PROVE  Good(m, c)'
<1>0. /\ UNCHANGED <<read, pc, out, flushed>> /\ status = "reading"
      /\ rpos \in Nat /\ flushed \in Nat /\ flushed <= Len(out) /\ used \in Nat
      /\ Len(out) \in Nat
  BY DEF Reader, ReadRecord, ReadTiming, ReadException, ReadEnd, ReadEof, Basic, TypeInv
<1>1. DataInv(m, c)'
  BY <1>0 DEF Good, DataInv, read
<1>2. /\ Open(m)' = Open(m) /\ Half(m)' = Half(m) /\ Ended(m)' = Ended(m)
      /\ Updated(m)' = Updated(m) /\ Errored(m)' = Errored(m) /\ Whole' = Whole
  BY <1>0 DEF Open, Half, Ended, Updated, Errored, Whole, HeaderEnd, CommandStart, read
<1>3. FormInv(m, c)'
  BY <1>0, <1>2 DEF Good, FormInv, Forms, read
<1>4. \/ \E k \in 0..m : rpos = 2 * k /\ got = Numbers(0, c[k])
      \/ rpos = 2 * m + 2 /\ Ended(m) /\ got = Numbers(0, c[m])
  BY <1>0 DEF Good, ReaderInv
<1>5. \A k \in 0..m : c[k] \in 0..used
  BY <1>0 DEF Good, DataInv
<1>6. CASE ReadRecord
  <2>1. PICK k \in 0..m : rpos = 2 * k /\ got = Numbers(0, c[k]) /\ k < m
    <3>1. CASE rpos = 2 * m + 2 /\ Ended(m)
      BY <1>6, <3>1, AtEnd DEF ReadRecord, Markers
    <3>2. CASE rpos = 2 * m
      BY <1>6, <3>2, AtSection DEF ReadRecord, Markers
    <3> QED BY <1>4, <3>1, <3>2
  <2>2. /\ rpos' = 2 * (k + 1) /\ status' = "reading" /\ k + 1 \in 0..m
        /\ got' = Numbers(0, c[k]) \o Numbers(c[k], c[k + 1] - c[k])
    <3>1. /\ At(1) = "length" /\ At(2) = "body" /\ rpos + 2 = 2 * (k + 1)
          /\ out[rpos + 2].objs = Numbers(c[k], c[k + 1] - c[k])
      BY <2>1, AtPair
    <3>2. rpos' = rpos + 2 /\ status' = status /\ got' = got \o out[rpos + 2].objs
      BY <1>6, <3>1 DEF ReadRecord, Take
    <3> QED BY <1>0, <2>1, <3>1, <3>2
  <2>3. got' = Numbers(0, c[k + 1])
    <3>1. c[k] \in Nat /\ c[k + 1] \in Nat /\ c[k] <= c[k + 1]
      BY <2>1, <2>2, AtPair
    <3> QED BY <2>2, <3>1, NumbersConcat
  <2>4. ReaderInv(m, c)'
    BY <1>0, <1>5, <2>2, <2>3 DEF ReaderInv, read
  <2> QED BY <1>1, <1>3, <2>4 DEF Good
<1>7. CASE ReadTiming
  <2>1. rpos = 2 * m /\ got = Numbers(0, c[m])
    <3>1. CASE rpos = 2 * m + 2 /\ Ended(m)
      BY <1>7, <3>1, AtEnd DEF ReadTiming
    <3>2. ASSUME NEW k \in 0..m, rpos = 2 * k, k < m PROVE FALSE
      BY <1>7, <3>2, AtPair DEF ReadTiming
    <3> QED BY <1>4, <3>1, <3>2
  <2>2. Ended(m) /\ At(2) = "times"
    BY <1>7, <2>1, AtSection DEF ReadTiming
  <2>3. rpos' = 2 * m + 2 /\ status' = "reading" /\ got' = got
    BY <1>0, <1>7, <2>1, <2>2 DEF ReadTiming, Take
  <2>4. ReaderInv(m, c)'
    BY <1>0, <1>2, <1>5, <2>1, <2>2, <2>3 DEF ReaderInv, read
  <2> QED BY <1>1, <1>3, <2>4 DEF Good
<1>8. CASE ReadException
  <2>1. At(2) = "length"
    <3>1. CASE rpos = 2 * m + 2 /\ Ended(m)
      BY <1>8, <3>1, AtEnd DEF ReadException
    <3>2. ASSUME NEW k \in 0..m, rpos = 2 * k, k < m PROVE FALSE
      BY <1>8, <3>2, AtPair DEF ReadException
    <3>3. CASE rpos = 2 * m
      <4>1. Have(2)
        BY <1>0, <1>8 DEF ReadException, Have
      <4> QED BY <1>8, <3>3, <4>1, AtSection DEF ReadException
    <3> QED BY <1>4, <3>1, <3>2, <3>3
  <2>2. status' = "exception" /\ got' = got
    BY <1>8, <2>1 DEF ReadException
  <2>3. ReaderInv(m, c)'
    BY <1>0, <2>2 DEF Good, ReaderInv, read
  <2> QED BY <1>1, <1>3, <2>3 DEF Good
<1>9. CASE ReadEnd
  <2>1. rpos = 2 * m + 2 /\ Ended(m) /\ got = Numbers(0, c[m])
    <3>1. ASSUME NEW k \in 0..m, rpos = 2 * k, k < m PROVE FALSE
      BY <1>9, <3>1, AtPair DEF ReadEnd
    <3>2. CASE rpos = 2 * m
      <4>1. Have(2)
        BY <1>0, <1>9 DEF ReadEnd, Have, Sizes
      <4> QED BY <1>9, <3>2, <4>1, AtSection DEF ReadEnd
    <3> QED BY <1>4, <3>1, <3>2
  <2>2. Updated(m)
    <3>1. NumAccums \in Nat
      BY DEF Sizes
    <3>2. Len(out) >= 2 * m + 4 + 2 * NumAccums
      BY <1>0, <1>9, <2>1, <3>1 DEF ReadEnd, Have
    <3>3. Updated(m) \/ (Len(out) = 2 * m + 4)
      BY <1>0, <2>1, <3>1, <3>2 DEF Good, FormInv, Forms, Open, Half, Errored
    <3>4. CASE Len(out) = 2 * m + 4
      <4>1. NumAccums = 0
        BY <3>1, <3>2, <3>4
      <4> QED BY <2>1, <3>4, <4>1 DEF Updated
    <3> QED BY <3>3, <3>4
  <2>3. \A i \in 1..NumAccums : At(1 + 2 * i) = "length"
    <3> TAKE i \in 1..NumAccums
    <3>1. rpos + (1 + 2 * i) = 2 * m + 3 + 2 * i
      BY <2>1 DEF Sizes
    <3> QED BY <2>2, <3>1, Tokens DEF Updated, At
  <2>4. status' = "ok" /\ got' = got
    BY <1>9, <2>3 DEF ReadEnd
  <2>5. pc \in {"accums", "flush", "gone"}
    BY <1>0, <2>1 DEF Good, FormInv, Open, Half, Ended, Basic, TypeInv
  <2>6. ReaderInv(m, c)'
    BY <1>0, <1>2, <1>5, <2>1, <2>2, <2>4, <2>5 DEF ReaderInv, read
  <2> QED BY <1>1, <1>3, <2>6 DEF Good
<1>10. CASE ReadEof
  <2>1. ReaderInv(m, c)'
    BY <1>0, <1>10 DEF Good, ReaderInv, ReadEof, read
  <2> QED BY <1>1, <1>3, <2>1 DEF Good
<1> QED BY <1>6, <1>7, <1>8, <1>9, <1>10 DEF Reader

-----------------------------------------------------------------------------
(* The invariant is kept by every step.                                    *)
LEMMA NextInv == ASSUME Sizes, IInv, [Next]_vars PROVE IInv'
<1>1. CASE UNCHANGED vars
  <2>1. PICK m \in Nat : \E c \in [0..m -> Nat] : Good(m, c)
    BY DEF IInv
  <2>2. PICK c \in [0..m -> Nat] : Good(m, c)
    BY <2>1
  <2>3. Basic'
    BY <1>1 DEF vars, IInv, Basic, TypeInv, StartInv, InputInv, FramesRead, HeaderEnd,
       CommandStart
  <2>4. /\ Open(m)' = Open(m) /\ Half(m)' = Half(m) /\ Ended(m)' = Ended(m)
        /\ Updated(m)' = Updated(m) /\ Errored(m)' = Errored(m) /\ Whole' = Whole
    BY <1>1 DEF Open, Half, Ended, Updated, Errored, Whole, HeaderEnd, CommandStart, vars
  <2>5. Good(m, c)'
    BY <1>1, <2>2, <2>4 DEF Good, DataInv, FormInv, Forms, ReaderInv, vars
  <2> QED BY <2>3, <2>5 DEF IInv
<1>2. CASE Next
  <2>1. Basic /\ Basic' /\ TypeInv'
    BY <1>2, TypeStep, StartStep, InputStep DEF IInv, Basic
  <2>2. PICK m \in Nat : \E c \in [0..m -> Nat] : Good(m, c)
    BY DEF IInv
  <2>3. PICK c \in [0..m -> Nat] : Good(m, c)
    BY <2>2
  <2>4. ASSUME Good(m, c)' PROVE IInv'
    BY <2>1, <2>4 DEF IInv
  <2>5. CASE WritePayload
    <3>1. \E d \in [0..(m + 1) -> Nat] : Good(m + 1, d)'
      BY <2>1, <2>3, <2>5, WritePayloadGood
    <3>2. m + 1 \in Nat
      OBVIOUS
    <3> QED BY <2>1, <3>1, <3>2 DEF IInv
  <2>6. CASE Process
    BY <2>1, <2>3, <2>4, <2>6, ProcessGood
  <2>7. CASE WriteLength
    BY <2>1, <2>3, <2>4, <2>7, WriteLengthGood
  <2>8. CASE FinishData
    BY <2>1, <2>3, <2>4, <2>8, FinishDataGood
  <2>9. CASE FinishAccums
    BY <2>1, <2>3, <2>4, <2>9, FinishAccumsGood
  <2>10. CASE WriteException
    BY <2>1, <2>3, <2>4, <2>10, WriteExceptionGood
  <2>11. CASE Reader
    BY <2>1, <2>3, <2>4, <2>11, ReaderGood
  <2>12. CASE ReadCommand
    <3>1. /\ pc = "broadcasts" /\ pc' = "loop" /\ items' = <<>> /\ used = 0
          /\ UNCHANGED <<sent, cut, used, out, reader>>
      BY <2>1, <2>12 DEF ReadCommand, Basic, StartInv
    <3>2. c[m] = 0
      BY <2>3, <3>1 DEF Good, DataInv
    <3>3. items' = Numbers(c[m], used - c[m])
      BY <3>1, <3>2 DEF Numbers
    <3> QED BY <2>1, <2>3, <2>4, <3>1, <3>3, QuietGood
  <2>13. pc = "loop" => items = Numbers(c[m], used - c[m])
    BY <2>3 DEF Good, FormInv
  <2>14. CASE LoadFrame
    BY <2>1, <2>3, <2>4, <2>13, <2>14, QuietGood DEF LoadFrame
  <2>15. CASE UnitTest \/ Exit \/ Killed
    BY <2>1, <2>3, <2>4, <2>15, QuietGood DEF UnitTest, Exit, Killed, read
  <2>16. CASE ReadHeader \/ ReadBroadcast
    BY <2>1, <2>3, <2>4, <2>16, QuietGood DEF ReadHeader, ReadBroadcast
  <2>17. CASE HeaderError \/ LoopError
    BY <2>1, <2>3, <2>4, <2>17, QuietGood DEF HeaderError, LoopError, Raise, read
  <2>18. CASE Flush
    <3>1. UNCHANGED <<sent, cut, used, out, items, pc, reader>>
      BY <2>18 DEF Flush, read
    <3>2. /\ Open(m)' = Open(m) /\ Half(m)' = Half(m) /\ Ended(m)' = Ended(m)
          /\ Updated(m)' = Updated(m) /\ Errored(m)' = Errored(m) /\ Whole' = Whole
      BY <3>1 DEF Open, Half, Ended, Updated, Errored, Whole, HeaderEnd, CommandStart
    <3>3. Good(m, c)'
      BY <2>3, <3>1, <3>2 DEF Good, DataInv, FormInv, Forms, ReaderInv, reader
    <3> QED BY <2>4, <3>3
  <2> QED BY <1>2, <2>5, <2>6, <2>7, <2>8, <2>9, <2>10, <2>11, <2>12, <2>14, <2>15, <2>16,
             <2>17, <2>18 DEF Next, Main
<1> QED BY <1>1, <1>2

(* worker.py: whatever was being written when the error came, the reader   *)
(* finds every marker where it expects a length, and at every moment the   *)
(* results it has taken are a prefix of the right ones.                    *)
THEOREM Aligned == ASSUME Sizes PROVE Spec => []StreamAligned
<1>1. ASSUME IInv PROVE StreamAligned
  <2>1. used \in Nat /\ status # "garbled" /\ \E n \in 0..used : got = Numbers(0, n)
    BY <1>1 DEF IInv, Basic, TypeInv, Good, ReaderInv
  <2>2. PICK n \in 0..used : got = Numbers(0, n)
    BY <2>1
  <2>3. Len(got) = n
    BY <2>1, <2>2, NumbersType
  <2>4. got = [i \in 1..Len(got) |-> i]
    BY <2>1, <2>2, <2>3 DEF Numbers
  <2> QED BY <2>1, <2>3, <2>4 DEF StreamAligned
<1> QED BY <1>1, InitInv, NextInv, PTL DEF Spec

(* worker.py: a task that counts as successful has delivered the result of *)
(* every record of every frame that arrived whole, in order, and           *)
(* accumulator updates that agree with them, and its input did not stop    *)
(* within a length.                                                        *)
THEOREM WholeSuccess == ASSUME Sizes PROVE Spec => []SuccessIsWhole
<1>1. ASSUME IInv PROVE SuccessIsWhole
  <2> SUFFICES ASSUME status = "ok"
               PROVE  /\ got = [i \in 1..(((cut - HeaderEnd) \div Cells) * InBatch) |-> i]
                      /\ (cut - HeaderEnd) % Cells # 1
                      /\ NumAccums > 0 => out[Len(out)] = Update(Len(got))
    BY DEF SuccessIsWhole
  <2>0. TypeInv /\ HeaderEnd \in Nat /\ cut \in Nat /\ used \in Nat /\ NumAccums \in Nat
    BY <1>1, HeaderType DEF IInv, Basic, TypeInv, Sizes
  <2>1. PICK m \in Nat : \E c \in [0..m -> Nat] : Good(m, c)
    BY <1>1 DEF IInv
  <2>2. PICK c \in [0..m -> Nat] : Good(m, c)
    BY <2>1
  <2>3. Updated(m) /\ Ended(m) /\ got = Numbers(0, c[m])
    BY <2>2 DEF Good, ReaderInv, Updated
  <2>4. Whole /\ got = Numbers(0, used)
    BY <2>2, <2>3 DEF Good, FormInv
  <2>5. PICK n \in Nat : used = n * InBatch /\ cut - (HeaderEnd + Cells * n) \in {0, 2, 3}
    BY <2>4 DEF Whole
  <2>6. (cut - HeaderEnd) \div Cells = n /\ (cut - HeaderEnd) % Cells # 1
    <3>1. PICK k \in {0, 2, 3} : cut - HeaderEnd = 4 * n + k
      BY <2>0, <2>5 DEF Cells
    <3>2. (4 * n + k) \div 4 = n /\ (4 * n + k) % 4 = k
      OBVIOUS
    <3> QED BY <3>1, <3>2 DEF Cells
  <2>7. got = [i \in 1..(((cut - HeaderEnd) \div Cells) * InBatch) |-> i]
    <3>1. got = [i \in 1..used |-> i]
      BY <2>0, <2>4 DEF Numbers
    <3> QED BY <2>5, <2>6, <3>1
  <2>8. ASSUME NumAccums > 0 PROVE out[Len(out)] = Update(Len(got))
    <3>1. Len(got) = used
      BY <2>0, <2>4, NumbersType
    <3>2. NumAccums \in 1..NumAccums /\ Len(out) = 2 * m + 4 + 2 * NumAccums
      BY <2>0, <2>3, <2>8 DEF Updated
    <3> QED BY <2>3, <3>1, <3>2 DEF Updated
  <2> QED BY <2>6, <2>7, <2>8
<1> QED BY <1>1, InitInv, NextInv, PTL DEF Spec
=============================================================================
