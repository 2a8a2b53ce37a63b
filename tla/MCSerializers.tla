--------------------------- MODULE MCSerializers ---------------------------
(* One state per question about Serializers: a case, then its answer.      *)
EXTENDS Serializers, FiniteSets

CONSTANTS MaxLen,  \* bound: objects in a stream
          Sizes    \* batch sizes

VARIABLES case, answer

Pending == [objs |-> <<>>, err |-> TRUE, pending |-> TRUE]
Items(n) == [i \in 1..n |-> i]
Words    == {<<>>, <<"a">>, <<"a", "b">>}
Plain    == {Framed("pickle"), Framed("cloudpickle"), Framed("marshal")}
Lists    == Plain \cup {BatchedOf(Framed("pickle"), n) : n \in Sizes}
Pairs    == {Both(k, a, b) : k \in {"pair", "cartesian"}, a \in Lists, b \in Lists}

Cases ==
    [op : {"load"}, ser : Lists, n : 0..MaxLen, cut : 0..(4 * MaxLen)]
    \cup [op : {"utf8", "noop"}, words : BoundedSeq(Words, 3), cut : 0..12]
    \cup [op : {"pair"}, ser : Pairs, n : 0..MaxLen]
    \cup [op : {"union"}, sers : BoundedSeq(Lists, 3) \ {<<>>}, n : {3}]
    \cup [op : {"slices"}, n : 0..(3 * MaxLen), parts : 1..MaxLen, size : Sizes \cup {1, UNLIMITED}]
    \cup [op : {"mixed"}, ser : Lists \cup Pairs, by : Lists \cup Pairs, n : {3}]

Stream(c) == IF c.ser.kind \in {"pair", "cartesian"}
             THEN JavaWrites(c.ser, Items(c.n), Items(c.n))
             ELSE DumpStream(c.ser, Items(c.n))
Zippable(c) == c.ser.kind = "pair" =>
    Len(Payloads(c.ser.key, Items(c.n))) = Len(Payloads(c.ser.val, Items(c.n)))

Init == case \in {c \in Cases : c.op \in {"pair", "mixed"} => Zippable(c)}
        /\ answer = Pending

Load == case.op = "load"
        /\ answer' \in Seen(LoadStream(case.ser, First(Stream(case), case.cut)))
Text == case.op \in {"utf8", "noop"}
        /\ LET sent == DumpStream(Framed(case.op), case.words)
           IN answer' \in Seen(LoadStream(Framed(case.op), First(sent, case.cut)))
Pair == case.op = "pair" /\ answer' \in Seen(LoadStream(case.ser, Stream(case)))
(* A union: data of one format read with a serializer that is equal.       *)
Mixed == /\ case.op = "mixed" /\ Equal(case.by, case.ser)
         /\ answer' \in Seen(LoadStream(case.by, Stream(case)))

(* A union of parts with the same objects, read by its first serializer.   *)
Union == /\ case.op = "union"
         /\ LET fs == UnionFormats(case.sers, BatchedOf(Framed("pickle"), 2))
            IN answer' \in Seen(LoadStream(fs[1], FlattenSeq([i \in 1..Len(fs) |->
                                               DumpStream(fs[i], Items(case.n))])))
Slices == /\ case.op = "slices"
          /\ LET p == Parallelize(Items(case.n), case.parts, case.size)
                 got == [i \in 1..case.parts |->
                           LoadStream(p.ser, Written(Slice(p.frames, case.parts, i)))]
             IN answer' = [objs |-> [i \in 1..case.parts |-> got[i].objs],
                           err |-> \E i \in 1..case.parts : got[i].end # "eof"]

Next == answer = Pending /\ UNCHANGED case
        /\ (Load \/ Text \/ Pair \/ Mixed \/ Union \/ Slices)
Spec == Init /\ [][Next]_<<case, answer>>

Answered(op) == case.op = op /\ answer # Pending

-----------------------------------------------------------------------------
(* load_stream gives back what dump_stream wrote, whatever the batches; of *)
(* a stream cut anywhere the objects of exactly the frames that arrived    *)
(* whole.  The cut is noticed when it is within a length, and may be when  *)
(* it is within a payload.                                                 *)
RoundTrip ==
    Answered("load") =>
        LET all   == Items(case.n)
            ps    == Payloads(case.ser, all)
            End(m) == Len(Written(First(ps, m)))
            whole == CHOOSE m \in 0..Len(ps) :
                        End(m) <= case.cut /\ (m < Len(ps) => case.cut < End(m + 1))
            objs  == [i \in 1..whole |-> ps[i][2]]
        IN /\ answer.objs = IF case.ser.kind = "batched" THEN FlattenSeq(objs) ELSE objs
           /\ whole = Len(ps) => answer = [objs |-> all, err |-> FALSE]
           /\ whole < Len(ps) /\ case.cut = End(whole) + 1 => answer.err

(* Strings written by the JVM come back, the empty ones too; payloads that *)
(* are passed on as they are come back when none of them is empty.  A cut  *)
(* leaves a prefix, its last string possibly shorter than it was.          *)
TextRoundTrip ==
    Answered("utf8") \/ (Answered("noop") /\ <<>> \notin ToSet(case.words)) =>
        LET n == Len(answer.objs)
            sent == DumpStream(Framed(case.op), case.words)
        IN IF case.cut >= Len(sent) THEN answer = [objs |-> case.words, err |-> FALSE]
           ELSE /\ n <= Len(case.words)
                /\ First(answer.objs, n - 1) = First(case.words, n - 1)
                /\ n > 0 => IsPrefix(answer.objs[n], case.words[n])

(* cartesian() pairs every element with every element, however the two     *)
(* sides are batched; zip() of two sides batched alike pairs them in order.*)
PairsRight ==
    Answered("pair") =>
        IF case.ser.kind = "cartesian"
        THEN /\ Len(answer.objs) = case.n * case.n
             /\ ToSet(answer.objs) = (1..case.n) \X (1..case.n)
        ELSE case.ser.key = case.ser.val =>
                 answer.objs = [i \in 1..case.n |-> <<i, i>>]

(* The comment on __eq__: output of equal serializers can be read with     *)
(* either.                                                                 *)
EqualReads ==
    Answered("mixed") => answer \in Seen(LoadStream(case.ser, Stream(case)))

(* A union gives the objects of its parts one after the other, whatever    *)
(* formats they had.                                                       *)
UnionReads ==
    Answered("union") =>
        answer = [objs |-> FlattenSeq([i \in 1..Len(case.sers) |-> Items(case.n)]),
                  err |-> FALSE]

(* parallelize loses nothing, keeps the order and leaves no slice empty    *)
(* when there is an object for each ("Make sure we distribute data evenly  *)
(* if it's smaller than self.batchSize").                                  *)
SlicesRight ==
    Answered("slices") =>
        /\ FlattenSeq(answer.objs) = Items(case.n) /\ ~answer.err
        /\ case.n >= case.parts => \A i \in 1..case.parts : answer.objs[i] # <<>>

(* Streams as a whole.                                                     *)
StreamsRight == /\ RoundTrip /\ TextRoundTrip /\ PairsRight
                /\ EqualReads /\ UnionReads /\ SlicesRight
=============================================================================
