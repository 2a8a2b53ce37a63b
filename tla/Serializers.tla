---------------------------- MODULE Serializers ----------------------------
(***************************************************************************)
(* pyspark/serializers.py: what dump_stream writes and load_stream makes   *)
(* of it.  A stream is a sequence of cells; a length is two cells, a       *)
(* payload as many as its length.  A serializer is a record: a framed one  *)
(* by the kind of its payload, a batched one with the serializer it wraps  *)
(* and its size, a cartesian or pair deserializer with its two parts.      *)
(***************************************************************************)
EXTENDS Integers, Sequences, SequencesExt

Framed(kind)        == [kind |-> kind]
BatchedOf(ser, n)   == [kind |-> "batched", of |-> ser, size |-> n]
Both(kind, ks, vs)  == [kind |-> kind, key |-> ks, val |-> vs]
UNLIMITED           == -1

(* A pickle or marshal payload is never empty, NoOp's and UTF8's are the   *)
(* object itself.                                                          *)
Format(kind)     == IF kind = "cloudpickle" THEN "pickle" ELSE kind
Dumps(kind, obj) ==
    IF kind \in {"noop", "utf8"} THEN obj ELSE <<Format(kind), obj>>
WriteWithLength(payload) == <<0, Len(payload)>> \o payload

MutBatched(items, size) ==
    LET step(a, x) == IF Len(a.items) + 1 = size
                      THEN [out |-> Append(a.out, Append(a.items, x)), items |-> <<>>]
                      ELSE [a EXCEPT !.items = Append(@, x)]
    IN IF size = UNLIMITED THEN <<items>>
       ELSE FoldLeft(step, [out |-> <<>>, items |-> <<>>], items).out
(* _batched: one list of everything, or lists of size items and a last     *)
(* shorter one.                                                            *)
Batched(items, size) ==
    LET step(a, x) == IF Len(a.items) + 1 = size
                      THEN [out |-> Append(a.out, Append(a.items, x)), items |-> <<>>]
                      ELSE [a EXCEPT !.items = Append(@, x)]
        end == FoldLeft(step, [out |-> <<>>, items |-> <<>>], items)
    IN IF size = UNLIMITED THEN <<items>>
       ELSE IF end.items = <<>> THEN end.out ELSE Append(end.out, end.items)

(* The frames of a stream, one payload each.                               *)
Payloads(ser, objs) ==
    LET kind == IF ser.kind = "batched" THEN ser.of.kind ELSE ser.kind
        put  == IF ser.kind = "batched" THEN Batched(objs, ser.size) ELSE objs
    IN [i \in 1..Len(put) |-> Dumps(kind, put[i])]
Written(payloads) ==
    FlattenSeq([i \in 1..Len(payloads) |-> WriteWithLength(payloads[i])])
DumpStream(ser, objs) == Written(Payloads(ser, objs))

-----------------------------------------------------------------------------
Rest(s, n)  == SubSeq(s, n + 1, Len(s))
First(s, n) == SubSeq(s, 1, IF n < Len(s) THEN n ELSE Len(s))

(* _read_with_length: an empty read is the end of the file, whether the    *)
(* stream is at its end or the payload is empty; a length cut short is a   *)
(* struct.error, which only UTF8Deserializer takes for the end.  loads of  *)
(* a payload cut short raises EOFError, the end as well, or another error: *)
(* "cut".  UTF8Deserializer and NoOpSerializer take what they get.         *)
ReadWithLength(kind, s) ==
    LET length == s[2]  body == First(Rest(s, 2), length)
    IN CASE s = <<>> -> [end |-> "eof"]
         [] Len(s) = 1 -> [end |-> IF kind = "utf8" THEN "eof" ELSE "error"]
         [] kind = "utf8" -> [end |-> "no", obj |-> body]
         [] kind # "utf8" /\ body = <<>> -> [end |-> "eof"]
         [] kind = "noop" -> [end |-> "no", obj |-> body]
         [] OTHER -> IF Len(body) < length THEN [end |-> "cut"]
                     ELSE IF body[1] = Format(kind) THEN [end |-> "no", obj |-> body[2]]
                     ELSE [end |-> "error"]

(* load_stream before unbatching, the kinds of the payloads in turn.       *)
RECURSIVE LoadPayloads(_, _)
LoadPayloads(kinds, s) ==
    LET r == ReadWithLength(kinds[1], s)
    IN IF r.end # "no" THEN [objs |-> <<>>, end |-> r.end]
       ELSE LET more == LoadPayloads(Append(Tail(kinds), Head(kinds)),
                                     Rest(s, 2 + s[2]))
            IN [objs |-> <<r.obj>> \o more.objs, end |-> more.end]

(* What the reader may see of it: the objects, with an error or without.   *)
Seen(loaded) == {[objs |-> loaded.objs, err |-> e] :
                   e \in IF loaded.end = "cut" THEN BOOLEAN ELSE {loaded.end = "error"}}

ZipShort(ks, vs) ==
    [i \in 1..(IF Len(ks) < Len(vs) THEN Len(ks) ELSE Len(vs)) |-> <<ks[i], vs[i]>>]
Product(ks, vs) ==
    FlattenSeq([i \in 1..Len(ks) |-> [j \in 1..Len(vs) |-> <<ks[i], vs[j]>>]])

(* CartesianDeserializer and PairDeserializer: keys and values of one      *)
(* frame each, taken in turn from the same stream.                         *)
KindOf(ser) == IF ser.kind = "batched" THEN ser.of.kind ELSE ser.kind
PrepareKeysValues(ser, objs) ==
    LET list(part, x) == IF part.kind = "batched" THEN x ELSE <<x>>
    IN [i \in 1..(Len(objs) \div 2) |-> <<list(ser.key, objs[2 * i - 1]),
                                          list(ser.val, objs[2 * i])>>]

LoadStream(ser, s) ==
    IF ser.kind \in {"cartesian", "pair"}
    THEN LET got == LoadPayloads(<<KindOf(ser.key), KindOf(ser.val)>>, s)
             kvs == PrepareKeysValues(ser, got.objs)
         IN [objs |-> FlattenSeq([i \in 1..Len(kvs) |->
                          IF ser.kind = "pair"
                          THEN ZipShort(kvs[i][1], kvs[i][2])
                          ELSE Product(kvs[i][1], kvs[i][2])]),
             end |-> got.end]
    ELSE LET got == LoadPayloads(<<KindOf(ser)>>, s)
         IN IF ser.kind = "batched"
            THEN [objs |-> FlattenSeq(got.objs), end |-> got.end] ELSE got

(* RDD.zip and RDD.cartesian on one partition: the JVM pairs the frames    *)
(* (and refuses to zip different numbers of them).                         *)
JavaZip(ps, qs) == Written(FlattenSeq([i \in 1..Len(ps) |-> <<ps[i], qs[i]>>]))
JavaCartesian(ps, qs) ==
    Written(FlattenSeq([i \in 1..Len(ps) |->
        FlattenSeq([j \in 1..Len(qs) |-> <<ps[i], qs[j]>>])]))
JavaWrites(ser, xs, ys) ==
    LET ps == Payloads(ser.key, xs)  qs == Payloads(ser.val, ys)
    IN IF ser.kind = "pair" THEN JavaZip(ps, qs) ELSE JavaCartesian(ps, qs)

-----------------------------------------------------------------------------
(* a == b in Python: the right operand's method first when its class is a  *)
(* proper subclass of the left one's.                                      *)
SubclassOf(kind) == CASE kind = "cartesian" -> {"cartesian", "pair"}
                      [] kind = "pickle" -> {"pickle", "cloudpickle"}
                      [] OTHER -> {kind}

RECURSIVE Equal(_, _)
EqMethod(a, b) ==
    /\ b.kind \in SubclassOf(a.kind)
    /\ a.kind = "batched" => Equal(b.of, a.of)
    /\ a.kind \in {"cartesian", "pair"} =>
         Equal(a.key, b.key) /\ Equal(a.val, b.val)
Equal(a, b) ==
    IF b.kind # a.kind /\ b.kind \in SubclassOf(a.kind)
    THEN EqMethod(b, a) ELSE EqMethod(a, b)

(* SparkContext.union and RDD.union: RDDs in different formats are written *)
(* anew with the default serializer.  The formats of the parts; the first  *)
(* one reads them all.                                                     *)
Reserialize(ser, default) == IF Equal(ser, default) THEN ser ELSE default
UnionFormats(sers, default) ==
    IF \E i \in 1..Len(sers) : ~Equal(sers[i], sers[1])
    THEN [i \in 1..Len(sers) |-> Reserialize(sers[i], default)] ELSE sers

-----------------------------------------------------------------------------
(* parallelize: the batch size for len objects in numSlices slices, and    *)
(* the slices the JVM makes of the frames (external).                      *)
ParallelBatch(len, numSlices, batchSize) ==
    IF len \div numSlices < batchSize THEN len \div numSlices ELSE batchSize
Parallelize(objs, numSlices, batchSize) ==
    LET size == ParallelBatch(Len(objs), numSlices, batchSize)
        ser  == IF size > 1 THEN BatchedOf(Framed("pickle"), size) ELSE Framed("pickle")
    IN [ser |-> ser, frames |-> Payloads(ser, objs)]
Slice(frames, numSlices, i) ==
    SubSeq(frames, ((i - 1) * Len(frames)) \div numSlices + 1, (i * Len(frames)) \div numSlices)
=============================================================================
