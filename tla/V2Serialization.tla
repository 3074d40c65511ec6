--------------------------- MODULE V2Serialization ---------------------------
(***************************************************************************)
(* The V2 format (HdrHistogram_rust/src/serialization): V2Serializer and   *)
(* V2DeflateSerializer write a histogram, Deserializer reads it back.  A   *)
(* stream is a sequence of cells: the cells of the header, then bytes of   *)
(* ChunkBits + 1 bits (7 + 1 in the code), of which a varint has at most   *)
(* MaxBytes (9 in the code).  One Deserializer reads several streams with  *)
(* the same payload buffer; a stream may have been cut off, or may come    *)
(* from a program that writes other headers.                               *)
(***************************************************************************)
EXTENDS HistogramOps

CONSTANTS ChunkBits, MaxBytes,
          Hists,     \* histograms to write first
          Later,     \* histograms to write after the first
          Formats,   \* a subset of {"v2", "deflate"}
          ReadMax,   \* T::max_value() of the counter type read into
          MaxUses    \* bound: streams read by one Deserializer

ASSUME V2Assumption ==
    /\ ChunkBits \in Nat \ {0} /\ MaxBytes \in Nat \ {0}
    /\ W = MaxBytes * ChunkBits + 1
    /\ Formats \subseteq {"v2", "deflate"} /\ ReadMax \in 1..CounterMax /\ MaxUses \in Nat

SignedMax == 2^(W - 1) - 1  \* i64::max_value()

\* The counts array has the slots of its bounds, and no more than a Vec can.
ASSUME HistogramsAssumption ==
    \A g \in Hists \cup Later :
        /\ WellFormed(g) /\ Consistent(g)
        /\ DistinctValues(g) = NumBins(g.lay, BucketsToCover(g.lay, g.high))
        /\ DistinctValues(g) <= SignedMax

HighBit == 2^ChunkBits
Chunk(v, k) == v \div 2^(ChunkBits * k)

-----------------------------------------------------------------------------
(***************************************************************************)
(* Numbers                                                                 *)
(***************************************************************************)
zig_zag_encode(n) == IF n < 0 THEN -2 * n - 1 ELSE 2 * n
zig_zag_decode(e) == IF e % 2 = 0 THEN e \div 2 ELSE -(e \div 2) - 1

\* Mutant of varint_write: the chunk is added to the high bit unmasked.
varint_write_unmasked(v) ==
    LET n == Min({k \in 1..MaxBytes : k = MaxBytes \/ Chunk(v, k) = 0})
    IN  [k \in 1..n |-> IF k = n THEN Chunk(v, k - 1) ELSE HighBit + Chunk(v, k - 1)]

\* Mutant of varint_write: the last byte may not be a whole one.
varint_write_chunked(v) ==
    LET n == Min({k \in 1..(MaxBytes + 1) : Chunk(v, k) = 0})
    IN  [k \in 1..n |-> IF k = n THEN Chunk(v, k - 1)
                        ELSE HighBit + (Chunk(v, k - 1) % HighBit)]

varint_write(v) ==
    LET n == Min({k \in 1..MaxBytes : k = MaxBytes \/ Chunk(v, k) = 0})
    IN  [k \in 1..n |-> IF k = n THEN Chunk(v, k - 1)
                        ELSE HighBit + (Chunk(v, k - 1) % HighBit)]

\* How many bytes the varint at the head of b has.
VarintLen(b) == Min({k \in 1..MaxBytes : k = MaxBytes \/ (k <= Len(b) /\ b[k] < HighBit)})

varint_read_slice(b) ==
    LET n == VarintLen(b)
        bits(k) == IF k = MaxBytes THEN b[k] ELSE b[k] % HighBit
    IN  SumFunctionOnSet([k \in 1..n |-> bits(k) * 2^(ChunkBits * (k - 1))], 1..n)

\* varint_read: read_u8 fails at the end.
VarintFits(b) == VarintLen(b) <= Len(b)

-----------------------------------------------------------------------------
(***************************************************************************)
(* Serializers                                                             *)
(***************************************************************************)
IndexLimit(g) == IndexFor(g.lay, MaxOf(g))

\* One number for each count, one negative number for each run of zeros.
RunStart(g, i) == i <= IndexLimit(g) /\ (g.counts[i] # 0 \/ i = 0 \/ g.counts[i - 1] # 0)
RunLength(g, i) ==
    Min({n \in 1..(IndexLimit(g) + 1) : i + n > IndexLimit(g) \/ g.counts[i + n] # 0})

CountOrZeros(g, i) ==
    IF g.counts[i] = 0 /\ RunLength(g, i) > 1 THEN -RunLength(g, i) ELSE g.counts[i]

Serializable(g) == \A i \in DOMAIN g.counts : RunStart(g, i) => g.counts[i] <= SignedMax

\* The bytes written for the slots before each index.
Encoded(g) ==
    LET bytes[i \in 0..(IndexLimit(g) + 1)] ==
            IF i = 0 THEN <<>>
            ELSE bytes[i - 1] \o (IF RunStart(g, i - 1)
                                   THEN varint_write(zig_zag_encode(CountOrZeros(g, i - 1)))
                                   ELSE <<>>)
    IN  bytes
encode_counts(g) == Encoded(g)[IndexLimit(g) + 1]

max_encoded_size(g) == MaxBytes * (IndexLimit(g) + 1)

V2_COOKIE == "v2"
V2_COMPRESSED_COOKIE == "deflate"
HeaderCells == 7

V2Stream(g) ==
    LET counts == encode_counts(g)
    IN  <<V2_COOKIE, Len(counts), 0, g.sigfig, g.low, g.high, "1.0">> \o counts

\* zlib's output is one cell that holds the stream it stands for, and a checksum.
DeflateStream(g) == <<V2_COMPRESSED_COOKIE, 2, V2Stream(g), "adler32">>

-----------------------------------------------------------------------------
VARIABLES src,     \* the histogram written
          stream,  \* what the reader gets
          way,     \* history: "whole", "cut", "unsealed" or "other"
          buf,     \* payload_buf of the Deserializer
          dec,     \* the locals of deser_v2
          pc,      \* "write", "transit", "header", "loop", "done"
          result,  \* [err, h]
          uses

vars == <<src, stream, way, buf, dec, pc, result, uses>>

Idle == [len |-> 0, pos |-> 0, dest |-> 0, h |-> Resized(<<>>, 0),
         maxi |-> -1, mini |-> -1, total |-> 0]

Init ==
    /\ src \in Hists /\ stream = <<>> /\ way = "whole" /\ buf = <<>> /\ dec = Idle
    /\ pc = "write" /\ result = Ok(src) /\ uses = 0

\* serialize: CountNotSerializable, or the stream.
Serialize(format) ==
    /\ pc = "write" /\ uses < MaxUses
    /\ \/ /\ ~Serializable(src)
          /\ result' = Fail("CountNotSerializable", src) /\ pc' = "done"
          /\ UNCHANGED stream
       \/ /\ Serializable(src)
          /\ stream' = IF format = "v2" THEN V2Stream(src) ELSE DeflateStream(src)
          /\ pc' = "transit" /\ UNCHANGED result
    /\ way' = "whole" /\ dec' = Idle /\ uses' = uses + 1
    /\ UNCHANGED <<src, buf>>

Arrive ==
    /\ pc = "transit" /\ pc' = "header"
    /\ UNCHANGED <<src, stream, way, buf, dec, result, uses>>

\* The tail of the stream was never written, and data with it.
CutOff ==
    /\ pc = "transit" /\ pc' = "header" /\ way' = "cut"
    /\ \/ /\ stream[1] = V2_COOKIE
          /\ \E n \in 0..(Len(stream) - 1) : stream' = SubSeq(stream, 1, n)
       \/ /\ stream[1] = V2_COMPRESSED_COOKIE
          /\ \/ \E n \in 0..2 : stream' = SubSeq(stream, 1, n)
             \/ \E n \in 0..(Len(stream[3]) - 1) :
                   stream' = <<stream[1], stream[2], SubSeq(stream[3], 1, n)>>
    /\ UNCHANGED <<src, buf, dec, result, uses>>

\* The cut is so near the end of a zlib stream that all its data is there, but not
\* the whole checksum: deser_v2 stops reading before it gets that far.
CutInChecksum ==
    /\ pc = "transit" /\ stream[1] = V2_COMPRESSED_COOKIE
    /\ pc' = "header" /\ way' = "unsealed"
    /\ stream' = <<stream[1], stream[2], stream[3]>>
    /\ UNCHANGED <<src, buf, dec, result, uses>>

\* Another writer: one cell of the header has another value.
OtherHeader ==
    /\ pc = "transit" /\ stream[1] = V2_COOKIE /\ pc' = "header" /\ way' = "other"
    /\ \/ stream' = [stream EXCEPT ![1] = "v1"]
       \/ stream' = [stream EXCEPT ![3] = 1]
       \/ stream' = [stream EXCEPT ![7] = "0.5"]
       \/ \E n \in 0..stream[2] : stream' = [stream EXCEPT ![2] = n]
       \/ \E k \in {4, 5, 6}, v \in Words : stream' = [stream EXCEPT ![k] = v]
    /\ UNCHANGED <<src, buf, dec, result, uses>>

\* The stream that deser_v2 reads, after deserialize and deser_v2_compressed.
Inner ==
    IF stream = <<>> \/ stream[1] # V2_COMPRESSED_COOKIE THEN stream
    ELSE IF Len(stream) < 3 THEN <<>> ELSE stream[3]

\* What is wrong with the header, in the order of the reads.
HeaderError(s) ==
    IF s = <<>> THEN "IoError"
    ELSE IF s[1] # V2_COOKIE THEN "InvalidCookie"
    ELSE IF Len(s) < 3 THEN "IoError"
    ELSE IF s[3] # 0 THEN "UnsupportedFeature"
    ELSE IF Len(s) < HeaderCells THEN "IoError"
    ELSE IF s[7] # "1.0" THEN "UnsupportedFeature"
    ELSE IF ~CanCreate(s[5], s[6], s[4]) THEN "InvalidParameters"
    ELSE "none"

\* Mutant of PayloadShort: a short read of the payload is not an error.
PayloadShortIgnored(s) == FALSE

\* read_exact fails.
PayloadShort(s) == Len(s) < HeaderCells + s[2]

\* Mutant of PayloadSlice: all of the buffer, not payload_len bytes of it.
PayloadSliceAll(b, len) == b

\* payload_buf[0..payload_len]
PayloadSlice(b, len) == SubSeq(b, 1, len)

\* payload_buf grown to payload_len if it is shorter, with the payload (or what
\* there is of it) read in.
Filled(b, len, payload) ==
    [k \in 1..Max({len, Len(b)}) |-> IF k <= Len(payload) THEN payload[k]
                                    ELSE IF k <= Len(b) THEN b[k] ELSE 0]

ReadHeader ==
    /\ pc = "header"
    /\ LET s == Inner
           len == s[2]
           payload == SubSeq(s, HeaderCells + 1, Min({HeaderCells + len, Len(s)}))
       IN  \/ /\ HeaderError(s) # "none"
              /\ result' = Fail(HeaderError(s), src) /\ pc' = "done"
              /\ UNCHANGED <<buf, dec>>
           \/ /\ HeaderError(s) = "none" /\ PayloadShort(s)
              /\ buf' = Filled(buf, len, payload)
              /\ result' = Fail("IoError", src) /\ pc' = "done"
              /\ UNCHANGED dec
           \/ /\ HeaderError(s) = "none" /\ ~PayloadShort(s)
              /\ buf' = Filled(buf, len, payload)
              /\ dec' = [Idle EXCEPT !.len = Len(PayloadSlice(buf', len)),
                                     !.h = NewWithBounds(s[5], s[6], s[4])]
              /\ pc' = "loop" /\ UNCHANGED result
    /\ UNCHANGED <<src, stream, way, uses>>

\* DecodeLoopState::on_decoded_num and RestatState::on_nonzero_count.
OnDecodedNum(d, n) ==
    IF n < 0 THEN [err |-> "none", d |-> [d EXCEPT !.dest = @ - n]]
    ELSE IF n > ReadMax THEN [err |-> "UnsuitableCounterType", d |-> d]
    ELSE IF n = 0 THEN [err |-> "none", d |-> [d EXCEPT !.dest = @ + 1]]
    ELSE IF d.dest \notin DOMAIN d.h.counts THEN [err |-> "EncodedArrayTooLong", d |-> d]
    ELSE [err |-> "none",
          d |-> [d EXCEPT !.h.counts[d.dest] = n, !.dest = @ + 1,
                          !.maxi = d.dest,
                          !.mini = IF @ = -1 /\ d.dest # 0 THEN d.dest ELSE @,
                          !.total = SatAdd(@, n, MaxWord)]]

\* One varint, from a slice with b at its head.
Decode(b) ==
    LET r == OnDecodedNum(dec, zig_zag_decode(varint_read_slice(b))) IN
    /\ dec' = [r.d EXCEPT !.pos = @ + VarintLen(b)]
    /\ \/ r.err = "none" /\ UNCHANGED <<pc, result>>
       \/ r.err # "none" /\ result' = Fail(r.err, src) /\ pc' = "done"
    /\ UNCHANGED <<src, stream, way, buf, uses>>

Rest == SubSeq(PayloadSlice(buf, dec.len), dec.pos + 1, dec.len)

\* More than MaxBytes are left, so that any varint fits.
Fast == dec.pos < dec.len - MaxBytes

FastRead == pc = "loop" /\ Fast /\ Decode(SubSeq(Rest, 1, MaxBytes))

SlowRead == pc = "loop" /\ ~Fast /\ dec.pos < dec.len /\ VarintFits(Rest) /\ Decode(Rest)

SlowEof ==
    /\ pc = "loop" /\ ~Fast /\ dec.pos < dec.len /\ ~VarintFits(Rest)
    /\ result' = Fail("IoError", src) /\ pc' = "done"
    /\ UNCHANGED <<src, stream, way, buf, dec, uses>>

\* Mutant of Restated: the minimum is left as in a new histogram.
RestatedNoMin(d) ==
    LET g1 == IF d.maxi = -1 THEN d.h
              ELSE UpdateMax(d.h, HighestEquivalent(d.h.lay, ValueFor(d.h.lay, d.maxi)))
    IN  [g1 EXCEPT !.total = d.total]

\* RestatState::update_histogram
Restated(d) ==
    LET g1 == IF d.maxi = -1 THEN d.h
              ELSE UpdateMax(d.h, HighestEquivalent(d.h.lay, ValueFor(d.h.lay, d.maxi)))
        g2 == IF d.mini = -1 THEN g1 ELSE UpdateMin(g1, ValueFor(d.h.lay, d.mini))
    IN  [g2 EXCEPT !.total = d.total]

FinishRead ==
    /\ pc = "loop" /\ dec.pos >= dec.len
    /\ result' = Ok(Restated(dec)) /\ pc' = "done"
    /\ UNCHANGED <<src, stream, way, buf, dec, uses>>

Again ==
    /\ pc = "done" /\ uses < MaxUses
    /\ src' \in Later /\ pc' = "write"
    /\ stream' = <<>> /\ way' = "whole" /\ dec' = Idle /\ result' = Ok(src')
    /\ UNCHANGED <<buf, uses>>

Next == \/ \E f \in Formats : Serialize(f)
        \/ Arrive \/ CutOff \/ CutInChecksum \/ OtherHeader
        \/ ReadHeader \/ FastRead \/ SlowRead \/ SlowEof \/ FinishRead \/ Again

Spec == Init /\ [][Next]_vars

-----------------------------------------------------------------------------
(***************************************************************************)
(* Properties                                                              *)
(***************************************************************************)
\* Type invariant: the decoder never reads past the payload, and what is written
\* to the buffer is bytes.
TypeOK ==
    /\ dec.pos \in 0..dec.len /\ dec.total \in Words /\ dec.dest \in Nat
    /\ buf \in Seq(0..(2 * HighBit - 1))

\* A stream that arrives as it was written, or without zlib's checksum, is read
\* back as an equal histogram, whatever the Deserializer read before; when it is
\* not, the histogram had a count that does not fit the format or the counter type
\* read into, or it has the same counts but was nothing but zeros (then max() may
\* differ by the unit, as after restat) or reached the last slot of a word (where
\* max() depends on whether u64::max_value() itself was recorded).
RoundTrip ==
    pc = "done" /\ way \in {"whole", "unsealed"} =>
        \/ result.err = "none" /\ Equal(result.h, src) /\ Equal(src, result.h)
        \/ result.err = "CountNotSerializable" /\ \E i \in NonZero(src) : src.counts[i] > SignedMax
        \/ result.err = "UnsuitableCounterType" /\ \E i \in NonZero(src) : src.counts[i] > ReadMax
        \/ /\ result.err = "none" /\ result.h.counts = src.counts
           /\ NonZero(src) = {0} \/ IndexFor(src.lay, src.max) = IndexFor(src.lay, MaxWord)

\* A stream that was cut off is never read as a histogram, when data was lost: in
\* the header, between two counts or within one, compressed or not, although the
\* buffer still holds what was read before.
CutOffRejected ==
    pc = "done" /\ way = "cut" => result.err # "none"

\* Whatever header comes with the counts, a histogram that is accepted has the
\* statistics of its counts.
AcceptedConsistent ==
    pc = "done" /\ result.err = "none" =>
        LET g == result.h IN
        /\ g.total = Min({SumCounts(g, NonZero(g)), MaxWord})
        /\ NonZero(g) # {} => IndexFor(g.lay, g.max) = Max(NonZero(g))
        /\ NonZero(g) \ {0} # {} => IndexFor(g.lay, g.min) = Min(NonZero(g) \ {0})

\* The buffer that serialize sizes with max_encoded_size, and leaves
\* uninitialized, is never too short for what encode_counts writes.
BufferSuffices == Serializable(src) => Len(encode_counts(src)) <= max_encoded_size(src)
=============================================================================
