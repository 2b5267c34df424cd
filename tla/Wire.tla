-------------------------------- MODULE Wire --------------------------------
(***************************************************************************)
(* The wire primitives of the C runtime (bebop/src/bebop_wire.c): little-  *)
(* endian scalars, strings, arrays, and the indexed encoding of messages   *)
(*                                                                         *)
(*   length (4)  payload  boundaries  directory  control (1)               *)
(*                                                                         *)
(* whose payload is the fields in tag order.  All of it is values: a       *)
(* writer's output is a sequence of bytes, a reader is a record [b, at,    *)
(* end] over the bytes b, and a read gives [ok, val, r].  Where the output *)
(* buffer comes from and how it grows is the subject of WireArena.         *)
(*                                                                         *)
(* A float is its bit image, a uuid its 16 bytes, a string its bytes.  An  *)
(* integer is a number; one read here that needs more than 31 bits, or 24  *)
(* when negative, is Huge: beyond every length and count.                  *)
(***************************************************************************)
EXTENDS Integers, Sequences, FiniteSets, SequencesExt

CONSTANT NoData    \* an empty string or array whose data pointer is NULL, as in a zeroed struct

Byte == 0 .. 255
Huge == 2147483647

\* The sum of the first n elements.
Sum(f, n) == LET sum[i \in 0 .. n] == IF i = 0 THEN 0 ELSE sum[i - 1] + f[i] IN sum[n]

\* Any result but BEBOP_RESULT_OK.
Malformed == [ok |-> FALSE]
Ok(v, r) == [ok |-> TRUE, val |-> v, r |-> r]

\* bebop_wire_load_le and the memcpy of a little-endian machine.
Low(bs) == bs[1] + 256 * bs[2] + 65536 * bs[3] + 16777216 * bs[4]
LoadLe(bs) ==
    IF \E i \in 4 .. Len(bs) : bs[i] # 0 /\ (i = 4 => bs[i] >= 128) THEN Huge
    ELSE Low(bs \o <<0, 0, 0>>)

\* The same bytes read as a two's complement number.
LoadNegative(bs) ==
    IF \E i \in 4 .. Len(bs) : bs[i] # 255 THEN -Huge
    ELSE Low(SubSeq(bs \o <<255, 255>>, 1, 3) \o <<0>>) - 16777216
LoadSigned(bs) == IF bs[Len(bs)] >= 128 THEN LoadNegative(bs) ELSE LoadLe(bs)

\* bebop_wire_store_le: the low `w' bytes of n, least significant first.
StoreLe(n, w) ==
    [i \in 1 .. w |-> IF i <= 3 THEN (n \div 256 ^ (i - 1)) % 256
                      ELSE IF i = 4 THEN (n \div 16777216) % 256
                      ELSE IF n < 0 THEN 255 ELSE 0]

----------------------------------------------------------------------------
\* Readers.

Reader(b) == [b |-> b, at |-> 0, end |-> Len(b)]

\* bebop_reader_position, _remaining.
Remaining(r) == r.end - r.at

\* bebop_reader_seek and _skip: only inside the reader's range.
Seek(r, at) == IF at > r.end THEN Malformed ELSE Ok(at, [r EXCEPT !.at = at])
Skip(r, n) == IF n > Remaining(r) THEN Malformed ELSE Seek(r, r.at + n)

\* bebop_reader_push_limit: the end moves to `n' bytes from here, never outwards; pop_limit
\* puts the old one back.
PushLimit(r, n) == IF n > Remaining(r) THEN Malformed ELSE Ok(n, [r EXCEPT !.end = r.at + n])
PopLimit(r, end) == [r EXCEPT !.end = end]

\* The check and the copy every read of a fixed number of bytes makes.
Take(r, n) ==
    IF n > Remaining(r) THEN Malformed
    ELSE Ok(SubSeq(r.b, r.at + 1, r.at + n), [r EXCEPT !.at = r.at + n])

\* A read followed by a conversion of what was read.
Map(res, F(_)) == IF res.ok THEN Ok(F(res.val), res.r) ELSE res

\* A read followed by another one, from where the first stopped (the BEBOP_WIRE_TRY of the code).
Then(res, F(_, _)) == IF res.ok THEN F(res.val, res.r) ELSE Malformed

ScalarSize ==
    [bool |-> 1, byte |-> 1, int8 |-> 1, int16 |-> 2, uint16 |-> 2, int32 |-> 4, uint32 |-> 4,
     int64 |-> 8, uint64 |-> 8, int128 |-> 16, uint128 |-> 16, float16 |-> 2, bfloat16 |-> 2,
     float32 |-> 4, float64 |-> 8, uuid |-> 16, timestamp |-> 16, duration |-> 12]

Scalars == DOMAIN ScalarSize
SignedScalars == {"int8", "int16", "int32", "int64", "int128"}
FloatScalars == {"float16", "bfloat16", "float32", "float64"}

LoadInteger(t, bs) == IF t \in SignedScalars /\ bs[Len(bs)] >= 128 THEN LoadNegative(bs) ELSE LoadLe(bs)
LoadBool(bs) == bs[1] # 0
LoadTimestamp(bs) == [seconds |-> LoadSigned(SubSeq(bs, 1, 8)), nanos |-> LoadSigned(SubSeq(bs, 9, 12)),
                      offsetMs |-> LoadSigned(SubSeq(bs, 13, 16))]
LoadDuration(bs) == [seconds |-> LoadSigned(SubSeq(bs, 1, 8)), nanos |-> LoadSigned(SubSeq(bs, 9, 12))]

\* bebop_reader_read_byte, _i8, _u16 ... _u64.
ReadInteger(r, t) == Map(Take(r, ScalarSize[t]), LAMBDA bs : LoadInteger(t, bs))

\* bebop_reader_read_bool: any byte but 0 is true.
ReadBool(r) == Map(Take(r, 1), LoadBool)

\* bebop_reader_read_f16, _bf16, _f32, _f64: the bits.
ReadFloat(r, t) == Take(r, ScalarSize[t])

\* bebop_reader_read_i128, _u128: the low and the high half.
ReadInt128(r, t) == Map(Take(r, 16), LAMBDA bs : LoadInteger(t, SubSeq(bs, 1, 8) \o SubSeq(bs, 9, 16)))

ReadUuid(r) == Take(r, 16)
ReadTimestamp(r) == Map(Take(r, 16), LoadTimestamp)
ReadDuration(r) == Map(Take(r, 12), LoadDuration)

ReadScalar(r, t) ==
    CASE t = "bool" -> ReadBool(r)
      [] t \in FloatScalars -> ReadFloat(r, t)
      [] t \in {"int128", "uint128"} -> ReadInt128(r, t)
      [] t = "uuid" -> ReadUuid(r)
      [] t = "timestamp" -> ReadTimestamp(r)
      [] t = "duration" -> ReadDuration(r)
      [] OTHER -> ReadInteger(r, t)

\* bebop_reader_read_length: a count of bytes that are there.
ReadLength(r) ==
    Then(ReadInteger(r, "uint32"), LAMBDA n, q : IF n > Remaining(q) THEN Malformed ELSE Ok(n, q))

\* bebop_reader_read_string: length, bytes and a NUL, which the length does not count.
ReadString(r) ==
    Then(ReadInteger(r, "uint32"), LAMBDA n, q :
        IF n >= Remaining(q) \/ q.b[q.at + n + 1] # 0 THEN Malformed
        ELSE Ok(SubSeq(q.b, q.at + 1, q.at + n), [q EXCEPT !.at = q.at + n + 1]))

\* bebop_reader_read_bytes, _read_fixed_bytes.
ReadBytes(r) == Then(ReadLength(r), LAMBDA n, q : Take(q, n))
ReadFixedBytes(r, n) == Take(r, n)

\* The fixed-array readers: `n' elements of the scalar t, copied at once.
Slices(bs, w, Load(_)) == [i \in 1 .. Len(bs) \div w |-> Load(SubSeq(bs, (i - 1) * w + 1, i * w))]
ReadFixed(r, t, n, Load(_)) ==
    Map(Take(r, n * ScalarSize[t]), LAMBDA bs : Slices(bs, ScalarSize[t], Load))

\* _read_fixed_u8_array, _i8_, _bool_: the bytes are not normalised to 0 and 1; no property
\* looks at a bool that was neither.
ReadFixedByteArray(r, t, n) ==
    ReadFixed(r, t, n, LAMBDA bs : IF t = "bool" THEN LoadBool(bs) ELSE LoadInteger(t, bs))
ReadFixedIntegerArray(r, t, n) == ReadFixed(r, t, n, LAMBDA bs : LoadInteger(t, bs))
ReadFixedHalfArray(r, t, n) == ReadFixed(r, t, n, LAMBDA bs : bs)
ReadFixedFloatArray(r, t, n) == ReadFixed(r, t, n, LAMBDA bs : bs)
ReadFixedInt128Array(r, t, n) == ReadFixed(r, t, n, LAMBDA bs : LoadInteger(t, bs))
ReadFixedRecordArray(r, t, n) ==
    ReadFixed(r, t, n, LAMBDA bs : CASE t = "uuid" -> bs
                                     [] t = "timestamp" -> LoadTimestamp(bs)
                                     [] t = "duration" -> LoadDuration(bs))

\* bulk_get_fixed: which of them the generated code calls for a fixed array of t.
ReadFixedArray(r, t, n) ==
    CASE t \in {"byte", "int8", "bool"} -> ReadFixedByteArray(r, t, n)
      [] t \in {"float16", "bfloat16"} -> ReadFixedHalfArray(r, t, n)
      [] t \in {"float32", "float64"} -> ReadFixedFloatArray(r, t, n)
      [] t \in {"int128", "uint128"} -> ReadFixedInt128Array(r, t, n)
      [] t \in {"uuid", "timestamp", "duration"} -> ReadFixedRecordArray(r, t, n)
      [] OTHER -> ReadFixedIntegerArray(r, t, n)

----------------------------------------------------------------------------
\* Writers.

WriteInteger(t, n) == StoreLe(n, ScalarSize[t])
WriteBool(v) == <<IF v THEN 1 ELSE 0>>
WriteFloat(bits) == bits
WriteInt128(n) == StoreLe(n, 16)
WriteUuid(bytes) == bytes
WriteTimestamp(v) == StoreLe(v.seconds, 8) \o StoreLe(v.nanos, 4) \o StoreLe(v.offsetMs, 4)
WriteDuration(v) == StoreLe(v.seconds, 8) \o StoreLe(v.nanos, 4)
WriteLength(n) == StoreLe(n, 4)

WriteScalar(t, v) ==
    CASE t = "bool" -> WriteBool(v)
      [] t \in FloatScalars -> WriteFloat(v)
      [] t \in {"int128", "uint128"} -> WriteInt128(v)
      [] t = "uuid" -> WriteUuid(v)
      [] t = "timestamp" -> WriteTimestamp(v)
      [] t = "duration" -> WriteDuration(v)
      [] OTHER -> WriteInteger(t, v)

\* What a writer that can fail gives; BEBOP_RESULT_NULL without data, be it empty or not.
Output(bs) == [ok |-> TRUE, val |-> bs]

\* bebop_writer_write_string, _bytes, _fixed_bytes (fixed arrays always have data).
WriteString(bytes) == IF bytes = NoData THEN Malformed ELSE Output(WriteLength(Len(bytes)) \o bytes \o <<0>>)
WriteBytes(bytes) == IF bytes = NoData THEN Malformed ELSE Output(WriteLength(Len(bytes)) \o bytes)
WriteFixedBytes(bytes) == bytes

\* The bulk writers of arrays: the count, then the elements at once.
Elements(vs, W(_)) == FlattenSeq([i \in 1 .. Len(vs) |-> W(vs[i])])
Counted(vs, W(_)) ==
    IF vs = NoData THEN Malformed ELSE Output(WriteLength(Len(vs)) \o Elements(vs, W))

WriteFloatArray(vs) == Counted(vs, WriteFloat)
WriteIntegerArray(t, vs) == Counted(vs, LAMBDA v : WriteInteger(t, v))
WriteHalfArray(vs) == Counted(vs, WriteFloat)
WriteInt128Array(vs) == Counted(vs, WriteInt128)
WriteBoolArray(vs) == Counted(vs, WriteBool)
WriteRecordArray(t, vs) == Counted(vs, LAMBDA v : WriteScalar(t, v))

WriteArray(t, vs) ==
    CASE t = "bool" -> WriteBoolArray(vs)
      [] t \in {"float16", "bfloat16"} -> WriteHalfArray(vs)
      [] t \in {"float32", "float64"} -> WriteFloatArray(vs)
      [] t \in {"int128", "uint128"} -> WriteInt128Array(vs)
      [] t \in {"uuid", "timestamp", "duration"} -> WriteRecordArray(t, vs)
      [] OTHER -> WriteIntegerArray(t, vs)

WriteFixedByteArray(t, vs) == Elements(vs, LAMBDA v : WriteScalar(t, v))
WriteFixedIntegerArray(t, vs) == Elements(vs, LAMBDA v : WriteInteger(t, v))
WriteFixedHalfArray(vs) == Elements(vs, WriteFloat)
WriteFixedFloatArray(vs) == Elements(vs, WriteFloat)
WriteFixedInt128Array(vs) == Elements(vs, WriteInt128)
WriteFixedRecordArray(t, vs) == Elements(vs, LAMBDA v : WriteScalar(t, v))

WriteFixedArray(t, vs) ==
    CASE t \in {"byte", "int8", "bool"} -> WriteFixedByteArray(t, vs)
      [] t \in {"float16", "bfloat16"} -> WriteFixedHalfArray(vs)
      [] t \in {"float32", "float64"} -> WriteFixedFloatArray(vs)
      [] t \in {"int128", "uint128"} -> WriteFixedInt128Array(vs)
      [] t \in {"uuid", "timestamp", "duration"} -> WriteFixedRecordArray(t, vs)
      [] OTHER -> WriteFixedIntegerArray(t, vs)

----------------------------------------------------------------------------
\* The message directory.  A mask is the set of its bits' numbers, from 0.

Sorted(S) == [i \in 1 .. Cardinality(S) |-> CHOOSE x \in S : Cardinality({y \in S : y < x}) = i - 1]
BitsOf(byte) == {j \in 0 .. 7 : (byte \div 2 ^ j) % 2 = 1}
MaskBits(bs) == UNION {{8 * (i - 1) + j : j \in BitsOf(bs[i])} : i \in 1 .. Len(bs)}
ByteOf(bits) == Sum([j \in 1 .. 8 |-> IF j - 1 \in bits THEN 2 ^ (j - 1) ELSE 0], 8)
MaskBytes(bits, w) == [i \in 1 .. w |-> ByteOf({j \in 0 .. 7 : 8 * (i - 1) + j \in bits})]

Empty == 0
Mask8 == 4
Mask32 == 6
Blocks == 7
TinyKinds == 1 .. 3
MaskKinds == Mask8 .. Mask32

\* bebop_message_tags_valid: none is 0, and they increase strictly.
TagsValid(tags) ==
    \A i \in 1 .. Len(tags) : IF i = 1 THEN tags[i] # 0 ELSE tags[i] > tags[i - 1]

BlockOf(tag) == (tag - 1) \div 32
BlockSet(tags) == {BlockOf(tags[i]) : i \in 1 .. Len(tags)}

\* bebop_message_directory_layout: the smallest of a mask for the highest tag, blocks of 32
\* tags, and up to three tags listed.
DirectoryLayout(tags) ==
    LET n == Len(tags)
        blocks == 1 + 5 * Cardinality(BlockSet(tags))
        mask == CASE n = 0 -> [kind |-> Empty, size |-> 0]
                  [] tags[n] <= 8 -> [kind |-> Mask8, size |-> 1]
                  [] tags[n] > 8 /\ tags[n] <= 16 -> [kind |-> 5, size |-> 2]
                  [] tags[n] > 16 /\ tags[n] <= 32 -> [kind |-> Mask32, size |-> 4]
                  [] OTHER -> [kind |-> Blocks, size |-> blocks]
    IN  IF n \in TinyKinds /\ n < mask.size THEN [kind |-> n, size |-> n] ELSE mask

OffsetWidth(payload) == IF payload <= 255 THEN 1 ELSE IF payload <= 65535 THEN 2 ELSE 4

\* What comes after the payload: boundaries, directory and control byte.
MetadataSize(payload, tags) ==
    1 + DirectoryLayout(tags).size
      + (IF Len(tags) = 0 THEN 0 ELSE (Len(tags) - 1) * OffsetWidth(payload))

\* bebop_indexed_message_size.
IndexedMessageSize(payload, tags) == 4 + payload + MetadataSize(payload, tags)

\* The entry of one block: how many fields come before it, and its mask.
BlockEntry(tags, block) ==
    LET before == {i \in 1 .. Len(tags) : BlockOf(tags[i]) < block}
        inside == {(tags[i] - 1) % 32 : i \in {j \in 1 .. Len(tags) : BlockOf(tags[j]) = block}}
    IN  <<Cardinality(before)>> \o MaskBytes(inside, 4)

DirectoryBytes(layout, tags) ==
    CASE layout.kind = Empty -> <<>>
      [] layout.kind \in TinyKinds -> tags
      [] layout.kind \in MaskKinds ->
            MaskBytes({tags[i] - 1 : i \in 1 .. Len(tags)}, layout.size)
      [] layout.kind = Blocks ->
            FlattenSeq([i \in 1 .. Cardinality(BlockSet(tags)) |->
                          BlockEntry(tags, Sorted(BlockSet(tags))[i])])
                \o <<ByteOf(BlockSet(tags))>>

\* bebop_writer_end_indexed_message, with the length bebop_writer_begin_length left room for
\* and _end_length fills in.  offsets[i] is where the field of tags[i] starts.
OffsetsValid(payload, offsets) ==
    /\ IF offsets = <<>> THEN payload = <<>> ELSE offsets[1] = 0
    /\ \A i \in 1 .. Len(offsets) : /\ offsets[i] <= Len(payload)
                                    /\ i > 1 => offsets[i] >= offsets[i - 1]
Trailer(layout, width, tags, offsets) ==
    Elements(SubSeq(offsets, 2, Len(offsets)), LAMBDA o : StoreLe(o, width))
        \o DirectoryBytes(layout, tags)
        \o <<layout.kind * 4 + (IF width = 4 THEN 2 ELSE width - 1)>>
EndIndexedMessage(payload, tags, offsets) ==
    IF TagsValid(tags) /\ OffsetsValid(payload, offsets)
    THEN WriteBytes(payload \o Trailer(DirectoryLayout(tags), OffsetWidth(Len(payload)), tags, offsets))
    ELSE Malformed

----------------------------------------------------------------------------
\* Reading an indexed message.  An index is [kind, tags, r, bounds]: the reader over the
\* payload and the boundaries as they stand in the message.

DirectorySize(kind, blockMask) ==
    CASE kind = Empty -> 0
      [] kind \in TinyKinds -> kind
      [] kind \in MaskKinds -> 2 ^ (kind - Mask8)
      [] kind = Blocks -> 1 + 5 * Cardinality(BitsOf(blockMask))

\* The masks of the entries of a block directory, as (block, rank byte, mask bits).
BlockEntries(dir) ==
    LET blocks == Sorted(BitsOf(dir[Len(dir)]))
    IN  [i \in 1 .. Len(blocks) |->
            [block |-> blocks[i], rank |-> dir[5 * (i - 1) + 1],
             mask |-> MaskBits(SubSeq(dir, 5 * (i - 1) + 2, 5 * i))]]

BlockRank(entries, i) == Cardinality(UNION {{j} \X entries[j].mask : j \in 1 .. i - 1})

BlocksValid(entries) ==
    /\ entries # <<>>
    /\ \A i \in 1 .. Len(entries) :
          /\ entries[i].rank = BlockRank(entries, i)
          /\ entries[i].mask # {}
          /\ ~(entries[i].block = 7 /\ 31 \in entries[i].mask)

DirectoryTags(kind, dir) ==
    CASE kind = Empty -> <<>>
      [] kind \in TinyKinds -> dir
      [] kind \in MaskKinds -> Sorted({j + 1 : j \in MaskBits(dir)})
      [] kind = Blocks ->
            LET entries == BlockEntries(dir)
            IN  Sorted(UNION {{32 * entries[i].block + j + 1 : j \in entries[i].mask} :
                              i \in 1 .. Len(entries)})

DirectoryValid(kind, dir) ==
    /\ kind \in MaskKinds => MaskBits(dir) # {}
    /\ kind \in TinyKinds => TagsValid(dir)
    /\ kind = Blocks => BlocksValid(BlockEntries(dir))

\* bebop_message_index_begin: everything but the values of the boundaries, from the end of the
\* message to its front.  What is in front of the part that was read is the reader r.
IndexOfTags(r, kind, width, tags) ==
    LET end == r.end - (IF tags = <<>> THEN 0 ELSE (Len(tags) - 1) * width)
    IN  IF (tags = <<>> /\ Remaining(r) # 0) \/ end < r.at THEN Malformed
        ELSE [ok |-> TRUE, kind |-> kind, tags |-> tags, r |-> [r EXCEPT !.end = end],
              bounds |-> [i \in 1 .. Len(tags) - 1 |->
                            LoadLe(SubSeq(r.b, end + (i - 1) * width + 1, end + i * width))]]

IndexOfDirectory(r, kind, width, dir) ==
    IF DirectoryValid(kind, dir) THEN IndexOfTags(r, kind, width, DirectoryTags(kind, dir))
    ELSE Malformed

IndexOfSize(r, kind, width, size) ==
    IF size > Remaining(r) THEN Malformed
    ELSE IndexOfDirectory([r EXCEPT !.end = r.end - size], kind, width,
                          SubSeq(r.b, r.end - size + 1, r.end))

IndexOfKind(r, kind, width) ==
    IF kind = Blocks /\ Remaining(r) = 0 THEN Malformed
    ELSE IndexOfSize(r, kind, width, DirectorySize(kind, IF kind = Blocks THEN r.b[r.end] ELSE 0))

IndexOfControl(r, control) ==
    IF control >= 32 \/ control % 4 = 3 THEN Malformed
    ELSE IndexOfKind(r, (control \div 4) % 8, 2 ^ (control % 4))

IndexBegin(r, length) ==
    IF length < 5 \/ LoadLe(SubSeq(r.b, r.at + 1, r.at + 4)) # length - 4 THEN Malformed
    ELSE IndexOfControl([r EXCEPT !.at = r.at + 4, !.end = r.at + length - 1], r.b[r.at + length])

\* bebop_message_index_validate: the boundaries do not decrease and not exceed the payload.
BoundariesValid(index) ==
    \A i \in DOMAIN index.bounds :
        /\ index.bounds[i] <= Remaining(index.r)
        /\ i > 1 => index.bounds[i] >= index.bounds[i - 1]

\* bebop_reader_begin_message_index: the length, then the index over the whole message; the
\* reader ends up behind it.  _read_message_index (bebop_message_index_parse, _init) checks the
\* boundaries too.
BeginMessageIndex(r) ==
    Then(ReadLength(r), LAMBDA n, q :
        Then([ok |-> TRUE, val |-> IndexBegin(r, 4 + n), r |-> [q EXCEPT !.at = q.at + n]],
             LAMBDA index, after : IF index.ok THEN Ok(index, after) ELSE Malformed))

ReadMessageIndex(r) ==
    Then(BeginMessageIndex(r), LAMBDA index, after :
        IF BoundariesValid(index) THEN Ok(index, after) ELSE Malformed)

\* bebop_message_field_at_rank: the reader over one field (ranks from 1).
FieldAtRank(index, rank) ==
    LET start == IF rank = 1 THEN 0 ELSE index.bounds[rank - 1]
        end == IF rank = Len(index.tags) THEN Remaining(index.r) ELSE index.bounds[rank]
    IN  IF end < start \/ end > Remaining(index.r) THEN Malformed
        ELSE [ok |-> TRUE, r |-> [index.r EXCEPT !.at = index.r.at + start,
                                                 !.end = index.r.at + end]]

\* The rank the directory gives a tag: in a list by search, in a mask by counting the bits
\* below, in blocks by adding the rank byte of the entry.
RankOf(index, tag) == Cardinality({i \in 1 .. Len(index.tags) : index.tags[i] <= tag})

\* bebop_message_index_field: present, and where.
FieldFound(f) == IF f.ok THEN [ok |-> TRUE, present |-> TRUE, r |-> f.r] ELSE Malformed
IndexField(index, tag) ==
    IF Contains(index.tags, tag) THEN FieldFound(FieldAtRank(index, RankOf(index, tag)))
    ELSE [ok |-> TRUE, present |-> FALSE]

\* bebop_message_index_block_masks: the tags above what `known' has.
UnknownTags(index, known) == {index.tags[i] : i \in 1 .. Len(index.tags)} \ known

\* bebop_message_field_iterator_next: every field of the message, in the order of the
\* directory, with the reader over it or the failure to find it.
Fields(index) == [i \in 1 .. Len(index.tags) |-> [tag |-> index.tags[i], at |-> FieldAtRank(index, i)]]
=============================================================================
