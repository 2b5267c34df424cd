-------------------------------- MODULE Codec --------------------------------
(***************************************************************************)
(* What the code that bebopc-gen-c emits for a schema does                 *)
(* (plugins/c/src/generator.c): for every type T its T_encoded_size,       *)
(* T_encode, T_decode, T_verify and the accessors of a view.               *)
(*                                                                         *)
(* A schema is `defs', a function from names to                            *)
(*   [kind |-> "enum",    base   |-> scalar]                               *)
(*   [kind |-> "struct",  fields |-> sequence of types]                    *)
(*   [kind |-> "message", fields |-> [tags -> [type, deprecated]]]         *)
(*   [kind |-> "union",   branches |-> [discriminators -> names]]          *)
(* and a type is a scalar, a string, an array, a fixed array, a map or a   *)
(* definition.  A value of a struct is the sequence of its fields, of a    *)
(* message a function on the tags that are set, of a union [disc, val], of *)
(* a map a function; a string or an array may be NoData when it is         *)
(* written.  The operators are RECURSIVE, as types are.                    *)
(***************************************************************************)
EXTENDS Wire, TLC

CONSTANTS
    MaxDepth,   \* max_decode_depth of the context
    MaxItems    \* bound on the elements of no bytes that a view is asked for

Scalar(t) == [kind |-> "scalar", of |-> t]
Str == [kind |-> "string"]
Array(t) == [kind |-> "array", elem |-> t]
Fixed(t, n) == [kind |-> "fixed", elem |-> t, count |-> n]
MapOf(k, v) == [kind |-> "map", key |-> k, value |-> v]
Ref(n) == [kind |-> "def", name |-> n]

Field(t) == [type |-> t, deprecated |-> FALSE]
Deprecated(t) == [type |-> t, deprecated |-> TRUE]
Tags(fields) == Sorted(DOMAIN fields)

\* type_is_enum, enum_base_type.
IsEnum(defs, t) == t.kind = "def" /\ defs[t.name].kind = "enum"
Base(defs, t) == defs[t.name].base

\* The order a map is written in is the order of its slots, which depends on the hash: here it
\* is one order of the keys.
MapOrder(m) == SetToSeq(DOMAIN m)

\* The elements of an array: its length is 0 when it has no data.
Held(v) == IF v = NoData THEN <<>> ELSE v
SizeEach(vs, Size(_)) == Sum([i \in DOMAIN vs |-> Size(vs[i])], Len(vs))

----------------------------------------------------------------------------
\* T_encoded_size.
RECURSIVE SizeType(_, _, _)

\* gen_size_struct; a struct of fixed size is its constant, which is the same sum.
SizeStruct(defs, fields, v) == Sum([i \in DOMAIN fields |-> SizeType(defs, fields[i], v[i])], Len(fields))

\* gen_size_message and gen_encode_message leave deprecated fields out.
Present(fields, v) == Sorted({t \in DOMAIN v : ~fields[t].deprecated})

SizeMessage(defs, fields, v) ==
    LET tags == Present(fields, v)
    IN  IndexedMessageSize(Sum([i \in DOMAIN tags |-> SizeType(defs, fields[tags[i]].type, v[tags[i]])],
                               Len(tags)), tags)

\* gen_size_union: length and discriminator, then the branch if there is one.
SizeUnion(defs, branches, v) ==
    IF v.disc \in DOMAIN branches THEN 5 + SizeType(defs, Ref(branches[v.disc]), v.val) ELSE 5

SizeDef(defs, n, v) ==
    LET def == defs[n]
    IN  CASE def.kind = "enum" -> ScalarSize[def.base]
          [] def.kind = "struct" -> SizeStruct(defs, def.fields, v)
          [] def.kind = "message" -> SizeMessage(defs, def.fields, v)
          [] def.kind = "union" -> SizeUnion(defs, def.branches, v)

\* gen_size_type_ex.
SizeType(defs, t, v) ==
    CASE t.kind = "scalar" -> ScalarSize[t.of]
      [] t.kind = "string" -> 4 + Len(Held(v)) + 1
      [] t.kind = "def" -> SizeDef(defs, t.name, v)
      [] t.kind = "array" -> 4 + SizeEach(Held(v), LAMBDA x : SizeType(defs, t.elem, x))
      [] t.kind = "fixed" -> SizeEach(v, LAMBDA x : SizeType(defs, t.elem, x))
      [] t.kind = "map" ->
            LET keys == MapOrder(v)
            IN  4 + Sum([i \in DOMAIN keys |-> SizeType(defs, t.key, keys[i]) + SizeType(defs, t.value, v[keys[i]])],
                        Len(keys))

----------------------------------------------------------------------------
\* T_encode.  A result is [ok, val]: it is not OK for a union without a branch, for a string or
\* an array of scalars without data, and when there is no memory, which is WireArena's subject.
RECURSIVE EncodeType(_, _, _)

Joined(results) ==
    IF \A i \in DOMAIN results : results[i].ok
    THEN [ok |-> TRUE, val |-> FlattenSeq([i \in DOMAIN results |-> results[i].val])]
    ELSE Malformed

\* What is written around bytes that could be written.
Framed(res, F(_)) == IF res.ok THEN [ok |-> TRUE, val |-> F(res.val)] ELSE Malformed

EncodeStruct(defs, fields, v) == Joined([i \in DOMAIN fields |-> EncodeType(defs, fields[i], v[i])])

\* gen_encode_message: the fields in tag order, the offset of each, then the index.
Offsets(results) ==
    [i \in DOMAIN results |-> Sum([j \in DOMAIN results |-> Len(results[j].val)], i - 1)]
Indexed(payload, tags, offsets) ==
    IF payload.ok THEN EndIndexedMessage(payload.val, tags, offsets) ELSE Malformed
IndexedFields(results, tags) == Indexed(Joined(results), tags, Offsets(results))
EncodeFields(defs, fields, v, tags) ==
    IndexedFields([i \in DOMAIN tags |-> EncodeType(defs, fields[tags[i]].type, v[tags[i]])], tags)

EncodeMessage_Deprecated(defs, fields, v) == EncodeFields(defs, fields, v, Tags(v))
EncodeMessage(defs, fields, v) == EncodeFields(defs, fields, v, Present(fields, v))

\* gen_encode_union: begin_length, the discriminator, the branch, end_length.
EncodeUnion(defs, branches, v) ==
    IF v.disc \in DOMAIN branches
    THEN Framed(EncodeType(defs, Ref(branches[v.disc]), v.val),
                LAMBDA bs : WriteLength(1 + Len(bs)) \o <<v.disc>> \o bs)
    ELSE Malformed

EncodeDef(defs, n, v) ==
    LET def == defs[n]
    IN  CASE def.kind = "enum" -> [ok |-> TRUE, val |-> WriteScalar(def.base, v)]
          [] def.kind = "struct" -> EncodeStruct(defs, def.fields, v)
          [] def.kind = "message" -> EncodeMessage(defs, def.fields, v)
          [] def.kind = "union" -> EncodeUnion(defs, def.branches, v)

\* gen_encode_type_ex; arrays of scalars in bulk, other arrays element by element.
EncodeEach(defs, elem, v) == Joined([i \in DOMAIN v |-> EncodeType(defs, elem, v[i])])
EncodeMap(defs, t, v, keys) ==
    Framed(Joined([i \in 1 .. 2 * Len(keys) |->
              EncodeType(defs, IF i % 2 = 1 THEN t.key ELSE t.value,
                         IF i % 2 = 1 THEN keys[(i + 1) \div 2] ELSE v[keys[i \div 2]])]),
           LAMBDA bs : WriteLength(Len(keys)) \o bs)

EncodeType(defs, t, v) ==
    CASE t.kind = "scalar" -> [ok |-> TRUE, val |-> WriteScalar(t.of, v)]
      [] t.kind = "string" -> WriteString(v)
      [] t.kind = "def" -> EncodeDef(defs, t.name, v)
      [] t.kind = "array" ->
            IF t.elem.kind = "scalar" THEN WriteArray(t.elem.of, v)
            ELSE Framed(EncodeEach(defs, t.elem, Held(v)), LAMBDA bs : WriteLength(Len(Held(v))) \o bs)
      [] t.kind = "fixed" ->
            IF t.elem.kind = "scalar" THEN [ok |-> TRUE, val |-> WriteFixedArray(t.elem.of, v)]
            ELSE EncodeEach(defs, t.elem, v)
      [] t.kind = "map" -> EncodeMap(defs, t, v, MapOrder(v))

----------------------------------------------------------------------------
\* T_decode_reader at depth d of the context.
RECURSIVE DecodeType(_, _, _, _)

\* One after the other, each from where the previous one stopped.
RECURSIVE DecodeAll(_, _, _, _, _)
DecodeAll(defs, types, r, d, vs) ==
    IF types = <<>> THEN Ok(vs, r)
    ELSE Then(DecodeType(defs, Head(types), r, d), LAMBDA v, q :
            DecodeAll(defs, Tail(types), q, d, Append(vs, v)))
DecodeSeq(defs, types, r, d) == DecodeAll(defs, types, r, d, <<>>)

DecodeStruct(defs, fields, r, d) == DecodeSeq(defs, fields, r, d)

\* gen_decode_message_field_value for the field `tag', the i-th of the index; an unknown one
\* (only when the directory is iterated) must start where the reader is, and is skipped.
SkipUnknown(skip, vs, q) ==
    IF skip.ok /\ skip.r.at = q.at THEN Ok(vs, [q EXCEPT !.at = skip.r.end]) ELSE Malformed

RECURSIVE DecodeFields(_, _, _, _, _, _)
DecodeFields(defs, fields, index, i, vs, r) ==
    IF i > Len(index.tags) THEN Ok(vs, r)
    ELSE Then(IF index.tags[i] \in DOMAIN fields
              THEN Map(DecodeType(defs, fields[index.tags[i]].type, r, index.depth),
                       LAMBDA v : vs @@ (index.tags[i] :> v))
              ELSE SkipUnknown(FieldAtRank(index, i), vs, r),
              LAMBDA vs2, q : DecodeFields(defs, fields, index, i + 1, vs2, q))

\* gen_decode_message: an empty directory has no fields; a mask with unknown bits is validated
\* first; the payload must be consumed exactly.  The known fields are read one after the
\* other: where they start comes from the boundaries only for the unknown ones.
DecodeMessage(defs, fields, r, d) ==
    Then(BeginMessageIndex(r), LAMBDA index, after :
        IF index.kind = Empty THEN Ok(<<>>, after)
        ELSE IF /\ index.kind \in MaskKinds
                /\ UnknownTags(index, DOMAIN fields) # {}
                /\ ~BoundariesValid(index)
        THEN Malformed
        ELSE Then(DecodeFields(defs, fields, index @@ [depth |-> d], 1, <<>>, index.r),
                  LAMBDA vs, left : IF Remaining(left) = 0 THEN Ok(vs, after) ELSE Malformed))

\* gen_decode_union: an unknown discriminator is dropped and leaves 0; what a known branch
\* leaves of the body is not skipped.
DecodeUnion(defs, branches, r, d) ==
    Then(ReadLength(r), LAMBDA n, q :
        Then(PushLimit(q, n), LAMBDA m, body :
            Then(ReadInteger(body, "byte"), LAMBDA disc, rest :
                IF disc \notin DOMAIN branches
                THEN Ok([disc |-> 0, val |-> <<>>], [q EXCEPT !.at = q.at + n])
                ELSE Then(DecodeType(defs, Ref(branches[disc]), rest, d), LAMBDA v, after :
                        Ok([disc |-> disc, val |-> v], PopLimit(after, q.end))))))

\* emit_decode_wrapper: bebop_context_enter_decode around the body; enums have none.
DecodeDef(defs, n, r, d) ==
    LET def == defs[n]
    IN  CASE def.kind = "enum" -> DecodeType(defs, Scalar(def.base), r, d)
          [] d >= MaxDepth -> Malformed
          [] def.kind = "struct" -> DecodeStruct(defs, def.fields, r, d + 1)
          [] def.kind = "message" -> DecodeMessage(defs, def.fields, r, d + 1)
          [] def.kind = "union" -> DecodeUnion(defs, def.branches, r, d + 1)

\* The array case of gen_decode_type_ex: a count the remaining bytes can hold, in elements of
\* a scalar (a view into the buffer) or in bytes.
DecodeFixed(defs, elem, count, r, d) ==
    IF elem.kind = "scalar" THEN ReadFixedArray(r, elem.of, count)
    ELSE DecodeSeq(defs, [i \in 1 .. count |-> elem], r, d)

DecodeArray(defs, elem, r, d) ==
    Then(ReadInteger(r, "uint32"), LAMBDA n, q :
        IF n > (IF elem.kind = "scalar" THEN Remaining(q) \div ScalarSize[elem.of] ELSE Remaining(q))
        THEN Malformed
        ELSE DecodeFixed(defs, elem, n, q, d))

\* The map case: what bebop_map_set returns is not looked at.  A later entry of a key
\* replaces the value.
LastOf(flat, k) == CHOOSE j \in 1 .. Len(flat) \div 2 :
    flat[2 * j - 1] = k /\ \A i \in j + 1 .. Len(flat) \div 2 : flat[2 * i - 1] # k
Entries(flat) == [k \in {flat[2 * j - 1] : j \in 1 .. Len(flat) \div 2} |-> flat[2 * LastOf(flat, k)]]

DecodeMap(defs, key, value, r, d) ==
    Then(ReadInteger(r, "uint32"), LAMBDA n, q :
        IF n > Remaining(q) THEN Malformed
        ELSE Map(DecodeSeq(defs, [i \in 1 .. 2 * n |-> IF i % 2 = 1 THEN key ELSE value], q, d), Entries))

DecodeType(defs, t, r, d) ==
    CASE t.kind = "scalar" -> ReadScalar(r, t.of)
      [] t.kind = "string" -> ReadString(r)
      [] t.kind = "def" -> DecodeDef(defs, t.name, r, d)
      [] t.kind = "array" -> DecodeArray(defs, t.elem, r, d)
      [] t.kind = "fixed" -> DecodeFixed(defs, t.elem, t.count, r, d)
      [] t.kind = "map" -> DecodeMap(defs, t.key, t.value, r, d)

\* T_decode: nothing may be left over.
Whole(res) == IF res.ok /\ Remaining(res.r) = 0 THEN res ELSE Malformed
Decode(defs, n, bytes) == Whole(DecodeDef(defs, n, Reader(bytes), 0))

----------------------------------------------------------------------------
\* T_view_read and the accessors of a view, which read the encoding in place.
RECURSIVE ViewSkip(_, _, _)

\* The size column of TYPE_MAP, which for a timestamp is not the size on the wire.
ViewSize == [ScalarSize EXCEPT !.timestamp = 12]

RECURSIVE SkipSeq(_, _, _)
SkipSeq(defs, types, r) ==
    IF types = <<>> THEN Ok(<<>>, r)
    ELSE Then(ViewSkip(defs, Head(types), r), LAMBDA v, q : SkipSeq(defs, Tail(types), q))

ViewStruct(defs, fields, r) == SkipSeq(defs, fields, r)

\* gen_view_read of a message: the index with its boundaries, and every known field filling
\* the bytes the boundaries give it.
FieldFills_Within(defs, t, f) == f.ok /\ (f.present => ViewSkip(defs, t, f.r).ok)
FieldFills(defs, t, f) == f.ok /\ (f.present => Whole(ViewSkip(defs, t, f.r)).ok)
ViewMessage(defs, fields, r) ==
    Then(ReadMessageIndex(r), LAMBDA index, after :
        IF \A t \in DOMAIN fields : FieldFills(defs, fields[t].type, IndexField(index, t))
        THEN Ok(<<>>, after) ELSE Malformed)

\* Of a union: a known branch fills the body, an unknown one is skipped.
ViewUnion(defs, branches, r) ==
    Then(ReadLength(r), LAMBDA n, q :
        Then(PushLimit(q, n), LAMBDA m, body :
            Then(ReadInteger(body, "byte"), LAMBDA disc, rest :
                IF disc \notin DOMAIN branches \/ Whole(ViewSkip(defs, Ref(branches[disc]), rest)).ok
                THEN Ok(<<>>, [q EXCEPT !.at = q.at + n])
                ELSE Malformed)))

ViewDef(defs, n, r) ==
    LET def == defs[n]
    IN  CASE def.kind = "enum" -> Skip(r, ViewSize[def.base])
          [] def.kind = "struct" -> ViewStruct(defs, def.fields, r)
          [] def.kind = "message" -> ViewMessage(defs, def.fields, r)
          [] def.kind = "union" -> ViewUnion(defs, def.branches, r)

\* `count' elements: the loop stops at the first that is not there, so that more than one
\* more than the bytes left need not be tried.  (Elements of no bytes, such as empty structs,
\* are always there: more turns of the loop change nothing.)
Repeated(defs, types, count, r) ==
    LET tries == IF count > Remaining(r) THEN Remaining(r) + 1 ELSE count
    IN  SkipSeq(defs, [i \in 1 .. Len(types) * tries |-> types[((i - 1) % Len(types)) + 1]], r)

\* gen_view_skip_type.
ViewSkip(defs, t, r) ==
    CASE t.kind = "scalar" -> Skip(r, ViewSize[t.of])
      [] t.kind = "string" -> ReadString(r)
      [] t.kind = "def" -> ViewDef(defs, t.name, r)
      [] t.kind = "array" ->
            Then(ReadInteger(r, "uint32"), LAMBDA n, q :
                IF t.elem = Scalar("byte") THEN Skip(q, n) ELSE Repeated(defs, <<t.elem>>, n, q))
      [] t.kind = "fixed" ->
            IF t.elem = Scalar("byte") THEN Skip(r, t.count) ELSE Repeated(defs, <<t.elem>>, t.count, r)
      [] t.kind = "map" ->
            Then(ReadInteger(r, "uint32"), LAMBDA n, q : Repeated(defs, <<t.key, t.value>>, n, q))

\* T_verify.
Verify(defs, n, bytes) == Whole(ViewDef(defs, n, Reader(bytes))).ok

\* A map in place of its keys and values.
Shaped(t, items) == IF t.kind = "map" THEN Entries(items) ELSE items

\* An accessor's value, or that it gave none: a timestamp may be cut off.
Given(res) == IF res.ok THEN res.val ELSE res

\* The value as the accessors give it, piece by piece, from the reader over its bytes.
RECURSIVE Viewed(_, _, _)

\* gen_struct_view_getter: skip the fields before, then read.
StructGetter(defs, fields, i, r) ==
    Viewed(defs, fields[i], SkipSeq(defs, SubSeq(fields, 1, i - 1), r).r)

\* gen_message_view_getter: find the field by its tag in the directory, at each access.
MessageGetter(defs, fields, t, index) == Viewed(defs, fields[t].type, IndexField(index, t).r)

\* All the getters of a view.
StructGetters(defs, fields, r) == [i \in DOMAIN fields |-> StructGetter(defs, fields, i, r)]
FieldGetters(defs, fields, index) ==
    [t \in {u \in DOMAIN fields : IndexField(index, u).present} |-> MessageGetter(defs, fields, t, index)]
MessageGetters(defs, fields, r) == FieldGetters(defs, fields, BeginMessageIndex(r).val)

\* gen_union_view_getters.
BranchGetter(defs, branches, disc, r) ==
    IF disc \in DOMAIN branches
    THEN [disc |-> disc, val |-> Viewed(defs, Ref(branches[disc]), [r EXCEPT !.at = r.at + 5])]
    ELSE [disc |-> 0, val |-> <<>>]
UnionGetter(defs, branches, r) == BranchGetter(defs, branches, r.b[r.at + 5], r)

ViewedDef(defs, def, r) ==
    CASE def.kind = "struct" -> StructGetters(defs, def.fields, r)
      [] def.kind = "message" -> MessageGetters(defs, def.fields, r)
      [] def.kind = "union" -> UnionGetter(defs, def.branches, r)

\* view_fixed_wire_size: the stride of elements that all take the same number of bytes.
Stride(defs, t) ==
    CASE t.kind = "scalar" -> ViewSize[t.of]
      [] IsEnum(defs, t) -> ViewSize[Base(defs, t)]
      [] OTHER -> 0

\* gen_container_view_accessors: *_at finds the i-th element by its stride, or over the ones
\* before; a map is its keys and values in turn.
ItemTypes(t, n) ==
    IF t.kind = "map" THEN [i \in 1 .. 2 * n |-> IF i % 2 = 1 THEN t.key ELSE t.value]
    ELSE [i \in 1 .. n |-> t.elem]
ElementAt(defs, types, i, stride, r) ==
    IF stride > 0 THEN Viewed(defs, types[i], [r EXCEPT !.at = r.at + (i - 1) * stride])
    ELSE StructGetter(defs, types, i, r)
ItemsOf(defs, types, stride, r) == [i \in DOMAIN types |-> ElementAt(defs, types, i, stride, r)]
ViewedItems(defs, t, n, r) ==
    ItemsOf(defs, ItemTypes(t, n), IF t.kind = "map" THEN 0 ELSE Stride(defs, t.elem), r)

\* gen_view_read_value; counts come first.  Elements that take bytes are all there once the
\* bytes were verified; of those that take none, a count of any size may be claimed.
CountRead(r) == LoadLe(SubSeq(r.b, r.at + 1, r.at + 4))
ItemCount(t, r) ==
    IF t.kind = "fixed" THEN t.count
    ELSE IF CountRead(r) > Remaining(r) /\ CountRead(r) > MaxItems THEN MaxItems
    ELSE CountRead(r)
ItemsStart(t, r) == IF t.kind = "fixed" THEN r ELSE [r EXCEPT !.at = r.at + 4]
Viewed(defs, t, r) ==
    CASE t.kind = "scalar" -> Given(ReadScalar(r, t.of))
      [] t.kind = "string" -> Given(ReadString(r))
      [] IsEnum(defs, t) -> Viewed(defs, Scalar(Base(defs, t)), r)
      [] t.kind = "def" /\ ~IsEnum(defs, t) -> ViewedDef(defs, defs[t.name], r)
      [] OTHER -> Shaped(t, ViewedItems(defs, t, ItemCount(t, r), ItemsStart(t, r)))

View(defs, n, bytes) == Viewed(defs, Ref(n), Reader(bytes))
=============================================================================
