---------------------------- MODULE WireExchange ----------------------------
(***************************************************************************)
(* A value on its way: a writer sizes and encodes it, the bytes travel and *)
(* may be cut, extended or changed, and a reader decodes them, verifies    *)
(* them and looks at them through a view.  The reader has the writer's     *)
(* schema, or the one before it.                                           *)
(*                                                                         *)
(* The generated types of the compiler go through their own functions;     *)
(* the other definitions of Defs stand for a user's schema.                *)
(***************************************************************************)
EXTENDS PluginTypes

CONSTANTS
    Samples,    \* a sequence of [name, value]: what writers send
    Defs,       \* the schema
    OldDefs,    \* the earlier schema of some of the definitions
    Bytes       \* what a byte may be changed into

ASSUME ExchangeAssumption == MaxDepth \in Nat /\ Bytes \subseteq Byte

VARIABLES
    sample,     \* the index of the value that is sent, 0 before
    state,      \* "idle", "sent", "damaged" or "received", or "refused" by T_encode
    intact,     \* nothing happened to the bytes
    bytes,      \* the encoding
    got         \* what the reader found

exchangeVars == <<sample, state, intact, bytes, got>>

Name == Samples[sample].name
Value == Samples[sample].value

----------------------------------------------------------------------------
\* The function of the type `n': a generated one, or that of the user's schema.

EncodedSize(n, v) ==
    CASE n \in DOMAIN DescriptorDefs -> DescriptorEncodedSize(Defs, n, v)
      [] n \in DOMAIN PluginDefs -> PluginEncodedSize(Defs, n, v)
      [] OTHER -> SizeDef(Defs, n, v)

Encode(n, v) ==
    CASE n \in DOMAIN DescriptorDefs -> DescriptorEncodeTop(Defs, n, v)
      [] n \in DOMAIN PluginDefs -> PluginEncodeTop(Defs, n, v)
      [] OTHER -> EncodeDef(Defs, n, v)

Decoded(n, bs) ==
    CASE n \in DOMAIN DescriptorDefs -> Whole(DescriptorDecodeTop(Defs, n, Reader(bs)))
      [] n \in DOMAIN PluginDefs -> Whole(PluginDecodeTop(Defs, n, Reader(bs)))
      [] OTHER -> Decode(Defs, n, bs)

Verified(n, bs) ==
    CASE n \in DOMAIN DescriptorDefs -> Whole(DescriptorViewTop(Defs, n, Reader(bs))).ok
      [] n \in DOMAIN PluginDefs -> Whole(PluginViewTop(Defs, n, Reader(bs))).ok
      [] OTHER -> Verify(Defs, n, bs)

Seen(n, bs) ==
    CASE n \in DOMAIN DescriptorDefs -> DescriptorGetters(Defs, n, Reader(bs))
      [] n \in DOMAIN PluginDefs -> PluginGetters(Defs, n, Reader(bs))
      [] OTHER -> View(Defs, n, bs)

\* A view is only looked at when its bytes were verified.
Look(verified, n, bs) == [verified |-> verified, seen |-> IF verified THEN Seen(n, bs) ELSE <<>>]

----------------------------------------------------------------------------
ExchangeInit ==
    sample = 0 /\ state = "idle" /\ intact = TRUE /\ bytes = <<>> /\ got = <<>>

\* A writer: T_encoded_size to reserve the buffer, T_encode to fill it, unless that fails.
Send ==
    /\ state = "idle"
    /\ \E i \in DOMAIN Samples :
          LET out == Encode(Samples[i].name, Samples[i].value)
          IN  /\ sample' = i
              /\ bytes' = IF out.ok THEN out.val ELSE <<>>
              /\ state' = IF out.ok THEN "sent" ELSE "refused"
    /\ UNCHANGED <<intact, got>>

Damage(bs) == state = "sent" /\ state' = "damaged" /\ intact' = FALSE /\ bytes' = bs /\ UNCHANGED <<sample, got>>

\* The transport or the file (external): one byte differs, the end is missing, or there is
\* something behind it.
Change == \E i \in DOMAIN bytes, x \in Bytes : x # bytes[i] /\ Damage([bytes EXCEPT ![i] = x])
Truncate == \E n \in 0 .. Len(bytes) - 1 : Damage(SubSeq(bytes, 1, n))
Extend == \E x \in Bytes : Damage(Append(bytes, x))

\* A reader: T_decode, T_verify and, when that succeeds, the accessors of the view.
Receive ==
    /\ state \in {"sent", "damaged"}
    /\ got' = [size |-> EncodedSize(Name, Value),
               decoded |-> Decoded(Name, bytes),
               view |-> Look(Verified(Name, bytes), Name, bytes),
               old |-> IF Name \in DOMAIN OldDefs THEN Decode(OldDefs, Name, bytes) ELSE Malformed]
    /\ state' = "received"
    /\ UNCHANGED <<sample, intact, bytes>>

ExchangeNext == Send \/ Change \/ Truncate \/ Extend \/ Receive

----------------------------------------------------------------------------
\* What a writer drops: the deprecated fields of a message, and that an array had no data.
Written(n, v) ==
    CASE Defs[n].kind = "message" -> [t \in {u \in DOMAIN v : ~Defs[n].fields[u].deprecated} |-> Held(v[t])]
      [] Defs[n].kind = "struct" -> [i \in DOMAIN v |-> Held(v[i])]
      [] OTHER -> v

\* What an older reader knows of it: its own fields, and a union only by the branches it has.
KnownToOld(n, v) ==
    CASE OldDefs[n].kind = "message" -> [t \in DOMAIN v \cap DOMAIN OldDefs[n].fields |-> v[t]]
      [] OldDefs[n].kind = "union" ->
            IF v.disc \in DOMAIN OldDefs[n].branches THEN v ELSE [disc |-> 0, val |-> <<>>]
      [] OTHER -> v

\* The parts of a value v of the type t, each with its type.
Part(t, v) == [type |-> t, val |-> v]
DefParts(def, v) ==
    CASE def.kind = "enum" -> <<>>
      [] def.kind = "struct" -> [i \in DOMAIN def.fields |-> Part(def.fields[i], v[i])]
      [] def.kind = "message" ->
            [i \in 1 .. Cardinality(DOMAIN v) |-> Part(def.fields[Sorted(DOMAIN v)[i]].type, v[Sorted(DOMAIN v)[i]])]
      [] def.kind = "union" ->
            IF v.disc \in DOMAIN def.branches THEN <<Part(Ref(def.branches[v.disc]), v.val)>> ELSE <<>>
MapParts(t, v, keys) == [i \in DOMAIN keys |-> Part(t.key, keys[i])] \o [i \in DOMAIN keys |-> Part(t.value, v[keys[i]])]
Parts(t, v) ==
    CASE t.kind \in {"scalar", "string"} -> <<>>
      [] t.kind = "def" -> DefParts(Defs[t.name], v)
      [] t.kind \in {"array", "fixed"} -> [i \in DOMAIN v |-> Part(t.elem, v[i])]
      [] t.kind = "map" -> MapParts(t, v, MapOrder(v))

\* Three things that decode and verify do not treat alike: a timestamp, which the views take
\* for 12 bytes; an array of elements of no bytes, which only decode refuses when no more bytes
\* follow; and nesting, which only decode limits.
RECURSIVE HasTimestamp(_, _)
HasTimestamp(t, v) ==
    t = Scalar("timestamp") \/ LET ps == Parts(t, v) IN \E i \in DOMAIN ps : HasTimestamp(ps[i].type, ps[i].val)
RECURSIVE HasNoBytes(_, _)
HasNoBytes(t, v) ==
    \/ t.kind = "array" /\ \E i \in DOMAIN v : SizeType(Defs, t.elem, v[i]) = 0
    \/ LET ps == Parts(t, v) IN \E i \in DOMAIN ps : HasNoBytes(ps[i].type, ps[i].val)
RECURSIVE IsDeep(_, _, _)
IsDeep(t, v, d) ==
    \/ t.kind = "def" /\ Defs[t.name].kind # "enum" /\ d >= MaxDepth
    \/ LET ps == Parts(t, v)
           inside == IF t.kind = "def" THEN d + 1 ELSE d
       IN  \E i \in DOMAIN ps : IsDeep(ps[i].type, ps[i].val, inside)

Decodable(v) == ~ HasNoBytes(Ref(Name), v) /\ ~ IsDeep(Ref(Name), v, 0)
Viewable(v) == ~ HasTimestamp(Ref(Name), v)

\* Whatever is encoded fills exactly the size computed for it.  Decode gives it back as it was
\* written unless it holds an array of elements of no bytes or is nested too deep, and so does
\* a reader with the earlier schema for the fields it knows, past the ones it does not.  Verify
\* accepts it, and the accessors, which find a field by the directory and not by reading what
\* precedes it, give it back, unless it holds a timestamp.
RoundTrip ==
    state = "received" /\ intact =>
        /\ got.size = Len(bytes)
        /\ Decodable(Written(Name, Value)) =>
              /\ got.decoded.ok /\ got.decoded.val = Written(Name, Value)
              /\ Name \in DOMAIN OldDefs =>
                    got.old.ok /\ got.old.val = KnownToOld(Name, Written(Name, Value))
        /\ Viewable(Written(Name, Value)) =>
              got.view.verified /\ got.view.seen = Written(Name, Value)

\* Bytes that verify accepts, whatever happened to them, are decoded, and the accessors give
\* what decode gives: the boundaries, the directory, the lengths inside the fields and the
\* nested messages agree, for the readers that use the ones and for those that use the others.
\* What the accessors give must hold none of the three things above.
VerifiedIsDecodable ==
    state = "received" /\ got.view.verified /\ Viewable(got.view.seen) /\ Decodable(got.view.seen) =>
        got.decoded.ok /\ got.decoded.val = got.view.seen

\* What is encoded is accepted by decode and by verify.  WIRE.md gives the sizes both must take
\* for granted ("`timestamp` | 16 bytes") and says of empty values, structs among them, "All
\* are valid".
EncodedIsAccepted ==
    state = "received" /\ intact => got.decoded.ok /\ got.view.verified
=============================================================================
