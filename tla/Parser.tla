------------------------------- MODULE Parser -------------------------------
(***************************************************************************)
(* The schema parser of the C library: bebop__parse_file is a machine over *)
(* a stack of frames, one per definition that is open, and each of its     *)
(* states is an action here.  The parsers it calls (types, literals,       *)
(* fields ...) are operators on the parser's record: they return it with   *)
(* `ok' (FALSE where the C function returns NULL or false) and `val'.      *)
(* After an error `panic' keeps further errors quiet until one of the      *)
(* synchronize functions finds a place to go on.  Text, spans, wording and *)
(* warnings are left out; a doc comment is a number (0: none) on the token *)
(* it precedes.                                                            *)
(***************************************************************************)
EXTENDS Integers, Sequences, FiniteSets, SequencesExt, Bitwise

CONSTANTS
    MaxTypeDepth,   \* BEBOP_MAX_TYPE_DEPTH
    MaxFrames,      \* BEBOP_PARSE_STACK_SIZE
    MaxFixed,       \* BEBOP_MAX_FIXED_ARRAY_SIZE
    MaxIndex,       \* BEBOP_MAX_FIELD_INDEX, BEBOP_MAX_DISCRIMINATOR
    WordBits,       \* 64: the bits of the value of an enum expression
    Numeral         \* the value of a number as it is spelled

VARIABLES
    tokens,         \* the text, scanned; the last token is "eof"
    parser,         \* bebop_parser_t with the state of its semantic checks
    stack,          \* the frames; the last one is on top
    schema,         \* what has been built
    idle            \* steps taken since a token was last consumed

parserVars == <<tokens, parser, stack, schema, idle>>

DefKeywords == {"struct", "message", "enum", "union"}
Names == {"ident", "enum", "struct", "message", "mut", "readonly", "map", "array", "union", "service",
          "stream", "import", "edition", "package", "export", "local", "true", "false", "const"}
Integral == {"byte", "int8", "int16", "uint16", "int32", "uint32", "int64", "uint64", "int128", "uint128"}
Floating == {"float16", "float32", "float64", "bfloat16"}
Scalars == Integral \cup Floating \cup {"bool", "string", "uuid", "timestamp", "duration"}
MapKeys == Integral \cup {"bool", "string", "uuid"}
Fraction == -1      \* the Numeral of a number that is no integer

-----------------------------------------------------------------------------
(* Tokens and errors *)

Peek(p, n) == tokens[IF p.at + n > Len(tokens) THEN Len(tokens) ELSE p.at + n]
Current(p) == tokens[p.at]
Previous(p) == tokens[p.at - 1]
Check(p, k) == Current(p).k = k
AtEnd(p) == Check(p, "eof")
Advance(p) == IF AtEnd(p) THEN p ELSE [p EXCEPT !.at = @ + 1]
Match(p, k) == IF Check(p, k) THEN Advance(p) ELSE p

Return(p, v) == [p EXCEPT !.ok = TRUE, !.val = v]
Then(p, F(_)) == IF p.ok THEN F(p) ELSE p

\* An error is reported once; what follows it is quiet until a synchronize.
Complain(p, wrong) ==
    IF wrong THEN [p EXCEPT !.panic = TRUE, !.errors = IF p.panic THEN @ ELSE @ + 1] ELSE p
Error(p) == [Complain(p, TRUE) EXCEPT !.ok = FALSE]
\* The semantic checks report at once and leave the parser as it is.
Diagnose(p, wrong) == IF wrong THEN [p EXCEPT !.errors = @ + 1] ELSE p

Consume(p, k) == IF Check(p, k) THEN [Advance(p) EXCEPT !.ok = TRUE] ELSE Error(p)
ConsumeName(p) == IF Current(p).k \in Names THEN [Advance(p) EXCEPT !.ok = TRUE] ELSE Error(p)

\* The first position from `at' on where Stop holds, or that of "eof".
Until(at, Stop(_)) ==
    CHOOSE i \in at .. Len(tokens) :
        (i = Len(tokens) \/ Stop(i)) /\ \A j \in at .. i - 1 : ~Stop(j)

Resume(p, Stop(_)) == [p EXCEPT !.panic = FALSE, !.at = Until(Advance(p).at, Stop)]
Synchronize(p) ==
    Resume(p, LAMBDA i : \/ tokens[i - 1].k = ";"
                         \/ tokens[i].k \in DefKeywords \cup {"service", "const", "mut", "readonly", "import",
                                                              "package", "export", "local", "@"})
SynchronizeInBlock(p) == Resume(p, LAMBDA i : tokens[i - 1].k = ";" \/ tokens[i].k \in {"}", "@"})
InFile(p) == IF p.panic THEN Synchronize(p) ELSE p
InBlock(p) == IF p.panic THEN SynchronizeInBlock(p) ELSE p
OrSkip(p) == IF p.ok THEN p ELSE InBlock(p)

-----------------------------------------------------------------------------
(* The semantic checks made while parsing: one scope, not a stack of them *)

EnterDef(p, d) == [p EXCEPT !.cur = d.name, !.names = {}, !.tags = {}]
ExitDef(p) == [p EXCEPT !.cur = "", !.names = {}, !.tags = {}]
CheckReservedName(p, name) == Complain(p, name = "Array")
CheckDuplicateName(p, name) == [Diagnose(p, name \in p.names) EXCEPT !.names = @ \cup {name}]
CheckFieldIndex(p, tag) == [Diagnose(p, tag \in p.tags) EXCEPT !.tags = @ \cup {tag}]
CheckSelfReference(p, t) == Diagnose(p, t.kind = "defined" /\ p.cur # "" /\ t.name = <<p.cur>>)
CheckServiceType(p, t) == Diagnose(p, t.kind # "defined")

Word == 2 ^ WordBits
\* The values a base type takes; the wide types scaled to Word.
IntRange(base) ==
    CASE base = "byte" -> 0 .. 255
      [] base = "int8" -> -128 .. 127
      [] base = "int16" -> -32768 .. 32767
      [] base = "uint16" -> 0 .. 65535
      [] base = "int32" -> -(Word \div 4) .. (Word \div 4) - 1
      [] base = "uint32" -> 0 .. (Word \div 2) - 1
      [] base = "int64" -> -(Word \div 2) .. (Word \div 2) - 1
      [] base = "uint64" -> 0 .. Word - 1
IsSigned(base) == base \in {"int8", "int16", "int32", "int64"}
Unsigned(n) == n % Word
Signed(n) == IF Unsigned(n) >= Word \div 2 THEN Unsigned(n) - Word ELSE Unsigned(n)

CheckEnumMember(p, m, d) ==
    Diagnose(p, \/ (IF IsSigned(d.base) THEN m.value ELSE Unsigned(m.value)) \notin IntRange(d.base)
                \/ /\ \A i \in DOMAIN d.decs : d.decs[i].name # <<"flags">>
                   /\ \E i \in DOMAIN d.members : d.members[i].value = m.value)
CheckEnumComplete(p, d) ==
    Diagnose(p, d.members # <<>> /\ \A i \in DOMAIN d.members : d.members[i].value # 0)

FindDef(name) == \E i \in DOMAIN schema.defs : schema.defs[i].name = name
CheckDuplicateDef(p, d) == Complain(p, FindDef(d.name))

-----------------------------------------------------------------------------
(* Qualified names and types *)

RECURSIVE Parts(_, _)
Parts(p, name) ==
    IF Check(p, ".")
    THEN Then(Consume(Advance(p), "ident"), LAMBDA q : Parts(q, Append(name, Previous(q).v)))
    ELSE Return(p, name)

ScalarType(kind) == [kind |-> kind]
DefinedType(name) == [kind |-> "defined", name |-> name]

FixedSize(p) ==
    IF Numeral[Current(p).v] \in 1 .. MaxFixed THEN Consume(Advance(p), "]") ELSE Error(Advance(p))

RECURSIVE ArraySuffix(_, _), ParseType(_, _)
ArraySuffix(p, depth) ==
    IF ~Check(p, "[") THEN p
    ELSE IF depth + 1 > MaxTypeDepth THEN Error(Advance(p))
    ELSE IF Peek(p, 1).k = "number"
    THEN Then(FixedSize(Advance(p)), LAMBDA q :
              ArraySuffix(Return(q, [kind |-> "fixed", of |-> p.val, size |-> Numeral[Peek(p, 1).v]]), depth + 1))
    ELSE Then(Consume(Advance(p), "]"), LAMBDA q :
              ArraySuffix(Return(q, [kind |-> "array", of |-> p.val]), depth + 1))

MapType(p, depth) ==
    Then(Consume(p, "["), LAMBDA a :
    Then(ParseType(a, depth + 1), LAMBDA key :
    Then(Consume(Diagnose(key, key.val.kind \notin MapKeys), ","), LAMBDA b :
    Then(ParseType(b, depth + 1), LAMBDA value :
    Then(Consume(value, "]"), LAMBDA c :
    ArraySuffix(Return(c, [kind |-> "map", key |-> key.val, of |-> value.val]), depth))))))

ParseType(p, depth) ==
    CASE depth > MaxTypeDepth -> Error(p)
      [] depth <= MaxTypeDepth /\ Check(p, "map") -> MapType(Advance(p), depth)
      [] depth <= MaxTypeDepth /\ Check(p, "ident") ->
            IF Current(p).v \in Scalars
            THEN ArraySuffix(Return(Advance(p), ScalarType(Current(p).v)), depth)
            ELSE Then(Parts(Advance(p), <<Current(p).v>>), LAMBDA q :
                      ArraySuffix(Return(q, DefinedType(q.val)), depth))
      [] OTHER -> Error(p)

-----------------------------------------------------------------------------
(* Literals.  A string is one of "text", "uuid", "stamp", "span" or a      *)
(* reference to the environment: to a variable that holds a uuid, to one   *)
(* that is not set, or one that is not closed.                             *)

SubstituteEnvVars(v) == IF v = "$(ID)" THEN "uuid" ELSE v
EnvVarFails(v) == v \in {"$(NONE)", "$(OPEN"}

NumberKind(v, expected) ==
    IF Numeral[v] = Fraction \/ expected \in {"float32", "float64"} THEN "FLOAT" ELSE "INT"

LiteralOf(kind, toks) == [kind |-> kind, toks |-> toks]

StringLiteral(p, expected, v) ==
    CASE expected = "uuid" -> IF v = "uuid" THEN Return(p, LiteralOf("UUID", <<Previous(p)>>)) ELSE Error(p)
      [] expected = "timestamp" -> IF v = "stamp" THEN Return(p, LiteralOf("TIMESTAMP", <<Previous(p)>>)) ELSE Error(p)
      [] expected = "duration" -> IF v = "span" THEN Return(p, LiteralOf("DURATION", <<Previous(p)>>)) ELSE Error(p)
      [] expected = "byte" -> Return(p, LiteralOf("BYTES", <<Previous(p)>>))
      [] OTHER -> Return(p, LiteralOf("STRING", <<Previous(p)>>))

NegativeLiteral(p, expected) ==
    IF Check(p, "number") \/ (Check(p, "ident") /\ Current(p).v = "inf")
    THEN Return(Advance(p), LiteralOf(IF Check(p, "ident") THEN "FLOAT" ELSE NumberKind(Current(p).v, expected),
                                      <<Previous(p), Current(p)>>))
    ELSE Error(p)

ParseLiteral(p, expected) ==
    CASE Current(p).k \in {"true", "false"} -> Return(Advance(p), LiteralOf("BOOL", <<Current(p)>>))
      [] Check(p, "string") -> StringLiteral(Complain(Advance(p), EnvVarFails(Current(p).v)), expected,
                                             SubstituteEnvVars(Current(p).v))
      [] Check(p, "bytes") -> Return(Advance(p), LiteralOf("BYTES", <<Current(p)>>))
      [] Check(p, "number") -> Return(Advance(p), LiteralOf(NumberKind(Current(p).v, expected), <<Current(p)>>))
      [] Check(p, "ident") -> IF Current(p).v \in {"inf", "nan"}
                              THEN Return(Advance(p), LiteralOf("FLOAT", <<Current(p)>>))
                              ELSE Error(p)
      [] Check(p, "-") -> NegativeLiteral(Advance(p), expected)
      [] OTHER -> Error(p)

-----------------------------------------------------------------------------
(* Decorators: the callers go on whatever happens in them *)

RECURSIVE DecoratorArgs(_, _), Decorators(_, _)
IsNamedArg(p) == Check(p, "ident") /\ Peek(p, 1).k = ":"
DecoratorArg(p) ==
    Then(ParseLiteral(IF IsNamedArg(p) THEN Advance(Advance(p)) ELSE p, "string"), LAMBDA q :
    Return(q, [name |-> IF IsNamedArg(p) THEN Current(p).v ELSE "", value |-> q.val]))
NextArgs(q, args) == IF q.ok THEN DecoratorArgs(q, Append(args, q.val)) ELSE Return(q, args)
DecoratorArgs(p, args) ==
    IF Check(p, ")") \/ AtEnd(p) THEN Return(p, args)
    ELSE NextArgs(Then(IF args = <<>> THEN p ELSE Consume(p, ","), DecoratorArg), args)

CloseArgs(a, decs, name) ==
    LET q == Consume(a, ")")
    IN IF q.ok THEN Decorators(q, Append(decs, [name |-> name, args |-> a.val])) ELSE Return(q, decs)
Decorated(n, decs) ==
    CASE ~n.ok -> Return(n, decs)
      [] n.ok /\ Check(n, "(") -> CloseArgs(DecoratorArgs(Advance(n), <<>>), decs, n.val)
      [] n.ok /\ ~Check(n, "(") -> Decorators(n, Append(decs, [name |-> n.val, args |-> <<>>]))
\* Behind the `@'; without a name it skips to what may be a definition.
DecoratorName(q, decs) ==
    IF q.ok THEN Decorated(Parts(q, <<Previous(q).v>>), decs)
    ELSE Decorators([q EXCEPT !.at = Until(q.at, LAMBDA i :
                        tokens[i].k \in DefKeywords \cup {"@", "service", "const"})], decs)
Decorators(p, decs) ==
    IF Check(p, "@") THEN DecoratorName(Consume(Advance(p), "ident"), decs) ELSE Return(p, decs)

-----------------------------------------------------------------------------
(* Enum values *)

Precedence(p) ==
    CASE Check(p, "|") -> 1
      [] Check(p, "&") -> 2
      [] Check(p, "<") /\ Peek(p, 1).k = "<" -> 3
      [] OTHER -> 0

ApplyOp(a, b, op) ==
    CASE op = 1 -> Signed(Unsigned(a) | Unsigned(b))
      [] op = 2 -> Signed(Unsigned(a) & Unsigned(b))
      [] op = 3 -> IF b < 0 \/ b >= WordBits THEN 0 ELSE Signed((a % 2 ^ (WordBits - b)) * 2 ^ b)

LookupEnumMember(p, d) ==
    IF \E i \in DOMAIN d.members : d.members[i].name = Current(p).v
    THEN Return(Advance(p), d.members[CHOOSE i \in DOMAIN d.members :
                                        /\ d.members[i].name = Current(p).v
                                        /\ \A j \in 1 .. i - 1 : d.members[j].name # Current(p).v].value)
    ELSE Error(Advance(p))

RECURSIVE Expression(_, _, _), Operators(_, _, _)
Operand(p, d) ==
    CASE Check(p, "(") -> Then(Expression(Advance(p), d, 1), LAMBDA q : [Consume(q, ")") EXCEPT !.ok = TRUE])
      [] Check(p, "number") -> IF Numeral[Current(p).v] = Fraction THEN Error(Advance(p)) ELSE Return(Advance(p), Numeral[Current(p).v])
      [] Check(p, "ident") -> LookupEnumMember(p, d)
      [] OTHER -> Error(p)
Operators(p, d, level) ==
    IF Precedence(p) < level THEN p
    ELSE Then(Expression(IF Check(p, "<") THEN Advance(Advance(p)) ELSE Advance(p), d, Precedence(p) + 1), LAMBDA q :
              Operators(Return(q, ApplyOp(p.val, q.val, Precedence(p))), d, level))
\* The operand and the operators that bind at least as tightly as `level'.
Expression(p, d, level) ==
    Then(IF Check(p, "-") THEN Then(Operand(Advance(p), d), LAMBDA q : Return(q, Signed(-q.val))) ELSE Operand(p, d),
         LAMBDA q : Operators(q, d, level))
\* An expression that fails is 0, and the member goes on to its semicolon.
OrZero(q) == Return(q, IF q.ok THEN q.val ELSE 0)
ParseExpression(p, d) == OrZero(Expression(p, d, 1))

-----------------------------------------------------------------------------
(* Members: what a body holds between its braces *)

EnumMember(p, d) ==
    Then(Decorators(p, <<>>), LAMBDA decs :
    Then(ConsumeName(decs), LAMBDA n :
    Then(Consume(CheckDuplicateName(CheckReservedName(n, Previous(n).v), Previous(n).v), "="), LAMBDA q :
    Then(ParseExpression(q, d), LAMBDA e :
    Then(Consume(e, ";"), LAMBDA z :
    Return(z, [name |-> Previous(n).v, doc |-> Previous(n).doc, decs |-> decs.val, value |-> e.val,
               expr |-> SubSeq(tokens, q.at, e.at - 1)]))))))

Index(p) ==
    IF Numeral[Current(p).v] \in 1 .. MaxIndex THEN Return(Advance(p), Numeral[Current(p).v]) ELSE Error(Advance(p))
FieldIndex(p, d) ==
    IF d.kind # "message" THEN Return(p, 0)
    ELSE Then(Consume(p, "("), LAMBDA q :
         IF ~Check(q, "number") THEN Error(q)
         ELSE Then(Index(q), LAMBDA i : Consume(CheckFieldIndex(i, i.val), ")")))

CheckField(p, name, t, d) ==
    CheckDuplicateName(CheckReservedName(Complain(IF d.kind = "struct" THEN CheckSelfReference(p, t) ELSE p,
                                                  name = d.name), name), name)
Field(p, d) ==
    Then(Decorators(p, <<>>), LAMBDA decs :
    Then(ConsumeName(decs), LAMBDA n :
    Then(FieldIndex(n, d), LAMBDA i :
    Then(Consume(i, ":"), LAMBDA q :
    Then(ParseType(q, 0), LAMBDA t :
    Then(Consume(CheckField(t, Previous(n).v, t.val, d), ";"), LAMBDA z :
    Return(z, [name |-> Previous(n).v, doc |-> Previous(n).doc, decs |-> decs.val, type |-> t.val, index |-> i.val])))))))

\* The id of a method is the hash of its path: here, its name.
CheckMethodId(p, m, d) ==
    IF \E i \in DOMAIN d.members : d.members[i].name = m.name THEN Error(p) ELSE Return(p, m)
Method(p, d) ==
    Then(Decorators(p, <<>>), LAMBDA decs :
    Then(ConsumeName(decs), LAMBDA n :
    Then(Consume(CheckDuplicateName(CheckReservedName(n, Previous(n).v), Previous(n).v), "("), LAMBDA a :
    Then(ParseType(Match(a, "stream"), 0), LAMBDA req :
    Then(Consume(CheckServiceType(req, req.val), ")"), LAMBDA b :
    Then(Consume(b, ":"), LAMBDA c :
    Then(ParseType(Match(c, "stream"), 0), LAMBDA res :
    Then(Consume(CheckServiceType(res, res.val), ";"), LAMBDA z :
    CheckMethodId(z, [name |-> Previous(n).v, doc |-> Previous(n).doc, decs |-> decs.val,
                      request |-> req.val, response |-> res.val,
                      client |-> Check(a, "stream"), server |-> Check(c, "stream")], d)))))))))

-----------------------------------------------------------------------------
(* Definitions.  One record serves every kind; a kind uses what it needs.  *)

NewDef(kind, name, doc, f) ==
    [kind |-> kind, name |-> name, doc |-> doc, decs |-> f.decs, vis |-> f.vis, mutable |-> kind = "struct" /\ f.mutable,
     base |-> "uint32", members |-> <<>>, nested |-> <<>>, mixins |-> <<>>]

BranchDef(kind, name, doc, vis, mutable) ==
    NewDef(kind, name, doc, [decs |-> <<>>, vis |-> vis, mutable |-> mutable])

RECURSIVE BranchFields(_, _)
NextField(q, d) == BranchFields(InBlock(q), IF q.ok THEN [d EXCEPT !.members = Append(@, q.val)] ELSE d)
BranchFields(p, d) == IF Check(p, "}") \/ AtEnd(p) THEN Return(p, d) ELSE NextField(Field(p, d), d)

\* `{ ... }' after the name of a branch; a missing brace is reported, no more.
BranchBody(p, d) ==
    Then(BranchFields(EnterDef(Advance(p), d), d), LAMBDA q : Return(ExitDef(Consume(q, "}")), [def |-> q.val]))

BranchReference(p, modified) ==
    Then(OrSkip(ParseType(Complain(p, modified), 0)), LAMBDA q :
    IF q.val.kind = "defined" THEN Return(q, [type |-> q.val]) ELSE Error(q))

\* `message' without its brace ends the branch.
BranchMessage(p, mutable) ==
    LET q == Advance(Complain(p, mutable)) IN IF Check(q, "{") THEN Return(q, 0) ELSE InBlock(Error(q))

BranchInline(p, q, name, doc, vis) ==
    Then(IF Check(q, "message") THEN BranchMessage(q, Check(p, "mut")) ELSE Return(q, 0), LAMBDA r :
    BranchBody(r, BranchDef(IF Check(q, "message") THEN "message" ELSE "struct", name, doc, vis,
                            Check(p, "mut") /\ ~Check(q, "message"))))

BranchTarget(p, q, name, doc, vis) ==
    CASE Current(q).k \in {"{", "message"} -> BranchInline(p, CheckReservedName(q, name), name, doc, vis)
      [] Check(q, "ident") -> BranchReference(q, vis # "default" \/ Check(p, "mut"))
      [] OTHER -> Error(q)

\* A discriminator is 1 to 255 and new in its union.
Discriminator(p, d) ==
    IF ~Check(p, "number") THEN Error(p)
    ELSE Then(Index(p), LAMBDA q : IF \E i \in DOMAIN d.members : d.members[i].disc = q.val THEN Error(q) ELSE q)

BranchVisibility(p) == IF Current(p).k \in {"export", "local"} THEN Current(p).k ELSE "default"

Branch(p, d) ==
    Then(Decorators(p, <<>>), LAMBDA decs :
    Then(OrSkip(ConsumeName(IF BranchVisibility(decs) = "default" THEN decs ELSE Advance(decs))), LAMBDA n :
    Then(OrSkip(Then(Consume(n, "("), LAMBDA q : Then(Discriminator(q, d), LAMBDA i :
                Then(Consume(i, ")"), LAMBDA r : Consume(r, ":"))))), LAMBDA h :
    Then(BranchTarget(h, Match(h, "mut"), Previous(n).v, IF decs.val = <<>> THEN Current(decs).doc ELSE 0,
                      BranchVisibility(decs)), LAMBDA b :
    Then(Consume(b, ";"), LAMBDA z :
    Return(z, [name |-> Previous(n).v, doc |-> IF decs.val = <<>> THEN Current(decs).doc ELSE 0,
               decs |-> decs.val, disc |-> h.val, target |-> b.val]))))))

RECURSIVE NestedAhead(_, _, _)
\* The look-ahead over decorators: a definition follows them.
NestedAhead(i, depth, afterAt) ==
    LET k == tokens[i].k IN
    CASE k = "eof" -> FALSE
      [] k # "eof" /\ depth = 0 /\ k \in {"@", "."} -> NestedAhead(i + 1, 0, TRUE)
      [] depth = 0 /\ afterAt /\ k = "ident" -> NestedAhead(i + 1, 0, TRUE)
      [] k = "(" -> NestedAhead(i + 1, depth + 1, FALSE)
      [] k = ")" -> NestedAhead(i + 1, depth - 1, IF depth = 1 THEN FALSE ELSE afterAt)
      [] depth > 0 /\ k \notin {"(", ")", "eof"} -> NestedAhead(i + 1, depth, afterAt)
      [] OTHER -> k \in DefKeywords \cup {"export", "local", "mut"}

IsNestedDefStart(p) ==
    \/ Current(p).k \in DefKeywords \cup {"mut"}
    \/ Current(p).k \in {"export", "local"} /\ Peek(p, 1).k \in DefKeywords \cup {"mut"}
    \/ Check(p, "@") /\ NestedAhead(p.at, 0, FALSE)

-----------------------------------------------------------------------------
(* #decorator(name) { ... } *)

AllTargets == {"ENUM", "STRUCT", "MESSAGE", "UNION", "FIELD", "SERVICE", "METHOD", "BRANCH"}
TargetConstant(name) == IF name = "ALL" THEN AllTargets ELSE {name} \cap AllTargets

RECURSIVE TargetExpr(_, _)
\* What is named before an unknown target counts; the error is left pending.
TargetExpr(p, targets) ==
    LET q == Consume(p, "ident") IN
    CASE ~q.ok -> Return(q, targets)
      [] q.ok /\ TargetConstant(Previous(q).v) = {} -> Return(Complain(q, TRUE), targets)
      [] OTHER -> IF Check(q, "|") THEN TargetExpr(Advance(q), targets \cup TargetConstant(Previous(q).v))
                  ELSE Return(q, targets \cup TargetConstant(Previous(q).v))

RECURSIVE ValueList(_, _, _)
ValueList(p, type, values) ==
    IF Check(p, "]") \/ AtEnd(p) THEN Then(Consume(p, "]"), LAMBDA q : Return(q, values))
    ELSE Then(ParseLiteral(p, type), LAMBDA q :
         Then(IF Check(q, "]") THEN q ELSE Consume(q, ","), LAMBDA r :
         ValueList(r, type, Append(values, q.val))))

ParamDefault(p, type) ==
    IF Check(p, "=") THEN Then(ParseLiteral(Advance(p), type), LAMBDA q : Return(q, <<q.val>>)) ELSE Return(p, <<>>)
ParamValues(p, type) ==
    IF Check(p, "ident") /\ Current(p).v = "in"
    THEN Then(Consume(Advance(p), "["), LAMBDA q : ValueList(q, type, <<>>)) ELSE Return(p, <<>>)
ParamType(p) ==
    Then(Consume(p, "ident"), LAMBDA q :
    IF Previous(q).v \in Scalars \cup {"type"} THEN Return(q, Previous(q).v) ELSE Error(q))

MacroParam(p) ==
    IF Current(p).k \notin Names \cup {"with"} THEN Error(p)
    ELSE IF Peek(p, 1).k \notin {"!", "?"} THEN Error(Advance(p))
    ELSE Then(Consume(Advance(Advance(p)), ":"), LAMBDA q :
         Then(ParamType(q), LAMBDA t :
         Then(ParamDefault(t, t.val), LAMBDA d :
         Then(ParamValues(d, t.val), LAMBDA z :
         Return(z, [name |-> Current(p), required |-> Peek(p, 1).k = "!", type |-> t.val, default |-> d.val, in |-> z.val])))))

BodyItems == {"targets", "multiple", "param", "validate"}
\* Skips to an item of the body at this depth, past `]]', or to the closing brace.
RECURSIVE SkipInDecorator(_, _)
SkipInDecorator(i, depth) ==
    LET k == tokens[i].k
        d == IF k = "{" THEN depth + 1 ELSE depth IN
    CASE k = "eof" -> i
      [] k = "}" -> IF d = 0 THEN i ELSE SkipInDecorator(i + 1, d - 1)
      [] k = "]" -> IF tokens[i + 1].k = "]" THEN i + 2 ELSE SkipInDecorator(i + 1, d)
      [] OTHER -> IF d = 0 /\ k = "ident" /\ tokens[i].v \in BodyItems THEN i ELSE SkipInDecorator(i + 1, d)
SynchronizeInDecorator(p) == [p EXCEPT !.panic = FALSE, !.at = SkipInDecorator(p.at, 0)]

\* One item of the body; val is the decorator definition so far.
MultipleItem(p, m) ==
    Then(Consume(p, "="), LAMBDA q :
    IF Current(q).k \in {"true", "false"} THEN Return(Advance(q), [m EXCEPT !.multiple = Check(q, "true")]) ELSE Error(q))
LuaBlock(p, m, item) == IF Check(p, "raw") THEN Return(Advance(p), [m EXCEPT ![item] = <<Current(p)>>]) ELSE Error(p)

MacroItem(p, m) ==
    CASE Current(p).k \notin Names \cup {"with"} -> Error(p)
      [] Check(p, "ident") /\ Current(p).v = "targets" ->
            Then(Consume(Advance(p), "="), LAMBDA q : Then(TargetExpr(q, {}), LAMBDA t :
                 Return(t, [m EXCEPT !.targets = t.val, !.hasTargets = TRUE])))
      [] Check(p, "ident") /\ Current(p).v = "multiple" -> MultipleItem(Advance(p), m)
      [] Check(p, "ident") /\ Current(p).v = "param" ->
            Then(MacroParam(Advance(p)), LAMBDA q : Return(q, [m EXCEPT !.params = Append(@, q.val)]))
      [] Check(p, "ident") /\ Current(p).v = "validate" -> LuaBlock(Advance(p), m, "validate")
      [] Check(p, "export") -> LuaBlock(Advance(p), m, "export")
      [] OTHER -> Error(p)

RECURSIVE MacroBody(_, _)
AfterItem(q, m) == IF q.ok THEN MacroBody(q, q.val) ELSE MacroBody(SynchronizeInDecorator(q), m)
MacroBody(p, m) ==
    IF Check(p, "}") \/ AtEnd(p) THEN Return(p, m)
    ELSE AfterItem(MacroItem(p, m), m)

MacroHead(p) ==
    IF ~(Check(p, "ident") /\ Current(p).v = "decorator") THEN Error(p)
    ELSE Then(Consume(Advance(p), "("), LAMBDA a :
         Then(Consume(a, "ident"), LAMBDA n :
         IF FindDef(Previous(n).v) THEN Error(n)
         ELSE Then(Consume(n, ")"), LAMBDA b : Then(Consume(b, "{"), LAMBDA c : Return(c, Previous(n).v)))))

NewMacro(name, doc) ==
    [kind |-> "decorator", name |-> name, doc |-> doc, targets |-> {}, hasTargets |-> FALSE, multiple |-> FALSE,
     params |-> <<>>, validate |-> <<>>, export |-> <<>>]

\* ok: a definition to add.  An error after the head is left to whoever parses next.
MacroRest(h, doc) ==
    Then(MacroBody(h, NewMacro(h.val, doc)), LAMBDA b :
    Then(Consume(b, "}"), LAMBDA z : IF b.val.hasTargets THEN z ELSE Error(z)))
MacroDecorator(p) ==
    LET h == MacroHead(Advance(p)) IN IF h.ok THEN MacroRest(h, Current(p).doc) ELSE Synchronize(h)

-----------------------------------------------------------------------------
(* The machine of bebop__parse_file *)

Top == stack[Len(stack)]
Frame(state) == [state |-> state, def |-> <<>>, decs |-> <<>>, mutable |-> FALSE, vis |-> "default"]
NoSchema == [package |-> <<>>, imports |-> <<>>, defs |-> <<>>]
NewParser == [at |-> 1, panic |-> FALSE, errors |-> 0, ok |-> TRUE, val |-> 0, preamble |-> 0,
              cur |-> "", names |-> {}, tags |-> {}]
Edition == 1
Package == 2
Imports == 3
Done == 4

ParserInit ==
    /\ parser = NewParser
    /\ stack = <<Frame("FILE")>>
    /\ schema = NoSchema
    /\ idle = 0

\* A step leaves the parser at q, with the stack st.
Step(q, st) ==
    /\ parser' = Return(q, 0)
    /\ stack' = st
    /\ idle' = IF q.at = parser.at THEN idle + 1 ELSE 0
    /\ UNCHANGED tokens

InState(state) == stack # <<>> /\ Top.state = state
Goto(state) == [stack EXCEPT ![Len(stack)].state = state]
Pop == SubSeq(stack, 1, Len(stack) - 1)
AtLeast(p, n) == [p EXCEPT !.preamble = IF @ < n THEN n ELSE @]

FileEnd == InState("FILE") /\ AtEnd(parser) /\ Step(parser, Pop) /\ UNCHANGED schema

FilePreamble ==
    /\ InState("FILE")
    /\ \/ Check(parser, "import") /\ Step(AtLeast(parser, Imports), Goto("IMPORT"))
       \/ Check(parser, "edition") /\ Step(Complain(parser, parser.preamble >= Package), Goto("EDITION"))
       \/ Check(parser, "package") /\ Step(Complain(parser, parser.preamble >= Imports), Goto("PACKAGE"))
    /\ UNCHANGED schema

FileMacro ==
    /\ InState("FILE") /\ Check(parser, "#")
    /\ \E q \in {MacroDecorator(AtLeast(parser, Done))} :
          /\ Step(q, stack)
          /\ schema' = IF q.ok THEN [schema EXCEPT !.defs = Append(@, q.val)] ELSE schema

FileDefinition ==
    /\ InState("FILE") /\ Current(parser).k \notin {"eof", "import", "edition", "package", "#"}
    /\ Step(AtLeast(parser, Done), Goto("DEFINITION"))
    /\ UNCHANGED schema

ParseImport ==
    /\ InState("IMPORT")
    /\ LET q == Consume(Advance(parser), "string")
       IN /\ Step(InFile(Match(q, ";")), Goto("FILE"))
          /\ schema' = IF q.ok THEN [schema EXCEPT !.imports = Append(@, Previous(q).v)] ELSE schema

EditionYear(p) == Then(Consume(p, "string"), LAMBDA q : Complain(q, Previous(q).v # "2026"))
ParseEdition ==
    /\ InState("EDITION")
    /\ LET q == EditionYear(Consume(Advance(parser), "="))
       IN Step(InFile(Match([q EXCEPT !.preamble = Edition], ";")), Goto("FILE"))
    /\ UNCHANGED schema

RECURSIVE PackageName(_, _)
\* A part that is no name ends the package name, which is then taken as it stands.
PackageName(p, name) ==
    IF ~Check(p, ".") THEN Return(p, name)
    ELSE IF Peek(p, 1).k \in Names THEN PackageName(Advance(Advance(p)), Append(name, Peek(p, 1).v))
    ELSE Return(Synchronize(Error(Advance(p))), name)

PackageHead(p) == IF schema.package # <<>> THEN Error(p) ELSE Consume(p, "ident")
ParsePackage ==
    /\ InState("PACKAGE")
    /\ \E q \in {Then(PackageHead(Advance(parser)), LAMBDA r : PackageName(r, <<Previous(r).v>>))} :
         IF q.ok /\ ~q.panic
         THEN /\ Step(Match([q EXCEPT !.preamble = Package], ";"), Goto("FILE"))
              /\ schema' = [schema EXCEPT !.package = q.val]
         ELSE Step(InFile(q), Goto("FILE")) /\ UNCHANGED schema

Started == [k \in DefKeywords \cup {"service", "const"} |->
    CASE k = "enum" -> "ENUM_START" [] k = "struct" -> "STRUCT_START" [] k = "message" -> "MESSAGE_START"
      [] k = "union" -> "UNION_START" [] k = "service" -> "SERVICE_START" [] k = "const" -> "CONST_START"]

\* Decorators, visibility and modifiers in front of the keyword.
BehindVisibility(d) == IF BranchVisibility(d) = "default" THEN d ELSE Advance(d)
BehindModifiers(v) ==
    LET q == Match(Match(v, "mut"), "readonly") IN Complain(q, Check(v, "mut") /\ ~Check(q, "struct"))
Described(d) ==
    [Top EXCEPT !.decs = d.val, !.mutable = Check(BehindVisibility(d), "mut"), !.vis = BranchVisibility(d)]
StartDefinition(q, f) ==
    IF Current(q).k \in DOMAIN Started
    THEN Step(q, Append(Pop, [f EXCEPT !.state = Started[Current(q).k]]))
    ELSE Step(InFile(Error(q)), Append(Pop, [f EXCEPT !.state = "FILE"]))
ParseDefinition ==
    /\ InState("DEFINITION")
    /\ \E d \in {Decorators(parser, <<>>)} : StartDefinition(BehindModifiers(BehindVisibility(d)), Described(d))
    /\ UNCHANGED schema

\* A keyword that was parsed up to its brace (q.val is the definition) opens
\* a body; otherwise the frame looks for the next definition of the file.
Open(q, state) ==
    /\ IF q.ok THEN Step(EnterDef(q, q.val), Append(Pop, [Top EXCEPT !.state = state, !.def = q.val]))
               ELSE Step(InFile(q), Goto("FILE"))
    /\ UNCHANGED schema

DefName(p, kind) ==
    Then(Consume(Advance(p), "ident"), LAMBDA q :
    Return(CheckReservedName(q, Previous(q).v), NewDef(kind, Previous(q).v, Current(p).doc, Top)))

\* The colon and a base type of an enum; a wrong one is reported and ignored.
EnumBase(p) ==
    IF ~Check(p, ":") THEN p
    ELSE LET q == Consume(Advance(p), "ident")
         IN IF q.ok /\ Previous(q).v \in Integral \ {"int128", "uint128"}
            THEN Return(q, [p.val EXCEPT !.base = Previous(q).v]) ELSE Return(Complain(q, TRUE), p.val)

RECURSIVE Mixins(_, _)
Mixin(q, d) ==
    LET e == IF q.ok /\ q.val.kind = "defined" THEN [d EXCEPT !.mixins = Append(@, q.val)] ELSE d
        r == Complain(q, q.ok /\ q.val.kind # "defined")
    IN IF q.ok /\ Check(q, ",") THEN Mixins(Advance(r), e) ELSE Return(r, e)
Mixins(p, d) == Mixin(ParseType(p, 0), d)

EnumStart == InState("ENUM_START") /\ Open(Then(DefName(parser, "enum"), LAMBDA q : Consume(EnumBase(q), "{")), "ENUM_BODY")
StructStart == InState("STRUCT_START") /\ Open(Then(DefName(parser, "struct"), LAMBDA q : Consume(q, "{")), "STRUCT_BODY")
MessageStart == InState("MESSAGE_START") /\ Open(Then(DefName(parser, "message"), LAMBDA q : Consume(q, "{")), "MESSAGE_BODY")
UnionStart == InState("UNION_START") /\ Open(Then(DefName(parser, "union"), LAMBDA q : Consume(q, "{")), "UNION_BODY")
ServiceStart ==
    /\ InState("SERVICE_START")
    /\ Open(Then(DefName(parser, "service"), LAMBDA q :
            Consume(IF Check(q, "with") THEN Mixins(Advance(q), q.val) ELSE q, "{")), "SERVICE_BODY")

AtClose == Check(parser, "}") \/ AtEnd(parser)

\* The end of a body: q has seen the brace.  A definition inside another one
\* goes to it; the others go to the schema.
Close(q, d) ==
    IF Len(stack) > 1 /\ d.kind # "service"
    THEN /\ Step(CheckDuplicateDef(q, d), [Pop EXCEPT ![Len(stack) - 1].def.nested = Append(@, d)])
         /\ UNCHANGED schema
    ELSE /\ Step(CheckDuplicateDef(q, d), Append(Pop, [Top EXCEPT !.state = "FILE", !.def = <<>>, !.decs = <<>>]))
         /\ schema' = [schema EXCEPT !.defs = Append(@, d)]
Closed == ExitDef(Consume(parser, "}"))

\* Nothing is skipped.
Add_Stays(q) ==
    /\ Step(q, IF q.ok THEN [stack EXCEPT ![Len(stack)].def.members = Append(@, q.val)] ELSE stack)
    /\ UNCHANGED schema

\* A member was parsed, or not; whatever is still wrong is skipped.
Add(q) ==
    /\ Step(InBlock(q), IF q.ok THEN [stack EXCEPT ![Len(stack)].def.members = Append(@, q.val)] ELSE stack)
    /\ UNCHANGED schema

\* A definition in a body gets a frame of its own; without room for one the
\* parse ends (bebop__parse_fatal).
Nest ==
    /\ IF Len(stack) >= MaxFrames THEN Step([parser EXCEPT !.errors = @ + 1], <<>>)
                                  ELSE Step(parser, Append(stack, Frame("DEFINITION")))
    /\ UNCHANGED schema

EnumBody ==
    /\ InState("ENUM_BODY")
    /\ \/ AtClose /\ Close(CheckEnumComplete(Closed, Top.def), Top.def)
       \/ ~AtClose /\ Add(Then(EnumMember(parser, Top.def), LAMBDA q : CheckEnumMember(q, q.val, Top.def)))

FieldsBody(state) ==
    /\ InState(state)
    /\ \/ AtClose /\ Close(Closed, Top.def)
       \/ ~AtClose /\ IsNestedDefStart(parser) /\ Nest
       \/ ~AtClose /\ ~IsNestedDefStart(parser) /\ Add(Field(parser, Top.def))
StructBody == FieldsBody("STRUCT_BODY")
MessageBody == FieldsBody("MESSAGE_BODY")

UnionBody ==
    /\ InState("UNION_BODY")
    /\ \/ AtClose /\ Close(Complain(Closed, Top.def.members = <<>>), Top.def)
       \/ ~AtClose /\ IsNestedDefStart(parser) /\ Nest
       \/ ~AtClose /\ ~IsNestedDefStart(parser) /\ Step(parser, Goto("UNION_BRANCH")) /\ UNCHANGED schema

\* What went wrong after the colon of a branch is left to the next branch to skip.
UnionBranch ==
    /\ InState("UNION_BRANCH")
    /\ \E q \in {Branch(parser, Top.def)} :
          Step(q, IF q.ok THEN [Goto("UNION_BODY") EXCEPT ![Len(stack)].def.members = Append(@, q.val)]
                          ELSE Goto("UNION_BODY"))
    /\ UNCHANGED schema

ServiceBody ==
    /\ InState("SERVICE_BODY")
    /\ \/ AtClose /\ Close(Closed, Top.def)
       \/ ~AtClose /\ Add(Method(parser, Top.def))

ConstKinds(t) ==
    CASE t.kind = "array" -> {"BYTES"} [] t.kind = "bool" -> {"BOOL"} [] t.kind \in Integral -> {"INT"}
      [] t.kind \in Floating -> {"FLOAT", "INT"} [] t.kind = "string" -> {"STRING"} [] t.kind = "uuid" -> {"UUID"}
      [] t.kind = "timestamp" -> {"TIMESTAMP"} [] t.kind = "duration" -> {"DURATION"}
      [] OTHER -> {"BOOL", "INT", "FLOAT", "STRING", "UUID", "TIMESTAMP", "DURATION", "BYTES"}
IsByteArray(t) == t.kind = "array" /\ t.of.kind = "byte"

Const(p) ==
    Then(ParseType(Advance(p), 0), LAMBDA t :
    Then(ConsumeName(Complain(t, t.val.kind \notin Scalars /\ ~IsByteArray(t.val))), LAMBDA n :
    Then(Consume(n, "="), LAMBDA q :
    Then(ParseLiteral(q, IF IsByteArray(t.val) THEN "byte" ELSE t.val.kind), LAMBDA v :
    Then(Consume(Complain(v, v.val.kind \notin ConstKinds(t.val) /\ (t.val.kind = "array" => IsByteArray(t.val))), ";"), LAMBDA z :
    Return(z, [kind |-> "const", name |-> Previous(n).v, doc |-> Current(p).doc, decs |-> Top.decs, vis |-> Top.vis,
               type |-> t.val, value |-> v.val]))))))

ConstStart ==
    /\ InState("CONST_START")
    /\ \E q \in {Const(parser)} :
          IF q.ok THEN /\ Step(CheckDuplicateDef(q, q.val), Append(Pop, [Top EXCEPT !.state = "FILE", !.decs = <<>>]))
                       /\ schema' = [schema EXCEPT !.defs = Append(@, q.val)]
          ELSE Step(InFile(q), Goto("FILE")) /\ UNCHANGED schema

ParserNext ==
    \/ FileEnd \/ FilePreamble \/ FileMacro \/ FileDefinition
    \/ ParseImport \/ ParseEdition \/ ParsePackage \/ ParseDefinition
    \/ EnumStart \/ EnumBody \/ StructStart \/ StructBody \/ MessageStart \/ MessageBody
    \/ UnionStart \/ UnionBody \/ UnionBranch \/ ServiceStart \/ ServiceBody \/ ConstStart

\* bebop__parse_file returned.
Parsed == stack = <<>>
=============================================================================
