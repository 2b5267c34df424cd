------------------------------ MODULE Emitter -------------------------------
(***************************************************************************)
(* bebop_emit_schema: a schema written out again, as `bebopc fmt' and the  *)
(* formatter of the language server do.  The output is a sequence of       *)
(* tokens; a doc comment belongs to the token written after it.  Layout    *)
(* and the comments that are no documentation are left out.                *)
(***************************************************************************)
EXTENDS Parser, TLC

CONSTANT PathRank   \* the place of an import path in the order of strcmp

Tok(k) == [k |-> k, v |-> k, doc |-> 0]
Ident(name) == [k |-> "ident", v |-> name, doc |-> 0]
Number(n) == [k |-> "number", v |-> CHOOSE w \in DOMAIN Numeral : Numeral[w] = n, doc |-> 0]
String(s) == [k |-> "string", v |-> s, doc |-> 0]
\* A member's name may be a keyword.
Name(name) == IF name \in Names \ {"ident"} THEN Tok(name) ELSE Ident(name)

Join(parts, sep) == [i \in 1 .. 2 * Len(parts) - 1 |-> IF i % 2 = 1 THEN parts[(i + 1) \div 2] ELSE sep]
Concat(F(_), s) == FlattenSeq([i \in DOMAIN s |-> F(s[i])])
Qualified(name) == Join([i \in DOMAIN name |-> Name(name[i])], Tok("."))

EmitDoc(doc, toks) == IF doc = 0 THEN toks ELSE [toks EXCEPT ![1].doc = doc]

\* A literal that was parsed has the text it was read from, and is written as
\* it was read; bytes always with their own quotes.
EmitLiteral(lit) ==
    IF lit.kind = "BYTES" THEN <<[lit.toks[1] EXCEPT !.k = "bytes", !.doc = 0]>>
    ELSE [i \in DOMAIN lit.toks |-> [lit.toks[i] EXCEPT !.doc = 0]]

EmitArg(arg) == (IF arg.name = "" THEN <<>> ELSE <<Ident(arg.name), Tok(":")>>) \o EmitLiteral(arg.value)
EmitArgs(args) ==
    IF args = <<>> THEN <<>>
    ELSE <<Tok("(")>> \o EmitArg(args[1]) \o Concat(LAMBDA a : <<Tok(",")>> \o EmitArg(a), Tail(args)) \o <<Tok(")")>>
EmitDecorators(decs) == Concat(LAMBDA d : <<Tok("@")>> \o Qualified(d.name) \o EmitArgs(d.args), decs)

RECURSIVE EmitType(_)
EmitType(t) ==
    CASE t.kind = "array" -> EmitType(t.of) \o <<Tok("["), Tok("]")>>
      [] t.kind = "fixed" -> EmitType(t.of) \o <<Tok("["), Number(t.size), Tok("]")>>
      [] t.kind = "map" -> <<Tok("map"), Tok("[")>> \o EmitType(t.key) \o <<Tok(",")>> \o EmitType(t.of) \o <<Tok("]")>>
      [] t.kind = "defined" -> Qualified(t.name)
      [] OTHER -> <<Ident(t.kind)>>

EmitStructField(f) == <<Name(f.name), Tok(":")>> \o EmitType(f.type) \o <<Tok(";")>>
EmitMessageField(f) ==
    <<Name(f.name), Tok("("), Number(f.index), Tok(")"), Tok(":")>> \o EmitType(f.type) \o <<Tok(";")>>
EmitStructFields(fields) == Concat(LAMBDA f : EmitDoc(f.doc, EmitDecorators(f.decs) \o EmitStructField(f)), fields)
EmitMessageFields(fields) == Concat(LAMBDA f : EmitDoc(f.doc, EmitDecorators(f.decs) \o EmitMessageField(f)), fields)
EmitEnumMembers(members) ==
    Concat(LAMBDA m : EmitDoc(m.doc, EmitDecorators(m.decs) \o <<Name(m.name), Tok("=")>>
                                       \o [i \in DOMAIN m.expr |-> [m.expr[i] EXCEPT !.doc = 0]] \o <<Tok(";")>>), members)

\* The fields of a branch's own definition lose their documentation and decorators.
EmitBranchDef(d) ==
    (IF d.kind = "message" THEN <<Tok("message")>> ELSE IF d.mutable THEN <<Tok("mut")>> ELSE <<>>) \o <<Tok("{")>>
      \o (IF d.kind = "message" THEN Concat(EmitMessageField, d.members) ELSE Concat(EmitStructField, d.members))
      \o <<Tok("}")>>
EmitBranch(b) ==
    EmitDecorators(b.decs)
      \o (IF "def" \in DOMAIN b.target THEN (IF b.target.def.vis = "export" THEN <<Tok("export")>> ELSE <<>>) ELSE <<>>)
      \o <<Name(b.name), Tok("("), Number(b.disc), Tok(")"), Tok(":")>>
      \o (IF "def" \in DOMAIN b.target THEN EmitBranchDef(b.target.def) ELSE EmitType(b.target.type))
      \o <<Tok(";")>>
EmitUnionBranches(branches) == Concat(LAMBDA b : EmitDoc(b.doc, EmitBranch(b)), branches)

Stream(is) == IF is THEN <<Tok("stream")>> ELSE <<>>
EmitMethods(methods) ==
    Concat(LAMBDA m : EmitDoc(m.doc, EmitDecorators(m.decs) \o <<Name(m.name), Tok("(")>> \o Stream(m.client)
             \o EmitType(m.request) \o <<Tok(")"), Tok(":")>> \o Stream(m.server) \o EmitType(m.response) \o <<Tok(";")>>),
           methods)

EmitVisibility_Swapped(d, nested) ==
    IF nested /\ d.vis = "local" THEN <<Tok("local")>>
    ELSE IF ~nested /\ d.vis = "export" THEN <<Tok("export")>> ELSE <<>>
EmitVisibility(d, nested) ==
    IF ~nested /\ d.vis = "local" THEN <<Tok("local")>>
    ELSE IF nested /\ d.vis = "export" THEN <<Tok("export")>> ELSE <<>>

TargetOrder == <<"ENUM", "STRUCT", "MESSAGE", "UNION", "FIELD", "SERVICE", "METHOD", "BRANCH">>
EmitTargets(targets) ==
    IF targets = AllTargets THEN <<Ident("ALL")>>
    ELSE Join([i \in 1 .. Cardinality(targets) |-> Ident(SelectSeq(TargetOrder, LAMBDA t : t \in targets)[i])], Tok("|"))
\* A parameter's default and the list of its values are not written.
EmitParam(q) ==
    <<Ident("param"), [q.name EXCEPT !.doc = 0], IF q.required THEN Tok("!") ELSE Tok("?"), Tok(":"), Ident(q.type)>>
EmitMacro(d) ==
    <<Tok("#"), Ident("decorator"), Tok("("), Ident(d.name), Tok(")"), Tok("{"), Ident("targets"), Tok("=")>>
      \o EmitTargets(d.targets)
      \o (IF d.multiple THEN <<Ident("multiple"), Tok("="), Tok("true")>> ELSE <<>>)
      \o Concat(EmitParam, d.params)
      \o (IF d.validate = <<>> THEN <<>> ELSE <<Ident("validate"), [d.validate[1] EXCEPT !.doc = 0]>>)
      \o (IF d.export = <<>> THEN <<>> ELSE <<Tok("export"), [d.export[1] EXCEPT !.doc = 0]>>)
      \o <<Tok("}")>>

EmitMembers(d) ==
    CASE d.kind = "enum" -> EmitEnumMembers(d.members)
      [] d.kind = "struct" -> EmitStructFields(d.members)
      [] d.kind = "message" -> EmitMessageFields(d.members)
      [] d.kind = "union" -> EmitUnionBranches(d.members)
      [] d.kind = "service" -> EmitMethods(d.members)

EmitHead(d, nested) ==
    EmitVisibility(d, nested) \o (IF d.mutable THEN <<Tok("mut")>> ELSE <<>>) \o <<Tok(d.kind), Ident(d.name)>>
      \o (IF d.kind = "enum" /\ d.base # "uint32" THEN <<Tok(":"), Ident(d.base)>> ELSE <<>>) \o <<Tok("{")>>
EmitConst(d) ==
    EmitVisibility(d, FALSE) \o <<Tok("const")>> \o EmitType(d.type) \o <<Name(d.name), Tok("=")>> \o EmitLiteral(d.value)
      \o <<Tok(";")>>

\* The definitions inside one are written after its members; a service has
\* no mixins in the output.
RECURSIVE EmitDef(_, _)
EmitDef(d, nested) ==
    EmitDoc(d.doc,
      CASE d.kind = "decorator" -> EmitMacro(d)
        [] d.kind = "const" -> EmitDecorators(d.decs) \o EmitConst(d)
        [] OTHER -> EmitDecorators(d.decs) \o EmitHead(d, nested) \o EmitMembers(d)
                      \o Concat(LAMBDA n : EmitDef(n, TRUE), d.nested) \o <<Tok("}")>>)

\* Imports are sorted by their path.
Sorted(imports) == SortSeq(imports, LAMBDA a, b : PathRank[a] < PathRank[b])
EmitImports(imports) == Concat(LAMBDA path : <<Tok("import"), String(path)>>, Sorted(imports))

EmitSchema(s) ==
    <<Tok("edition"), Tok("="), String("2026")>>
      \o (IF s.package = <<>> THEN <<>> ELSE <<Tok("package")>> \o Qualified(s.package) \o <<Tok(";")>>)
      \o EmitImports(s.imports)
      \o Concat(LAMBDA d : EmitDef(d, FALSE), s.defs)
      \o <<Tok("eof")>>
=============================================================================
