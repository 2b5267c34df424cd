------------------------------ MODULE FrontEnd ------------------------------
(***************************************************************************)
(* A text is parsed; if it is accepted it is written out again by the      *)
(* emitter (`bebopc fmt', the language server's formatting request) and    *)
(* the result is parsed as the next compilation will.                      *)
(***************************************************************************)
EXTENDS Naturals, Sequences

CONSTANTS MaxTypeDepth, MaxFrames, MaxFixed, MaxIndex, WordBits, Numeral, PathRank,
          SourceTexts      \* the texts, as sequences of tokens

VARIABLES tokens, parser, stack, schema, idle,
          formatted        \* <<>>, or the schema that was written out

LOCAL INSTANCE Emitter

frontVars == <<tokens, parser, stack, schema, idle, formatted>>

StartsOn(texts) == tokens \in texts /\ ParserInit /\ formatted = <<>>
FrontInit == StartsOn(SourceTexts)

ParseStep == ParserNext /\ UNCHANGED formatted

Format ==
    /\ Parsed /\ parser.errors = 0 /\ formatted = <<>>
    /\ tokens' = EmitSchema(schema)
    /\ parser' = NewParser
    /\ stack' = <<Frame("FILE")>>
    /\ schema' = NoSchema
    /\ idle' = 0
    /\ formatted' = <<schema>>

FrontNext == ParseStep \/ Format

-----------------------------------------------------------------------------
\* What the grammar asks of a definition (GRAMMAR.md:336: tags "must be unique within the
\* message") and the parser checks only as far as the last definition nested before a member.
RECURSIVE WellScoped(_)
WellScoped(d) ==
    d.kind \in {"struct", "message"} =>
      /\ \A i, j \in DOMAIN d.members : i # j =>
            /\ d.members[i].name # d.members[j].name
            /\ d.kind = "message" => d.members[i].index # d.members[j].index
      /\ d.kind = "struct" => \A i \in DOMAIN d.members : d.members[i].type # DefinedType(<<d.name>>)
      /\ \A i \in DOMAIN d.nested : WellScoped(d.nested[i])

\* What the emitter has words for: it writes no mixins of a service, no default and no values of
\* a decorator's parameter, and no decorators of the fields of a branch's own definition.
RECURSIVE Expressible(_)
Expressible(d) ==
    CASE d.kind = "decorator" -> \A i \in DOMAIN d.params : d.params[i].default = <<>> /\ d.params[i].in = <<>>
      [] d.kind = "const" -> TRUE
      [] d.kind = "union" ->
            \A b \in DOMAIN d.members : "def" \in DOMAIN d.members[b].target =>
                LET fields == d.members[b].target.def.members IN \A i \in DOMAIN fields : fields[i].decs = <<>>
      [] OTHER -> d.mixins = <<>> /\ \A i \in DOMAIN d.nested : Expressible(d.nested[i])

\* A definition in other words of the same meaning: documentation is lost behind a decorator
\* or a modifier and inside a branch, visibility that is the default is left out, and bytes
\* have quotes of their own.
KeptDoc(m) == IF m.decs = <<>> THEN m.doc ELSE 0
KeptBranch(b) ==
    [b EXCEPT !.doc = KeptDoc(b),
              !.target = IF "def" \notin DOMAIN @ THEN @
                         ELSE [def |-> [@.def EXCEPT !.doc = KeptDoc(b), !.vis = IF @ = "local" THEN "default" ELSE @,
                                 !.members = [i \in DOMAIN @ |-> [@[i] EXCEPT !.doc = 0]]]]]
KeptMember(kind, m) == IF kind = "union" THEN KeptBranch(m) ELSE [m EXCEPT !.doc = KeptDoc(m)]
KeptVis(d, nested) == IF d.vis = (IF nested THEN "export" ELSE "local") THEN d.vis ELSE "default"
RECURSIVE Kept(_, _)
Kept(d, nested) ==
    CASE d.kind = "decorator" -> [d EXCEPT !.params = [i \in DOMAIN @ |-> [@[i] EXCEPT !.name.doc = 0]]]
      [] d.kind = "const" ->
           [d EXCEPT !.doc = IF KeptVis(d, FALSE) = "default" THEN KeptDoc(d) ELSE 0,
                     !.vis = KeptVis(d, FALSE), 
                     !.value.toks = IF d.value.kind = "BYTES" THEN <<[@[1] EXCEPT !.k = "bytes"]>> ELSE @]
      [] OTHER ->
           [d EXCEPT !.doc = IF KeptVis(d, nested) = "default" /\ ~d.mutable THEN KeptDoc(d) ELSE 0,
                     !.vis = KeptVis(d, nested),
                     !.members = [i \in DOMAIN @ |-> KeptMember(d.kind, @[i])],
                     !.nested = [i \in DOMAIN @ |-> Kept(@[i], TRUE)]]
KeptSchema(s) == [s EXCEPT !.imports = Sorted(@), !.defs = [i \in DOMAIN @ |-> Kept(@[i], FALSE)]]

\* bebop_emit_schema on an accepted text that follows the grammar: what is written is accepted
\* again, has the same definitions in the same order, and each one that can be expressed means
\* what it did, down to its nested definitions, their visibility and its documentation.
FormatPreserves ==
    formatted # <<>> /\ Parsed /\ (\A i \in DOMAIN formatted[1].defs : WellScoped(formatted[1].defs[i])) =>
        LET kept == KeptSchema(formatted[1])
        IN  /\ parser.errors = 0
            /\ [schema EXCEPT !.defs = <<>>] = [kept EXCEPT !.defs = <<>>]
            /\ Len(schema.defs) = Len(kept.defs)
            /\ \A i \in DOMAIN kept.defs :
                  IF Expressible(formatted[1].defs[i]) THEN schema.defs[i] = kept.defs[i]
                  ELSE schema.defs[i].kind = kept.defs[i].kind /\ schema.defs[i].name = kept.defs[i].name

\* The same without exceptions: a schema is emitted as source text of the same meaning, which
\* parses without an error (bebop.h:968 "Emit schema to source text"; tests/test_emit.c:64
\* "Re-parsed schema should have no errors").
FormatIsFaithful ==
    formatted # <<>> /\ Parsed => parser.errors = 0 /\ schema = KeptSchema(formatted[1])

\* Whatever the text, error recovery never runs in place: between two tokens
\* consumed a parse takes at most a few steps for each frame that is open.
ParsingAdvances == idle <= 4 * MaxFrames
=============================================================================
