--------------------------- MODULE LanguageServer ---------------------------
(***************************************************************************)
(* The language server: Server and Workspace of beboplsp.  It handles one  *)
(* message at a time.  Every open document keeps its text and the result     *)
(* of the last bebop_parse_source of it, which reads imported files from   *)
(* disk; a result is made when its own document is opened or changed and   *)
(* at no other time.                                                       *)
(*                                                                         *)
(* A text is a sequence of items, an import of a file or a definition or a *)
(* use of a name; an offset is a place in it.  A span of the library has   *)
(* no file: it is up to the server which document it is a range of.        *)
(* Every file has a directory of its own.                                  *)
(***************************************************************************)
EXTENDS Naturals, Sequences, FiniteSets

CONSTANTS
    Paths,       \* the files
    Untitled,    \* those that are not on disk
    Texts,       \* Texts[p]: the contents p may have
    NoText,      \* not a text
    MaxSteps     \* bound on the messages of the editor

\* A text is a sequence of items, and an item a kind and a name.
ASSUME ServerAssumption ==
    /\ IsFiniteSet(Paths)
    /\ \A p \in Paths : \A t \in Texts[p] :
          /\ t # NoText /\ Len(t) \in Nat
          /\ \A n \in 1 .. Len(t) : t[n] = [kind |-> t[n].kind, name |-> t[n].name]

VARIABLES
    disk,        \* per path, its text on disk or NoText
    opened,      \* openDocuments_: per path, its text or NoText
    result,      \* per open path, the texts of the schemas of its result
    includes,    \* includePaths_
    published,   \* the diagnostics the editor shows, per path
    reply,       \* the ranges of the last answer
    running,
    steps,
    stale        \* open documents of which an input changed since their parse

docVars == <<disk, opened, result, includes, published, stale>>
serverVars == <<docVars, reply, running, steps>>

Items(kind, t) == {n \in 1 .. Len(t) : t[n].kind = kind}
Imports(t) == {t[n].name : n \in Items("import", t)}
Names(t)   == {t[n].name : n \in Items("def", t)}
Place(name, t) == CHOOSE n \in Items("def", t) : t[n].name = name
-----------------------------------------------------------------------------
(***************************************************************************)
(* bebop_parse_source: work list, imports, and the names of a result.      *)
(***************************************************************************)
Resolvable(p, dirs) == p \in dirs /\ disk[p] # NoText

Schemas(p, text, dirs) ==
    LET source(q) == IF q = p THEN text ELSE disk[q]
        reached[n \in 0 .. Cardinality(Paths)] ==
          IF n = 0 THEN {p}
          ELSE reached[n - 1] \cup {q \in UNION {Imports(source(r)) : r \in reached[n - 1]} :
                                      Resolvable(q, dirs)}
    IN  [q \in reached[Cardinality(Paths)] |-> source(q)]

\* The file that name means in schema q: its own definition before those of
\* its imports.
Defines(s, q, name) ==
    IF name \in Names(s[q]) THEN {q}
    ELSE {r \in Imports(s[q]) \cap DOMAIN s : name \in Names(s[r])}

\* Unresolved imports, or else (validation runs only after a clean parse)
\* unknown names: offsets in any of the schemas.
Errors(s) ==
    LET bad(kind, test(_, _)) ==
          UNION {{n \in Items(kind, s[q]) : test(q, s[q][n].name)} : q \in DOMAIN s}
        imports == bad("import", LAMBDA q, name : name \notin DOMAIN s)
    IN  IF imports # {} THEN imports
        ELSE bad("use", LAMBDA q, name : Defines(s, q, name) = {})

\* bebop_def_reference_at: the offsets of the uses of name as defined in file
\* d, in any of the schemas.
ReferencesIn(s, d, name) ==
    IF \E q \in DOMAIN s : ~ Imports(s[q]) \subseteq DOMAIN s THEN {}
    ELSE UNION {{n \in Items("use", s[q]) : s[q][n].name = name /\ d \in Defines(s, q, name)} :
                  q \in DOMAIN s}
-----------------------------------------------------------------------------
ServerInit ==
    /\ disk \in [Paths -> (UNION {Texts[p] : p \in Paths}) \cup {NoText}]
    /\ \A p \in Paths : disk[p] \in IF p \in Untitled THEN {NoText} ELSE Texts[p]
    /\ opened = [p \in Paths |-> NoText] /\ result = [p \in Paths |-> <<>>]
    /\ includes = {} /\ published = [p \in Paths |-> {}]
    /\ reply = {} /\ running = TRUE /\ steps = 0 /\ stale = {}

Message == running /\ steps < MaxSteps /\ steps' = steps + 1

\* parseDocument, collectDiagnostics and publishDiagnostics.
ParseDocument(p, text, dirs) ==
    LET s == Schemas(p, text, dirs)
    IN  /\ opened' = [opened EXCEPT ![p] = text]
        /\ result' = [result EXCEPT ![p] = s]
        /\ published' = [published EXCEPT ![p] = Errors(s)]

DidOpen(p, text) ==
    /\ Message /\ opened[p] = NoText
    /\ includes' = includes \cup ({p} \ Untitled)
    /\ ParseDocument(p, text, includes')
    /\ stale' = (IF includes' = includes THEN stale ELSE {q \in Paths : opened[q] # NoText}) \ {p}
    /\ reply' = {} /\ UNCHANGED <<disk, running>>

DidChange_KeepsResult(p, text) ==
    /\ Message /\ opened[p] # NoText
    /\ opened' = [opened EXCEPT ![p] = text]
    /\ stale' = stale \ {p}
    /\ reply' = {} /\ UNCHANGED <<disk, result, published, includes, running>>
DidChange(p, text) ==
    /\ Message /\ opened[p] # NoText
    /\ ParseDocument(p, text, includes)
    /\ stale' = stale \ {p}
    /\ reply' = {} /\ UNCHANGED <<disk, includes, running>>

\* The context of the document is destroyed by closeDocument and once more
\* when the document is erased: the server may not survive that.
DidClose(p) ==
    /\ Message /\ opened[p] # NoText
    /\ opened' = [opened EXCEPT ![p] = NoText] /\ result' = [result EXCEPT ![p] = <<>>]
    /\ published' = [published EXCEPT ![p] = {}]
    /\ running' \in BOOLEAN
    /\ stale' = stale \ {p}
    /\ reply' = {} /\ UNCHANGED <<disk, includes>>

\* The editor writes the file; onDidSave sends the diagnostics there are.
DidSave(p) ==
    /\ Message /\ opened[p] # NoText /\ p \notin Untitled
    /\ disk' = [disk EXCEPT ![p] = opened[p]]
    /\ stale' = stale \cup {q \in Paths \ {p} : opened[q] # NoText}
    /\ reply' = {} /\ UNCHANGED <<opened, result, published, includes, running>>

\* onShutdown does nothing; onExit ends the loop.
Exit == Message /\ running' = FALSE /\ reply' = {} /\ UNCHANGED docVars
-----------------------------------------------------------------------------
(***************************************************************************)
(* Requests.  The key of a document that a request looks up is the path of *)
(* its URI, which an untitled document is not filed under.                 *)
(***************************************************************************)
GetDocument(p) == opened[p] # NoText /\ p \notin Untitled
OffsetsIn(p) == IF GetDocument(p) THEN 1 .. Len(opened[p]) ELSE {}

\* A range for the editor: in file, made from an offset of the result of
\* document by, and meant to show an item of some kind with this name.
RangeOf(by, file, offset, kind, name) ==
    [by |-> by, file |-> file, offset |-> offset, kind |-> kind, name |-> name]

Answer(ranges) == Message /\ reply' = ranges /\ UNCHANGED <<docVars, running>>

\* The definitions of the schema of the document itself.
Outline(p) ==
    {RangeOf(p, p, Place(name, result[p][p]), "def", name) : name \in Names(result[p][p])}

DocumentSymbol(p) == GetDocument(p) /\ Answer(Outline(p))

FoldingRange(p) == GetDocument(p) /\ Answer(Outline(p))

\* The whole text is replaced by what the emitter makes of the schema.
Formatting(p) ==
    LET t == result[p][p]
    IN  GetDocument(p) /\ Answer({RangeOf(p, p, n, t[n].kind, t[n].name) : n \in 1 .. Len(t)})

\* The definitions from one line to another are replaced.
RangeFormatting(p, m, n) ==
    GetDocument(p) /\ Answer({r \in Outline(p) : r.offset \in m .. n})

\* onWorkspaceSymbol: the same for every document.
WorkspaceSymbol ==
    Answer(UNION {Outline(p) : p \in {q \in Paths : opened[q] # NoText}})

\* onDocumentLink searches the text for imports.
Link(p) ==
    {RangeOf(p, p, n, "import", opened[p][n].name) :
        n \in {k \in Items("import", opened[p]) : Resolvable(opened[p][k].name, includes)}}

DocumentLink(p) == GetDocument(p) /\ Answer(Link(p))

\* bebop_result_locate and the switch on what is there: the file and the name
\* of the definition at an offset, and whether the offset is on its name.
Located(p, n) ==
    LET item == opened[p][n]
        owner == IF item.kind = "def" THEN {p}
                 ELSE IF item.kind = "use" /\ Imports(result[p][p]) \subseteq DOMAIN result[p]
                      THEN Defines(result[p], p, item.name)
                      ELSE {}
    IN  {[file |-> d, name |-> item.name] : d \in owner}

DefinitionRange(p, d) ==
    RangeOf(p, d.file, Place(d.name, result[p][d.file]), "def", d.name)

\* What is at the offset.
Hover(p, n) ==
    /\ n \in OffsetsIn(p)
    /\ Answer({RangeOf(p, p, n, opened[p][n].kind, d.name) : d \in Located(p, n)})

Definition(p, n) ==
    /\ n \in OffsetsIn(p)
    /\ Answer({DefinitionRange(p, d) : d \in Located(p, n)})

\* onPrepareRename.
PrepareRename(p, n) ==
    /\ n \in OffsetsIn(p) /\ opened[p][n].kind = "def"
    /\ Answer({RangeOf(p, p, n, "def", opened[p][n].name)})

\* What onReferences and onRename take from the result of every open
\* document: the uses of each definition with that name (its definition too
\* for a rename), as ranges of that document.
Occurrences(o, name, defToo) ==
    UNION {{RangeOf(o, o, n, "use", name) : n \in ReferencesIn(result[o], d, name)}
           \cup (IF defToo THEN {RangeOf(o, o, Place(name, result[o][d]), "def", name)} ELSE {}) :
             d \in {q \in DOMAIN result[o] : name \in Names(result[o][q])}}

ReferencesTo(p, n) ==
    /\ n \in OffsetsIn(p)
    /\ Answer(UNION {{DefinitionRange(p, d)} \cup
                     UNION {Occurrences(o, d.name, FALSE) : o \in {q \in Paths : opened[q] # NoText}} :
                       d \in Located(p, n)})

RenameEdits(p, n) ==
    UNION {UNION {Occurrences(o, d.name, TRUE) : o \in {q \in Paths : opened[q] # NoText}} :
             d \in Located(p, n)}

Rename(p, n) ==
    /\ n \in OffsetsIn(p)
    /\ Answer(RenameEdits(p, n))

\* onDocumentHighlight: everything in the document that was asked.
Highlight(p, n) ==
    /\ n \in OffsetsIn(p)
    /\ Answer(UNION {{RangeOf(p, p, Place(d.name, result[p][d.file]), "def", d.name)} \cup
                     {RangeOf(p, p, k, "use", d.name) : k \in ReferencesIn(result[p], d.file, d.name)} :
                       d \in Located(p, n)})

\* buildTypeIndex: the files of the known directories that define the name.
TypeIndex(name) == {q \in includes : disk[q] # NoText /\ name \in Names(disk[q])}

\* onCodeAction: an import for an unknown name, from an index of the files on
\* disk that is built anew each time; the new line goes after the last import
\* that a line follows.
CodeAction(p, n) ==
    /\ n \in OffsetsIn(p) \cap published[p] /\ Imports(opened[p]) \subseteq DOMAIN result[p]
    /\ LET sources == TypeIndex(opened[p][n].name)
           after == {k \in Items("import", opened[p]) : k < Len(opened[p])}
       IN  \/ sources = {} /\ Answer({})
           \/ \E q \in sources :
                Answer({RangeOf(p, p, CHOOSE k \in after \cup {0} : \A j \in after : j <= k,
                              "insert", q)})
-----------------------------------------------------------------------------
Notification ==
    \/ \E p \in Paths : DidClose(p) \/ DidSave(p)
    \/ \E p \in Paths : \E t \in Texts[p] : DidOpen(p, t) \/ DidChange(p, t)
    \/ Exit

Request ==
    \/ WorkspaceSymbol
    \/ \E p \in Paths : DocumentSymbol(p) \/ FoldingRange(p) \/ Formatting(p) \/ DocumentLink(p)
    \/ \E p \in Paths : \E n \in OffsetsIn(p) :
         \/ \E m \in 1 .. n : RangeFormatting(p, m, n)
         \/ Hover(p, n) \/ Definition(p, n) \/ PrepareRename(p, n) \/ ReferencesTo(p, n)
         \/ Rename(p, n) \/ Highlight(p, n) \/ CodeAction(p, n)

ServerNext == Notification \/ Request
ServerSpec == ServerInit /\ [][ServerNext]_serverVars
-----------------------------------------------------------------------------
Shows(r) ==
    /\ opened[r.file] # NoText
    /\ r.offset \in 1 .. Len(opened[r.file])
    /\ opened[r.file][r.offset] = [kind |-> r.kind, name |-> r.name]

Alone(p) == DOMAIN result[p] = {p}

\* What the editor shows belongs to the text it has.  The diagnostics of an
\* open document are the errors of its text with the files on disk and the
\* directories the server knows, unless one of them changed after the text
\* did; those of a closed one are gone.  Every range in a document whose last
\* result has no other file shows what it is meant to show in the text that
\* the editor has now.
EditorShowsItsText ==
    /\ \A p \in Paths \ stale :
          published[p] = IF opened[p] = NoText THEN {} ELSE Errors(Schemas(p, opened[p], includes))
    /\ running => \A r \in reply : Alone(r.by) /\ r.kind # "insert" => Shows(r)
=============================================================================
