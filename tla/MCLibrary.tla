----------------------------- MODULE MCLibrary -----------------------------
(***************************************************************************)
(* The parts of the C side for TLC.  They share no state, so one run takes *)
(* them one at a time: `subject' says which, from the start.               *)
(***************************************************************************)
EXTENDS WireExchange, Arena, SwissMap, WireArena, LanguageServer, MCFormat

VARIABLE subject
S == <<65>>
U == [i \in 1 .. 16 |-> i]
F8 == <<0, 0, 0, 0, 0, 0, 240, 63>>
Lit == (1 :> 2) @@ (3 :> -5)
Deco == (1 :> S) @@ (2 :> << <<S, Lit>> >>) @@ (3 :> (S :> Lit))
TypeD == 1 :> 6
UserDefs ==
 [Color |-> [kind |-> "enum", base |-> "int16"],
  Point |-> [kind |-> "struct", fields |-> <<Scalar("int16"), Scalar("bool")>>],
  Rec |-> [kind |-> "message", fields |-> (1 :> Field(Scalar("int32"))) @@ (2 :> Field(Str)) @@ (3 :> Field(Ref("Rec")))
       @@ (17 :> Field(Array(Ref("Point")))) @@ (40 :> Field(Scalar("byte"))) @@ (41 :> Deprecated(Scalar("byte")))],
  Pick |-> [kind |-> "union", branches |-> (1 :> "Point") @@ (2 :> "Rec")],
  Box |-> [kind |-> "struct", fields |-> <<Array(Scalar("int32")), Fixed(Scalar("int16"), 2), MapOf(Str, Scalar("uuid")), Ref("Color"), Ref("Pick")>>],
  Nums |-> [kind |-> "struct", fields |-> <<Scalar("uint16"), Scalar("uint64"), Scalar("int128"), Scalar("float32"), Scalar("duration"), Array(Scalar("float16")), Fixed(Scalar("bool"), 2), Fixed(Scalar("duration"), 1), Fixed(Scalar("float64"), 1), Fixed(Scalar("bfloat16"), 1), Fixed(Scalar("uint128"), 1), Fixed(Ref("Point"), 2)>>],
  Nothing |-> [kind |-> "struct", fields |-> <<>>],
  Marked |-> [kind |-> "struct", fields |-> <<Array(Ref("Nothing"))>>],
  Event |-> [kind |-> "struct", fields |-> <<Scalar("timestamp"), Array(Scalar("byte"))>>],
  Lists |-> [kind |-> "struct", fields |-> <<Array(Scalar("bool")), Array(Scalar("float64")), Array(Scalar("uint128")), Array(Scalar("uuid")), Array(Array(Scalar("byte")))>>]]
MCDefs == UserDefs @@ DescriptorDefs @@ DescriptorEnums @@ PluginDefs @@ [DiagnosticSeverity |-> DiagnosticSeverity]
MCOld ==
 [Point |-> UserDefs.Point, 
  Rec |-> [kind |-> "message", fields |-> (1 :> Field(Scalar("int32"))) @@ (17 :> Field(Array(Ref("Point"))))],
  Pick |-> [kind |-> "union", branches |-> (1 :> "Point")]]
Sm(n, v) == [name |-> n, value |-> v]
D1 == [seconds |-> 3, nanos |-> -1]
T5 == [seconds |-> 3, nanos |-> 1, offsetMs |-> 5]
Nested[n \in Nat] == IF n = 1 THEN <<>> ELSE 3 :> Nested[n - 1]
MCSamples == <<
  Sm("Rec", <<>>), Sm("Rec", (1 :> -5)), Sm("Rec", (1 :> -5) @@ (2 :> <<66,67>>) @@ (3 :> (2 :> <<>>)) @@ (17 :> <<<<1,TRUE>>,<<2,FALSE>>>>)),
  Sm("Rec", (1 :> 7) @@ (2 :> S) @@ (40 :> 3) @@ (17 :> <<>>)), Sm("Rec", (1 :> 7) @@ (2 :> S) @@ (3 :> <<>>)), Sm("Rec", (2 :> S) @@ (3 :> (1 :> 1))),
  Sm("Rec", (1 :> 1) @@ (2 :> S) @@ (3 :> <<>>) @@ (17 :> <<>>) @@ (40 :> 9) @@ (41 :> 8)),
  Sm("Pick", [disc |-> 1, val |-> <<300, TRUE>>]), Sm("Pick", [disc |-> 2, val |-> (2 :> S)]),
  Sm("Box", <<<<1,-2,70000>>, <<3,-4>>, S :> U, -1, [disc |-> 2, val |-> (1 :> -5)]>>),
  Sm("Nums", <<65535, 70000, -1, <<1,2,3,4>>, D1, << <<1,2>>, <<3,4>> >>, <<TRUE,FALSE>>, <<D1>>, <<F8>>, << <<5,6>> >>, <<9>>, <<<<1,TRUE>>, <<-1,FALSE>>>> >>),
  Sm("Lists", <<<<TRUE,FALSE>>, <<F8>>, <<5>>, <<U>>, << <<1>>, <<>> >> >>),
  Sm("Rec", Nested[9]), Sm("Marked", << <<<<>>, <<>>>> >>), Sm("Event", <<T5, <<7>>>>), Sm("Event", <<T5, <<>>>>), Sm("LiteralValue", (1 :> 9) @@ (9 :> T5)),
  Sm("Rec", (17 :> NoData)), Sm("Rec", (2 :> NoData)), Sm("Lists", <<NoData, <<>>, <<>>, <<>>, <<>>>>), Sm("Pick", [disc |-> 7, val |-> <<>>]),
  Sm("TypeDescriptor", (1 :> 20) @@ (2 :> TypeD)), Sm("TypeDescriptor", (1 :> 21) @@ (3 :> TypeD) @@ (4 :> 3)),
  Sm("TypeDescriptor", (1 :> 22) @@ (5 :> (1 :> 16)) @@ (6 :> ((1 :> 23) @@ (7 :> S)))),
  Sm("LiteralValue", Lit), Sm("LiteralValue", (1 :> 3) @@ (4 :> F8) @@ (5 :> S)), Sm("LiteralValue", (2 :> TRUE) @@ (6 :> U) @@ (7 :> S) @@ (8 :> <<1,2>>)),
  Sm("DecoratorArg", <<S, Lit>>), Sm("DecoratorUsage", Deco),
  Sm("FieldDescriptor", (1 :> S) @@ (2 :> S) @@ (3 :> TypeD) @@ (4 :> 1) @@ (5 :> <<Deco>>)),
  Sm("EnumMemberDescriptor", (1 :> S) @@ (2 :> S) @@ (3 :> 4) @@ (4 :> <<>>) @@ (5 :> S)),
  Sm("UnionBranchDescriptor", (1 :> 2) @@ (2 :> S) @@ (3 :> S) @@ (4 :> S) @@ (5 :> S) @@ (6 :> <<>>)),
  Sm("MethodDescriptor", (1 :> S) @@ (2 :> S) @@ (3 :> TypeD) @@ (4 :> TypeD) @@ (5 :> 1) @@ (6 :> 77) @@ (7 :> <<>>)),
  Sm("EnumDef", (1 :> 2) @@ (2 :> <<(1 :> S) @@ (3 :> 0)>>) @@ (3 :> TRUE)),
  Sm("StructDef", (1 :> <<(1 :> S) @@ (3 :> TypeD)>>) @@ (2 :> FALSE) @@ (3 :> 4)),
  Sm("MessageDef", (1 :> <<(1 :> S) @@ (4 :> 1), (1 :> S) @@ (4 :> 2)>>)), Sm("UnionDef", (1 :> <<(1 :> 1) @@ (3 :> S)>>)),
  Sm("ServiceDef", (1 :> <<(1 :> S) @@ (6 :> 5)>>)), Sm("ConstDef", (1 :> TypeD) @@ (2 :> Lit)),
  Sm("DecoratorParamDef", (1 :> S) @@ (2 :> S) @@ (3 :> 6) @@ (4 :> TRUE) @@ (5 :> Lit) @@ (6 :> <<Lit>>)),
  Sm("DecoratorDef", (1 :> 255) @@ (2 :> TRUE) @@ (3 :> <<(1 :> S)>>) @@ (4 :> S) @@ (5 :> S)),
  Sm("DefinitionDescriptor", (1 :> 2) @@ (2 :> S) @@ (3 :> S) @@ (7 :> <<1 :> 1>>) @@ (9 :> (2 :> TRUE))),
  Sm("DefinitionDescriptor", (4 :> S) @@ (5 :> 1) @@ (6 :> <<>>) @@ (8 :> (1 :> 2)) @@ (10 :> <<>>)),
  Sm("DefinitionDescriptor", (11 :> <<>>) @@ (12 :> <<>>) @@ (13 :> <<>>) @@ (14 :> (1 :> 1))),
  Sm("Location", (1 :> <<4, 0>>) @@ (2 :> <<1, 2, 3, 4>>) @@ (3 :> S) @@ (4 :> S) @@ (5 :> <<S, S>>)),
  Sm("SourceCodeInfo", (1 :> <<(2 :> <<1,1,1,2>>)>>)),
  Sm("SchemaDescriptor", (1 :> S) @@ (2 :> S) @@ (3 :> 1000) @@ (4 :> <<S>>) @@ (5 :> <<1 :> 2>>) @@ (6 :> <<>>)),
  Sm("DescriptorSet", (1 :> <<(1 :> S), <<>>>>)),
  Sm("Version", <<1, 2, 3, S>>), Sm("CodeGeneratorRequest", (1 :> <<S>>) @@ (2 :> S) @@ (3 :> <<1,0,0,<<>>>>) @@ (4 :> <<(1 :> S)>>) @@ (5 :> (S :> S))),
  Sm("Diagnostic", (1 :> 1) @@ (2 :> S) @@ (3 :> S) @@ (4 :> S) @@ (5 :> <<1,2,3,4>>)),
  Sm("GeneratedFile", (1 :> S) @@ (2 :> S) @@ (3 :> S) @@ (4 :> <<>>)),
  Sm("CodeGeneratorResponse", (1 :> S) @@ (2 :> <<(1 :> S)>>) @@ (3 :> <<(1 :> 0)>>)) >>
----------------------------------------------------------------------------
\* Schemas that the parser accepts.  A text is one of them, or differs from one in one word.
W1 == <<"edition","=","2026","package","p",".","enum",";","import","b.bop","import","a.bop",
  "///","local","mut","struct","A","{","///","x",":","int32",";","@","d","(","text",",","k",":","-","5",")","y",":","map","[","string",",","B","[","0x2","]","[","]","]",";",
     "export","enum","E",":","int8","{","Z","=","0",";","N","=","-","(","1","<","<","2",")","|","Z",";","}","}",
  "///","message","B","{","@","q",".","r","///","n","(","1",")",":","byte","[","2","]",";","struct","N","{","}","m","(","2",")",":","q",".","T",";","}">>
W2 == <<"@","flags","enum","F","{","P","=","0",";","Q","=","0","&","9",";","}",
  "///","union","U","{","///","a","(","1",")",":","{","x",":","bool",";","}",";","export","b","(","2",")",":","message","{","///","x","(","1",")",":","uuid",";","}",";",
     "@","d","c","(","9",")",":","B",";","e","(","5",")",":","mut","{","}",";","local","struct","V","{","}","}",
  "readonly","struct","R","{","}",
  "service","S","with","T",",","O","{","///","g","(","stream","A",")",":","stream","B",";","h","(","A",")",":","B",";","}">>
W3 == <<"const","byte","[","]","k","=","text",";","///","export","const","uuid","id","=","$(ID)",";","const","float64","f","=","-","inf",";","const","int8","i","=","-","5",";",
  "const","timestamp","t","=","stamp",";","const","duration","u","=","span",";","local","const","bool","v","=","true",";","const","byte","[","]","w","=","b''",";",
  "///","#","decorator","(","d",")","{","targets","=","FIELD","|","ENUM","multiple","=","true","param","n","!",":","string","=","text","in","[","text",",","text","]",
     "param","m","?",":","type","validate","[[]]","export","[[]]","}","#","decorator","(","e",")","{","targets","=","ALL","}">>
W4 == <<"struct","K","{","message","J","{","union","L","{","a","(","1",")",":","J",";","}","message","H","{","x","(","1",")",":","byte",";","}","}",
  "export","union","G","{","@","d","struct","M","{","y",":","K","[","]",";","}","b","(","1",")",":","H",";","}","}">>
Accepted == {Scan(w, 1) : w \in {W1, W2, W3, W4}}
Changes == {Token(w, 0) : w \in {"}", "{", ";", "@", "x", "struct", "0", "1.5"}}
SchemaTexts ==
    Accepted \cup UNION {{RemoveAt(t, i) : i \in 1 .. Len(t) - 1} : t \in Accepted}
             \cup UNION {{[t EXCEPT ![i] = c] : i \in 1 .. Len(t) - 1, c \in Changes} : t \in Accepted}
----------------------------------------------------------------------------
CONSTANTS Library, Main, Scratch

Def(name) == [kind |-> "def", name |-> name]
Use(name) == [kind |-> "use", name |-> name]
Import(path) == [kind |-> "import", name |-> path]

SmallTexts ==
    (Library :> {<<Def("D")>>, <<Def("E"), Def("D"), Use("D")>>, <<Use("E"), Def("E")>>})
    @@ (Main :> {<<Import(Library), Use("D")>>, <<Use("D")>>, <<Import(Library), Def("F"), Use("E")>>})
    @@ (Scratch :> {<<Def("D")>>})

\* Two keys that start in the first group, one in each of the next two.
Spread == <<1, 1, 128 + 2, 256 + 2>>

AddressesAlike == Permutations(Threads) \cup Permutations(BlockIds)

----------------------------------------------------------------------------
Init ==
    /\ subject \in {"exchange", "arena", "map", "threads", "server", "schema"}
    /\ ExchangeInit /\ NoArena /\ MapInit /\ WireArenaInit
    /\ ServerInit
    /\ subject # "server" => disk = [p \in Paths |-> IF p \in Untitled THEN NoText ELSE CHOOSE t \in Texts[p] : TRUE]
    /\ IF subject = "schema" THEN FrontInit ELSE StartsOn({Scan(<<>>, 1)})

Next ==
    \/ subject = "exchange" /\ ExchangeNext /\ UNCHANGED <<subject, arenaVars, mapVars, wireArenaVars, serverVars, frontVars>>
    \/ subject = "arena" /\ ArenaNext /\ UNCHANGED <<subject, exchangeVars, mapVars, wireArenaVars, serverVars, frontVars>>
    \/ subject = "map" /\ MapNext /\ UNCHANGED <<subject, exchangeVars, arenaVars, wireArenaVars, serverVars, frontVars>>
    \/ subject = "threads" /\ WireArenaNext /\ UNCHANGED <<subject, exchangeVars, arenaVars, mapVars, serverVars, frontVars>>
    \/ subject = "server" /\ ServerNext /\ UNCHANGED <<subject, exchangeVars, arenaVars, mapVars, wireArenaVars, frontVars>>
    \/ subject = "schema" /\ FrontNext /\ UNCHANGED <<subject, exchangeVars, arenaVars, mapVars, wireArenaVars, serverVars>>

Spec == Init /\ [][Next]_<<subject, exchangeVars, arenaVars, mapVars, wireArenaVars, serverVars, frontVars>>
=============================================================================
