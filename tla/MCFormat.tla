------------------------------ MODULE MCFormat ------------------------------
(***************************************************************************)
(* FrontEnd for TLC: texts from words, in which `///' puts a doc comment   *)
(* on the word behind it, and the schemas that formatting changes.         *)
(***************************************************************************)
EXTENDS FrontEnd, Integers, TLC

MCNumeral == ("0" :> 0) @@ ("1" :> 1) @@ ("2" :> 2) @@ ("0x2" :> 2) @@ ("5" :> 5) @@ ("9" :> 9) @@ ("255" :> 255)
             @@ ("256" :> 256) @@ ("1.5" :> -1)
Quoted == {"text", "uuid!", "stamp", "span", "$(ID)", "$(NONE)", "2026", "a.bop", "b.bop"}
Marks == {"{","}","(",")","[","]",";",":",",",".","=","@","#","|","&","<","-","!","?","eof",
 "enum","struct","message","mut","readonly","map","array","union","service","stream","import","edition","package","export","local","true","false","const","with"}
Token(w, doc) ==
  CASE w \in Marks -> [k |-> w, v |-> w, doc |-> doc]
    [] w \in DOMAIN Numeral -> [k |-> "number", v |-> w, doc |-> doc]
    [] w \in Quoted -> [k |-> "string", v |-> IF w = "uuid!" THEN "uuid" ELSE w, doc |-> doc]
    [] w = "[[]]" -> [k |-> "raw", v |-> w, doc |-> doc]
    [] w = "b''" -> [k |-> "bytes", v |-> w, doc |-> doc]
    [] OTHER -> [k |-> "ident", v |-> w, doc |-> doc]
RECURSIVE Scan(_, _)
Scan(words, i) ==
  IF i > Len(words) THEN <<Token("eof", 0)>>
  ELSE IF words[i] = "///" THEN (IF i = Len(words) THEN Scan(words, i+1) ELSE <<Token(words[i+1], i)>> \o Scan(words, i+2))
  ELSE <<Token(words[i], 0)>> \o Scan(words, i+1)
MCRank == ("a.bop" :> 1) @@ ("b.bop" :> 2) @@ [x \in Quoted |-> 3]
----------------------------------------------------------------------------
\* Methods from another service.
WithMixin == <<"service","T","{","}","service","S","with","T","{","}">>
\* A parameter that defaults to one of two values.
WithDefault == <<"#","decorator","(","d",")","{","targets","=","ALL",
                 "param","n","?",":","string","=","text","in","[","text",",","text","]","}">>
\* A decorated field of a branch's own definition.
WithFieldDecorator == <<"#","decorator","(","d",")","{","targets","=","FIELD","}",
                        "union","U","{","a","(","1",")",":","{","@","d","x",":","bool",";","}",";","}">>
\* The tag 1 twice, with a definition in between.
WithRepeatedTag == <<"message","B","{","n","(","1",")",":","byte",";","struct","N","{","}",
                     "m","(","1",")",":","bool",";","}">>
Altered == {Scan(w, 1) : w \in {WithMixin, WithDefault, WithFieldDecorator, WithRepeatedTag}}

FormatSpec == FrontInit /\ [][FrontNext]_frontVars
=============================================================================
