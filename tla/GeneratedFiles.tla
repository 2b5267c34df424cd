--------------------------- MODULE GeneratedFiles ---------------------------
(***************************************************************************)
(* What a build leaves in the output directory: bebopc_runner_generate     *)
(* runs the plugins one after the other, and _write_generated_files        *)
(* applies each response in two passes, the complete files first and the   *)
(* insertions into files afterwards (bebopc/src/cli/bebopc_runner.c).      *)
(*                                                                         *)
(* A file is a sequence of tokens: pieces of text and insertion markers,   *)
(* "// @@bebop_insertion_point(p)" being the token p.  How a plugin comes  *)
(* to answer with a response or an error is the module PluginExchange.     *)
(***************************************************************************)
EXTENDS Naturals, Sequences, SequencesExt

CONSTANTS
    NPlugins,       \* configured plugins
    Names,          \* file names a plugin may give, all inside the output directory
    UnsafeName,     \* a name that leads outside the output directory
    NoName,         \* an entry with no name or no content
    Points,         \* names of insertion points
    Texts,          \* pieces of text
    NoPoint,        \* an entry that is a file of its own
    Responses,      \* the responses a plugin may give: sequences of entries
    Faults          \* whether a write to the disk may fail

Tokens == Points \cup Texts
Entries == [name : Names \cup {UnsafeName, NoName}, point : Points \cup {NoPoint},
            content : Seq(Tokens)]

ConstantsOK ==
    /\ NPlugins \in Nat
    /\ Points \cap Texts = {} /\ NoPoint \notin Points
    /\ Names \cap {UnsafeName, NoName} = {} /\ UnsafeName # NoName
    /\ \A r \in Responses : r \in Seq(Entries)
    /\ Faults \in BOOLEAN

VARIABLES
    plug,       \* the plugin being run
    resp,       \* its response
    pass,       \* "invoke", then "files", then "inserts"
    idx,        \* the entry being applied
    disk,       \* the output directory: a file's tokens, or <<>> and not in present
    present,    \* the files that exist
    err,        \* result of the current _write_generated_files
    result,     \* result of bebopc_runner_generate
    base,       \* history: what the last complete write of a file gave it
    ins,        \* history: what was inserted at a point since then, in order
    damaged,    \* history: files whose last write failed half way
    missed      \* history: what was not applied, as plugin and entry; entry 0 is a failed plugin

vars == <<plug, resp, pass, idx, disk, present, err, result, base, ins, damaged, missed>>
control == <<plug, resp, result>>
files == <<disk, present, base, ins, damaged>>

----------------------------------------------------------------------------
\* An empty output directory.
Init ==
    /\ plug = 1 /\ resp = <<>> /\ pass = "invoke" /\ idx = 1
    /\ disk = [n \in Names |-> <<>>] /\ present = {}
    /\ err = "ok" /\ result = "ok"
    /\ base = [n \in Names |-> <<>>]
    /\ ins = [n \in Names |-> [p \in Points |-> <<>>]]
    /\ damaged = {} /\ missed = {}

\* The head of the loop of bebopc_runner_generate: _invoke_plugin fails before there is a
\* response to apply, and the loop goes on with the next plugin.
PluginFails ==
    /\ pass = "invoke" /\ plug <= NPlugins
    /\ result' = "failed" /\ plug' = plug + 1
    /\ missed' = missed \cup {<<plug, 0>>}
    /\ UNCHANGED <<resp, pass, idx, err>> /\ UNCHANGED files

PluginAnswers ==
    /\ pass = "invoke" /\ plug <= NPlugins
    /\ resp' \in Responses
    /\ pass' = "files" /\ idx' = 1 /\ err' = "ok"
    /\ UNCHANGED <<plug, result, missed>> /\ UNCHANGED files

Entry == resp[idx]
IsFile(e) == e.point = NoPoint

\* The passes that look at an entry: files in the first, insertions in the second.
InPass(e) == IF IsFile(e) THEN pass = "files" ELSE pass = "inserts"

\* The end of an entry.
Advance == idx' = idx + 1 /\ UNCHANGED <<pass, plug, resp, result>>

\* An entry without name or content, or of the other pass.
SkipEntry ==
    /\ pass \in {"files", "inserts"} /\ idx <= Len(resp)
    /\ Entry.name = NoName \/ ~InPass(Entry)
    /\ Advance
    /\ UNCHANGED <<err, missed>> /\ UNCHANGED files

\* The entry is not applied: the error is recorded and the loop goes on.
Miss ==
    /\ err' = "failed" /\ missed' = missed \cup {<<plug, idx>>}
    /\ Advance

RefuseEntry ==
    /\ pass \in {"files", "inserts"} /\ idx <= Len(resp) /\ InPass(Entry)
    /\ Entry.name = UnsafeName
    /\ Miss /\ UNCHANGED files

\* bebopc_file_write: the file is opened with "wb", which empties it, and then written; it
\* may not open, or keep only a part of the content.
WriteOk(n, content) ==
    /\ disk' = [disk EXCEPT ![n] = content] /\ present' = present \cup {n}

WriteFails(n, content) ==
    /\ Faults
    /\ \/ UNCHANGED files
       \/ \E k \in 0 .. Len(content) - 1 :
             /\ disk' = [disk EXCEPT ![n] = SubSeq(content, 1, k)]
             /\ present' = present \cup {n} /\ damaged' = damaged \cup {n}
             /\ UNCHANGED <<base, ins>>

\* First pass: a complete file replaces whatever has its name.
WriteFile ==
    /\ pass \in {"files", "inserts"} /\ idx <= Len(resp) /\ InPass(Entry)
    /\ Entry.name \in Names /\ IsFile(Entry)
    /\ \/ /\ WriteOk(Entry.name, Entry.content)
          /\ base' = [base EXCEPT ![Entry.name] = Entry.content]
          /\ ins' = [ins EXCEPT ![Entry.name] = [p \in Points |-> <<>>]]
          /\ damaged' = damaged \ {Entry.name}
          /\ Advance /\ UNCHANGED <<err, missed>>
       \/ WriteFails(Entry.name, Entry.content) /\ Miss

\* The file with the content inserted in front of the first marker, which stays.
Inserted_After(s, p, content) ==
    LET i == SelectInSeq(s, LAMBDA t : t = p)
    IN  SubSeq(s, 1, i) \o content \o SubSeq(s, i + 1, Len(s))

Inserted(s, p, content) ==
    LET i == SelectInSeq(s, LAMBDA t : t = p)
    IN  SubSeq(s, 1, i - 1) \o content \o SubSeq(s, i, Len(s))

HasPoint(s, p) == SelectInSeq(s, LAMBDA t : t = p) > 0

\* Second pass: the target is read, the content inserted and the file written again.
InsertText ==
    /\ pass \in {"files", "inserts"} /\ idx <= Len(resp) /\ InPass(Entry)
    /\ Entry.name \in Names /\ ~IsFile(Entry)
    /\ LET n == Entry.name
           p == Entry.point
           new == Inserted(disk[n], p, Entry.content)
       IN  \/ /\ n \notin present \/ ~HasPoint(disk[n], p)
              /\ Miss /\ UNCHANGED files
           \/ /\ n \in present /\ HasPoint(disk[n], p)
              /\ \/ /\ WriteOk(n, new)
                    /\ ins' = [ins EXCEPT ![n][p] = @ \o Entry.content]
                    /\ Advance /\ UNCHANGED <<base, damaged, err, missed>>
                 \/ WriteFails(n, new) /\ Miss

\* The end of the first pass.
NextPass ==
    /\ pass = "files" /\ idx = Len(resp) + 1
    /\ pass' = "inserts" /\ idx' = 1
    /\ UNCHANGED <<control, err, missed>> /\ UNCHANGED files

\* The end of an iteration of the loop of bebopc_runner_generate.
Merged_Last(r, e) == e

Merged(r, e) == IF e = "ok" THEN r ELSE e

EndPlugin ==
    /\ pass = "inserts" /\ idx = Len(resp) + 1
    /\ result' = Merged(result, err)
    /\ plug' = plug + 1 /\ pass' = "invoke" /\ idx' = 1
    /\ UNCHANGED <<resp, err, missed>> /\ UNCHANGED files

Finished == plug = NPlugins + 1 /\ pass = "invoke"

Done == Finished /\ UNCHANGED vars

Next ==
    \/ PluginFails \/ PluginAnswers \/ SkipEntry \/ RefuseEntry \/ WriteFile \/ InsertText
    \/ NextPass \/ EndPlugin \/ Done

Spec == Init /\ [][Next]_vars

----------------------------------------------------------------------------
FirstAt(s, i) == \A j \in 1 .. i - 1 : s[j] # s[i]

\* What a file should hold: its last complete content, and in front of the first marker of
\* every point all that was inserted there since, in the order it came.
Reference(n) ==
    FlattenSeq([i \in 1 .. Len(base[n]) |->
        IF base[n][i] \in Points /\ FirstAt(base[n], i)
        THEN ins[n][base[n][i]] \o <<base[n][i]>>
        ELSE <<base[n][i]>>])

\* Whatever sequence of plugins and entries wrote it, a file that was written without a disk
\* error is its last complete version with every later insertion in place: in order, none
\* lost, no marker consumed.
InsertionsInOrder ==
    \A n \in present \ damaged : disk[n] = Reference(n)

\* The build fails exactly when something was not applied: a failing plugin does not stop
\* the ones after it, and a later success does not hide an earlier failure.
FailuresAreReported == Finished => (result # "ok" <=> missed # {})
=============================================================================
