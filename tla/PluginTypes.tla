---------------------------- MODULE PluginTypes ----------------------------
(***************************************************************************)
(* The code generated for plugin.bop (bebop/src/generated/plugin.bb.c):    *)
(* the request the compiler sends to a plugin and the response it reads.   *)
(***************************************************************************)
EXTENDS DescriptorTypes

\* struct Version of plugin.bop.
Version == <<Scalar("int32"), Scalar("int32"), Scalar("int32"), Str>>
Version_encoded_size(defs, v) == SizeStruct(defs, Version, v)
Version_encode(defs, v) == EncodeStruct(defs, Version, v)
Version_decode(defs, r) == DecodeStruct(defs, Version, r, 1)
Version_view_read(defs, r) == ViewStruct(defs, Version, r)
Version_getters(defs, r) == StructGetters(defs, Version, r)

\* message CodeGeneratorRequest of plugin.bop.
CodeGeneratorRequest ==
    1 :> Field(Array(Str)) @@ 2 :> Field(Str) @@ 3 :> Field(Ref("Version")) @@
    4 :> Field(Array(Ref("SchemaDescriptor"))) @@ 5 :> Field(MapOf(Str, Str))
CodeGeneratorRequest_encoded_size(defs, v) == SizeMessage(defs, CodeGeneratorRequest, v)
CodeGeneratorRequest_encode(defs, v) == EncodeMessage(defs, CodeGeneratorRequest, v)
CodeGeneratorRequest_decode(defs, r) == DecodeMessage(defs, CodeGeneratorRequest, r, 1)
CodeGeneratorRequest_view_read(defs, r) == ViewMessage(defs, CodeGeneratorRequest, r)
CodeGeneratorRequest_getters(defs, r) == MessageGetters(defs, CodeGeneratorRequest, r)

\* message Diagnostic of plugin.bop.
Diagnostic ==
    1 :> Field(Ref("DiagnosticSeverity")) @@ 2 :> Field(Str) @@ 3 :> Field(Str) @@
    4 :> Field(Str) @@ 5 :> Field(Fixed(Scalar("int32"), 4))
Diagnostic_encoded_size(defs, v) == SizeMessage(defs, Diagnostic, v)
Diagnostic_encode(defs, v) == EncodeMessage(defs, Diagnostic, v)
Diagnostic_decode(defs, r) == DecodeMessage(defs, Diagnostic, r, 1)
Diagnostic_view_read(defs, r) == ViewMessage(defs, Diagnostic, r)
Diagnostic_getters(defs, r) == MessageGetters(defs, Diagnostic, r)

\* message GeneratedFile of plugin.bop.
GeneratedFile ==
    1 :> Field(Str) @@ 2 :> Field(Str) @@ 3 :> Field(Str) @@ 4 :> Field(Ref("SourceCodeInfo"))
GeneratedFile_encoded_size(defs, v) == SizeMessage(defs, GeneratedFile, v)
GeneratedFile_encode(defs, v) == EncodeMessage(defs, GeneratedFile, v)
GeneratedFile_decode(defs, r) == DecodeMessage(defs, GeneratedFile, r, 1)
GeneratedFile_view_read(defs, r) == ViewMessage(defs, GeneratedFile, r)
GeneratedFile_getters(defs, r) == MessageGetters(defs, GeneratedFile, r)

\* message CodeGeneratorResponse of plugin.bop.
CodeGeneratorResponse ==
    1 :> Field(Str) @@ 2 :> Field(Array(Ref("GeneratedFile"))) @@
    3 :> Field(Array(Ref("Diagnostic")))
CodeGeneratorResponse_encoded_size(defs, v) == SizeMessage(defs, CodeGeneratorResponse, v)
CodeGeneratorResponse_encode(defs, v) == EncodeMessage(defs, CodeGeneratorResponse, v)
CodeGeneratorResponse_decode(defs, r) == DecodeMessage(defs, CodeGeneratorResponse, r, 1)
CodeGeneratorResponse_view_read(defs, r) == ViewMessage(defs, CodeGeneratorResponse, r)
CodeGeneratorResponse_getters(defs, r) == MessageGetters(defs, CodeGeneratorResponse, r)
----------------------------------------------------------------------------
DiagnosticSeverity == [kind |-> "enum", base |-> "byte"]
PluginDefs ==
    [Version |-> [kind |-> "struct", fields |-> Version],
     CodeGeneratorRequest |-> [kind |-> "message", fields |-> CodeGeneratorRequest],
     Diagnostic |-> [kind |-> "message", fields |-> Diagnostic],
     GeneratedFile |-> [kind |-> "message", fields |-> GeneratedFile],
     CodeGeneratorResponse |-> [kind |-> "message", fields |-> CodeGeneratorResponse]]

\* The function of each type, by its name.
PluginEncodedSize(defs, n, v) ==
    CASE n = "Version" -> Version_encoded_size(defs, v)
      [] n = "CodeGeneratorRequest" -> CodeGeneratorRequest_encoded_size(defs, v)
      [] n = "Diagnostic" -> Diagnostic_encoded_size(defs, v)
      [] n = "GeneratedFile" -> GeneratedFile_encoded_size(defs, v)
      [] n = "CodeGeneratorResponse" -> CodeGeneratorResponse_encoded_size(defs, v)

PluginEncodeTop(defs, n, v) ==
    CASE n = "Version" -> Version_encode(defs, v)
      [] n = "CodeGeneratorRequest" -> CodeGeneratorRequest_encode(defs, v)
      [] n = "Diagnostic" -> Diagnostic_encode(defs, v)
      [] n = "GeneratedFile" -> GeneratedFile_encode(defs, v)
      [] n = "CodeGeneratorResponse" -> CodeGeneratorResponse_encode(defs, v)

PluginDecodeTop(defs, n, r) ==
    CASE n = "Version" -> Version_decode(defs, r)
      [] n = "CodeGeneratorRequest" -> CodeGeneratorRequest_decode(defs, r)
      [] n = "Diagnostic" -> Diagnostic_decode(defs, r)
      [] n = "GeneratedFile" -> GeneratedFile_decode(defs, r)
      [] n = "CodeGeneratorResponse" -> CodeGeneratorResponse_decode(defs, r)

PluginViewTop(defs, n, r) ==
    CASE n = "Version" -> Version_view_read(defs, r)
      [] n = "CodeGeneratorRequest" -> CodeGeneratorRequest_view_read(defs, r)
      [] n = "Diagnostic" -> Diagnostic_view_read(defs, r)
      [] n = "GeneratedFile" -> GeneratedFile_view_read(defs, r)
      [] n = "CodeGeneratorResponse" -> CodeGeneratorResponse_view_read(defs, r)

PluginGetters(defs, n, r) ==
    CASE n = "Version" -> Version_getters(defs, r)
      [] n = "CodeGeneratorRequest" -> CodeGeneratorRequest_getters(defs, r)
      [] n = "Diagnostic" -> Diagnostic_getters(defs, r)
      [] n = "GeneratedFile" -> GeneratedFile_getters(defs, r)
      [] n = "CodeGeneratorResponse" -> CodeGeneratorResponse_getters(defs, r)
=============================================================================
