-------------------------- MODULE DescriptorTypes --------------------------
(***************************************************************************)
(* The code generated for the compiler's own schema, descriptor.bop        *)
(* (bebop/src/generated/descriptor.bb.c): the descriptors a plugin gets.   *)
(* Each type is its shape, and its functions are those of Codec for that   *)
(* shape: the size, the encoding, the body of decode_reader at the first   *)
(* level, view_read and the getters of a view.                             *)
(***************************************************************************)
EXTENDS Codec

EnumTypes ==
    [TypeKind |-> "byte", DefinitionKind |-> "byte", MethodType |-> "byte", Visibility |-> "byte",
     LiteralKind |-> "byte", DecoratorTarget |-> "byte", Edition |-> "int32"]

\* message TypeDescriptor of descriptor.bop.
TypeDescriptor ==
    1 :> Field(Ref("TypeKind")) @@ 2 :> Field(Ref("TypeDescriptor")) @@
    3 :> Field(Ref("TypeDescriptor")) @@ 4 :> Field(Scalar("uint32")) @@
    5 :> Field(Ref("TypeDescriptor")) @@ 6 :> Field(Ref("TypeDescriptor")) @@ 7 :> Field(Str)
TypeDescriptor_encoded_size(defs, v) == SizeMessage(defs, TypeDescriptor, v)
TypeDescriptor_encode(defs, v) == EncodeMessage(defs, TypeDescriptor, v)
TypeDescriptor_decode(defs, r) == DecodeMessage(defs, TypeDescriptor, r, 1)
TypeDescriptor_view_read(defs, r) == ViewMessage(defs, TypeDescriptor, r)
TypeDescriptor_getters(defs, r) == MessageGetters(defs, TypeDescriptor, r)

\* message LiteralValue of descriptor.bop.
LiteralValue ==
    1 :> Field(Ref("LiteralKind")) @@ 2 :> Field(Scalar("bool")) @@
    3 :> Field(Scalar("int64")) @@ 4 :> Field(Scalar("float64")) @@ 5 :> Field(Str) @@
    6 :> Field(Scalar("uuid")) @@ 7 :> Field(Str) @@ 8 :> Field(Array(Scalar("byte"))) @@
    9 :> Field(Scalar("timestamp")) @@ 10 :> Field(Scalar("duration"))
LiteralValue_encoded_size(defs, v) == SizeMessage(defs, LiteralValue, v)
LiteralValue_encode(defs, v) == EncodeMessage(defs, LiteralValue, v)
LiteralValue_decode(defs, r) == DecodeMessage(defs, LiteralValue, r, 1)
LiteralValue_view_read(defs, r) == ViewMessage(defs, LiteralValue, r)
LiteralValue_getters(defs, r) == MessageGetters(defs, LiteralValue, r)

\* struct DecoratorArg of descriptor.bop.
DecoratorArg == <<Str, Ref("LiteralValue")>>
DecoratorArg_encoded_size(defs, v) == SizeStruct(defs, DecoratorArg, v)
DecoratorArg_encode(defs, v) == EncodeStruct(defs, DecoratorArg, v)
DecoratorArg_decode(defs, r) == DecodeStruct(defs, DecoratorArg, r, 1)
DecoratorArg_view_read(defs, r) == ViewStruct(defs, DecoratorArg, r)
DecoratorArg_getters(defs, r) == StructGetters(defs, DecoratorArg, r)

\* message DecoratorUsage of descriptor.bop.
DecoratorUsage ==
    1 :> Field(Str) @@ 2 :> Field(Array(Ref("DecoratorArg"))) @@
    3 :> Field(MapOf(Str, Ref("LiteralValue")))
DecoratorUsage_encoded_size(defs, v) == SizeMessage(defs, DecoratorUsage, v)
DecoratorUsage_encode(defs, v) == EncodeMessage(defs, DecoratorUsage, v)
DecoratorUsage_decode(defs, r) == DecodeMessage(defs, DecoratorUsage, r, 1)
DecoratorUsage_view_read(defs, r) == ViewMessage(defs, DecoratorUsage, r)
DecoratorUsage_getters(defs, r) == MessageGetters(defs, DecoratorUsage, r)

\* message FieldDescriptor of descriptor.bop.
FieldDescriptor ==
    1 :> Field(Str) @@ 2 :> Field(Str) @@ 3 :> Field(Ref("TypeDescriptor")) @@
    4 :> Field(Scalar("uint32")) @@ 5 :> Field(Array(Ref("DecoratorUsage")))
FieldDescriptor_encoded_size(defs, v) == SizeMessage(defs, FieldDescriptor, v)
FieldDescriptor_encode(defs, v) == EncodeMessage(defs, FieldDescriptor, v)
FieldDescriptor_decode(defs, r) == DecodeMessage(defs, FieldDescriptor, r, 1)
FieldDescriptor_view_read(defs, r) == ViewMessage(defs, FieldDescriptor, r)
FieldDescriptor_getters(defs, r) == MessageGetters(defs, FieldDescriptor, r)

\* message EnumMemberDescriptor of descriptor.bop.
EnumMemberDescriptor ==
    1 :> Field(Str) @@ 2 :> Field(Str) @@ 3 :> Field(Scalar("uint64")) @@
    4 :> Field(Array(Ref("DecoratorUsage"))) @@ 5 :> Field(Str)
EnumMemberDescriptor_encoded_size(defs, v) == SizeMessage(defs, EnumMemberDescriptor, v)
EnumMemberDescriptor_encode(defs, v) == EncodeMessage(defs, EnumMemberDescriptor, v)
EnumMemberDescriptor_decode(defs, r) == DecodeMessage(defs, EnumMemberDescriptor, r, 1)
EnumMemberDescriptor_view_read(defs, r) == ViewMessage(defs, EnumMemberDescriptor, r)
EnumMemberDescriptor_getters(defs, r) == MessageGetters(defs, EnumMemberDescriptor, r)

\* message UnionBranchDescriptor of descriptor.bop.
UnionBranchDescriptor ==
    1 :> Field(Scalar("byte")) @@ 2 :> Field(Str) @@ 3 :> Field(Str) @@ 4 :> Field(Str) @@
    5 :> Field(Str) @@ 6 :> Field(Array(Ref("DecoratorUsage")))
UnionBranchDescriptor_encoded_size(defs, v) == SizeMessage(defs, UnionBranchDescriptor, v)
UnionBranchDescriptor_encode(defs, v) == EncodeMessage(defs, UnionBranchDescriptor, v)
UnionBranchDescriptor_decode(defs, r) == DecodeMessage(defs, UnionBranchDescriptor, r, 1)
UnionBranchDescriptor_view_read(defs, r) == ViewMessage(defs, UnionBranchDescriptor, r)
UnionBranchDescriptor_getters(defs, r) == MessageGetters(defs, UnionBranchDescriptor, r)

\* message MethodDescriptor of descriptor.bop.
MethodDescriptor ==
    1 :> Field(Str) @@ 2 :> Field(Str) @@ 3 :> Field(Ref("TypeDescriptor")) @@
    4 :> Field(Ref("TypeDescriptor")) @@ 5 :> Field(Ref("MethodType")) @@
    6 :> Field(Scalar("uint32")) @@ 7 :> Field(Array(Ref("DecoratorUsage")))
MethodDescriptor_encoded_size(defs, v) == SizeMessage(defs, MethodDescriptor, v)
MethodDescriptor_encode(defs, v) == EncodeMessage(defs, MethodDescriptor, v)
MethodDescriptor_decode(defs, r) == DecodeMessage(defs, MethodDescriptor, r, 1)
MethodDescriptor_view_read(defs, r) == ViewMessage(defs, MethodDescriptor, r)
MethodDescriptor_getters(defs, r) == MessageGetters(defs, MethodDescriptor, r)

\* message EnumDef of descriptor.bop.
EnumDef ==
    1 :> Field(Ref("TypeKind")) @@ 2 :> Field(Array(Ref("EnumMemberDescriptor"))) @@
    3 :> Field(Scalar("bool"))
EnumDef_encoded_size(defs, v) == SizeMessage(defs, EnumDef, v)
EnumDef_encode(defs, v) == EncodeMessage(defs, EnumDef, v)
EnumDef_decode(defs, r) == DecodeMessage(defs, EnumDef, r, 1)
EnumDef_view_read(defs, r) == ViewMessage(defs, EnumDef, r)
EnumDef_getters(defs, r) == MessageGetters(defs, EnumDef, r)

\* message StructDef of descriptor.bop.
StructDef ==
    1 :> Field(Array(Ref("FieldDescriptor"))) @@ 2 :> Field(Scalar("bool")) @@
    3 :> Field(Scalar("uint32"))
StructDef_encoded_size(defs, v) == SizeMessage(defs, StructDef, v)
StructDef_encode(defs, v) == EncodeMessage(defs, StructDef, v)
StructDef_decode(defs, r) == DecodeMessage(defs, StructDef, r, 1)
StructDef_view_read(defs, r) == ViewMessage(defs, StructDef, r)
StructDef_getters(defs, r) == MessageGetters(defs, StructDef, r)

\* message MessageDef of descriptor.bop.
MessageDef ==
    1 :> Field(Array(Ref("FieldDescriptor")))
MessageDef_encoded_size(defs, v) == SizeMessage(defs, MessageDef, v)
MessageDef_encode(defs, v) == EncodeMessage(defs, MessageDef, v)
MessageDef_decode(defs, r) == DecodeMessage(defs, MessageDef, r, 1)
MessageDef_view_read(defs, r) == ViewMessage(defs, MessageDef, r)
MessageDef_getters(defs, r) == MessageGetters(defs, MessageDef, r)

\* message UnionDef of descriptor.bop.
UnionDef ==
    1 :> Field(Array(Ref("UnionBranchDescriptor")))
UnionDef_encoded_size(defs, v) == SizeMessage(defs, UnionDef, v)
UnionDef_encode(defs, v) == EncodeMessage(defs, UnionDef, v)
UnionDef_decode(defs, r) == DecodeMessage(defs, UnionDef, r, 1)
UnionDef_view_read(defs, r) == ViewMessage(defs, UnionDef, r)
UnionDef_getters(defs, r) == MessageGetters(defs, UnionDef, r)

\* message ServiceDef of descriptor.bop.
ServiceDef ==
    1 :> Field(Array(Ref("MethodDescriptor")))
ServiceDef_encoded_size(defs, v) == SizeMessage(defs, ServiceDef, v)
ServiceDef_encode(defs, v) == EncodeMessage(defs, ServiceDef, v)
ServiceDef_decode(defs, r) == DecodeMessage(defs, ServiceDef, r, 1)
ServiceDef_view_read(defs, r) == ViewMessage(defs, ServiceDef, r)
ServiceDef_getters(defs, r) == MessageGetters(defs, ServiceDef, r)

\* message ConstDef of descriptor.bop.
ConstDef ==
    1 :> Field(Ref("TypeDescriptor")) @@ 2 :> Field(Ref("LiteralValue"))
ConstDef_encoded_size(defs, v) == SizeMessage(defs, ConstDef, v)
ConstDef_encode(defs, v) == EncodeMessage(defs, ConstDef, v)
ConstDef_decode(defs, r) == DecodeMessage(defs, ConstDef, r, 1)
ConstDef_view_read(defs, r) == ViewMessage(defs, ConstDef, r)
ConstDef_getters(defs, r) == MessageGetters(defs, ConstDef, r)

\* message DecoratorParamDef of descriptor.bop.
DecoratorParamDef ==
    1 :> Field(Str) @@ 2 :> Field(Str) @@ 3 :> Field(Ref("TypeKind")) @@
    4 :> Field(Scalar("bool")) @@ 5 :> Field(Ref("LiteralValue")) @@
    6 :> Field(Array(Ref("LiteralValue")))
DecoratorParamDef_encoded_size(defs, v) == SizeMessage(defs, DecoratorParamDef, v)
DecoratorParamDef_encode(defs, v) == EncodeMessage(defs, DecoratorParamDef, v)
DecoratorParamDef_decode(defs, r) == DecodeMessage(defs, DecoratorParamDef, r, 1)
DecoratorParamDef_view_read(defs, r) == ViewMessage(defs, DecoratorParamDef, r)
DecoratorParamDef_getters(defs, r) == MessageGetters(defs, DecoratorParamDef, r)

\* message DecoratorDef of descriptor.bop.
DecoratorDef ==
    1 :> Field(Ref("DecoratorTarget")) @@ 2 :> Field(Scalar("bool")) @@
    3 :> Field(Array(Ref("DecoratorParamDef"))) @@ 4 :> Field(Str) @@ 5 :> Field(Str)
DecoratorDef_encoded_size(defs, v) == SizeMessage(defs, DecoratorDef, v)
DecoratorDef_encode(defs, v) == EncodeMessage(defs, DecoratorDef, v)
DecoratorDef_decode(defs, r) == DecodeMessage(defs, DecoratorDef, r, 1)
DecoratorDef_view_read(defs, r) == ViewMessage(defs, DecoratorDef, r)
DecoratorDef_getters(defs, r) == MessageGetters(defs, DecoratorDef, r)

\* message DefinitionDescriptor of descriptor.bop.
DefinitionDescriptor ==
    1 :> Field(Ref("DefinitionKind")) @@ 2 :> Field(Str) @@ 3 :> Field(Str) @@
    4 :> Field(Str) @@ 5 :> Field(Ref("Visibility")) @@
    6 :> Field(Array(Ref("DecoratorUsage"))) @@
    7 :> Field(Array(Ref("DefinitionDescriptor"))) @@ 8 :> Field(Ref("EnumDef")) @@
    9 :> Field(Ref("StructDef")) @@ 10 :> Field(Ref("MessageDef")) @@
    11 :> Field(Ref("UnionDef")) @@ 12 :> Field(Ref("ServiceDef")) @@
    13 :> Field(Ref("ConstDef")) @@ 14 :> Field(Ref("DecoratorDef"))
DefinitionDescriptor_encoded_size(defs, v) == SizeMessage(defs, DefinitionDescriptor, v)
DefinitionDescriptor_encode(defs, v) == EncodeMessage(defs, DefinitionDescriptor, v)
DefinitionDescriptor_decode(defs, r) == DecodeMessage(defs, DefinitionDescriptor, r, 1)
DefinitionDescriptor_view_read(defs, r) == ViewMessage(defs, DefinitionDescriptor, r)
DefinitionDescriptor_getters(defs, r) == MessageGetters(defs, DefinitionDescriptor, r)

\* message Location of descriptor.bop.
Location ==
    1 :> Field(Array(Scalar("int32"))) @@ 2 :> Field(Fixed(Scalar("int32"), 4)) @@
    3 :> Field(Str) @@ 4 :> Field(Str) @@ 5 :> Field(Array(Str))
Location_encoded_size(defs, v) == SizeMessage(defs, Location, v)
Location_encode(defs, v) == EncodeMessage(defs, Location, v)
Location_decode(defs, r) == DecodeMessage(defs, Location, r, 1)
Location_view_read(defs, r) == ViewMessage(defs, Location, r)
Location_getters(defs, r) == MessageGetters(defs, Location, r)

\* message SourceCodeInfo of descriptor.bop.
SourceCodeInfo ==
    1 :> Field(Array(Ref("Location")))
SourceCodeInfo_encoded_size(defs, v) == SizeMessage(defs, SourceCodeInfo, v)
SourceCodeInfo_encode(defs, v) == EncodeMessage(defs, SourceCodeInfo, v)
SourceCodeInfo_decode(defs, r) == DecodeMessage(defs, SourceCodeInfo, r, 1)
SourceCodeInfo_view_read(defs, r) == ViewMessage(defs, SourceCodeInfo, r)
SourceCodeInfo_getters(defs, r) == MessageGetters(defs, SourceCodeInfo, r)

\* message SchemaDescriptor of descriptor.bop.
SchemaDescriptor ==
    1 :> Field(Str) @@ 2 :> Field(Str) @@ 3 :> Field(Ref("Edition")) @@
    4 :> Field(Array(Str)) @@ 5 :> Field(Array(Ref("DefinitionDescriptor"))) @@
    6 :> Field(Ref("SourceCodeInfo"))
SchemaDescriptor_encoded_size(defs, v) == SizeMessage(defs, SchemaDescriptor, v)
SchemaDescriptor_encode(defs, v) == EncodeMessage(defs, SchemaDescriptor, v)
SchemaDescriptor_decode(defs, r) == DecodeMessage(defs, SchemaDescriptor, r, 1)
SchemaDescriptor_view_read(defs, r) == ViewMessage(defs, SchemaDescriptor, r)
SchemaDescriptor_getters(defs, r) == MessageGetters(defs, SchemaDescriptor, r)

\* message DescriptorSet of descriptor.bop.
DescriptorSet ==
    1 :> Field(Array(Ref("SchemaDescriptor")))
DescriptorSet_encoded_size(defs, v) == SizeMessage(defs, DescriptorSet, v)
DescriptorSet_encode(defs, v) == EncodeMessage(defs, DescriptorSet, v)
DescriptorSet_decode(defs, r) == DecodeMessage(defs, DescriptorSet, r, 1)
DescriptorSet_view_read(defs, r) == ViewMessage(defs, DescriptorSet, r)
DescriptorSet_getters(defs, r) == MessageGetters(defs, DescriptorSet, r)
----------------------------------------------------------------------------
\* The definitions of the schema.
DescriptorEnums == [n \in DOMAIN EnumTypes |-> [kind |-> "enum", base |-> EnumTypes[n]]]
DescriptorDefs ==
    [TypeDescriptor |-> [kind |-> "message", fields |-> TypeDescriptor],
     LiteralValue |-> [kind |-> "message", fields |-> LiteralValue],
     DecoratorArg |-> [kind |-> "struct", fields |-> DecoratorArg],
     DecoratorUsage |-> [kind |-> "message", fields |-> DecoratorUsage],
     FieldDescriptor |-> [kind |-> "message", fields |-> FieldDescriptor],
     EnumMemberDescriptor |-> [kind |-> "message", fields |-> EnumMemberDescriptor],
     UnionBranchDescriptor |-> [kind |-> "message", fields |-> UnionBranchDescriptor],
     MethodDescriptor |-> [kind |-> "message", fields |-> MethodDescriptor],
     EnumDef |-> [kind |-> "message", fields |-> EnumDef],
     StructDef |-> [kind |-> "message", fields |-> StructDef],
     MessageDef |-> [kind |-> "message", fields |-> MessageDef],
     UnionDef |-> [kind |-> "message", fields |-> UnionDef],
     ServiceDef |-> [kind |-> "message", fields |-> ServiceDef],
     ConstDef |-> [kind |-> "message", fields |-> ConstDef],
     DecoratorParamDef |-> [kind |-> "message", fields |-> DecoratorParamDef],
     DecoratorDef |-> [kind |-> "message", fields |-> DecoratorDef],
     DefinitionDescriptor |-> [kind |-> "message", fields |-> DefinitionDescriptor],
     Location |-> [kind |-> "message", fields |-> Location],
     SourceCodeInfo |-> [kind |-> "message", fields |-> SourceCodeInfo],
     SchemaDescriptor |-> [kind |-> "message", fields |-> SchemaDescriptor],
     DescriptorSet |-> [kind |-> "message", fields |-> DescriptorSet]]

\* The function of each type, by its name.
DescriptorEncodedSize(defs, n, v) ==
    CASE n = "TypeDescriptor" -> TypeDescriptor_encoded_size(defs, v)
      [] n = "LiteralValue" -> LiteralValue_encoded_size(defs, v)
      [] n = "DecoratorArg" -> DecoratorArg_encoded_size(defs, v)
      [] n = "DecoratorUsage" -> DecoratorUsage_encoded_size(defs, v)
      [] n = "FieldDescriptor" -> FieldDescriptor_encoded_size(defs, v)
      [] n = "EnumMemberDescriptor" -> EnumMemberDescriptor_encoded_size(defs, v)
      [] n = "UnionBranchDescriptor" -> UnionBranchDescriptor_encoded_size(defs, v)
      [] n = "MethodDescriptor" -> MethodDescriptor_encoded_size(defs, v)
      [] n = "EnumDef" -> EnumDef_encoded_size(defs, v)
      [] n = "StructDef" -> StructDef_encoded_size(defs, v)
      [] n = "MessageDef" -> MessageDef_encoded_size(defs, v)
      [] n = "UnionDef" -> UnionDef_encoded_size(defs, v)
      [] n = "ServiceDef" -> ServiceDef_encoded_size(defs, v)
      [] n = "ConstDef" -> ConstDef_encoded_size(defs, v)
      [] n = "DecoratorParamDef" -> DecoratorParamDef_encoded_size(defs, v)
      [] n = "DecoratorDef" -> DecoratorDef_encoded_size(defs, v)
      [] n = "DefinitionDescriptor" -> DefinitionDescriptor_encoded_size(defs, v)
      [] n = "Location" -> Location_encoded_size(defs, v)
      [] n = "SourceCodeInfo" -> SourceCodeInfo_encoded_size(defs, v)
      [] n = "SchemaDescriptor" -> SchemaDescriptor_encoded_size(defs, v)
      [] n = "DescriptorSet" -> DescriptorSet_encoded_size(defs, v)

DescriptorEncodeTop(defs, n, v) ==
    CASE n = "TypeDescriptor" -> TypeDescriptor_encode(defs, v)
      [] n = "LiteralValue" -> LiteralValue_encode(defs, v)
      [] n = "DecoratorArg" -> DecoratorArg_encode(defs, v)
      [] n = "DecoratorUsage" -> DecoratorUsage_encode(defs, v)
      [] n = "FieldDescriptor" -> FieldDescriptor_encode(defs, v)
      [] n = "EnumMemberDescriptor" -> EnumMemberDescriptor_encode(defs, v)
      [] n = "UnionBranchDescriptor" -> UnionBranchDescriptor_encode(defs, v)
      [] n = "MethodDescriptor" -> MethodDescriptor_encode(defs, v)
      [] n = "EnumDef" -> EnumDef_encode(defs, v)
      [] n = "StructDef" -> StructDef_encode(defs, v)
      [] n = "MessageDef" -> MessageDef_encode(defs, v)
      [] n = "UnionDef" -> UnionDef_encode(defs, v)
      [] n = "ServiceDef" -> ServiceDef_encode(defs, v)
      [] n = "ConstDef" -> ConstDef_encode(defs, v)
      [] n = "DecoratorParamDef" -> DecoratorParamDef_encode(defs, v)
      [] n = "DecoratorDef" -> DecoratorDef_encode(defs, v)
      [] n = "DefinitionDescriptor" -> DefinitionDescriptor_encode(defs, v)
      [] n = "Location" -> Location_encode(defs, v)
      [] n = "SourceCodeInfo" -> SourceCodeInfo_encode(defs, v)
      [] n = "SchemaDescriptor" -> SchemaDescriptor_encode(defs, v)
      [] n = "DescriptorSet" -> DescriptorSet_encode(defs, v)

DescriptorDecodeTop(defs, n, r) ==
    CASE n = "TypeDescriptor" -> TypeDescriptor_decode(defs, r)
      [] n = "LiteralValue" -> LiteralValue_decode(defs, r)
      [] n = "DecoratorArg" -> DecoratorArg_decode(defs, r)
      [] n = "DecoratorUsage" -> DecoratorUsage_decode(defs, r)
      [] n = "FieldDescriptor" -> FieldDescriptor_decode(defs, r)
      [] n = "EnumMemberDescriptor" -> EnumMemberDescriptor_decode(defs, r)
      [] n = "UnionBranchDescriptor" -> UnionBranchDescriptor_decode(defs, r)
      [] n = "MethodDescriptor" -> MethodDescriptor_decode(defs, r)
      [] n = "EnumDef" -> EnumDef_decode(defs, r)
      [] n = "StructDef" -> StructDef_decode(defs, r)
      [] n = "MessageDef" -> MessageDef_decode(defs, r)
      [] n = "UnionDef" -> UnionDef_decode(defs, r)
      [] n = "ServiceDef" -> ServiceDef_decode(defs, r)
      [] n = "ConstDef" -> ConstDef_decode(defs, r)
      [] n = "DecoratorParamDef" -> DecoratorParamDef_decode(defs, r)
      [] n = "DecoratorDef" -> DecoratorDef_decode(defs, r)
      [] n = "DefinitionDescriptor" -> DefinitionDescriptor_decode(defs, r)
      [] n = "Location" -> Location_decode(defs, r)
      [] n = "SourceCodeInfo" -> SourceCodeInfo_decode(defs, r)
      [] n = "SchemaDescriptor" -> SchemaDescriptor_decode(defs, r)
      [] n = "DescriptorSet" -> DescriptorSet_decode(defs, r)

DescriptorViewTop(defs, n, r) ==
    CASE n = "TypeDescriptor" -> TypeDescriptor_view_read(defs, r)
      [] n = "LiteralValue" -> LiteralValue_view_read(defs, r)
      [] n = "DecoratorArg" -> DecoratorArg_view_read(defs, r)
      [] n = "DecoratorUsage" -> DecoratorUsage_view_read(defs, r)
      [] n = "FieldDescriptor" -> FieldDescriptor_view_read(defs, r)
      [] n = "EnumMemberDescriptor" -> EnumMemberDescriptor_view_read(defs, r)
      [] n = "UnionBranchDescriptor" -> UnionBranchDescriptor_view_read(defs, r)
      [] n = "MethodDescriptor" -> MethodDescriptor_view_read(defs, r)
      [] n = "EnumDef" -> EnumDef_view_read(defs, r)
      [] n = "StructDef" -> StructDef_view_read(defs, r)
      [] n = "MessageDef" -> MessageDef_view_read(defs, r)
      [] n = "UnionDef" -> UnionDef_view_read(defs, r)
      [] n = "ServiceDef" -> ServiceDef_view_read(defs, r)
      [] n = "ConstDef" -> ConstDef_view_read(defs, r)
      [] n = "DecoratorParamDef" -> DecoratorParamDef_view_read(defs, r)
      [] n = "DecoratorDef" -> DecoratorDef_view_read(defs, r)
      [] n = "DefinitionDescriptor" -> DefinitionDescriptor_view_read(defs, r)
      [] n = "Location" -> Location_view_read(defs, r)
      [] n = "SourceCodeInfo" -> SourceCodeInfo_view_read(defs, r)
      [] n = "SchemaDescriptor" -> SchemaDescriptor_view_read(defs, r)
      [] n = "DescriptorSet" -> DescriptorSet_view_read(defs, r)

DescriptorGetters(defs, n, r) ==
    CASE n = "TypeDescriptor" -> TypeDescriptor_getters(defs, r)
      [] n = "LiteralValue" -> LiteralValue_getters(defs, r)
      [] n = "DecoratorArg" -> DecoratorArg_getters(defs, r)
      [] n = "DecoratorUsage" -> DecoratorUsage_getters(defs, r)
      [] n = "FieldDescriptor" -> FieldDescriptor_getters(defs, r)
      [] n = "EnumMemberDescriptor" -> EnumMemberDescriptor_getters(defs, r)
      [] n = "UnionBranchDescriptor" -> UnionBranchDescriptor_getters(defs, r)
      [] n = "MethodDescriptor" -> MethodDescriptor_getters(defs, r)
      [] n = "EnumDef" -> EnumDef_getters(defs, r)
      [] n = "StructDef" -> StructDef_getters(defs, r)
      [] n = "MessageDef" -> MessageDef_getters(defs, r)
      [] n = "UnionDef" -> UnionDef_getters(defs, r)
      [] n = "ServiceDef" -> ServiceDef_getters(defs, r)
      [] n = "ConstDef" -> ConstDef_getters(defs, r)
      [] n = "DecoratorParamDef" -> DecoratorParamDef_getters(defs, r)
      [] n = "DecoratorDef" -> DecoratorDef_getters(defs, r)
      [] n = "DefinitionDescriptor" -> DefinitionDescriptor_getters(defs, r)
      [] n = "Location" -> Location_getters(defs, r)
      [] n = "SourceCodeInfo" -> SourceCodeInfo_getters(defs, r)
      [] n = "SchemaDescriptor" -> SchemaDescriptor_getters(defs, r)
      [] n = "DescriptorSet" -> DescriptorSet_getters(defs, r)
=============================================================================
