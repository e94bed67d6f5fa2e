---------------------------- MODULE SchemaLayouts ----------------------------
(***************************************************************************)
(* The classes of compiled schemas: src/zap/schema.ts.                     *)
(***************************************************************************)
EXTENDS Layouts

Node_Parameter ==
  Record(<<0, 1>>,
    [name |-> TextAt(0)])

Node_NestedNode ==
  Record(<<1, 1>>,
    [name |-> TextAt(0), id |-> Uint64(0)])

Node_SourceInfo_Member ==
  Record(<<0, 1>>,
    [docComment |-> TextAt(0)])

Node_SourceInfo ==
  Record(<<1, 2>>,
    [id |-> Uint64(0), docComment |-> TextAt(0),
     members |-> ListAt(1, "Node_SourceInfo_Member")])

Node_Struct ==
  Record(<<5, 6>>,
    [dataWordCount |-> Uint16(14), pointerCount |-> Uint16(24),
     preferredListEncoding |-> Uint16(26), isGroup |-> Bit(224, FALSE),
     discriminantCount |-> Uint16(30), discriminantOffset |-> Uint32(32),
     fields |-> ListAt(3, "Field")])

Node_Enum ==
  Record(<<5, 6>>,
    [enumerants |-> ListAt(3, "Enumerant")])

Node_Interface ==
  Record(<<5, 6>>,
    [methods |-> ListAt(3, "Method"), superclasses |-> ListAt(4, "Superclass")])

Node_Const ==
  Record(<<5, 6>>,
    [type |-> StructAt(3, "Type"), value |-> StructAt(4, "Value")])

Node_Annotation ==
  Record(<<5, 6>>,
    [type |-> StructAt(3, "Type"), targetsFile |-> Bit(112, FALSE),
     targetsConst |-> Bit(113, FALSE), targetsEnum |-> Bit(114, FALSE),
     targetsEnumerant |-> Bit(115, FALSE), targetsStruct |-> Bit(116, FALSE),
     targetsField |-> Bit(117, FALSE), targetsUnion |-> Bit(118, FALSE),
     targetsGroup |-> Bit(119, FALSE), targetsInterface |-> Bit(120, FALSE),
     targetsMethod |-> Bit(121, FALSE), targetsParam |-> Bit(122, FALSE),
     targetsAnnotation |-> Bit(123, FALSE)])

Node ==
  Union(<<5, 6>>, 12,
    [id |-> Uint64(0), displayName |-> TextAt(0),
     displayNamePrefixLength |-> Uint32(8), scopeId |-> Uint64(16),
     parameters |-> ListAt(5, "Node_Parameter"), isGeneric |-> Bit(288, FALSE),
     nestedNodes |-> ListAt(1, "Node_NestedNode"),
     annotations |-> ListAt(2, "Annotation")],
    [file |-> Arm(0, Void), struct |-> Arm(1, Group("Node_Struct")),
     enum |-> Arm(2, Group("Node_Enum")),
     interface |-> Arm(3, Group("Node_Interface")),
     const |-> Arm(4, Group("Node_Const")),
     annotation |-> Arm(5, Group("Node_Annotation"))])

Field_Slot ==
  Record(<<3, 4>>,
    [offset |-> Uint32(4), type |-> StructAt(2, "Type"),
     defaultValue |-> StructAt(3, "Value"),
     hadExplicitDefault |-> Bit(128, FALSE)])

Field_Group ==
  Record(<<3, 4>>,
    [typeId |-> Uint64(16)])

Field_Ordinal ==
  Union(<<3, 4>>, 10,
    None,
    [implicit |-> Arm(0, Void), explicit |-> Arm(1, Uint16(12))])

Field ==
  Union(<<3, 4>>, 8,
    [name |-> TextAt(0), codeOrder |-> Uint16(0),
     annotations |-> ListAt(1, "Annotation"),
     discriminantValue |-> WithDefault(Uint16(2), 65535),
     ordinal |-> Group("Field_Ordinal")],
    [slot |-> Arm(0, Group("Field_Slot")),
     group |-> Arm(1, Group("Field_Group"))])

Enumerant ==
  Record(<<1, 2>>,
    [name |-> TextAt(0), codeOrder |-> Uint16(0),
     annotations |-> ListAt(1, "Annotation")])

Superclass ==
  Record(<<1, 1>>,
    [id |-> Uint64(0), brand |-> StructAt(0, "Brand")])

Method ==
  Record(<<3, 5>>,
    [name |-> TextAt(0), codeOrder |-> Uint16(0),
     implicitParameters |-> ListAt(4, "Node_Parameter"),
     paramStructType |-> Uint64(8), paramBrand |-> StructAt(2, "Brand"),
     resultStructType |-> Uint64(16), resultBrand |-> StructAt(3, "Brand"),
     annotations |-> ListAt(1, "Annotation")])

Type_List ==
  Record(<<3, 1>>,
    [elementType |-> StructAt(0, "Type")])

Type_Enum ==
  Record(<<3, 1>>,
    [typeId |-> Uint64(8), brand |-> StructAt(0, "Brand")])

Type_Struct ==
  Record(<<3, 1>>,
    [typeId |-> Uint64(8), brand |-> StructAt(0, "Brand")])

Type_Interface ==
  Record(<<3, 1>>,
    [typeId |-> Uint64(8), brand |-> StructAt(0, "Brand")])

Type_AnyPointer_Unconstrained ==
  Union(<<3, 1>>, 10,
    None,
    [anyKind |-> Arm(0, Void), struct |-> Arm(1, Void), list |-> Arm(2, Void),
     capability |-> Arm(3, Void)])

Type_AnyPointer_Parameter ==
  Record(<<3, 1>>,
    [scopeId |-> Uint64(16), parameterIndex |-> Uint16(10)])

Type_AnyPointer_ImplicitMethodParameter ==
  Record(<<3, 1>>,
    [parameterIndex |-> Uint16(10)])

Type_AnyPointer ==
  Union(<<3, 1>>, 8,
    None,
    [unconstrained |-> Arm(0, Group("Type_AnyPointer_Unconstrained")),
     parameter |-> Arm(1, Group("Type_AnyPointer_Parameter")),
     implicitMethodParameter |-> Arm(2, Group("Type_AnyPointer_ImplicitMethodParameter"))])

Type ==
  Union(<<3, 1>>, 0,
    None,
    [void |-> Arm(0, Void), bool |-> Arm(1, Void), int8 |-> Arm(2, Void),
     int16 |-> Arm(3, Void), int32 |-> Arm(4, Void), int64 |-> Arm(5, Void),
     uint8 |-> Arm(6, Void), uint16 |-> Arm(7, Void), uint32 |-> Arm(8, Void),
     uint64 |-> Arm(9, Void), float32 |-> Arm(10, Void),
     float64 |-> Arm(11, Void), text |-> Arm(12, Void), data |-> Arm(13, Void),
     list |-> Arm(14, Group("Type_List")), enum |-> Arm(15, Group("Type_Enum")),
     struct |-> Arm(16, Group("Type_Struct")),
     interface |-> Arm(17, Group("Type_Interface")),
     anyPointer |-> Arm(18, Group("Type_AnyPointer"))])

Brand_Scope ==
  Union(<<2, 1>>, 8,
    [scopeId |-> Uint64(0)],
    [bind |-> Arm(0, ListAt(0, "Brand_Binding")), inherit |-> Arm(1, Void)])

Brand_Binding ==
  Union(<<1, 1>>, 0,
    None,
    [unbound |-> Arm(0, Void), type |-> Arm(1, StructAt(0, "Type"))])

Brand ==
  Record(<<0, 1>>,
    [scopes |-> ListAt(0, "Brand_Scope")])

Value ==
  Union(<<2, 1>>, 0,
    None,
    [void |-> Arm(0, Void), bool |-> Arm(1, Bit(16, FALSE)),
     int8 |-> Arm(2, Int8(2)), int16 |-> Arm(3, Int16(2)),
     int32 |-> Arm(4, Int32(4)), int64 |-> Arm(5, Int64(8)),
     uint8 |-> Arm(6, Uint8(2)), uint16 |-> Arm(7, Uint16(2)),
     uint32 |-> Arm(8, Uint32(4)), uint64 |-> Arm(9, Uint64(8)),
     float32 |-> Arm(10, Float32(4)), float64 |-> Arm(11, Float64(8)),
     text |-> Arm(12, TextAt(0)), data |-> Arm(13, BytesAt(0)),
     list |-> Arm(14, PointerAt(0)), enum |-> Arm(15, Uint16(2)),
     struct |-> Arm(16, PointerAt(0)), interface |-> Arm(17, Void),
     anyPointer |-> Arm(18, PointerAt(0))])

Annotation ==
  Record(<<1, 2>>,
    [id |-> Uint64(0), brand |-> StructAt(1, "Brand"),
     value |-> StructAt(0, "Value")])

ZapVersion ==
  Record(<<1, 0>>,
    [major |-> Uint16(0), minor |-> Uint8(2), micro |-> Uint8(3)])

CodeGeneratorRequest_RequestedFile_Import ==
  Record(<<1, 1>>,
    [id |-> Uint64(0), name |-> TextAt(0)])

CodeGeneratorRequest_RequestedFile ==
  Record(<<1, 2>>,
    [id |-> Uint64(0), filename |-> TextAt(0),
     imports |-> ListAt(1, "CodeGeneratorRequest_RequestedFile_Import")])

CodeGeneratorRequest ==
  Record(<<0, 4>>,
    [zapVersion |-> StructAt(2, "ZapVersion"), nodes |-> ListAt(0, "Node"),
     sourceInfo |-> ListAt(3, "Node_SourceInfo"),
     requestedFiles |-> ListAt(1, "CodeGeneratorRequest_RequestedFile")])

(* All of them, by name. *)
SchemaClasses ==
  [Node_Parameter |-> Node_Parameter, Node_NestedNode |-> Node_NestedNode,
   Node_SourceInfo_Member |-> Node_SourceInfo_Member,
   Node_SourceInfo |-> Node_SourceInfo, Node_Struct |-> Node_Struct,
   Node_Enum |-> Node_Enum, Node_Interface |-> Node_Interface,
   Node_Const |-> Node_Const, Node_Annotation |-> Node_Annotation,
   Node |-> Node, Field_Slot |-> Field_Slot, Field_Group |-> Field_Group,
   Field_Ordinal |-> Field_Ordinal, Field |-> Field, Enumerant |-> Enumerant,
   Superclass |-> Superclass, Method |-> Method, Type_List |-> Type_List,
   Type_Enum |-> Type_Enum, Type_Struct |-> Type_Struct,
   Type_Interface |-> Type_Interface,
   Type_AnyPointer_Unconstrained |-> Type_AnyPointer_Unconstrained,
   Type_AnyPointer_Parameter |-> Type_AnyPointer_Parameter,
   Type_AnyPointer_ImplicitMethodParameter |-> Type_AnyPointer_ImplicitMethodParameter,
   Type_AnyPointer |-> Type_AnyPointer, Type |-> Type,
   Brand_Scope |-> Brand_Scope, Brand_Binding |-> Brand_Binding,
   Brand |-> Brand, Value |-> Value, Annotation |-> Annotation,
   ZapVersion |-> ZapVersion,
   CodeGeneratorRequest_RequestedFile_Import |-> CodeGeneratorRequest_RequestedFile_Import,
   CodeGeneratorRequest_RequestedFile |-> CodeGeneratorRequest_RequestedFile,
   CodeGeneratorRequest |-> CodeGeneratorRequest]
=============================================================================
