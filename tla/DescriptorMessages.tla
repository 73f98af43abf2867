------------------------------ MODULE DescriptorMessages ------------------------------
(* The messages of the descriptors of .proto files, as the generated client declares them:
   for each one its interface (what a value of it looks like) and its message type (how it
   is created, read and written).  The fields stand in the order in which
   internalBinaryWrite writes them. *)
EXTENDS WireFormat

FileDescriptorSet == [file |-> Many("descriptor.FileDescriptorProto")]
FileDescriptorSet_Type ==
    MessageType("descriptor.FileDescriptorSet", FileDescriptorSet, <<
      Repeated(1, "file", "descriptor.FileDescriptorProto")>>)

FileDescriptorProto ==
    [name |-> Optional(Scalar), package |-> Optional(Scalar), dependency |-> Many(Scalar),
      publicDependency |-> Many(Scalar), weakDependency |-> Many(Scalar),
      optionDependency |-> Many(Scalar), messageType |-> Many("descriptor.DescriptorProto"),
      enumType |-> Many("descriptor.EnumDescriptorProto"),
      service |-> Many("descriptor.ServiceDescriptorProto"),
      extension |-> Many("descriptor.FieldDescriptorProto"),
      options |-> Optional("descriptor.FileOptions"),
      sourceCodeInfo |-> Optional("descriptor.SourceCodeInfo"), syntax |-> Optional(Scalar),
      edition |-> Optional(Scalar)]
FileDescriptorProto_Type ==
    MessageType("descriptor.FileDescriptorProto", FileDescriptorProto, <<
      Explicit(1, "name", Delimited), Explicit(2, "package", Delimited),
      Repeated(3, "dependency", Delimited),
      Repeated(4, "messageType", "descriptor.DescriptorProto"),
      Repeated(5, "enumType", "descriptor.EnumDescriptorProto"),
      Repeated(6, "service", "descriptor.ServiceDescriptorProto"),
      Repeated(7, "extension", "descriptor.FieldDescriptorProto"),
      Submessage(8, "options", "descriptor.FileOptions"),
      Submessage(9, "sourceCodeInfo", "descriptor.SourceCodeInfo"),
      Unpacked(10, "publicDependency", Varint), Unpacked(11, "weakDependency", Varint),
      Explicit(12, "syntax", Delimited), Explicit(14, "edition", Varint),
      Repeated(15, "optionDependency", Delimited)>>)

DescriptorProto ==
    [name |-> Optional(Scalar), field |-> Many("descriptor.FieldDescriptorProto"),
      extension |-> Many("descriptor.FieldDescriptorProto"),
      nestedType |-> Many("descriptor.DescriptorProto"),
      enumType |-> Many("descriptor.EnumDescriptorProto"),
      extensionRange |-> Many("descriptor.DescriptorProto_ExtensionRange"),
      oneofDecl |-> Many("descriptor.OneofDescriptorProto"),
      options |-> Optional("descriptor.MessageOptions"),
      reservedRange |-> Many("descriptor.DescriptorProto_ReservedRange"),
      reservedName |-> Many(Scalar), visibility |-> Optional(Scalar)]
DescriptorProto_Type ==
    MessageType("descriptor.DescriptorProto", DescriptorProto, <<Explicit(1, "name", Delimited),
      Repeated(2, "field", "descriptor.FieldDescriptorProto"),
      Repeated(3, "nestedType", "descriptor.DescriptorProto"),
      Repeated(4, "enumType", "descriptor.EnumDescriptorProto"),
      Repeated(5, "extensionRange", "descriptor.DescriptorProto_ExtensionRange"),
      Repeated(6, "extension", "descriptor.FieldDescriptorProto"),
      Submessage(7, "options", "descriptor.MessageOptions"),
      Repeated(8, "oneofDecl", "descriptor.OneofDescriptorProto"),
      Repeated(9, "reservedRange", "descriptor.DescriptorProto_ReservedRange"),
      Repeated(10, "reservedName", Delimited), Explicit(11, "visibility", Varint)>>)

DescriptorProto_ExtensionRange ==
    [start |-> Optional(Scalar), end |-> Optional(Scalar),
      options |-> Optional("descriptor.ExtensionRangeOptions")]
DescriptorProto_ExtensionRange_Type ==
    MessageType("descriptor.DescriptorProto_ExtensionRange", DescriptorProto_ExtensionRange, <<
      Explicit(1, "start", Varint), Explicit(2, "end", Varint),
      Submessage(3, "options", "descriptor.ExtensionRangeOptions")>>)

DescriptorProto_ReservedRange == [start |-> Optional(Scalar), end |-> Optional(Scalar)]
DescriptorProto_ReservedRange_Type ==
    MessageType("descriptor.DescriptorProto_ReservedRange", DescriptorProto_ReservedRange, <<
      Explicit(1, "start", Varint), Explicit(2, "end", Varint)>>)

ExtensionRangeOptions ==
    [uninterpretedOption |-> Many("descriptor.UninterpretedOption"),
      declaration |-> Many("descriptor.ExtensionRangeOptions_Declaration"),
      features |-> Optional("descriptor.FeatureSet"), verification |-> Optional(Scalar)]
ExtensionRangeOptions_Type ==
    MessageType("descriptor.ExtensionRangeOptions", ExtensionRangeOptions, <<
      Repeated(2, "declaration", "descriptor.ExtensionRangeOptions_Declaration"),
      Explicit(3, "verification", Varint), Submessage(50, "features", "descriptor.FeatureSet"),
      Repeated(999, "uninterpretedOption", "descriptor.UninterpretedOption")>>)

ExtensionRangeOptions_Declaration ==
    [number |-> Optional(Scalar), fullName |-> Optional(Scalar), type |-> Optional(Scalar),
      reserved |-> Optional(Scalar), repeated |-> Optional(Scalar)]
ExtensionRangeOptions_Declaration_Type ==
    MessageType("descriptor.ExtensionRangeOptions_Declaration",
         ExtensionRangeOptions_Declaration, <<
      Explicit(1, "number", Varint), Explicit(2, "fullName", Delimited),
      Explicit(3, "type", Delimited), Explicit(5, "reserved", Varint),
      Explicit(6, "repeated", Varint)>>)

FieldDescriptorProto ==
    [name |-> Optional(Scalar), number |-> Optional(Scalar), label |-> Optional(Scalar),
      type |-> Optional(Scalar), typeName |-> Optional(Scalar), extendee |-> Optional(Scalar),
      defaultValue |-> Optional(Scalar), oneofIndex |-> Optional(Scalar),
      jsonName |-> Optional(Scalar), options |-> Optional("descriptor.FieldOptions"),
      proto3Optional |-> Optional(Scalar)]
FieldDescriptorProto_Type ==
    MessageType("descriptor.FieldDescriptorProto", FieldDescriptorProto, <<
      Explicit(1, "name", Delimited), Explicit(2, "extendee", Delimited),
      Explicit(3, "number", Varint), Explicit(4, "label", Varint), Explicit(5, "type", Varint),
      Explicit(6, "typeName", Delimited), Explicit(7, "defaultValue", Delimited),
      Submessage(8, "options", "descriptor.FieldOptions"), Explicit(9, "oneofIndex", Varint),
      Explicit(10, "jsonName", Delimited), Explicit(17, "proto3Optional", Varint)>>)

OneofDescriptorProto ==
    [name |-> Optional(Scalar), options |-> Optional("descriptor.OneofOptions")]
OneofDescriptorProto_Type ==
    MessageType("descriptor.OneofDescriptorProto", OneofDescriptorProto, <<
      Explicit(1, "name", Delimited), Submessage(2, "options", "descriptor.OneofOptions")>>)

EnumDescriptorProto ==
    [name |-> Optional(Scalar), value |-> Many("descriptor.EnumValueDescriptorProto"),
      options |-> Optional("descriptor.EnumOptions"),
      reservedRange |-> Many("descriptor.EnumDescriptorProto_EnumReservedRange"),
      reservedName |-> Many(Scalar), visibility |-> Optional(Scalar)]
EnumDescriptorProto_Type ==
    MessageType("descriptor.EnumDescriptorProto", EnumDescriptorProto, <<
      Explicit(1, "name", Delimited),
      Repeated(2, "value", "descriptor.EnumValueDescriptorProto"),
      Submessage(3, "options", "descriptor.EnumOptions"),
      Repeated(4, "reservedRange", "descriptor.EnumDescriptorProto_EnumReservedRange"),
      Repeated(5, "reservedName", Delimited), Explicit(6, "visibility", Varint)>>)

EnumDescriptorProto_EnumReservedRange == [start |-> Optional(Scalar), end |-> Optional(Scalar)]
EnumDescriptorProto_EnumReservedRange_Type ==
    MessageType("descriptor.EnumDescriptorProto_EnumReservedRange",
         EnumDescriptorProto_EnumReservedRange, <<
      Explicit(1, "start", Varint), Explicit(2, "end", Varint)>>)

EnumValueDescriptorProto ==
    [name |-> Optional(Scalar), number |-> Optional(Scalar),
      options |-> Optional("descriptor.EnumValueOptions")]
EnumValueDescriptorProto_Type ==
    MessageType("descriptor.EnumValueDescriptorProto", EnumValueDescriptorProto, <<
      Explicit(1, "name", Delimited), Explicit(2, "number", Varint),
      Submessage(3, "options", "descriptor.EnumValueOptions")>>)

ServiceDescriptorProto ==
    [name |-> Optional(Scalar), method |-> Many("descriptor.MethodDescriptorProto"),
      options |-> Optional("descriptor.ServiceOptions")]
ServiceDescriptorProto_Type ==
    MessageType("descriptor.ServiceDescriptorProto", ServiceDescriptorProto, <<
      Explicit(1, "name", Delimited), Repeated(2, "method", "descriptor.MethodDescriptorProto"),
      Submessage(3, "options", "descriptor.ServiceOptions")>>)

MethodDescriptorProto ==
    [name |-> Optional(Scalar), inputType |-> Optional(Scalar), outputType |-> Optional(Scalar),
      options |-> Optional("descriptor.MethodOptions"), clientStreaming |-> Optional(Scalar),
      serverStreaming |-> Optional(Scalar)]
MethodDescriptorProto_Type ==
    MessageType("descriptor.MethodDescriptorProto", MethodDescriptorProto, <<
      Explicit(1, "name", Delimited), Explicit(2, "inputType", Delimited),
      Explicit(3, "outputType", Delimited), Submessage(4, "options", "descriptor.MethodOptions"),
      Explicit(5, "clientStreaming", Varint), Explicit(6, "serverStreaming", Varint)>>)

FileOptions ==
    [javaPackage |-> Optional(Scalar), javaOuterClassname |-> Optional(Scalar),
      javaMultipleFiles |-> Optional(Scalar), javaGenerateEqualsAndHash |-> Optional(Scalar),
      javaStringCheckUtf8 |-> Optional(Scalar), optimizeFor |-> Optional(Scalar),
      goPackage |-> Optional(Scalar), ccGenericServices |-> Optional(Scalar),
      javaGenericServices |-> Optional(Scalar), pyGenericServices |-> Optional(Scalar),
      deprecated |-> Optional(Scalar), ccEnableArenas |-> Optional(Scalar),
      objcClassPrefix |-> Optional(Scalar), csharpNamespace |-> Optional(Scalar),
      swiftPrefix |-> Optional(Scalar), phpClassPrefix |-> Optional(Scalar),
      phpNamespace |-> Optional(Scalar), phpMetadataNamespace |-> Optional(Scalar),
      rubyPackage |-> Optional(Scalar), features |-> Optional("descriptor.FeatureSet"),
      uninterpretedOption |-> Many("descriptor.UninterpretedOption")]
FileOptions_Type ==
    MessageType("descriptor.FileOptions", FileOptions, <<Explicit(1, "javaPackage", Delimited),
      Explicit(8, "javaOuterClassname", Delimited), Explicit(9, "optimizeFor", Varint),
      Explicit(10, "javaMultipleFiles", Varint), Explicit(11, "goPackage", Delimited),
      Explicit(16, "ccGenericServices", Varint), Explicit(17, "javaGenericServices", Varint),
      Explicit(18, "pyGenericServices", Varint),
      Explicit(20, "javaGenerateEqualsAndHash", Varint), Explicit(23, "deprecated", Varint),
      Explicit(27, "javaStringCheckUtf8", Varint), Explicit(31, "ccEnableArenas", Varint),
      Explicit(36, "objcClassPrefix", Delimited), Explicit(37, "csharpNamespace", Delimited),
      Explicit(39, "swiftPrefix", Delimited), Explicit(40, "phpClassPrefix", Delimited),
      Explicit(41, "phpNamespace", Delimited), Explicit(44, "phpMetadataNamespace", Delimited),
      Explicit(45, "rubyPackage", Delimited),
      Submessage(50, "features", "descriptor.FeatureSet"),
      Repeated(999, "uninterpretedOption", "descriptor.UninterpretedOption")>>)

MessageOptions ==
    [messageSetWireFormat |-> Optional(Scalar),
      noStandardDescriptorAccessor |-> Optional(Scalar), deprecated |-> Optional(Scalar),
      mapEntry |-> Optional(Scalar), deprecatedLegacyJsonFieldConflicts |-> Optional(Scalar),
      features |-> Optional("descriptor.FeatureSet"),
      uninterpretedOption |-> Many("descriptor.UninterpretedOption")]
MessageOptions_Type ==
    MessageType("descriptor.MessageOptions", MessageOptions, <<
      Explicit(1, "messageSetWireFormat", Varint),
      Explicit(2, "noStandardDescriptorAccessor", Varint), Explicit(3, "deprecated", Varint),
      Explicit(7, "mapEntry", Varint),
      Explicit(11, "deprecatedLegacyJsonFieldConflicts", Varint),
      Submessage(12, "features", "descriptor.FeatureSet"),
      Repeated(999, "uninterpretedOption", "descriptor.UninterpretedOption")>>)

FieldOptions ==
    [ctype |-> Optional(Scalar), packed |-> Optional(Scalar), jstype |-> Optional(Scalar),
      lazy |-> Optional(Scalar), unverifiedLazy |-> Optional(Scalar),
      deprecated |-> Optional(Scalar), weak |-> Optional(Scalar),
      debugRedact |-> Optional(Scalar), retention |-> Optional(Scalar), targets |-> Many(Scalar),
      editionDefaults |-> Many("descriptor.FieldOptions_EditionDefault"),
      features |-> Optional("descriptor.FeatureSet"),
      featureSupport |-> Optional("descriptor.FieldOptions_FeatureSupport"),
      uninterpretedOption |-> Many("descriptor.UninterpretedOption")]
FieldOptions_Type ==
    MessageType("descriptor.FieldOptions", FieldOptions, <<Explicit(1, "ctype", Varint),
      Explicit(2, "packed", Varint), Explicit(3, "deprecated", Varint),
      Explicit(5, "lazy", Varint), Explicit(6, "jstype", Varint), Explicit(10, "weak", Varint),
      Explicit(15, "unverifiedLazy", Varint), Explicit(16, "debugRedact", Varint),
      Explicit(17, "retention", Varint), Unpacked(19, "targets", Varint),
      Repeated(20, "editionDefaults", "descriptor.FieldOptions_EditionDefault"),
      Submessage(21, "features", "descriptor.FeatureSet"),
      Submessage(22, "featureSupport", "descriptor.FieldOptions_FeatureSupport"),
      Repeated(999, "uninterpretedOption", "descriptor.UninterpretedOption")>>)

FieldOptions_EditionDefault == [edition |-> Optional(Scalar), value |-> Optional(Scalar)]
FieldOptions_EditionDefault_Type ==
    MessageType("descriptor.FieldOptions_EditionDefault", FieldOptions_EditionDefault, <<
      Explicit(2, "value", Delimited), Explicit(3, "edition", Varint)>>)

FieldOptions_FeatureSupport ==
    [editionIntroduced |-> Optional(Scalar), editionDeprecated |-> Optional(Scalar),
      deprecationWarning |-> Optional(Scalar), editionRemoved |-> Optional(Scalar)]
FieldOptions_FeatureSupport_Type ==
    MessageType("descriptor.FieldOptions_FeatureSupport", FieldOptions_FeatureSupport, <<
      Explicit(1, "editionIntroduced", Varint), Explicit(2, "editionDeprecated", Varint),
      Explicit(3, "deprecationWarning", Delimited), Explicit(4, "editionRemoved", Varint)>>)

OneofOptions ==
    [features |-> Optional("descriptor.FeatureSet"),
      uninterpretedOption |-> Many("descriptor.UninterpretedOption")]
OneofOptions_Type ==
    MessageType("descriptor.OneofOptions", OneofOptions, <<
      Submessage(1, "features", "descriptor.FeatureSet"),
      Repeated(999, "uninterpretedOption", "descriptor.UninterpretedOption")>>)

EnumOptions ==
    [allowAlias |-> Optional(Scalar), deprecated |-> Optional(Scalar),
      deprecatedLegacyJsonFieldConflicts |-> Optional(Scalar),
      features |-> Optional("descriptor.FeatureSet"),
      uninterpretedOption |-> Many("descriptor.UninterpretedOption")]
EnumOptions_Type ==
    MessageType("descriptor.EnumOptions", EnumOptions, <<Explicit(2, "allowAlias", Varint),
      Explicit(3, "deprecated", Varint),
      Explicit(6, "deprecatedLegacyJsonFieldConflicts", Varint),
      Submessage(7, "features", "descriptor.FeatureSet"),
      Repeated(999, "uninterpretedOption", "descriptor.UninterpretedOption")>>)

EnumValueOptions ==
    [deprecated |-> Optional(Scalar), features |-> Optional("descriptor.FeatureSet"),
      debugRedact |-> Optional(Scalar),
      featureSupport |-> Optional("descriptor.FieldOptions_FeatureSupport"),
      uninterpretedOption |-> Many("descriptor.UninterpretedOption")]
EnumValueOptions_Type ==
    MessageType("descriptor.EnumValueOptions", EnumValueOptions, <<
      Explicit(1, "deprecated", Varint), Submessage(2, "features", "descriptor.FeatureSet"),
      Explicit(3, "debugRedact", Varint),
      Submessage(4, "featureSupport", "descriptor.FieldOptions_FeatureSupport"),
      Repeated(999, "uninterpretedOption", "descriptor.UninterpretedOption")>>)

ServiceOptions ==
    [features |-> Optional("descriptor.FeatureSet"), deprecated |-> Optional(Scalar),
      uninterpretedOption |-> Many("descriptor.UninterpretedOption")]
ServiceOptions_Type ==
    MessageType("descriptor.ServiceOptions", ServiceOptions, <<
      Explicit(33, "deprecated", Varint), Submessage(34, "features", "descriptor.FeatureSet"),
      Repeated(999, "uninterpretedOption", "descriptor.UninterpretedOption")>>)

MethodOptions ==
    [deprecated |-> Optional(Scalar), idempotencyLevel |-> Optional(Scalar),
      features |-> Optional("descriptor.FeatureSet"),
      uninterpretedOption |-> Many("descriptor.UninterpretedOption")]
MethodOptions_Type ==
    MessageType("descriptor.MethodOptions", MethodOptions, <<Explicit(33, "deprecated", Varint),
      Explicit(34, "idempotencyLevel", Varint),
      Submessage(35, "features", "descriptor.FeatureSet"),
      Repeated(999, "uninterpretedOption", "descriptor.UninterpretedOption")>>)

UninterpretedOption ==
    [name |-> Many("descriptor.UninterpretedOption_NamePart"),
      identifierValue |-> Optional(Scalar), positiveIntValue |-> Optional(Scalar),
      negativeIntValue |-> Optional(Scalar), doubleValue |-> Optional(Scalar),
      stringValue |-> Optional(Scalar), aggregateValue |-> Optional(Scalar)]
UninterpretedOption_Type ==
    MessageType("descriptor.UninterpretedOption", UninterpretedOption, <<
      Repeated(2, "name", "descriptor.UninterpretedOption_NamePart"),
      Explicit(3, "identifierValue", Delimited), Explicit(4, "positiveIntValue", Varint),
      Explicit(5, "negativeIntValue", Varint), Explicit(6, "doubleValue", Bit64),
      Explicit(7, "stringValue", Delimited), Explicit(8, "aggregateValue", Delimited)>>)

UninterpretedOption_NamePart == [namePart |-> Required, isExtension |-> Required]
UninterpretedOption_NamePart_Type ==
    MessageType("descriptor.UninterpretedOption_NamePart", UninterpretedOption_NamePart, <<
      Implicit(1, "namePart", Delimited), Implicit(2, "isExtension", Varint)>>)

FeatureSet ==
    [fieldPresence |-> Optional(Scalar), enumType |-> Optional(Scalar),
      repeatedFieldEncoding |-> Optional(Scalar), utf8Validation |-> Optional(Scalar),
      messageEncoding |-> Optional(Scalar), jsonFormat |-> Optional(Scalar),
      enforceNamingStyle |-> Optional(Scalar), defaultSymbolVisibility |-> Optional(Scalar)]
FeatureSet_Type ==
    MessageType("descriptor.FeatureSet", FeatureSet, <<Explicit(1, "fieldPresence", Varint),
      Explicit(2, "enumType", Varint), Explicit(3, "repeatedFieldEncoding", Varint),
      Explicit(4, "utf8Validation", Varint), Explicit(5, "messageEncoding", Varint),
      Explicit(6, "jsonFormat", Varint), Explicit(7, "enforceNamingStyle", Varint),
      Explicit(8, "defaultSymbolVisibility", Varint)>>)

FeatureSet_VisibilityFeature == NoProperties
FeatureSet_VisibilityFeature_Type ==
    MessageType("descriptor.FeatureSet_VisibilityFeature", FeatureSet_VisibilityFeature, <<>>)

FeatureSetDefaults ==
    [defaults |-> Many("descriptor.FeatureSetDefaults_FeatureSetEditionDefault"),
      minimumEdition |-> Optional(Scalar), maximumEdition |-> Optional(Scalar)]
FeatureSetDefaults_Type ==
    MessageType("descriptor.FeatureSetDefaults", FeatureSetDefaults, <<
      Repeated(1, "defaults", "descriptor.FeatureSetDefaults_FeatureSetEditionDefault"),
      Explicit(4, "minimumEdition", Varint), Explicit(5, "maximumEdition", Varint)>>)

FeatureSetDefaults_FeatureSetEditionDefault ==
    [edition |-> Optional(Scalar), overridableFeatures |-> Optional("descriptor.FeatureSet"),
      fixedFeatures |-> Optional("descriptor.FeatureSet")]
FeatureSetDefaults_FeatureSetEditionDefault_Type ==
    MessageType("descriptor.FeatureSetDefaults_FeatureSetEditionDefault",
         FeatureSetDefaults_FeatureSetEditionDefault, <<
      Explicit(3, "edition", Varint),
      Submessage(4, "overridableFeatures", "descriptor.FeatureSet"),
      Submessage(5, "fixedFeatures", "descriptor.FeatureSet")>>)

SourceCodeInfo == [location |-> Many("descriptor.SourceCodeInfo_Location")]
SourceCodeInfo_Type ==
    MessageType("descriptor.SourceCodeInfo", SourceCodeInfo, <<
      Repeated(1, "location", "descriptor.SourceCodeInfo_Location")>>)

SourceCodeInfo_Location ==
    [path |-> Many(Scalar), span |-> Many(Scalar), leadingComments |-> Optional(Scalar),
      trailingComments |-> Optional(Scalar), leadingDetachedComments |-> Many(Scalar)]
SourceCodeInfo_Location_Type ==
    MessageType("descriptor.SourceCodeInfo_Location", SourceCodeInfo_Location, <<
      Packed(1, "path", Varint), Packed(2, "span", Varint),
      Explicit(3, "leadingComments", Delimited), Explicit(4, "trailingComments", Delimited),
      Repeated(6, "leadingDetachedComments", Delimited)>>)

GeneratedCodeInfo == [annotation |-> Many("descriptor.GeneratedCodeInfo_Annotation")]
GeneratedCodeInfo_Type ==
    MessageType("descriptor.GeneratedCodeInfo", GeneratedCodeInfo, <<
      Repeated(1, "annotation", "descriptor.GeneratedCodeInfo_Annotation")>>)

GeneratedCodeInfo_Annotation ==
    [path |-> Many(Scalar), sourceFile |-> Optional(Scalar), begin |-> Optional(Scalar),
      end |-> Optional(Scalar), semantic |-> Optional(Scalar)]
GeneratedCodeInfo_Annotation_Type ==
    MessageType("descriptor.GeneratedCodeInfo_Annotation", GeneratedCodeInfo_Annotation, <<
      Packed(1, "path", Varint), Explicit(2, "sourceFile", Delimited),
      Explicit(3, "begin", Varint), Explicit(4, "end", Varint), Explicit(5, "semantic", Varint)>>)

\* Every message type of this package.
Messages ==
    <<FileDescriptorSet_Type, FileDescriptorProto_Type, DescriptorProto_Type,
      DescriptorProto_ExtensionRange_Type, DescriptorProto_ReservedRange_Type,
      ExtensionRangeOptions_Type, ExtensionRangeOptions_Declaration_Type,
      FieldDescriptorProto_Type, OneofDescriptorProto_Type, EnumDescriptorProto_Type,
      EnumDescriptorProto_EnumReservedRange_Type, EnumValueDescriptorProto_Type,
      ServiceDescriptorProto_Type, MethodDescriptorProto_Type, FileOptions_Type,
      MessageOptions_Type, FieldOptions_Type, FieldOptions_EditionDefault_Type,
      FieldOptions_FeatureSupport_Type, OneofOptions_Type, EnumOptions_Type,
      EnumValueOptions_Type, ServiceOptions_Type, MethodOptions_Type, UninterpretedOption_Type,
      UninterpretedOption_NamePart_Type, FeatureSet_Type, FeatureSet_VisibilityFeature_Type,
      FeatureSetDefaults_Type, FeatureSetDefaults_FeatureSetEditionDefault_Type,
      SourceCodeInfo_Type, SourceCodeInfo_Location_Type, GeneratedCodeInfo_Type,
      GeneratedCodeInfo_Annotation_Type>>
================================================================================
