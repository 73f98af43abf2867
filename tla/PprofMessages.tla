------------------------------ MODULE PprofMessages ------------------------------
(* The messages of the extended pprof format of OpenTelemetry, as the generated client
   declares them: for each one its interface (what a value of it looks like) and its
   message type (how it is created, read and written).  The fields stand in the order in
   which internalBinaryWrite writes them. *)
EXTENDS WireFormat

Profile ==
    [sampleType |-> Many("pprof.ValueType"), sample |-> Many("pprof.Sample"),
      mapping |-> Many("pprof.Mapping"), location |-> Many("pprof.Location"),
      locationIndices |-> Many(Scalar), function |-> Many("pprof.Function"),
      attributeTable |-> Many("otel.KeyValue"), attributeUnits |-> Many("pprof.AttributeUnit"),
      linkTable |-> Many("pprof.Link"), stringTable |-> Many(Scalar), dropFrames |-> Required,
      keepFrames |-> Required, timeNanos |-> Required, durationNanos |-> Required,
      periodType |-> Optional("pprof.ValueType"), period |-> Required, comment |-> Many(Scalar),
      defaultSampleType |-> Required]
Profile_Type ==
    MessageType("pprof.Profile", Profile, <<Repeated(1, "sampleType", "pprof.ValueType"),
      Repeated(2, "sample", "pprof.Sample"), Repeated(3, "mapping", "pprof.Mapping"),
      Repeated(4, "location", "pprof.Location"), Packed(15, "locationIndices", Varint),
      Repeated(5, "function", "pprof.Function"), Repeated(16, "attributeTable", "otel.KeyValue"),
      Repeated(17, "attributeUnits", "pprof.AttributeUnit"),
      Repeated(18, "linkTable", "pprof.Link"), Repeated(6, "stringTable", Delimited),
      Implicit(7, "dropFrames", Varint), Implicit(8, "keepFrames", Varint),
      Implicit(9, "timeNanos", Varint), Implicit(10, "durationNanos", Varint),
      Submessage(11, "periodType", "pprof.ValueType"), Implicit(12, "period", Varint),
      Packed(13, "comment", Varint), Implicit(14, "defaultSampleType", Varint)>>)

AttributeUnit == [attributeKey |-> Required, unit |-> Required]
AttributeUnit_Type ==
    MessageType("pprof.AttributeUnit", AttributeUnit, <<Implicit(1, "attributeKey", Varint),
      Implicit(2, "unit", Varint)>>)

Link == [traceId |-> Required, spanId |-> Required]
Link_Type ==
    MessageType("pprof.Link", Link, <<Implicit(1, "traceId", Delimited),
      Implicit(2, "spanId", Delimited)>>)

ValueType == [type |-> Required, unit |-> Required, aggregationTemporality |-> Required]
ValueType_Type ==
    MessageType("pprof.ValueType", ValueType, <<Implicit(1, "type", Varint),
      Implicit(2, "unit", Varint), Implicit(3, "aggregationTemporality", Varint)>>)

Sample ==
    [locationIndex |-> Many(Scalar), locationsStartIndex |-> Required,
      locationsLength |-> Required, stacktraceIdIndex |-> Required, value |-> Many(Scalar),
      label |-> Many("pprof.Label"), attributes |-> Many(Scalar), link |-> Required,
      timestamps |-> Many(Scalar)]
Sample_Type ==
    MessageType("pprof.Sample", Sample, <<Packed(1, "locationIndex", Varint),
      Implicit(7, "locationsStartIndex", Varint), Implicit(8, "locationsLength", Varint),
      Implicit(9, "stacktraceIdIndex", Varint), Packed(2, "value", Varint),
      Repeated(3, "label", "pprof.Label"), Packed(10, "attributes", Varint),
      Implicit(12, "link", Varint), Packed(13, "timestamps", Varint)>>)

Label == [key |-> Required, str |-> Required, num |-> Required, numUnit |-> Required]
Label_Type ==
    MessageType("pprof.Label", Label, <<Implicit(1, "key", Varint), Implicit(2, "str", Varint),
      Implicit(3, "num", Varint), Implicit(4, "numUnit", Varint)>>)

Mapping ==
    [id |-> Required, memoryStart |-> Required, memoryLimit |-> Required,
      fileOffset |-> Required, filename |-> Required, buildId |-> Required,
      buildIdKind |-> Required, attributes |-> Many(Scalar), hasFunctions |-> Required,
      hasFilenames |-> Required, hasLineNumbers |-> Required, hasInlineFrames |-> Required]
Mapping_Type ==
    MessageType("pprof.Mapping", Mapping, <<Implicit(1, "id", Varint),
      Implicit(2, "memoryStart", Varint), Implicit(3, "memoryLimit", Varint),
      Implicit(4, "fileOffset", Varint), Implicit(5, "filename", Varint),
      Implicit(6, "buildId", Varint), Implicit(11, "buildIdKind", Varint),
      Packed(12, "attributes", Varint), Implicit(7, "hasFunctions", Varint),
      Implicit(8, "hasFilenames", Varint), Implicit(9, "hasLineNumbers", Varint),
      Implicit(10, "hasInlineFrames", Varint)>>)

Location ==
    [id |-> Required, mappingIndex |-> Required, address |-> Required,
      line |-> Many("pprof.Line"), isFolded |-> Required, typeIndex |-> Required,
      attributes |-> Many(Scalar)]
Location_Type ==
    MessageType("pprof.Location", Location, <<Implicit(1, "id", Varint),
      Implicit(2, "mappingIndex", Varint), Implicit(3, "address", Varint),
      Repeated(4, "line", "pprof.Line"), Implicit(5, "isFolded", Varint),
      Implicit(6, "typeIndex", Varint), Packed(7, "attributes", Varint)>>)

Line == [functionIndex |-> Required, line |-> Required, column |-> Required]
Line_Type ==
    MessageType("pprof.Line", Line, <<Implicit(1, "functionIndex", Varint),
      Implicit(2, "line", Varint), Implicit(3, "column", Varint)>>)

Function ==
    [id |-> Required, name |-> Required, systemName |-> Required, filename |-> Required,
      startLine |-> Required]
Function_Type ==
    MessageType("pprof.Function", Function, <<Implicit(1, "id", Varint),
      Implicit(2, "name", Varint), Implicit(3, "systemName", Varint),
      Implicit(4, "filename", Varint), Implicit(5, "startLine", Varint)>>)

\* Every message type of this package.
Messages ==
    <<Profile_Type, AttributeUnit_Type, Link_Type, ValueType_Type, Sample_Type, Label_Type,
      Mapping_Type, Location_Type, Line_Type, Function_Type>>
================================================================================
