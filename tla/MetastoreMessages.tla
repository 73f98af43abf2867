------------------------------ MODULE MetastoreMessages ------------------------------
(* The messages of the metastore service, as the generated client declares them: for each
   one its interface (what a value of it looks like) and its message type (how it is
   created, read and written).  The fields stand in the order in which internalBinaryWrite
   writes them. *)
EXTENDS WireFormat

GetOrCreateMappingsRequest == [mappings |-> Many("metastore.Mapping")]
GetOrCreateMappingsRequest_Type ==
    MessageType("metastore.GetOrCreateMappingsRequest", GetOrCreateMappingsRequest, <<
      Repeated(1, "mappings", "metastore.Mapping")>>)

GetOrCreateMappingsResponse == [mappings |-> Many("metastore.Mapping")]
GetOrCreateMappingsResponse_Type ==
    MessageType("metastore.GetOrCreateMappingsResponse", GetOrCreateMappingsResponse, <<
      Repeated(1, "mappings", "metastore.Mapping")>>)

GetOrCreateFunctionsRequest == [functions |-> Many("metastore.Function")]
GetOrCreateFunctionsRequest_Type ==
    MessageType("metastore.GetOrCreateFunctionsRequest", GetOrCreateFunctionsRequest, <<
      Repeated(1, "functions", "metastore.Function")>>)

GetOrCreateFunctionsResponse == [functions |-> Many("metastore.Function")]
GetOrCreateFunctionsResponse_Type ==
    MessageType("metastore.GetOrCreateFunctionsResponse", GetOrCreateFunctionsResponse, <<
      Repeated(1, "functions", "metastore.Function")>>)

GetOrCreateLocationsRequest == [locations |-> Many("metastore.Location")]
GetOrCreateLocationsRequest_Type ==
    MessageType("metastore.GetOrCreateLocationsRequest", GetOrCreateLocationsRequest, <<
      Repeated(1, "locations", "metastore.Location")>>)

GetOrCreateLocationsResponse == [locations |-> Many("metastore.Location")]
GetOrCreateLocationsResponse_Type ==
    MessageType("metastore.GetOrCreateLocationsResponse", GetOrCreateLocationsResponse, <<
      Repeated(1, "locations", "metastore.Location")>>)

GetOrCreateStacktracesRequest == [stacktraces |-> Many("metastore.Stacktrace")]
GetOrCreateStacktracesRequest_Type ==
    MessageType("metastore.GetOrCreateStacktracesRequest", GetOrCreateStacktracesRequest, <<
      Repeated(1, "stacktraces", "metastore.Stacktrace")>>)

GetOrCreateStacktracesResponse == [stacktraces |-> Many("metastore.Stacktrace")]
GetOrCreateStacktracesResponse_Type ==
    MessageType("metastore.GetOrCreateStacktracesResponse", GetOrCreateStacktracesResponse, <<
      Repeated(1, "stacktraces", "metastore.Stacktrace")>>)

UnsymbolizedLocationsRequest == [limit |-> Required, minKey |-> Required]
UnsymbolizedLocationsRequest_Type ==
    MessageType("metastore.UnsymbolizedLocationsRequest", UnsymbolizedLocationsRequest, <<
      Implicit(1, "limit", Varint), Implicit(2, "minKey", Delimited)>>)

UnsymbolizedLocationsResponse == [locations |-> Many("metastore.Location"), maxKey |-> Required]
UnsymbolizedLocationsResponse_Type ==
    MessageType("metastore.UnsymbolizedLocationsResponse", UnsymbolizedLocationsResponse, <<
      Repeated(1, "locations", "metastore.Location"), Implicit(2, "maxKey", Delimited)>>)

CreateLocationLinesRequest == [locations |-> Many("metastore.Location")]
CreateLocationLinesRequest_Type ==
    MessageType("metastore.CreateLocationLinesRequest", CreateLocationLinesRequest, <<
      Repeated(1, "locations", "metastore.Location")>>)

CreateLocationLinesResponse == NoProperties
CreateLocationLinesResponse_Type ==
    MessageType("metastore.CreateLocationLinesResponse", CreateLocationLinesResponse, <<>>)

StacktracesRequest == [stacktraceIds |-> Many(Scalar)]
StacktracesRequest_Type ==
    MessageType("metastore.StacktracesRequest", StacktracesRequest, <<
      Repeated(1, "stacktraceIds", Delimited)>>)

StacktracesResponse == [stacktraces |-> Many("metastore.Stacktrace")]
StacktracesResponse_Type ==
    MessageType("metastore.StacktracesResponse", StacktracesResponse, <<
      Repeated(1, "stacktraces", "metastore.Stacktrace")>>)

LocationsRequest == [locationIds |-> Many(Scalar)]
LocationsRequest_Type ==
    MessageType("metastore.LocationsRequest", LocationsRequest, <<
      Repeated(1, "locationIds", Delimited)>>)

LocationsResponse == [locations |-> Many("metastore.Location")]
LocationsResponse_Type ==
    MessageType("metastore.LocationsResponse", LocationsResponse, <<
      Repeated(1, "locations", "metastore.Location")>>)

LocationLinesRequest == [locationIds |-> Many(Scalar)]
LocationLinesRequest_Type ==
    MessageType("metastore.LocationLinesRequest", LocationLinesRequest, <<
      Repeated(1, "locationIds", Delimited)>>)

FunctionsRequest == [functionIds |-> Many(Scalar)]
FunctionsRequest_Type ==
    MessageType("metastore.FunctionsRequest", FunctionsRequest, <<
      Repeated(1, "functionIds", Delimited)>>)

FunctionsResponse == [functions |-> Many("metastore.Function")]
FunctionsResponse_Type ==
    MessageType("metastore.FunctionsResponse", FunctionsResponse, <<
      Repeated(1, "functions", "metastore.Function")>>)

MappingsRequest == [mappingIds |-> Many(Scalar)]
MappingsRequest_Type ==
    MessageType("metastore.MappingsRequest", MappingsRequest, <<
      Repeated(1, "mappingIds", Delimited)>>)

MappingsResponse == [mappings |-> Many("metastore.Mapping")]
MappingsResponse_Type ==
    MessageType("metastore.MappingsResponse", MappingsResponse, <<
      Repeated(1, "mappings", "metastore.Mapping")>>)

Sample ==
    [stacktraceId |-> Required, labels |-> MapOf("metastore.SampleLabel"),
      numLabels |-> MapOf("metastore.SampleNumLabel"),
      numUnits |-> MapOf("metastore.SampleNumUnit")]
Sample_Type ==
    MessageType("metastore.Sample", Sample, <<Implicit(1, "stacktraceId", Delimited),
      Map(2, "labels", "metastore.SampleLabel"), Map(3, "numLabels", "metastore.SampleNumLabel"),
      Map(4, "numUnits", "metastore.SampleNumUnit")>>)

Stacktrace == [id |-> Required, locationIds |-> Many(Scalar)]
Stacktrace_Type ==
    MessageType("metastore.Stacktrace", Stacktrace, <<Implicit(1, "id", Delimited),
      Repeated(2, "locationIds", Delimited)>>)

SampleLabel == [labels |-> Many(Scalar)]
SampleLabel_Type ==
    MessageType("metastore.SampleLabel", SampleLabel, <<Repeated(1, "labels", Delimited)>>)

SampleNumLabel == [numLabels |-> Many(Scalar)]
SampleNumLabel_Type ==
    MessageType("metastore.SampleNumLabel", SampleNumLabel, <<Packed(1, "numLabels", Varint)>>)

SampleNumUnit == [units |-> Many(Scalar)]
SampleNumUnit_Type ==
    MessageType("metastore.SampleNumUnit", SampleNumUnit, <<Repeated(1, "units", Delimited)>>)

Location ==
    [id |-> Required, address |-> Required, mappingId |-> Required, isFolded |-> Required,
      lines |-> Many("metastore.Line"), mappingIndex |-> Required]
Location_Type ==
    MessageType("metastore.Location", Location, <<Implicit(1, "id", Delimited),
      Implicit(2, "address", Varint), Implicit(4, "mappingId", Delimited),
      Implicit(5, "isFolded", Varint), Repeated(6, "lines", "metastore.Line"),
      Implicit(7, "mappingIndex", Varint)>>)

Line == [functionId |-> Required, line |-> Required, functionIndex |-> Required]
Line_Type ==
    MessageType("metastore.Line", Line, <<Implicit(1, "functionId", Delimited),
      Implicit(2, "line", Varint), Implicit(3, "functionIndex", Varint)>>)

Function ==
    [id |-> Required, startLine |-> Required, name |-> Required, systemName |-> Required,
      filename |-> Required, nameStringIndex |-> Required, systemNameStringIndex |-> Required,
      filenameStringIndex |-> Required]
Function_Type ==
    MessageType("metastore.Function", Function, <<Implicit(1, "id", Delimited),
      Implicit(2, "startLine", Varint), Implicit(3, "name", Delimited),
      Implicit(4, "systemName", Delimited), Implicit(5, "filename", Delimited),
      Implicit(6, "nameStringIndex", Varint), Implicit(7, "systemNameStringIndex", Varint),
      Implicit(8, "filenameStringIndex", Varint)>>)

Mapping ==
    [id |-> Required, start |-> Required, limit |-> Required, offset |-> Required,
      file |-> Required, buildId |-> Required, hasFunctions |-> Required,
      hasFilenames |-> Required, hasLineNumbers |-> Required, hasInlineFrames |-> Required,
      fileStringIndex |-> Required, buildIdStringIndex |-> Required]
Mapping_Type ==
    MessageType("metastore.Mapping", Mapping, <<Implicit(1, "id", Delimited),
      Implicit(2, "start", Varint), Implicit(3, "limit", Varint), Implicit(4, "offset", Varint),
      Implicit(5, "file", Delimited), Implicit(6, "buildId", Delimited),
      Implicit(7, "hasFunctions", Varint), Implicit(8, "hasFilenames", Varint),
      Implicit(9, "hasLineNumbers", Varint), Implicit(10, "hasInlineFrames", Varint),
      Implicit(11, "fileStringIndex", Varint), Implicit(12, "buildIdStringIndex", Varint)>>)

\* Every message type of this package.
Messages ==
    <<GetOrCreateMappingsRequest_Type, GetOrCreateMappingsResponse_Type,
      GetOrCreateFunctionsRequest_Type, GetOrCreateFunctionsResponse_Type,
      GetOrCreateLocationsRequest_Type, GetOrCreateLocationsResponse_Type,
      GetOrCreateStacktracesRequest_Type, GetOrCreateStacktracesResponse_Type,
      UnsymbolizedLocationsRequest_Type, UnsymbolizedLocationsResponse_Type,
      CreateLocationLinesRequest_Type, CreateLocationLinesResponse_Type, StacktracesRequest_Type,
      StacktracesResponse_Type, LocationsRequest_Type, LocationsResponse_Type,
      LocationLinesRequest_Type, FunctionsRequest_Type, FunctionsResponse_Type,
      MappingsRequest_Type, MappingsResponse_Type, Sample_Type, Stacktrace_Type,
      SampleLabel_Type, SampleNumLabel_Type, SampleNumUnit_Type, Location_Type, Line_Type,
      Function_Type, Mapping_Type>>
================================================================================
