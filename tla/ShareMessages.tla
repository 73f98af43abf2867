------------------------------ MODULE ShareMessages ------------------------------
(* The messages of the share service, as the generated client declares them: for each one
   its interface (what a value of it looks like) and its message type (how it is created,
   read and written).  The fields stand in the order in which internalBinaryWrite writes
   them. *)
EXTENDS WireFormat

UploadRequest == [profile |-> Required, description |-> Required]
UploadRequest_Type ==
    MessageType("share.UploadRequest", UploadRequest, <<Implicit(1, "profile", Delimited),
      Implicit(2, "description", Delimited)>>)

UploadResponse == [id |-> Required, link |-> Required]
UploadResponse_Type ==
    MessageType("share.UploadResponse", UploadResponse, <<Implicit(1, "id", Delimited),
      Implicit(2, "link", Delimited)>>)

QueryRequest ==
    [id |-> Required, profileType |-> Optional(Scalar), reportType |-> Required,
      filterQuery |-> Optional(Scalar), nodeTrimThreshold |-> Optional(Scalar),
      runtimeFilter |-> Optional("query.RuntimeFilter"), groupBy |-> Optional("query.GroupBy"),
      invertCallStack |-> Optional(Scalar), filter |-> Many("query.Filter"),
      sandwichByFunction |-> Optional(Scalar)]
QueryRequest_Type ==
    MessageType("share.QueryRequest", QueryRequest, <<Implicit(1, "id", Delimited),
      Explicit(2, "profileType", Delimited), Implicit(3, "reportType", Varint),
      Explicit(4, "filterQuery", Delimited), Explicit(5, "nodeTrimThreshold", Bit32),
      Submessage(6, "runtimeFilter", "query.RuntimeFilter"),
      Submessage(7, "groupBy", "query.GroupBy"), Explicit(8, "invertCallStack", Varint),
      Repeated(9, "filter", "query.Filter"), Explicit(10, "sandwichByFunction", Delimited)>>)

ProfileTypesRequest == [id |-> Required]
ProfileTypesRequest_Type ==
    MessageType("share.ProfileTypesRequest", ProfileTypesRequest, <<Implicit(1, "id", Delimited)>>)

ProfileTypesResponse == [types |-> Many("query.ProfileType"), description |-> Required]
ProfileTypesResponse_Type ==
    MessageType("share.ProfileTypesResponse", ProfileTypesResponse, <<
      Repeated(1, "types", "query.ProfileType"), Implicit(2, "description", Delimited)>>)

QueryResponse ==
    [
      report |-> OneOf([flamegraph |-> "query.Flamegraph", pprof |-> Scalar, top |-> "query.Top",
         callgraph |-> "query.Callgraph", flamegraphArrow |-> "query.FlamegraphArrow",
         source |-> "query.Source", tableArrow |-> "query.TableArrow",
         profileMetadata |-> "query.ProfileMetadata"]),
      total |-> Required, filtered |-> Required]
QueryResponse_Type ==
    MessageType("share.QueryResponse", QueryResponse, <<
      Oneof(1, "report", "flamegraph", "query.Flamegraph"),
      Oneof(2, "report", "pprof", Delimited), Oneof(3, "report", "top", "query.Top"),
      Oneof(4, "report", "callgraph", "query.Callgraph"), Implicit(5, "total", Varint),
      Implicit(6, "filtered", Varint),
      Oneof(7, "report", "flamegraphArrow", "query.FlamegraphArrow"),
      Oneof(8, "report", "source", "query.Source"),
      Oneof(9, "report", "tableArrow", "query.TableArrow"),
      Oneof(10, "report", "profileMetadata", "query.ProfileMetadata")>>)

\* Every message type of this package.
Messages ==
    <<UploadRequest_Type, UploadResponse_Type, QueryRequest_Type, ProfileTypesRequest_Type,
      ProfileTypesResponse_Type, QueryResponse_Type>>
================================================================================
