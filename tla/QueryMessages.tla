------------------------------ MODULE QueryMessages ------------------------------
(* The messages of the query service, as the generated client declares them: for each one
   its interface (what a value of it looks like) and its message type (how it is created,
   read and written).  The fields stand in the order in which internalBinaryWrite writes
   them. *)
EXTENDS WireFormat

ProfileTypesRequest == [start |-> Optional("time.Timestamp"), end |-> Optional("time.Timestamp")]
ProfileTypesRequest_Type ==
    MessageType("query.ProfileTypesRequest", ProfileTypesRequest, <<
      Submessage(1, "start", "time.Timestamp"), Submessage(2, "end", "time.Timestamp")>>)

ProfileTypesResponse == [types |-> Many("query.ProfileType")]
ProfileTypesResponse_Type ==
    MessageType("query.ProfileTypesResponse", ProfileTypesResponse, <<
      Repeated(1, "types", "query.ProfileType")>>)

ProfileType ==
    [name |-> Required, sampleType |-> Required, sampleUnit |-> Required,
      periodType |-> Required, periodUnit |-> Required, delta |-> Required]
ProfileType_Type ==
    MessageType("query.ProfileType", ProfileType, <<Implicit(1, "name", Delimited),
      Implicit(2, "sampleType", Delimited), Implicit(3, "sampleUnit", Delimited),
      Implicit(4, "periodType", Delimited), Implicit(5, "periodUnit", Delimited),
      Implicit(6, "delta", Varint)>>)

QueryRangeRequest ==
    [query |-> Required, start |-> Optional("time.Timestamp"),
      end |-> Optional("time.Timestamp"), limit |-> Required, step |-> Optional("time.Duration"),
      sumBy |-> Many(Scalar)]
QueryRangeRequest_Type ==
    MessageType("query.QueryRangeRequest", QueryRangeRequest, <<Implicit(1, "query", Delimited),
      Submessage(2, "start", "time.Timestamp"), Submessage(3, "end", "time.Timestamp"),
      Implicit(4, "limit", Varint), Submessage(5, "step", "time.Duration"),
      Repeated(6, "sumBy", Delimited)>>)

QueryRangeResponse == [series |-> Many("query.MetricsSeries")]
QueryRangeResponse_Type ==
    MessageType("query.QueryRangeResponse", QueryRangeResponse, <<
      Repeated(1, "series", "query.MetricsSeries")>>)

MetricsSeries ==
    [labelset |-> Optional("profilestore.LabelSet"), samples |-> Many("query.MetricsSample"),
      periodType |-> Optional("query.ValueType"), sampleType |-> Optional("query.ValueType")]
MetricsSeries_Type ==
    MessageType("query.MetricsSeries", MetricsSeries, <<
      Submessage(1, "labelset", "profilestore.LabelSet"),
      Repeated(2, "samples", "query.MetricsSample"),
      Submessage(3, "periodType", "query.ValueType"),
      Submessage(4, "sampleType", "query.ValueType")>>)

MetricsSample ==
    [timestamp |-> Optional("time.Timestamp"), value |-> Required, valuePerSecond |-> Required,
      duration |-> Required, count |-> Required]
MetricsSample_Type ==
    MessageType("query.MetricsSample", MetricsSample, <<
      Submessage(1, "timestamp", "time.Timestamp"), Implicit(2, "value", Varint),
      Implicit(3, "valuePerSecond", Bit64), Implicit(4, "duration", Varint),
      Implicit(5, "count", Varint)>>)

MergeProfile ==
    [query |-> Required, start |-> Optional("time.Timestamp"), end |-> Optional("time.Timestamp")]
MergeProfile_Type ==
    MessageType("query.MergeProfile", MergeProfile, <<Implicit(1, "query", Delimited),
      Submessage(2, "start", "time.Timestamp"), Submessage(3, "end", "time.Timestamp")>>)

SingleProfile == [time |-> Optional("time.Timestamp"), query |-> Required]
SingleProfile_Type ==
    MessageType("query.SingleProfile", SingleProfile, <<Submessage(1, "time", "time.Timestamp"),
      Implicit(2, "query", Delimited)>>)

DiffProfile ==
    [a |-> Optional("query.ProfileDiffSelection"), b |-> Optional("query.ProfileDiffSelection"),
      absolute |-> Optional(Scalar)]
DiffProfile_Type ==
    MessageType("query.DiffProfile", DiffProfile, <<
      Submessage(1, "a", "query.ProfileDiffSelection"),
      Submessage(2, "b", "query.ProfileDiffSelection"), Explicit(3, "absolute", Varint)>>)

ProfileDiffSelection ==
    [mode |-> Required,
      options |-> OneOf([merge |-> "query.MergeProfile", single |-> "query.SingleProfile"])]
ProfileDiffSelection_Type ==
    MessageType("query.ProfileDiffSelection", ProfileDiffSelection, <<
      Implicit(1, "mode", Varint), Oneof(2, "options", "merge", "query.MergeProfile"),
      Oneof(3, "options", "single", "query.SingleProfile")>>)

QueryRequest ==
    [mode |-> Required,
      options |-> OneOf([diff |-> "query.DiffProfile", merge |-> "query.MergeProfile",
         single |-> "query.SingleProfile"]),
      reportType |-> Required, filterQuery |-> Optional(Scalar),
      nodeTrimThreshold |-> Optional(Scalar), groupBy |-> Optional("query.GroupBy"),
      sourceReference |-> Optional("query.SourceReference"),
      runtimeFilter |-> Optional("query.RuntimeFilter"), invertCallStack |-> Optional(Scalar),
      filter |-> Many("query.Filter"), sandwichByFunction |-> Optional(Scalar)]
QueryRequest_Type ==
    MessageType("query.QueryRequest", QueryRequest, <<Implicit(1, "mode", Varint),
      Oneof(2, "options", "diff", "query.DiffProfile"),
      Oneof(3, "options", "merge", "query.MergeProfile"),
      Oneof(4, "options", "single", "query.SingleProfile"), Implicit(5, "reportType", Varint),
      Explicit(6, "filterQuery", Delimited), Explicit(7, "nodeTrimThreshold", Bit32),
      Submessage(8, "groupBy", "query.GroupBy"),
      Submessage(9, "sourceReference", "query.SourceReference"),
      Submessage(10, "runtimeFilter", "query.RuntimeFilter"),
      Explicit(11, "invertCallStack", Varint), Repeated(12, "filter", "query.Filter"),
      Explicit(13, "sandwichByFunction", Delimited)>>)

FilterCriteria ==
    [functionName |-> Optional("query.StringCondition"),
      systemName |-> Optional("query.StringCondition"),
      binary |-> Optional("query.StringCondition"),
      filename |-> Optional("query.StringCondition"),
      address |-> Optional("query.NumberCondition"),
      lineNumber |-> Optional("query.NumberCondition")]
FilterCriteria_Type ==
    MessageType("query.FilterCriteria", FilterCriteria, <<
      Submessage(1, "functionName", "query.StringCondition"),
      Submessage(2, "systemName", "query.StringCondition"),
      Submessage(3, "binary", "query.StringCondition"),
      Submessage(4, "filename", "query.StringCondition"),
      Submessage(5, "address", "query.NumberCondition"),
      Submessage(6, "lineNumber", "query.NumberCondition")>>)

StringCondition ==
    [
      condition |-> OneOf([equal |-> Scalar, notEqual |-> Scalar, contains |-> Scalar,
         notContains |-> Scalar, startsWith |-> Scalar, notStartsWith |-> Scalar])]
StringCondition_Type ==
    MessageType("query.StringCondition", StringCondition, <<
      Oneof(1, "condition", "equal", Delimited), Oneof(2, "condition", "notEqual", Delimited),
      Oneof(3, "condition", "contains", Delimited),
      Oneof(4, "condition", "notContains", Delimited),
      Oneof(5, "condition", "startsWith", Delimited),
      Oneof(6, "condition", "notStartsWith", Delimited)>>)

NumberCondition == [condition |-> OneOf([equal |-> Scalar, notEqual |-> Scalar])]
NumberCondition_Type ==
    MessageType("query.NumberCondition", NumberCondition, <<
      Oneof(1, "condition", "equal", Varint), Oneof(2, "condition", "notEqual", Varint)>>)

Filter ==
    [filter |-> OneOf([stackFilter |-> "query.StackFilter", frameFilter |-> "query.FrameFilter"])]
Filter_Type ==
    MessageType("query.Filter", Filter, <<Oneof(1, "filter", "stackFilter", "query.StackFilter"),
      Oneof(2, "filter", "frameFilter", "query.FrameFilter")>>)

StackFilter ==
    [
      filter |-> OneOf([functionNameStackFilter |-> "query.FunctionNameStackFilter",
         criteria |-> "query.FilterCriteria"])]
StackFilter_Type ==
    MessageType("query.StackFilter", StackFilter, <<
      Oneof(1, "filter", "functionNameStackFilter", "query.FunctionNameStackFilter"),
      Oneof(2, "filter", "criteria", "query.FilterCriteria")>>)

FunctionNameStackFilter == [functionToFilter |-> Required, exclude |-> Required]
FunctionNameStackFilter_Type ==
    MessageType("query.FunctionNameStackFilter", FunctionNameStackFilter, <<
      Implicit(1, "functionToFilter", Delimited), Implicit(2, "exclude", Varint)>>)

FrameFilter ==
    [
      filter |-> OneOf([binaryFrameFilter |-> "query.BinaryFrameFilter",
         criteria |-> "query.FilterCriteria"])]
FrameFilter_Type ==
    MessageType("query.FrameFilter", FrameFilter, <<
      Oneof(1, "filter", "binaryFrameFilter", "query.BinaryFrameFilter"),
      Oneof(2, "filter", "criteria", "query.FilterCriteria")>>)

BinaryFrameFilter == [includeBinaries |-> Many(Scalar)]
BinaryFrameFilter_Type ==
    MessageType("query.BinaryFrameFilter", BinaryFrameFilter, <<
      Repeated(1, "includeBinaries", Delimited)>>)

RuntimeFilter ==
    [showPython |-> Required, showRuby |-> Required, showInterpretedOnly |-> Required]
RuntimeFilter_Type ==
    MessageType("query.RuntimeFilter", RuntimeFilter, <<Implicit(1, "showPython", Varint),
      Implicit(2, "showRuby", Varint), Implicit(3, "showInterpretedOnly", Varint)>>)

SourceReference == [buildId |-> Required, filename |-> Required, sourceOnly |-> Required]
SourceReference_Type ==
    MessageType("query.SourceReference", SourceReference, <<Implicit(1, "buildId", Delimited),
      Implicit(2, "filename", Delimited), Implicit(3, "sourceOnly", Varint)>>)

GroupBy == [fields |-> Many(Scalar)]
GroupBy_Type == MessageType("query.GroupBy", GroupBy, <<Repeated(1, "fields", Delimited)>>)

Top ==
    [list |-> Many("query.TopNode"), reported |-> Required, total |-> Required, unit |-> Required]
Top_Type ==
    MessageType("query.Top", Top, <<Repeated(1, "list", "query.TopNode"),
      Implicit(2, "reported", Varint), Implicit(3, "total", Varint),
      Implicit(4, "unit", Delimited)>>)

TopNode ==
    [meta |-> Optional("query.TopNodeMeta"), cumulative |-> Required, flat |-> Required,
      diff |-> Required]
TopNode_Type ==
    MessageType("query.TopNode", TopNode, <<Submessage(1, "meta", "query.TopNodeMeta"),
      Implicit(2, "cumulative", Varint), Implicit(3, "flat", Varint), Implicit(4, "diff", Varint)>>)

TopNodeMeta ==
    [location |-> Optional("metastore.Location"), mapping |-> Optional("metastore.Mapping"),
      function |-> Optional("metastore.Function"), line |-> Optional("metastore.Line")]
TopNodeMeta_Type ==
    MessageType("query.TopNodeMeta", TopNodeMeta, <<
      Submessage(1, "location", "metastore.Location"),
      Submessage(2, "mapping", "metastore.Mapping"),
      Submessage(3, "function", "metastore.Function"), Submessage(4, "line", "metastore.Line")>>)

Flamegraph ==
    [root |-> Optional("query.FlamegraphRootNode"), total |-> Required, unit |-> Required,
      height |-> Required, stringTable |-> Many(Scalar),
      locations |-> Many("metastore.Location"), mapping |-> Many("metastore.Mapping"),
      function |-> Many("metastore.Function"), untrimmedTotal |-> Required, trimmed |-> Required]
Flamegraph_Type ==
    MessageType("query.Flamegraph", Flamegraph, <<
      Submessage(1, "root", "query.FlamegraphRootNode"), Implicit(2, "total", Varint),
      Implicit(3, "unit", Delimited), Implicit(4, "height", Varint),
      Repeated(5, "stringTable", Delimited), Repeated(6, "locations", "metastore.Location"),
      Repeated(7, "mapping", "metastore.Mapping"), Repeated(8, "function", "metastore.Function"),
      Implicit(9, "untrimmedTotal", Varint), Implicit(10, "trimmed", Varint)>>)

FlamegraphArrow ==
    [record |-> Required, unit |-> Required, height |-> Required, trimmed |-> Required]
FlamegraphArrow_Type ==
    MessageType("query.FlamegraphArrow", FlamegraphArrow, <<Implicit(1, "record", Delimited),
      Implicit(2, "unit", Delimited), Implicit(3, "height", Varint),
      Implicit(4, "trimmed", Varint)>>)

Source == [record |-> Required, source |-> Required, unit |-> Required]
Source_Type ==
    MessageType("query.Source", Source, <<Implicit(1, "record", Delimited),
      Implicit(2, "source", Delimited), Implicit(3, "unit", Delimited)>>)

FlamegraphRootNode ==
    [cumulative |-> Required, diff |-> Required, children |-> Many("query.FlamegraphNode")]
FlamegraphRootNode_Type ==
    MessageType("query.FlamegraphRootNode", FlamegraphRootNode, <<
      Implicit(1, "cumulative", Varint), Implicit(2, "diff", Varint),
      Repeated(3, "children", "query.FlamegraphNode")>>)

FlamegraphNode ==
    [meta |-> Optional("query.FlamegraphNodeMeta"), cumulative |-> Required, diff |-> Required,
      children |-> Many("query.FlamegraphNode")]
FlamegraphNode_Type ==
    MessageType("query.FlamegraphNode", FlamegraphNode, <<
      Submessage(1, "meta", "query.FlamegraphNodeMeta"), Implicit(2, "cumulative", Varint),
      Implicit(3, "diff", Varint), Repeated(4, "children", "query.FlamegraphNode")>>)

FlamegraphNodeMeta ==
    [location |-> Optional("metastore.Location"), mapping |-> Optional("metastore.Mapping"),
      function |-> Optional("metastore.Function"), line |-> Optional("metastore.Line"),
      locationIndex |-> Required, lineIndex |-> Required]
FlamegraphNodeMeta_Type ==
    MessageType("query.FlamegraphNodeMeta", FlamegraphNodeMeta, <<
      Submessage(1, "location", "metastore.Location"),
      Submessage(2, "mapping", "metastore.Mapping"),
      Submessage(3, "function", "metastore.Function"), Submessage(4, "line", "metastore.Line"),
      Implicit(5, "locationIndex", Varint), Implicit(6, "lineIndex", Varint)>>)

CallgraphNode ==
    [id |-> Required, meta |-> Optional("query.CallgraphNodeMeta"), cumulative |-> Required,
      flat |-> Required]
CallgraphNode_Type ==
    MessageType("query.CallgraphNode", CallgraphNode, <<Implicit(1, "id", Delimited),
      Submessage(2, "meta", "query.CallgraphNodeMeta"), Implicit(3, "cumulative", Varint),
      Implicit(4, "flat", Varint)>>)

CallgraphNodeMeta ==
    [location |-> Optional("metastore.Location"), mapping |-> Optional("metastore.Mapping"),
      function |-> Optional("metastore.Function"), line |-> Optional("metastore.Line")]
CallgraphNodeMeta_Type ==
    MessageType("query.CallgraphNodeMeta", CallgraphNodeMeta, <<
      Submessage(1, "location", "metastore.Location"),
      Submessage(2, "mapping", "metastore.Mapping"),
      Submessage(3, "function", "metastore.Function"), Submessage(4, "line", "metastore.Line")>>)

CallgraphEdge ==
    [id |-> Required, source |-> Required, target |-> Required, cumulative |-> Required,
      isCollapsed |-> Required]
CallgraphEdge_Type ==
    MessageType("query.CallgraphEdge", CallgraphEdge, <<Implicit(1, "id", Delimited),
      Implicit(2, "source", Delimited), Implicit(3, "target", Delimited),
      Implicit(4, "cumulative", Varint), Implicit(5, "isCollapsed", Varint)>>)

Callgraph ==
    [nodes |-> Many("query.CallgraphNode"), edges |-> Many("query.CallgraphEdge"),
      cumulative |-> Required]
Callgraph_Type ==
    MessageType("query.Callgraph", Callgraph, <<Repeated(1, "nodes", "query.CallgraphNode"),
      Repeated(2, "edges", "query.CallgraphEdge"), Implicit(3, "cumulative", Varint)>>)

QueryResponse ==
    [
      report |-> OneOf([flamegraph |-> "query.Flamegraph", pprof |-> Scalar, top |-> "query.Top",
         callgraph |-> "query.Callgraph", flamegraphArrow |-> "query.FlamegraphArrow",
         source |-> "query.Source", tableArrow |-> "query.TableArrow",
         profileMetadata |-> "query.ProfileMetadata"]),
      total |-> Required, filtered |-> Required]
QueryResponse_Type ==
    MessageType("query.QueryResponse", QueryResponse, <<
      Oneof(5, "report", "flamegraph", "query.Flamegraph"),
      Oneof(6, "report", "pprof", Delimited), Oneof(7, "report", "top", "query.Top"),
      Oneof(8, "report", "callgraph", "query.Callgraph"), Implicit(9, "total", Varint),
      Implicit(10, "filtered", Varint),
      Oneof(11, "report", "flamegraphArrow", "query.FlamegraphArrow"),
      Oneof(12, "report", "source", "query.Source"),
      Oneof(13, "report", "tableArrow", "query.TableArrow"),
      Oneof(14, "report", "profileMetadata", "query.ProfileMetadata")>>)

SeriesRequest ==
    [match |-> Many(Scalar), start |-> Optional("time.Timestamp"),
      end |-> Optional("time.Timestamp")]
SeriesRequest_Type ==
    MessageType("query.SeriesRequest", SeriesRequest, <<Repeated(1, "match", Delimited),
      Submessage(2, "start", "time.Timestamp"), Submessage(3, "end", "time.Timestamp")>>)

SeriesResponse == NoProperties
SeriesResponse_Type == MessageType("query.SeriesResponse", SeriesResponse, <<>>)

LabelsRequest ==
    [match |-> Many(Scalar), start |-> Optional("time.Timestamp"),
      end |-> Optional("time.Timestamp"), profileType |-> Optional(Scalar)]
LabelsRequest_Type ==
    MessageType("query.LabelsRequest", LabelsRequest, <<Repeated(1, "match", Delimited),
      Submessage(2, "start", "time.Timestamp"), Submessage(3, "end", "time.Timestamp"),
      Explicit(4, "profileType", Delimited)>>)

LabelsResponse == [labelNames |-> Many(Scalar), warnings |-> Many(Scalar)]
LabelsResponse_Type ==
    MessageType("query.LabelsResponse", LabelsResponse, <<Repeated(1, "labelNames", Delimited),
      Repeated(2, "warnings", Delimited)>>)

ValuesRequest ==
    [labelName |-> Required, match |-> Many(Scalar), start |-> Optional("time.Timestamp"),
      end |-> Optional("time.Timestamp"), profileType |-> Optional(Scalar)]
ValuesRequest_Type ==
    MessageType("query.ValuesRequest", ValuesRequest, <<Implicit(1, "labelName", Delimited),
      Repeated(2, "match", Delimited), Submessage(3, "start", "time.Timestamp"),
      Submessage(4, "end", "time.Timestamp"), Explicit(5, "profileType", Delimited)>>)

ValuesResponse == [labelValues |-> Many(Scalar), warnings |-> Many(Scalar)]
ValuesResponse_Type ==
    MessageType("query.ValuesResponse", ValuesResponse, <<Repeated(1, "labelValues", Delimited),
      Repeated(2, "warnings", Delimited)>>)

ValueType == [type |-> Required, unit |-> Required]
ValueType_Type ==
    MessageType("query.ValueType", ValueType, <<Implicit(1, "type", Delimited),
      Implicit(2, "unit", Delimited)>>)

ShareProfileRequest ==
    [queryRequest |-> Optional("query.QueryRequest"), description |-> Optional(Scalar)]
ShareProfileRequest_Type ==
    MessageType("query.ShareProfileRequest", ShareProfileRequest, <<
      Submessage(1, "queryRequest", "query.QueryRequest"), Explicit(2, "description", Delimited)>>)

ShareProfileResponse == [link |-> Required]
ShareProfileResponse_Type ==
    MessageType("query.ShareProfileResponse", ShareProfileResponse, <<
      Implicit(1, "link", Delimited)>>)

TableArrow == [record |-> Required, unit |-> Required]
TableArrow_Type ==
    MessageType("query.TableArrow", TableArrow, <<Implicit(1, "record", Delimited),
      Implicit(2, "unit", Delimited)>>)

ProfileMetadata == [mappingFiles |-> Many(Scalar), labels |-> Many(Scalar)]
ProfileMetadata_Type ==
    MessageType("query.ProfileMetadata", ProfileMetadata, <<
      Repeated(1, "mappingFiles", Delimited), Repeated(2, "labels", Delimited)>>)

HasProfileDataRequest == NoProperties
HasProfileDataRequest_Type ==
    MessageType("query.HasProfileDataRequest", HasProfileDataRequest, <<>>)

HasProfileDataResponse == [hasData |-> Required]
HasProfileDataResponse_Type ==
    MessageType("query.HasProfileDataResponse", HasProfileDataResponse, <<
      Implicit(1, "hasData", Varint)>>)

\* Every message type of this package.
Messages ==
    <<ProfileTypesRequest_Type, ProfileTypesResponse_Type, ProfileType_Type,
      QueryRangeRequest_Type, QueryRangeResponse_Type, MetricsSeries_Type, MetricsSample_Type,
      MergeProfile_Type, SingleProfile_Type, DiffProfile_Type, ProfileDiffSelection_Type,
      QueryRequest_Type, FilterCriteria_Type, StringCondition_Type, NumberCondition_Type,
      Filter_Type, StackFilter_Type, FunctionNameStackFilter_Type, FrameFilter_Type,
      BinaryFrameFilter_Type, RuntimeFilter_Type, SourceReference_Type, GroupBy_Type, Top_Type,
      TopNode_Type, TopNodeMeta_Type, Flamegraph_Type, FlamegraphArrow_Type, Source_Type,
      FlamegraphRootNode_Type, FlamegraphNode_Type, FlamegraphNodeMeta_Type, CallgraphNode_Type,
      CallgraphNodeMeta_Type, CallgraphEdge_Type, Callgraph_Type, QueryResponse_Type,
      SeriesRequest_Type, SeriesResponse_Type, LabelsRequest_Type, LabelsResponse_Type,
      ValuesRequest_Type, ValuesResponse_Type, ValueType_Type, ShareProfileRequest_Type,
      ShareProfileResponse_Type, TableArrow_Type, ProfileMetadata_Type,
      HasProfileDataRequest_Type, HasProfileDataResponse_Type>>
================================================================================
