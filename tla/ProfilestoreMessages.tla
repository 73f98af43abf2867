------------------------------ MODULE ProfilestoreMessages ------------------------------
(* The messages of the profile store service, as the generated client declares them: for
   each one its interface (what a value of it looks like) and its message type (how it is
   created, read and written).  The fields stand in the order in which internalBinaryWrite
   writes them. *)
EXTENDS WireFormat

WriteRequest == [record |-> Required]
WriteRequest_Type ==
    MessageType("profilestore.WriteRequest", WriteRequest, <<Implicit(1, "record", Delimited)>>)

WriteResponse == [record |-> Required]
WriteResponse_Type ==
    MessageType("profilestore.WriteResponse", WriteResponse, <<Implicit(1, "record", Delimited)>>)

WriteArrowRequest == [ipcBuffer |-> Required]
WriteArrowRequest_Type ==
    MessageType("profilestore.WriteArrowRequest", WriteArrowRequest, <<
      Implicit(1, "ipcBuffer", Delimited)>>)

WriteArrowResponse == NoProperties
WriteArrowResponse_Type ==
    MessageType("profilestore.WriteArrowResponse", WriteArrowResponse, <<>>)

WriteRawRequest ==
    [tenant |-> Required, series |-> Many("profilestore.RawProfileSeries"),
      normalized |-> Required]
WriteRawRequest_Type ==
    MessageType("profilestore.WriteRawRequest", WriteRawRequest, <<
      Implicit(1, "tenant", Delimited), Repeated(2, "series", "profilestore.RawProfileSeries"),
      Implicit(3, "normalized", Varint)>>)

WriteRawResponse == NoProperties
WriteRawResponse_Type == MessageType("profilestore.WriteRawResponse", WriteRawResponse, <<>>)

RawProfileSeries ==
    [labels |-> Optional("profilestore.LabelSet"), samples |-> Many("profilestore.RawSample")]
RawProfileSeries_Type ==
    MessageType("profilestore.RawProfileSeries", RawProfileSeries, <<
      Submessage(1, "labels", "profilestore.LabelSet"),
      Repeated(2, "samples", "profilestore.RawSample")>>)

Label == [name |-> Required, value |-> Required]
Label_Type ==
    MessageType("profilestore.Label", Label, <<Implicit(1, "name", Delimited),
      Implicit(2, "value", Delimited)>>)

LabelSet == [labels |-> Many("profilestore.Label")]
LabelSet_Type ==
    MessageType("profilestore.LabelSet", LabelSet, <<Repeated(1, "labels", "profilestore.Label")>>)

RawSample == [rawProfile |-> Required, executableInfo |-> Many("profilestore.ExecutableInfo")]
RawSample_Type ==
    MessageType("profilestore.RawSample", RawSample, <<Implicit(1, "rawProfile", Delimited),
      Repeated(2, "executableInfo", "profilestore.ExecutableInfo")>>)

ExecutableInfo == [elfType |-> Required, loadSegment |-> Optional("profilestore.LoadSegment")]
ExecutableInfo_Type ==
    MessageType("profilestore.ExecutableInfo", ExecutableInfo, <<Implicit(1, "elfType", Varint),
      Submessage(2, "loadSegment", "profilestore.LoadSegment")>>)

LoadSegment == [offset |-> Required, vaddr |-> Required]
LoadSegment_Type ==
    MessageType("profilestore.LoadSegment", LoadSegment, <<Implicit(1, "offset", Varint),
      Implicit(2, "vaddr", Varint)>>)

AgentsRequest == NoProperties
AgentsRequest_Type == MessageType("profilestore.AgentsRequest", AgentsRequest, <<>>)

AgentsResponse == [agents |-> Many("profilestore.Agent")]
AgentsResponse_Type ==
    MessageType("profilestore.AgentsResponse", AgentsResponse, <<
      Repeated(1, "agents", "profilestore.Agent")>>)

Agent ==
    [id |-> Required, lastError |-> Required, lastPush |-> Optional("time.Timestamp"),
      lastPushDuration |-> Optional("time.Duration")]
Agent_Type ==
    MessageType("profilestore.Agent", Agent, <<Implicit(1, "id", Delimited),
      Implicit(2, "lastError", Delimited), Submessage(3, "lastPush", "time.Timestamp"),
      Submessage(4, "lastPushDuration", "time.Duration")>>)

\* Every message type of this package.
Messages ==
    <<WriteRequest_Type, WriteResponse_Type, WriteArrowRequest_Type, WriteArrowResponse_Type,
      WriteRawRequest_Type, WriteRawResponse_Type, RawProfileSeries_Type, Label_Type,
      LabelSet_Type, RawSample_Type, ExecutableInfo_Type, LoadSegment_Type, AgentsRequest_Type,
      AgentsResponse_Type, Agent_Type>>
================================================================================
