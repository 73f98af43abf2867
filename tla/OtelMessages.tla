------------------------------ MODULE OtelMessages ------------------------------
(* The messages of the OpenTelemetry common, resource and profiles packages, as the
   generated client declares them: for each one its interface (what a value of it looks
   like) and its message type (how it is created, read and written).  The fields stand in
   the order in which internalBinaryWrite writes them. *)
EXTENDS WireFormat

AnyValue ==
    [
      value |-> OneOf([stringValue |-> Scalar, boolValue |-> Scalar, intValue |-> Scalar,
         doubleValue |-> Scalar, arrayValue |-> "otel.ArrayValue",
         kvlistValue |-> "otel.KeyValueList", bytesValue |-> Scalar])]
AnyValue_Type ==
    MessageType("otel.AnyValue", AnyValue, <<Oneof(1, "value", "stringValue", Delimited),
      Oneof(2, "value", "boolValue", Varint), Oneof(3, "value", "intValue", Varint),
      Oneof(4, "value", "doubleValue", Bit64),
      Oneof(5, "value", "arrayValue", "otel.ArrayValue"),
      Oneof(6, "value", "kvlistValue", "otel.KeyValueList"),
      Oneof(7, "value", "bytesValue", Delimited)>>)

ArrayValue == [values |-> Many("otel.AnyValue")]
ArrayValue_Type ==
    MessageType("otel.ArrayValue", ArrayValue, <<Repeated(1, "values", "otel.AnyValue")>>)

KeyValueList == [values |-> Many("otel.KeyValue")]
KeyValueList_Type ==
    MessageType("otel.KeyValueList", KeyValueList, <<Repeated(1, "values", "otel.KeyValue")>>)

KeyValue == [key |-> Required, value |-> Optional("otel.AnyValue")]
KeyValue_Type ==
    MessageType("otel.KeyValue", KeyValue, <<Implicit(1, "key", Delimited),
      Submessage(2, "value", "otel.AnyValue")>>)

InstrumentationScope ==
    [name |-> Required, version |-> Required, attributes |-> Many("otel.KeyValue"),
      droppedAttributesCount |-> Required]
InstrumentationScope_Type ==
    MessageType("otel.InstrumentationScope", InstrumentationScope, <<
      Implicit(1, "name", Delimited), Implicit(2, "version", Delimited),
      Repeated(3, "attributes", "otel.KeyValue"), Implicit(4, "droppedAttributesCount", Varint)>>)

Resource == [attributes |-> Many("otel.KeyValue"), droppedAttributesCount |-> Required]
Resource_Type ==
    MessageType("otel.Resource", Resource, <<Repeated(1, "attributes", "otel.KeyValue"),
      Implicit(2, "droppedAttributesCount", Varint)>>)

ProfilesData == [resourceProfiles |-> Many("otel.ResourceProfiles")]
ProfilesData_Type ==
    MessageType("otel.ProfilesData", ProfilesData, <<
      Repeated(1, "resourceProfiles", "otel.ResourceProfiles")>>)

ResourceProfiles ==
    [resource |-> Optional("otel.Resource"), scopeProfiles |-> Many("otel.ScopeProfiles"),
      schemaUrl |-> Required]
ResourceProfiles_Type ==
    MessageType("otel.ResourceProfiles", ResourceProfiles, <<
      Submessage(1, "resource", "otel.Resource"),
      Repeated(2, "scopeProfiles", "otel.ScopeProfiles"), Implicit(3, "schemaUrl", Delimited)>>)

ScopeProfiles ==
    [scope |-> Optional("otel.InstrumentationScope"), profiles |-> Many("otel.ProfileContainer"),
      schemaUrl |-> Required]
ScopeProfiles_Type ==
    MessageType("otel.ScopeProfiles", ScopeProfiles, <<
      Submessage(1, "scope", "otel.InstrumentationScope"),
      Repeated(2, "profiles", "otel.ProfileContainer"), Implicit(3, "schemaUrl", Delimited)>>)

ProfileContainer ==
    [profileId |-> Required, startTimeUnixNano |-> Required, endTimeUnixNano |-> Required,
      attributes |-> Many("otel.KeyValue"), droppedAttributesCount |-> Required,
      originalPayloadFormat |-> Required, originalPayload |-> Required,
      profile |-> Optional("pprof.Profile")]
ProfileContainer_Type ==
    MessageType("otel.ProfileContainer", ProfileContainer, <<Implicit(1, "profileId", Delimited),
      Implicit(2, "startTimeUnixNano", Bit64), Implicit(3, "endTimeUnixNano", Bit64),
      Repeated(4, "attributes", "otel.KeyValue"), Implicit(5, "droppedAttributesCount", Varint),
      Implicit(6, "originalPayloadFormat", Delimited), Implicit(7, "originalPayload", Delimited),
      Submessage(8, "profile", "pprof.Profile")>>)

ExportProfilesServiceRequest == [resourceProfiles |-> Many("otel.ResourceProfiles")]
ExportProfilesServiceRequest_Type ==
    MessageType("otel.ExportProfilesServiceRequest", ExportProfilesServiceRequest, <<
      Repeated(1, "resourceProfiles", "otel.ResourceProfiles")>>)

ExportProfilesServiceResponse ==
    [partialSuccess |-> Optional("otel.ExportProfilesPartialSuccess")]
ExportProfilesServiceResponse_Type ==
    MessageType("otel.ExportProfilesServiceResponse", ExportProfilesServiceResponse, <<
      Submessage(1, "partialSuccess", "otel.ExportProfilesPartialSuccess")>>)

ExportProfilesPartialSuccess == [rejectedProfiles |-> Required, errorMessage |-> Required]
ExportProfilesPartialSuccess_Type ==
    MessageType("otel.ExportProfilesPartialSuccess", ExportProfilesPartialSuccess, <<
      Implicit(1, "rejectedProfiles", Varint), Implicit(2, "errorMessage", Delimited)>>)

\* Every message type of this package.
Messages ==
    <<AnyValue_Type, ArrayValue_Type, KeyValueList_Type, KeyValue_Type,
      InstrumentationScope_Type, Resource_Type, ProfilesData_Type, ResourceProfiles_Type,
      ScopeProfiles_Type, ProfileContainer_Type, ExportProfilesServiceRequest_Type,
      ExportProfilesServiceResponse_Type, ExportProfilesPartialSuccess_Type>>
================================================================================
