------------------------------ MODULE HealthMessages ------------------------------
(* The messages of the gRPC health service, as the generated client declares them: for
   each one its interface (what a value of it looks like) and its message type (how it is
   created, read and written).  The fields stand in the order in which internalBinaryWrite
   writes them. *)
EXTENDS WireFormat

HealthCheckRequest == [service |-> Required]
HealthCheckRequest_Type ==
    MessageType("health.HealthCheckRequest", HealthCheckRequest, <<
      Implicit(1, "service", Delimited)>>)

HealthCheckResponse == [status |-> Required]
HealthCheckResponse_Type ==
    MessageType("health.HealthCheckResponse", HealthCheckResponse, <<
      Implicit(1, "status", Varint)>>)

HealthListRequest == NoProperties
HealthListRequest_Type == MessageType("health.HealthListRequest", HealthListRequest, <<>>)

HealthListResponse == [statuses |-> MapOf("health.HealthCheckResponse")]
HealthListResponse_Type ==
    MessageType("health.HealthListResponse", HealthListResponse, <<
      Map(1, "statuses", "health.HealthCheckResponse")>>)

\* Every message type of this package.
Messages ==
    <<HealthCheckRequest_Type, HealthCheckResponse_Type, HealthListRequest_Type,
      HealthListResponse_Type>>
================================================================================
