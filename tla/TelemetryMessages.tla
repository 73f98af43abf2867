------------------------------ MODULE TelemetryMessages ------------------------------
(* The messages of the telemetry service, as the generated client declares them: for each
   one its interface (what a value of it looks like) and its message type (how it is
   created, read and written).  The fields stand in the order in which internalBinaryWrite
   writes them. *)
EXTENDS WireFormat

ReportPanicRequest == [stderr |-> Required, metadata |-> MapOf(Scalar)]
ReportPanicRequest_Type ==
    MessageType("telemetry.ReportPanicRequest", ReportPanicRequest, <<
      Implicit(1, "stderr", Delimited), Map(2, "metadata", Delimited)>>)

ReportPanicResponse == NoProperties
ReportPanicResponse_Type ==
    MessageType("telemetry.ReportPanicResponse", ReportPanicResponse, <<>>)

\* Every message type of this package.
Messages == <<ReportPanicRequest_Type, ReportPanicResponse_Type>>
================================================================================
