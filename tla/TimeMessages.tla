------------------------------ MODULE TimeMessages ------------------------------
(* The messages of the well-known types Timestamp and Duration, as the generated client
   declares them: for each one its interface (what a value of it looks like) and its
   message type (how it is created, read and written).  The fields stand in the order in
   which internalBinaryWrite writes them. *)
EXTENDS WireFormat

Timestamp == [seconds |-> Required, nanos |-> Required]
Timestamp_Type ==
    MessageType("time.Timestamp", Timestamp, <<Implicit(1, "seconds", Varint),
      Implicit(2, "nanos", Varint)>>)

Duration == [seconds |-> Required, nanos |-> Required]
Duration_Type ==
    MessageType("time.Duration", Duration, <<Implicit(1, "seconds", Varint),
      Implicit(2, "nanos", Varint)>>)

\* Every message type of this package.
Messages == <<Timestamp_Type, Duration_Type>>
================================================================================
