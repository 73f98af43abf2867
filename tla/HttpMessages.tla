------------------------------ MODULE HttpMessages ------------------------------
(* The messages of the HTTP rules of google.api, as the generated client declares them:
   for each one its interface (what a value of it looks like) and its message type (how it
   is created, read and written).  The fields stand in the order in which
   internalBinaryWrite writes them. *)
EXTENDS WireFormat

Http == [rules |-> Many("http.HttpRule"), fullyDecodeReservedExpansion |-> Required]
Http_Type ==
    MessageType("http.Http", Http, <<Repeated(1, "rules", "http.HttpRule"),
      Implicit(2, "fullyDecodeReservedExpansion", Varint)>>)

HttpRule ==
    [selector |-> Required,
      pattern |-> OneOf([get |-> Scalar, put |-> Scalar, post |-> Scalar, delete |-> Scalar,
         patch |-> Scalar, custom |-> "http.CustomHttpPattern"]),
      body |-> Required, responseBody |-> Required, additionalBindings |-> Many("http.HttpRule")]
HttpRule_Type ==
    MessageType("http.HttpRule", HttpRule, <<Implicit(1, "selector", Delimited),
      Oneof(2, "pattern", "get", Delimited), Oneof(3, "pattern", "put", Delimited),
      Oneof(4, "pattern", "post", Delimited), Oneof(5, "pattern", "delete", Delimited),
      Oneof(6, "pattern", "patch", Delimited), Implicit(7, "body", Delimited),
      Oneof(8, "pattern", "custom", "http.CustomHttpPattern"),
      Repeated(11, "additionalBindings", "http.HttpRule"),
      Implicit(12, "responseBody", Delimited)>>)

CustomHttpPattern == [kind |-> Required, path |-> Required]
CustomHttpPattern_Type ==
    MessageType("http.CustomHttpPattern", CustomHttpPattern, <<Implicit(1, "kind", Delimited),
      Implicit(2, "path", Delimited)>>)

\* Every message type of this package.
Messages == <<Http_Type, HttpRule_Type, CustomHttpPattern_Type>>
================================================================================
