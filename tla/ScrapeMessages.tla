------------------------------ MODULE ScrapeMessages ------------------------------
(* The messages of the scrape service, as the generated client declares them: for each one
   its interface (what a value of it looks like) and its message type (how it is created,
   read and written).  The fields stand in the order in which internalBinaryWrite writes
   them. *)
EXTENDS WireFormat

TargetsRequest == [state |-> Required]
TargetsRequest_Type ==
    MessageType("scrape.TargetsRequest", TargetsRequest, <<Implicit(1, "state", Varint)>>)

TargetsResponse == [targets |-> MapOf("scrape.Targets")]
TargetsResponse_Type ==
    MessageType("scrape.TargetsResponse", TargetsResponse, <<Map(1, "targets", "scrape.Targets")>>)

Targets == [targets |-> Many("scrape.Target")]
Targets_Type ==
    MessageType("scrape.Targets", Targets, <<Repeated(1, "targets", "scrape.Target")>>)

Target ==
    [discoveredLabels |-> Optional("profilestore.LabelSet"),
      labels |-> Optional("profilestore.LabelSet"), lastError |-> Required,
      lastScrape |-> Optional("time.Timestamp"),
      lastScrapeDuration |-> Optional("time.Duration"), url |-> Required, health |-> Required]
Target_Type ==
    MessageType("scrape.Target", Target, <<
      Submessage(1, "discoveredLabels", "profilestore.LabelSet"),
      Submessage(2, "labels", "profilestore.LabelSet"), Implicit(3, "lastError", Delimited),
      Submessage(4, "lastScrape", "time.Timestamp"),
      Submessage(5, "lastScrapeDuration", "time.Duration"), Implicit(6, "url", Delimited),
      Implicit(7, "health", Varint)>>)

\* Every message type of this package.
Messages == <<TargetsRequest_Type, TargetsResponse_Type, Targets_Type, Target_Type>>
================================================================================
