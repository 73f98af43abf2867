--------------------------- MODULE ClientMessages ---------------------------
(* All message types of the generated client in one table. *)
EXTENDS WireFormat
LOCAL INSTANCE Sequences
LOCAL INSTANCE SequencesExt
LOCAL INSTANCE TLC

Time == INSTANCE TimeMessages
Descriptor == INSTANCE DescriptorMessages
Http == INSTANCE HttpMessages
Health == INSTANCE HealthMessages
Otel == INSTANCE OtelMessages
Pprof == INSTANCE PprofMessages
Metastore == INSTANCE MetastoreMessages
Profilestore == INSTANCE ProfilestoreMessages
Debuginfo == INSTANCE DebuginfoMessages
Scrape == INSTANCE ScrapeMessages
Telemetry == INSTANCE TelemetryMessages
Share == INSTANCE ShareMessages
Query == INSTANCE QueryMessages

AllMessages ==
    Time!Messages \o Descriptor!Messages \o Http!Messages \o Health!Messages
    \o Otel!Messages \o Pprof!Messages
    \o Metastore!Messages \o Profilestore!Messages \o Debuginfo!Messages \o Scrape!Messages
    \o Telemetry!Messages \o Share!Messages \o Query!Messages

\* The fields and the interface of each type.
Schema == FoldLeft(LAMBDA table, m : (m.type :> m.fields) @@ table, <<>>, AllMessages)
Interface == FoldLeft(LAMBDA table, m : (m.type :> m.interface) @@ table, <<>>, AllMessages)

MessageTypes == DOMAIN Schema
=============================================================================
