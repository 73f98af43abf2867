----------------------------- MODULE ClientWire -----------------------------
(* Messages between the web UI and a server.  A sender writes a message in one or two parts
   (the protobuf rule: the concatenation of two encodings is the encoding of the merged
   message); the sender is this client, or a peer that writes the format in its minimal
   form.  A program built from an older version of the .proto files, which lacks some of the
   fields, may read the message and write it again on the way.  The receiver is the
   generated code. *)
EXTENDS ClientMessages, FiniteSets
LOCAL INSTANCE Sequences
LOCAL INSTANCE SequencesExt
LOCAL INSTANCE TLC

CONSTANTS
    Types,      \* the message types that are exchanged
    Encoders,   \* who writes: "generated", "minimal"
    MaxParts    \* bound: encodings that are concatenated

ASSUME TypesAssumption == Types \subseteq MessageTypes
ASSUME EncodersAssumption == Encoders \subseteq {"generated", "minimal"}
ASSUME MaxPartsAssumption == MaxParts \in Nat \ {0}

VARIABLES
    kind,       \* the type of the message in this exchange
    sent,       \* the values that were written, one per part
    wire,       \* the fields on the wire
    relayed,    \* an older program has rewritten the message
    received    \* <<>>, or <<the message that was read>>

vars == <<kind, sent, wire, relayed, received>>

-----------------------------------------------------------------------------
(* The values that are exchanged: the empty message, the message with one property set, in
   each way it can be set, and the message with every property set.  Nested messages are
   empty or filled two levels deep. *)

RECURSIVE Filled(_, _, _)
FilledElement(schema, elem, depth) ==
    IF IsMessage(elem) THEN Filled(schema, elem, depth) ELSE 1

\* A value of a field that is set, with its elements filled to `depth`.
FilledField(schema, f, depth) ==
    LET x == FilledElement(schema, f.elem, depth)
    IN  CASE f.label = "implicit" -> x
          [] f.label = "oneof"    -> <<f.name, x>>
          [] f.label = "map"      -> 0 :> x @@ 1 :> x
          [] OTHER                -> <<x>>

Filled(schema, t, depth) ==
    LET empty == Create(schema, t)
    IN  IF depth = 0 THEN empty
        ELSE FoldLeft(LAMBDA m, f : [m EXCEPT ![f.slot] = FilledField(schema, f, depth - 1)],
                      empty, schema[t])

\* The ways to set one field: empty and full elements, a default that is present, lists of
\* two, maps with the default key and value.
FieldValues(schema, f) ==
    LET low == IF IsMessage(f.elem) THEN Create(schema, f.elem) ELSE 0
        high == IF IsMessage(f.elem) THEN Filled(schema, f.elem, 2) ELSE 2
    IN  CASE f.label = "implicit" -> {1, 2}
          [] f.label = "oneof"    -> {<<f.name, low>>, <<f.name, high>>}
          [] f.label = "map"      -> {0 :> low, 1 :> high, 0 :> high @@ 1 :> low}
          [] f.label \in {"repeated", "packed", "unpacked"} -> {<<low>>, <<high, low>>}
          [] OTHER                -> {<<low>>, <<high>>}

Values(schema, t) ==
    LET empty == Create(schema, t)
    IN  {empty, Filled(schema, t, 3)} \cup
        UNION {{[empty EXCEPT ![schema[t][i].slot] = v] : v \in FieldValues(schema, schema[t][i])} :
                  i \in DOMAIN schema[t]}

-----------------------------------------------------------------------------
Init ==
    /\ kind \in Types
    /\ sent = <<>>
    /\ wire = <<>>
    /\ relayed = FALSE
    /\ received = <<>>

FromBinary(schema, type, items) == Read(schema, type, items, Create(schema, type))

\* toBinary: the message is written behind what is already on the wire.
Send(v, encoder) ==
    /\ received = <<>>
    /\ ~relayed
    /\ Len(sent) < MaxParts
    /\ sent' = Append(sent, v)
    /\ wire' = wire \o Write(Schema, encoder, kind, v)
    /\ UNCHANGED <<kind, relayed, received>>

\* A program that does not know the fields `missing` reads the message and writes it again.
Relay(missing) ==
    LET old == [Schema EXCEPT ![kind] = SelectSeq(@, LAMBDA f : f.no \notin missing)]
    IN  /\ received = <<>>
        /\ ~relayed
        /\ Len(sent) = 1
        /\ relayed' = TRUE
        /\ wire' = Write(old, "generated", kind, FromBinary(old, kind, wire))
        /\ UNCHANGED <<kind, sent, received>>

\* fromBinary.
Receive ==
    /\ received = <<>>
    /\ sent # <<>>
    /\ received' = <<FromBinary(Schema, kind, wire)>>
    /\ UNCHANGED <<kind, sent, wire, relayed>>

Numbers(fields) == {fields[i].no : i \in DOMAIN fields}

\* The fields an older program may lack: one of them, or all.
Missing(fields) == {{n} : n \in Numbers(fields)} \cup {Numbers(fields)}

Done == received # <<>> /\ UNCHANGED vars

Next ==
    \/ \E v \in Values(Schema, kind), e \in Encoders : Send(v, e)
    \/ \E m \in Missing(Schema[kind]) : Relay(m)
    \/ Receive
    \/ Done

Spec == Init /\ [][Next]_vars

-----------------------------------------------------------------------------
(* Reference: merging two messages without their encodings. *)

RECURSIVE Merged(_, _, _, _)
MergedField(schema, f, a, b) ==
    CASE f.label = "implicit" -> IF b = 0 THEN a ELSE b
      [] f.label = "explicit" -> IF b = <<>> THEN a ELSE b
      [] f.label = "message"  ->
            IF a = <<>> THEN b ELSE IF b = <<>> THEN a ELSE <<Merged(schema, f.elem, a[1], b[1])>>
      [] f.label \in {"repeated", "packed", "unpacked"} -> a \o b
      [] f.label = "map"      -> b @@ a
      [] f.label = "oneof"    ->
            IF b = <<>> THEN a
            ELSE IF a # <<>> /\ a[1] = b[1] /\ b[1] = f.name /\ IsMessage(f.elem)
            THEN <<f.name, Merged(schema, f.elem, a[2], b[2])>>
            ELSE b

MemberOf(fields, slot, v) ==
    fields[CHOOSE i \in DOMAIN fields :
             /\ fields[i].slot = slot
             /\ fields[i].label = "oneof" /\ v # <<>> => fields[i].name = v[1]]

Merged(schema, t, a, b) ==
    [s \in DOMAIN a |->
        IF s = UnknownFields THEN a[s] \o b[s]
        ELSE MergedField(schema, MemberOf(schema[t], s, b[s]), a[s], b[s])]

MergedParts(schema, t, parts) ==
    FoldLeft(LAMBDA m, v : Merged(schema, t, m, v), Create(schema, t), parts)

\* Typed values of an interface.
RECURSIVE Conforms(_, _, _)
ConformsElement(interface, t, v) == IF t = Scalar THEN v \in Nat ELSE Conforms(interface, t, v)
ConformsShape(interface, s, v) ==
    CASE s.shape = "required" -> v \in Nat
      [] s.shape = "optional" ->
            Len(v) <= 1 /\ \A i \in DOMAIN v : ConformsElement(interface, s.of, v[i])
      [] s.shape \in {"many", "map"} -> \A i \in DOMAIN v : ConformsElement(interface, s.of, v[i])
      [] s.shape = "oneof"    ->
            v # <<>> => v[1] \in DOMAIN s.of /\ ConformsElement(interface, s.of[v[1]], v[2])
Conforms(interface, t, v) ==
    /\ DOMAIN v = DOMAIN interface[t] \cup {UnknownFields}
    /\ \A p \in DOMAIN interface[t] : ConformsShape(interface, interface[t][p], v[p])

-----------------------------------------------------------------------------
(* What a receiver reads is a value of the TypeScript interface of the message, for every
   encoding a sender may choose: the code that uses the message relies on the interface. *)
ReadConformsToInterface ==
    received # <<>> => Conforms(Interface, kind, received[1])

(* What is read from the concatenated parts is the merge of the values that were written:
   nested messages and oneofs of one case are merged, lists appended, entries of a map and
   everything else replaced, and the encoding the sender chose does not matter. *)
PartsAreMerged ==
    received # <<>> /\ ~relayed => received[1] = MergedParts(Schema, kind, sent)

(* A program without some of the fields passes them on: what arrives behind it is what was
   sent, no field lost and none changed. *)
OlderProgramKeepsFields ==
    received # <<>> /\ relayed => received[1] = MergedParts(Schema, kind, sent)
=============================================================================
