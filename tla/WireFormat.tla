----------------------------- MODULE WireFormat -----------------------------
(* How the generated client of the web UI creates, writes and reads protobuf messages.

   Every generated class X$Type spells the same four operations out for its own fields: the
   constructor lists the fields, create sets the defaults, internalBinaryWrite emits the
   fields that are present, internalBinaryRead loops over the tags and stores what it finds.
   Here the operations are written once, over a table of fields, and each class is the row
   of that table its code spells out (modules *Messages).

   A scalar value (number, bigint, string, boolean, bytes) is an integer and 0 stands for
   the default of its type.  A message in memory is a function from its properties, plus
   UnknownFields; an absent property and an empty list, map or oneof are <<>>.  A written
   message is the sequence of its fields <<number, wire type, payload>>. *)
EXTENDS Naturals
LOCAL INSTANCE Sequences
LOCAL INSTANCE SequencesExt
LOCAL INSTANCE TLC

\* The wire types the generated code names.
Varint == "Varint"
Bit64 == "Bit64"
Bit32 == "Bit32"
Delimited == "LengthDelimited"
WireTypes == {Varint, Bit64, Bit32, Delimited}

-----------------------------------------------------------------------------
(* Interfaces: the shape of a property, of a scalar or of a message type. *)

Scalar == "Scalar"
Required == [shape |-> "required", of |-> Scalar]
Optional(t) == [shape |-> "optional", of |-> t]
Many(t) == [shape |-> "many", of |-> t]
MapOf(t) == [shape |-> "map", of |-> t]
OneOf(cases) == [shape |-> "oneof", of |-> cases]
NoProperties == <<>>

-----------------------------------------------------------------------------
(* Fields: the number, the property that holds the value, the label (which of the generated
   read and write statements is used), and the wire type or message type of an element.  The
   members of a oneof share one property and are told apart by their own name. *)

Field(no, slot, name, label, elem) ==
    [no |-> no, slot |-> slot, name |-> name, label |-> label, elem |-> elem]

Implicit(no, name, elem) == Field(no, name, name, "implicit", elem)
Explicit(no, name, elem) == Field(no, name, name, "explicit", elem)
Submessage(no, name, elem) == Field(no, name, name, "message", elem)
Repeated(no, name, elem) == Field(no, name, name, "repeated", elem)
Packed(no, name, elem) == Field(no, name, name, "packed", elem)
Unpacked(no, name, elem) == Field(no, name, name, "unpacked", elem)
Map(no, name, elem) == Field(no, name, name, "map", elem)
Oneof(no, slot, name, elem) == Field(no, slot, name, "oneof", elem)

MessageType(type, interface, fields) ==
    [type |-> type, interface |-> interface, fields |-> fields]

IsMessage(elem) == elem \notin WireTypes
WireTypeOf(elem) == IF IsMessage(elem) THEN Delimited ELSE elem

-----------------------------------------------------------------------------
(* create.  `schema` is a function from the message types to their fields. *)

UnknownFields == "unknown fields"

Default(f) == IF f.label = "implicit" THEN 0 ELSE <<>>

Create(schema, type) ==
    FoldLeft(LAMBDA message, f : (f.slot :> Default(f)) @@ message,
             UnknownFields :> <<>>, schema[type])

-----------------------------------------------------------------------------
(* internalBinaryWrite.  `encoder` is "generated" for the code of this client; a "minimal"
   peer writes the same message as the format also allows it: lists of numbers packed where
   the client does not pack them and unpacked where it does, and the default key or value of
   a map entry left out. *)

\* The values a field puts on the wire: a default with implicit presence is left out, an
\* explicit field is written whenever it is set, a member of a oneof when it is the case.
Present(f, v) ==
    CASE f.label = "implicit" -> IF v = 0 THEN <<>> ELSE <<v>>
      [] f.label = "oneof"    -> IF v # <<>> /\ v[1] = f.name THEN <<v[2]>> ELSE <<>>
      [] OTHER                -> v

RECURSIVE Write(_, _, _, _)

WriteElement(schema, encoder, elem, v) ==
    IF IsMessage(elem) THEN Write(schema, encoder, elem, v) ELSE v

WriteEntry(schema, encoder, f, key, v) ==
    LET value == WriteElement(schema, encoder, f.elem, v)
        Keep(default) == encoder = "generated" \/ ~default
    IN  (IF Keep(key = 0) THEN << <<1, Delimited, key>> >> ELSE <<>>)
        \o (IF Keep(IF IsMessage(f.elem) THEN value = <<>> ELSE v = 0)
            THEN << <<2, WireTypeOf(f.elem), value>> >> ELSE <<>>)

WriteField(schema, encoder, f, v) ==
    CASE f.label = (IF encoder = "generated" THEN "packed" ELSE "unpacked") ->
            IF v = <<>> THEN <<>> ELSE << <<f.no, Delimited, v>> >>
      [] f.label = "map" ->
            LET keys == SetToSeq(DOMAIN v)
            IN  [i \in DOMAIN keys |->
                    <<f.no, Delimited, WriteEntry(schema, encoder, f, keys[i], v[keys[i]])>>]
      [] OTHER ->
            LET values == Present(f, v)
            IN  [i \in DOMAIN values |->
                    <<f.no, WireTypeOf(f.elem),
                      WriteElement(schema, encoder, f.elem, values[i])>>]

\* The fields in the order of the class, then the unknown fields the message was read with.
Write(schema, encoder, type, message) ==
    LET fields == schema[type]
    IN  FoldLeft(LAMBDA out, f : out \o WriteField(schema, encoder, f, message[f.slot]),
                 <<>>, fields)
        \o message[UnknownFields]

-----------------------------------------------------------------------------
(* internalBinaryRead. *)

\* Mutant: a second occurrence of a nested message replaces the first.
ReadTarget_Replaces(held, fresh) == fresh

\* A nested message is read into the one already there: the target a second occurrence of
\* the field passes to the reader.
ReadTarget(held, fresh) == IF held = <<>> THEN fresh ELSE held[1]

\* A oneof holds the member read last; only a member of the same case is read into.
HeldCase(f, held) == IF held # <<>> /\ held[1] = f.name THEN <<held[2]>> ELSE <<>>

\* A packed list is recognised by its wire type; a single number is accepted as well.
ReadPacked(held, wiretype, payload) ==
    IF wiretype = Delimited THEN held \o payload ELSE Append(held, payload)

\* Mutant: fields the program does not know are skipped.
KeepUnknown_Drops(message, item) == message

\* UnknownFieldHandler.onRead keeps the field as it was read.
KeepUnknown(message, item) == [message EXCEPT ![UnknownFields] = Append(@, item)]

RECURSIVE Read(_, _, _, _)

ReadElement(schema, elem, payload, held) ==
    IF IsMessage(elem)
    THEN Read(schema, elem, payload, ReadTarget(held, Create(schema, elem)))
    ELSE payload

\* binaryReadMapN: an entry without a key is the entry of the empty key, one without a
\* value holds the default; a later entry of the same key replaces the earlier one.
\* The code throws on a field with another number; no entry that is sent has one.
ReadEntry(schema, f, held, entry) ==
    LET keys == SelectSeq(entry, LAMBDA item : item[1] = 1)
        values == SelectSeq(entry, LAMBDA item : item[1] = 2)
        key == IF keys = <<>> THEN 0 ELSE Last(keys)[3]
        value == IF values # <<>>
                 THEN ReadElement(schema, f.elem, Last(values)[3], <<>>)
                 ELSE IF IsMessage(f.elem) THEN Create(schema, f.elem) ELSE 0
    IN  (key :> value) @@ held

\* Mutant: an optional field read a second time is treated like a list.
ReadField_Accumulates(schema, f, held, wiretype, payload) ==
    CASE f.label = "implicit" -> payload
      [] f.label \in {"repeated", "message", "explicit"} ->
            Append(held, ReadElement(schema, f.elem, payload, <<>>))
      [] f.label \in {"packed", "unpacked"} -> ReadPacked(held, wiretype, payload)
      [] f.label = "map"      -> ReadEntry(schema, f, held, payload)
      [] f.label = "oneof"    -> <<f.name, ReadElement(schema, f.elem, payload, HeldCase(f, held))>>

ReadField(schema, f, held, wiretype, payload) ==
    CASE f.label = "implicit" -> payload
      [] f.label = "explicit" -> <<payload>>
      [] f.label = "message"  -> <<ReadElement(schema, f.elem, payload, held)>>
      [] f.label = "repeated" -> Append(held, ReadElement(schema, f.elem, payload, <<>>))
      [] f.label \in {"packed", "unpacked"} -> ReadPacked(held, wiretype, payload)
      [] f.label = "map"      -> ReadEntry(schema, f, held, payload)
      [] f.label = "oneof"    ->
            <<f.name, ReadElement(schema, f.elem, payload, HeldCase(f, held))>>

Read(schema, type, items, target) ==
    LET fields == schema[type]
        Step(message, item) ==
            LET known == SelectSeq(fields, LAMBDA f : f.no = item[1])
            IN  IF known = <<>>
                THEN KeepUnknown(message, item)
                ELSE [message EXCEPT
                        ![known[1].slot] = ReadField(schema, known[1], @, item[2], item[3])]
    IN  FoldLeft(Step, target, items)
=============================================================================
