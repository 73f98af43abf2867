------------------------ MODULE DebuginfoStoreProofs ------------------------
(***************************************************************************)
(* Proofs about DebuginfoStore, for every set of clients, setters, types   *)
(* and files: types that share a metadata object and any number of         *)
(* overlapping uploads included.                                           *)
(*                                                                         *)
(* What a goroutine writes is what it read some time ago, so the invariant *)
(* is about the records that are held as well as about those that are      *)
(* stored, and it says of a record only what stays true while the record   *)
(* is held: which upload it is about, and that the file of an uploaded one *)
(* has been stored.                                                        *)
(***************************************************************************)
EXTENDS DebuginfoStore, TLAPS

Holders == Clients \cup Setters
Issued == 1..(nextId - 1)

\* What a record says is true of the upload it names, now and later.
GoodRecord(m) ==
    /\ m.state = "none" <=> m.source = "debuginfod"
    /\ m.state # "none" =>
        m.id \in Issued /\ m.typ = request[m.id].typ /\ m.hash = request[m.id].file
    /\ m.state = "uploaded" => m.id \in stored

MetaGood == \A k \in MetaKeys : meta[k] # NoMeta => GoodRecord(meta[k])

PendingGood == \A g \in Holders : pending[g] # NoMeta => GoodRecord(pending[g])

\* A client that is about to write holds a record; one that has initiated an upload
\* has the ID that was issued for its file; one that finishes has stored the file.
ClientGood(c) ==
    /\ cl[c].pc \in {"found", "mark", "finished"} => pending[c] # NoMeta
    /\ cl[c].pc \in {"mark", "upload", "send", "finish", "finished"} =>
        cl[c].id \in Issued /\ request[cl[c].id] = [typ |-> cl[c].typ, file |-> cl[c].file]
    /\ cl[c].pc \in {"finish", "finished"} => cl[c].id \in stored

ClientsGood == \A c \in Clients : ClientGood(c)

\* A file that was stored may be overwritten, but is never missing again.
StoredGood == \A i \in stored : i \in Issued /\ objs[request[i].typ] # NoFile

IndInv == TypeOK /\ MetaGood /\ PendingGood /\ ClientsGood /\ StoredGood

\* The uploads that are known stay known, with what they were issued for.
Grows ==
    /\ Issued \subseteq Issued'
    /\ \A i \in Issued : request'[i] = request[i]
    /\ stored \subseteq stored'

-----------------------------------------------------------------------------
\* The path of a metadata record is one of the metadata objects.
LEMMA KeyOfType ==
    ASSUME NEW m \in Metadata
    PROVE  metadataObjectPath(m.typ) \in MetaKeys
BY DEF MetaKeys, Metadata

\* What is said of a record stays true while it is held.
LEMMA GoodForever ==
    ASSUME NEW m \in Metadata, GoodRecord(m), Grows
    PROVE  GoodRecord(m)'
BY DEF GoodRecord, Grows, Metadata

\* A record that was read is good, and of the client's type if it names its upload.
LEMMA FetchedGood ==
    ASSUME IndInv, NEW t \in Types, Fetch(t) # NoMeta
    PROVE  Fetch(t) \in Metadata /\ GoodRecord(Fetch(t))
<1>1. metadataObjectPath(t) \in MetaKeys
  BY DEF MetaKeys
<1>2. QED
  BY <1>1 DEF IndInv, TypeOK, MetaGood, Fetch

\* The records a step leaves alone stay good.
LEMMA MetaUnchanged ==
    ASSUME IndInv, Grows, UNCHANGED meta
    PROVE  MetaGood'
<1>1. SUFFICES ASSUME NEW k \in MetaKeys, meta[k] # NoMeta
               PROVE  GoodRecord(meta[k])'
  BY DEF MetaGood
<1>2. meta[k] \in Metadata /\ GoodRecord(meta[k])
  BY <1>1 DEF IndInv, TypeOK, MetaGood
<1>3. PICK m \in Metadata : m = meta[k]
  BY <1>2
<1>4. GoodRecord(m)'
  BY <1>2, <1>3, GoodForever
<1>5. QED
  BY <1>3, <1>4 DEF GoodRecord

\* A goroutine holds another record, and that one is good.
LEMMA PendingOnly ==
    ASSUME IndInv, Grows, NEW g \in Holders, NEW r \in Metadata \cup {NoMeta},
           r # NoMeta => GoodRecord(r)',
           pending' = [pending EXCEPT ![g] = r]
    PROVE  PendingGood'
<1>1. SUFFICES ASSUME NEW h \in Holders, pending'[h] # NoMeta
               PROVE  GoodRecord(pending[h])'
  BY DEF PendingGood
<1>2. pending \in [Holders -> Metadata \cup {NoMeta}]
  BY DEF IndInv, TypeOK, Holders
<1>3. CASE h = g
  <2>1. pending'[h] = r
    BY <1>2, <1>3
  <2>2. QED
    BY <1>1, <2>1 DEF GoodRecord
<1>4. CASE h # g
  <2>1. pending'[h] = pending[h]
    BY <1>2, <1>4
  <2>2. pending[h] \in Metadata /\ GoodRecord(pending[h])
    BY <1>1, <1>2, <2>1 DEF IndInv, PendingGood
  <2>3. PICK m \in Metadata : m = pending[h]
    BY <2>2
  <2>4. GoodRecord(m)'
    BY <2>2, <2>3, GoodForever
  <2>5. QED
    BY <2>1, <2>3, <2>4 DEF GoodRecord
<1>5. QED
  BY <1>3, <1>4

\* The records that are held stay good while others move.
LEMMA PendingUnchanged ==
    ASSUME IndInv, Grows, UNCHANGED pending
    PROVE  PendingGood'
<1>1. SUFFICES ASSUME NEW h \in Holders, pending[h] # NoMeta
               PROVE  GoodRecord(pending[h])'
  BY DEF PendingGood
<1>2. pending[h] \in Metadata /\ GoodRecord(pending[h])
  BY <1>1 DEF IndInv, TypeOK, PendingGood, Holders
<1>3. PICK m \in Metadata : m = pending[h]
  BY <1>2
<1>4. GoodRecord(m)'
  BY <1>2, <1>3, GoodForever
<1>5. QED
  BY <1>3, <1>4 DEF GoodRecord

\* write: the record that was held is the one that is stored.
LEMMA WriteGood ==
    ASSUME IndInv, Grows, NEW g \in Holders, pending[g] # NoMeta, write(g)
    PROVE  /\ meta' \in [MetaKeys -> Metadata \cup {NoMeta}]
           /\ pending' \in [Holders -> Metadata \cup {NoMeta}]
           /\ MetaGood' /\ PendingGood'
<1> DEFINE r == pending[g]
<1> DEFINE p == metadataObjectPath(r.typ)
<1>1. r \in Metadata /\ GoodRecord(r)
  BY DEF IndInv, TypeOK, PendingGood, Holders
<1>2. p \in MetaKeys
  BY <1>1, KeyOfType
<1>3. meta' = [meta EXCEPT ![p] = r] /\ pending' = [pending EXCEPT ![g] = NoMeta]
  BY DEF write
<1>4. meta \in [MetaKeys -> Metadata \cup {NoMeta}]
  BY DEF IndInv, TypeOK
<1>5. pending \in [Holders -> Metadata \cup {NoMeta}]
  BY DEF IndInv, TypeOK, Holders
<1>6. PICK m \in Metadata : m = r
  BY <1>1
<1>7. GoodRecord(m)'
  BY <1>1, <1>6, GoodForever
<1>8. MetaGood'
  <2>1. SUFFICES ASSUME NEW k \in MetaKeys, meta'[k] # NoMeta
                 PROVE  GoodRecord(meta[k])'
    BY DEF MetaGood
  <2>2. CASE k = p
    <3>1. meta'[k] = m
      BY <1>2, <1>3, <1>4, <1>6, <2>2
    <3>2. QED
      BY <1>7, <3>1 DEF GoodRecord
  <2>3. CASE k # p
    <3>1. meta'[k] = meta[k]
      BY <1>2, <1>3, <1>4, <2>3
    <3>2. meta[k] \in Metadata /\ GoodRecord(meta[k])
      BY <1>4, <2>1, <3>1 DEF IndInv, MetaGood
    <3>3. PICK n \in Metadata : n = meta[k]
      BY <3>2
    <3>4. GoodRecord(n)'
      BY <3>2, <3>3, GoodForever
    <3>5. QED
      BY <3>1, <3>3, <3>4 DEF GoodRecord
  <2>4. QED
    BY <2>2, <2>3
<1>9. PendingGood'
  BY <1>3, PendingOnly
<1>10. QED
  BY <1>1, <1>2, <1>3, <1>4, <1>5, <1>8, <1>9

-----------------------------------------------------------------------------
(* The initial states and the steps. *)

\* The store starts without records, files and uploads.
LEMMA InitInd == Init => IndInv
<1>1. SUFFICES ASSUME Init
               PROVE  IndInv
  OBVIOUS
<1>2. TypeOK
  <2>1. cl \in [Clients -> [pc : ClientPc, typ : Types, file : Files, id : 0..MaxIds]]
    BY <1>1, StoreAssumption DEF Init, ClientPc
  <2>2. request \in [Ids -> [typ : Types, file : Files \cup {NoFile}]]
    BY <1>1 DEF Init
  <2>3. /\ nextId \in 1..(MaxIds + 1) /\ stored \subseteq Ids
        /\ age \in [Ids -> 0..(StaleAfter + 1)] /\ failures \in 0..MaxFailures
    BY <1>1, StoreAssumption DEF Init
  <2>4. /\ meta \in [MetaKeys -> Metadata \cup {NoMeta}]
        /\ objs \in [Types -> Files \cup {NoFile}]
        /\ pending \in [Clients \cup Setters -> Metadata \cup {NoMeta}]
        /\ signed \in BOOLEAN
    BY <1>1, StoreAssumption DEF Init
  <2>5. QED
    BY <2>1, <2>2, <2>3, <2>4 DEF TypeOK
<1>3. MetaGood /\ PendingGood /\ StoredGood
  BY <1>1 DEF Init, MetaGood, PendingGood, StoredGood, Holders
<1>4. ClientsGood
  <2>1. SUFFICES ASSUME NEW c \in Clients
                 PROVE  ClientGood(c)
    BY DEF ClientsGood
  <2>2. cl[c].pc = "idle"
    BY <1>1 DEF Init
  <2>3. QED
    BY <2>2 DEF ClientGood
<1>5. QED
  BY <1>2, <1>3, <1>4 DEF IndInv

\* A step that issues no ID and stores no file.
LEMMA QuietGrows ==
    ASSUME UNCHANGED <<nextId, request, stored>>
    PROVE  Grows
BY DEF Grows, Issued

\* Steps that touch neither uploads nor files.
LEMMA QuietStored ==
    ASSUME StoredGood, UNCHANGED <<nextId, request, stored, objs>>
    PROVE  StoredGood'
BY DEF StoredGood, Issued

\* A client keeps what is said of it while it is idle or only others move.
LEMMA OtherClients ==
    ASSUME IndInv, Grows, NEW c \in Clients, NEW d \in Clients,
           cl'[d] = cl[d], pending'[d] = pending[d]
    PROVE  ClientGood(d)'
BY DEF IndInv, ClientsGood, ClientGood, Grows

\* The read half of SetQuality and of MarkAsPurged, and the write half of both.
LEMMA SetterInd ==
    ASSUME IndInv, NEW s \in Setters, SetterStep(s)
    PROVE  IndInv'
<1> USE StoreAssumption
<1>0. UNCHANGED <<objs, cl, nextId, request, stored, age, failures, signed>>
  BY DEF SetterStep, SetQuality, MarkAsPurged, SetterWrite
<1>1. Grows
  BY <1>0, QuietGrows
<1>2. StoredGood'
  BY <1>0, QuietStored DEF IndInv
<1>3. s \in Holders /\ s \notin Clients
  BY DEF Holders
<1>4. pending \in [Holders -> Metadata \cup {NoMeta}] /\ TypeOK
  BY DEF IndInv, TypeOK, Holders
<1>5. (\E r : pending' = [pending EXCEPT ![s] = r]) => ClientsGood'
  <2>1. SUFFICES ASSUME NEW r, pending' = [pending EXCEPT ![s] = r], NEW c \in Clients
                 PROVE  ClientGood(c)'
    BY DEF ClientsGood
  <2>2. pending'[c] = pending[c]
    BY <1>3, <1>4, <2>1 DEF Holders
  <2>3. QED
    BY <1>0, <1>1, <2>2, OtherClients
<1>6. ASSUME NEW r \in Metadata, GoodRecord(r), UNCHANGED meta,
             pending' = [pending EXCEPT ![s] = r]
      PROVE  IndInv'
  <2>1. MetaGood'
    BY <1>1, <1>6, MetaUnchanged
  <2>2. GoodRecord(r)'
    BY <1>1, <1>6, GoodForever
  <2>3. PendingGood'
    BY <1>1, <1>3, <1>6, <2>2, PendingOnly
  <2>4. TypeOK'
    BY <1>0, <1>3, <1>4, <1>6 DEF TypeOK, Holders
  <2>5. QED
    BY <1>2, <1>5, <1>6, <2>1, <2>3, <2>4 DEF IndInv
<1>7. ASSUME NEW t \in Types, NEW q \in {"ok", "empty", "invalid"}, SetQuality(s, t, q)
      PROVE  IndInv'
  <2>1. Fetch(t) \in Metadata /\ GoodRecord(Fetch(t))
    BY <1>7, FetchedGood DEF SetQuality
  <2> DEFINE r == [Fetch(t) EXCEPT !.quality = q]
  <2>2. r \in Metadata /\ GoodRecord(r)
    BY <2>1 DEF Metadata, GoodRecord
  <2>3. UNCHANGED meta /\ pending' = [pending EXCEPT ![s] = r]
    BY <1>7 DEF SetQuality
  <2>4. QED
    BY <1>6, <2>2, <2>3
<1>8. ASSUME NEW t \in Types, MarkAsPurged(s, t)
      PROVE  IndInv'
  <2>1. Fetch(t) \in Metadata /\ GoodRecord(Fetch(t))
    BY <1>8, FetchedGood DEF MarkAsPurged
  <2> DEFINE r == [Fetch(t) EXCEPT !.state = "purged"]
  <2>2. r \in Metadata /\ GoodRecord(r)
    BY <1>8, <2>1 DEF Metadata, GoodRecord, MarkAsPurged
  <2>3. UNCHANGED meta /\ pending' = [pending EXCEPT ![s] = r]
    BY <1>8 DEF MarkAsPurged
  <2>4. QED
    BY <1>6, <2>2, <2>3
<1>9. ASSUME SetterWrite(s)
      PROVE  IndInv'
  <2>1. pending[s] # NoMeta /\ write(s)
    BY <1>9 DEF SetterWrite
  <2>2. /\ meta' \in [MetaKeys -> Metadata \cup {NoMeta}]
        /\ pending' \in [Holders -> Metadata \cup {NoMeta}]
        /\ MetaGood' /\ PendingGood'
    BY <1>1, <1>3, <2>1, WriteGood
  <2>3. ClientsGood'
    BY <1>5, <2>1 DEF write
  <2>4. TypeOK'
    BY <1>0, <1>4, <2>2 DEF TypeOK, Holders
  <2>5. QED
    BY <1>2, <2>2, <2>3, <2>4 DEF IndInv
<1>10. QED
  BY <1>7, <1>8, <1>9 DEF SetterStep

\* InitiateUpload issues an ID: Accept, on the first request and on later ones.
LEMMA AcceptInd ==
    ASSUME IndInv, NEW c \in Clients, NEW t \in Types, NEW f \in Files, Accept(c, t, f)
    PROVE  IndInv'
<1> USE StoreAssumption
<1> DEFINE r == [source |-> "upload", typ |-> t, id |-> nextId, hash |-> f,
                 state |-> "uploading", quality |-> "none"]
<1> DEFINE a == [pc |-> "mark", typ |-> t, file |-> f, id |-> nextId]
<1>0. /\ nextId <= MaxIds /\ nextId' = nextId + 1
      /\ request' = [request EXCEPT ![nextId] = [typ |-> t, file |-> f]]
      /\ cl' = [cl EXCEPT ![c] = a]
      /\ pending' = [pending EXCEPT ![c] = r]
      /\ UNCHANGED <<meta, objs, stored, age, failures, signed>>
  BY DEF Accept
<1>1. TypeOK
  BY DEF IndInv
<1>2. nextId \in Ids /\ nextId \in Nat \ {0}
  BY <1>0, <1>1 DEF TypeOK, Ids
<1>3. Grows
  BY <1>0, <1>1, <1>2 DEF Grows, Issued, TypeOK, Ids
<1>4. r \in Metadata /\ a \in [pc : ClientPc, typ : Types, file : Files, id : 0..MaxIds]
  BY <1>2 DEF Metadata, ClientPc, Ids
<1>5. request'[nextId] = [typ |-> t, file |-> f] /\ nextId \in Issued'
  BY <1>0, <1>1, <1>2 DEF TypeOK, Issued
<1>6. PICK m \in Metadata : m = r
  BY <1>4
<1>7. GoodRecord(m)'
  BY <1>5, <1>6 DEF GoodRecord
<1>8. TypeOK'
  BY <1>0, <1>1, <1>2, <1>4 DEF TypeOK, Ids
<1>9. MetaGood'
  BY <1>0, <1>3, MetaUnchanged
<1>10. PendingGood'
  BY <1>0, <1>3, <1>6, <1>7, PendingOnly DEF Holders
<1>11. ClientsGood'
  <2>1. SUFFICES ASSUME NEW d \in Clients
                 PROVE  ClientGood(d)'
    BY DEF ClientsGood
  <2>2. CASE d = c
    <3>1. cl'[d] = a /\ pending'[d] = m
      BY <1>0, <1>1, <1>6, <2>2 DEF TypeOK
    <3>2. m # NoMeta
      BY NoMetaAssumption
    <3>3. QED
      BY <1>5, <3>1, <3>2 DEF ClientGood
  <2>3. CASE d # c
    <3>1. cl'[d] = cl[d] /\ pending'[d] = pending[d]
      BY <1>0, <1>1, <2>3 DEF TypeOK
    <3>2. QED
      BY <1>3, <3>1, OtherClients
  <2>4. QED
    BY <2>2, <2>3
<1>12. StoredGood'
  BY <1>0, <1>3 DEF IndInv, StoredGood, Grows
<1>13. QED
  BY <1>8, <1>9, <1>10, <1>11, <1>12 DEF IndInv

\* Steps that move a client to a place where it has nothing to keep, or from the check
\* of Upload to the transfer of the file.
LEMMA MoveInd ==
    ASSUME IndInv, NEW c \in Clients, NEW pc \in ClientPc,
           cl' = [cl EXCEPT ![c].pc = pc],
           pc \in {"idle", "exists", "send"},
           pc = "send" => cl[c].pc = "upload",
           UNCHANGED <<meta, objs, nextId, request, stored, age, signed>>,
           failures' \in 0..MaxFailures,
           UNCHANGED pending \/ pending' = [pending EXCEPT ![c] = NoMeta]
    PROVE  IndInv'
<1>1. Grows
  BY QuietGrows
<1>2. TypeOK
  BY DEF IndInv
<1>3. TypeOK'
  BY <1>2 DEF TypeOK
<1>4. MetaGood' /\ StoredGood'
  BY <1>1, MetaUnchanged, QuietStored DEF IndInv
<1>5. PendingGood'
  BY <1>1, PendingOnly, PendingUnchanged DEF Holders
<1>6. ClientsGood'
  <2>1. SUFFICES ASSUME NEW d \in Clients
                 PROVE  ClientGood(d)'
    BY DEF ClientsGood
  <2>2. CASE d = c
    <3>1. cl'[d] = [cl[d] EXCEPT !.pc = pc]
      BY <1>2, <2>2 DEF TypeOK
    <3>2. ClientGood(d)
      BY DEF IndInv, ClientsGood
    <3>3. cl[d] \in [pc : ClientPc, typ : Types, file : Files, id : 0..MaxIds]
      BY <1>2 DEF TypeOK
    <3>4. QED
      BY <1>1, <2>2, <3>1, <3>2, <3>3 DEF ClientGood, Grows
  <2>3. CASE d # c
    <3>1. cl'[d] = cl[d] /\ pending'[d] = pending[d]
      BY <1>2, <2>3 DEF TypeOK
    <3>2. QED
      BY <1>1, <3>1, OtherClients
  <2>4. QED
    BY <2>2, <2>3
<1>7. QED
  BY <1>3, <1>4, <1>5, <1>6 DEF IndInv

\* Steps in which a client changes its own state and record: what is left to show is
\* about the client itself.
LEMMA OneClient ==
    ASSUME IndInv, Grows, NEW c \in Clients, TypeOK', MetaGood', PendingGood', StoredGood',
           \A d \in Clients : d # c => cl'[d] = cl[d] /\ pending'[d] = pending[d],
           ClientGood(c)'
    PROVE  IndInv'
<1>1. ASSUME NEW d \in Clients
      PROVE  ClientGood(d)'
  <2>1. CASE d = c
    BY <2>1
  <2>2. CASE d # c
    BY <2>2, OtherClients
  <2>3. QED
    BY <2>1, <2>2
<1>2. ClientsGood'
  BY <1>1 DEF ClientsGood
<1>3. QED
  BY <1>2 DEF IndInv

\* InitiateUpload of a build ID that has no record asks debuginfod.
LEMMA FirstInd ==
    ASSUME IndInv, NEW c \in Clients, NEW t \in Types, NEW f \in Files,
           InitiateUploadFirst(c, t, f)
    PROVE  IndInv'
<1> DEFINE a == [pc |-> "exists", typ |-> t, file |-> f, id |-> 0]
<1>1. cl' = [cl EXCEPT ![c] = a]
      /\ UNCHANGED <<meta, objs, nextId, request, stored, age, pending, failures, signed>>
  BY DEF InitiateUploadFirst
<1>2. Grows
  BY <1>1, QuietGrows
<1>3. TypeOK
  BY DEF IndInv
<1>4. a \in [pc : ClientPc, typ : Types, file : Files, id : 0..MaxIds]
  BY StoreAssumption DEF ClientPc
<1>5. TypeOK'
  BY <1>1, <1>3, <1>4 DEF TypeOK
<1>6. MetaGood' /\ PendingGood' /\ StoredGood'
  BY <1>1, <1>2, MetaUnchanged, PendingUnchanged, QuietStored DEF IndInv
<1>7. cl'[c].pc = "exists" /\ \A d \in Clients : d # c => cl'[d] = cl[d]
  BY <1>1, <1>3 DEF TypeOK
<1>8. ClientGood(c)'
  BY <1>7 DEF ClientGood
<1>9. QED
  BY <1>1, <1>2, <1>5, <1>6, <1>7, <1>8, OneClient

\* The client is going to record that debuginfod has the file.
LEMMA FoundInd ==
    ASSUME IndInv, NEW c \in Clients, DebuginfodFound(c)
    PROVE  IndInv'
<1> DEFINE r == DebuginfodRecord(cl[c].typ)
<1>1. /\ cl' = [cl EXCEPT ![c].pc = "found"]
      /\ pending' = [pending EXCEPT ![c] = r]
      /\ UNCHANGED <<meta, objs, nextId, request, stored, age, failures, signed>>
  BY DEF DebuginfodFound
<1>2. Grows
  BY <1>1, QuietGrows
<1>3. TypeOK
  BY DEF IndInv
<1>4. r \in Metadata /\ r.state = "none" /\ r.source = "debuginfod"
  <2>1. PICK t \in Types : t = cl[c].typ
    BY <1>3 DEF TypeOK
  <2>2. r = [source |-> "debuginfod", typ |-> t, id |-> 0, hash |-> NoFile,
             state |-> "none", quality |-> "none"]
    BY <2>1 DEF DebuginfodRecord
  <2>3. 0 \in 0..MaxIds
    BY StoreAssumption
  <2>4. QED
    BY <2>2, <2>3 DEF Metadata
<1>5. PICK m \in Metadata : m = r
  BY <1>4
<1>6. GoodRecord(m)'
  BY <1>4, <1>5 DEF GoodRecord
<1>7. PendingGood'
  BY <1>1, <1>2, <1>5, <1>6, PendingOnly DEF Holders
<1>8. MetaGood' /\ StoredGood'
  BY <1>1, <1>2, MetaUnchanged, QuietStored DEF IndInv
<1>9. TypeOK'
  BY <1>1, <1>3, <1>4 DEF TypeOK, ClientPc
<1>10. /\ cl'[c].pc = "found" /\ pending'[c] = m
       /\ \A d \in Clients : d # c => cl'[d] = cl[d] /\ pending'[d] = pending[d]
  BY <1>1, <1>3, <1>5 DEF TypeOK
<1>11. m # NoMeta
  BY NoMetaAssumption
<1>12. ClientGood(c)'
  BY <1>10, <1>11 DEF ClientGood
<1>13. QED
  BY <1>2, <1>7, <1>8, <1>9, <1>10, <1>12, OneClient

\* The client writes the record it holds: MarkAsDebuginfodSource, MarkAsUploading and
\* the second half of MarkAsUploaded.
LEMMA ClientWriteInd ==
    ASSUME IndInv, NEW c \in Clients,
           MarkAsDebuginfodSource(c) \/ MarkAsUploading(c) \/ MarkAsUploaded(c)
    PROVE  IndInv'
<1> DEFINE pc == IF cl[c].pc = "mark" THEN "upload" ELSE "idle"
<1>1. /\ cl[c].pc \in {"found", "mark", "finished"} /\ write(c)
      /\ cl' = [cl EXCEPT ![c].pc = pc]
      /\ UNCHANGED <<objs, nextId, request, stored, age, failures, signed>>
  BY DEF MarkAsDebuginfodSource, MarkAsUploading, MarkAsUploaded
<1>2. Grows
  BY <1>1, QuietGrows
<1>3. TypeOK /\ ClientGood(c)
  BY DEF IndInv, ClientsGood
<1>4. pending[c] # NoMeta
  BY <1>1, <1>3 DEF ClientGood
<1>5. /\ meta' \in [MetaKeys -> Metadata \cup {NoMeta}]
      /\ pending' \in [Holders -> Metadata \cup {NoMeta}]
      /\ MetaGood' /\ PendingGood'
  BY <1>1, <1>2, <1>4, WriteGood DEF Holders
<1>6. pc \in ClientPc
  BY DEF ClientPc
<1>7. TypeOK'
  BY <1>1, <1>3, <1>5, <1>6 DEF TypeOK, Holders
<1>8. StoredGood'
  BY <1>1, QuietStored DEF IndInv
<1>9. pending' = [pending EXCEPT ![c] = NoMeta]
  BY <1>1 DEF write
<1>10. /\ cl'[c] = [cl[c] EXCEPT !.pc = pc]
       /\ \A d \in Clients : d # c => cl'[d] = cl[d] /\ pending'[d] = pending[d]
  BY <1>1, <1>3, <1>9 DEF TypeOK
<1>11. cl[c] \in [pc : ClientPc, typ : Types, file : Files, id : 0..MaxIds]
  BY <1>3 DEF TypeOK
<1>12. ClientGood(c)'
  BY <1>2, <1>3, <1>10, <1>11 DEF ClientGood, Grows
<1>13. QED
  BY <1>2, <1>5, <1>7, <1>8, <1>10, <1>12, OneClient

\* The file reaches the object store, by Upload or through the signed URL.
LEMMA StoreInd ==
    ASSUME IndInv, NEW c \in Clients, cl[c].pc \in {"upload", "send"}, Store(c)
    PROVE  IndInv'
<1> DEFINE i == cl[c].id
<1>1. /\ objs' = [objs EXCEPT ![cl[c].typ] = cl[c].file]
      /\ stored' = stored \cup {i}
      /\ cl' = [cl EXCEPT ![c].pc = "finish"]
      /\ UNCHANGED <<meta, nextId, request, age, pending, failures, signed>>
  BY DEF Store
<1>2. Grows
  BY <1>1 DEF Grows, Issued
<1>3. TypeOK /\ ClientGood(c) /\ StoredGood
  BY DEF IndInv, ClientsGood
<1>4. cl[c] \in [pc : ClientPc, typ : Types, file : Files, id : 0..MaxIds]
  BY <1>3 DEF TypeOK
<1>5. i \in Issued /\ request[i] = [typ |-> cl[c].typ, file |-> cl[c].file]
  BY <1>3 DEF ClientGood
<1>6. i \in Ids
  BY <1>3, <1>5, StoreAssumption DEF Issued, TypeOK, Ids
<1>7. TypeOK'
  BY <1>1, <1>3, <1>4, <1>6 DEF TypeOK, ClientPc
<1>8. MetaGood' /\ PendingGood'
  BY <1>1, <1>2, MetaUnchanged, PendingUnchanged
<1>9. StoredGood'
  <2>1. SUFFICES ASSUME NEW j \in stored \cup {i}
                 PROVE  j \in Issued' /\ objs'[request[j].typ] # NoFile
    BY <1>1 DEF StoredGood
  <2>2. j \in Issued /\ j \in Ids
    BY <1>3, <1>5, <1>6 DEF StoredGood, TypeOK
  <2>3. request[j].typ \in Types
    BY <1>3, <2>2 DEF TypeOK
  <2>4. CASE request[j].typ = cl[c].typ
    BY <1>1, <1>3, <1>4, <2>2, <2>4, StoreAssumption DEF TypeOK, Issued
  <2>5. CASE request[j].typ # cl[c].typ
    BY <1>1, <1>3, <1>5, <2>2, <2>3, <2>5 DEF TypeOK, Issued, StoredGood
  <2>6. QED
    BY <2>4, <2>5
<1>10. /\ cl'[c] = [cl[c] EXCEPT !.pc = "finish"]
       /\ \A d \in Clients : d # c => cl'[d] = cl[d]
  BY <1>1, <1>3 DEF TypeOK
<1>11. ClientGood(c)'
  BY <1>1, <1>2, <1>4, <1>5, <1>10 DEF ClientGood, Grows
<1>12. QED
  BY <1>1, <1>2, <1>7, <1>8, <1>9, <1>10, <1>11, OneClient

\* The first half of MarkAsUploaded: the record names the client's upload, whose file
\* has been stored.
LEMMA FetchInd ==
    ASSUME IndInv, NEW c \in Clients, MarkAsUploadedFetch(c)
    PROVE  IndInv'
<1> DEFINE m == Fetch(cl[c].typ)
<1>1. /\ cl[c].pc = "finish"
      /\ UNCHANGED <<meta, objs, nextId, request, stored, age, failures, signed>>
  BY DEF MarkAsUploadedFetch
<1>2. TypeOK /\ ClientGood(c)
  BY DEF IndInv, ClientsGood
<1>3. cl[c] \in [pc : ClientPc, typ : Types, file : Files, id : 0..MaxIds]
  BY <1>2 DEF TypeOK
<1>4. CASE Matches(m, cl[c].id)
  <2> DEFINE r == [m EXCEPT !.state = "uploaded"]
  <2>1. /\ pending' = [pending EXCEPT ![c] = r]
        /\ cl' = [cl EXCEPT ![c].pc = "finished"]
    BY <1>4 DEF MarkAsUploadedFetch
  <2>2. m \in Metadata /\ GoodRecord(m) /\ m.id = cl[c].id /\ m.state # "none"
    BY <1>3, <1>4, FetchedGood DEF Matches
  <2>3. cl[c].id \in stored
    BY <1>1, <1>2 DEF ClientGood
  <2>4. r \in Metadata /\ GoodRecord(r)
    BY <2>2, <2>3 DEF Metadata, GoodRecord
  <2>5. PICK n \in Metadata : n = r
    BY <2>4
  <2>6. Grows
    BY <1>1, QuietGrows
  <2>7. GoodRecord(n)'
    BY <2>4, <2>5, <2>6, GoodForever
  <2>8. PendingGood'
    BY <2>1, <2>5, <2>6, <2>7, PendingOnly DEF Holders
  <2>9. MetaGood' /\ StoredGood'
    BY <1>1, <2>6, MetaUnchanged, QuietStored DEF IndInv
  <2>10. TypeOK'
    BY <1>1, <1>2, <2>1, <2>4 DEF TypeOK, ClientPc
  <2>11. /\ cl'[c] = [cl[c] EXCEPT !.pc = "finished"] /\ pending'[c] = n
         /\ \A d \in Clients : d # c => cl'[d] = cl[d] /\ pending'[d] = pending[d]
    BY <1>2, <2>1, <2>5 DEF TypeOK
  <2>12. n # NoMeta
    BY NoMetaAssumption
  <2>13. ClientGood(c)'
    BY <1>1, <1>2, <1>3, <2>6, <2>11, <2>12 DEF ClientGood, Grows
  <2>14. QED
    BY <2>6, <2>8, <2>9, <2>10, <2>11, <2>13, OneClient
<1>5. CASE ~Matches(m, cl[c].id)
  <2>1. cl' = [cl EXCEPT ![c].pc = "idle"] /\ UNCHANGED pending
    BY <1>5 DEF MarkAsUploadedFetch
  <2>2. "idle" \in ClientPc /\ failures' \in 0..MaxFailures
    BY <1>1, <1>2 DEF ClientPc, TypeOK
  <2>3. QED
    BY <1>1, <2>1, <2>2, MoveInd
<1>6. QED
  BY <1>4, <1>5

\* Each step of a client keeps the invariant.
LEMMA ClientInd ==
    ASSUME IndInv, NEW c \in Clients, ClientStep(c)
    PROVE  IndInv'
<1>1. TypeOK
  BY DEF IndInv
<1>2. cl[c].typ \in Types /\ cl[c].file \in Files
  BY <1>1 DEF TypeOK
<1>3. {"idle", "send"} \subseteq ClientPc
  BY DEF ClientPc
<1>4. ASSUME NEW t \in Types, NEW f \in Files, NEW force \in Forces,
             InitiateUpload(c, t, f, force)
      PROVE  IndInv'
  BY <1>4, AcceptInd DEF InitiateUpload
<1>5. ASSUME NEW t \in Types, NEW f \in Files, InitiateUploadFirst(c, t, f)
      PROVE  IndInv'
  BY <1>5, FirstInd
<1>6. CASE DebuginfodNone(c)
  BY <1>2, <1>6, AcceptInd DEF DebuginfodNone
<1>7. CASE DebuginfodError(c)
  BY <1>1, <1>3, <1>7, MoveInd DEF DebuginfodError, TypeOK
<1>8. CASE UploadCheck(c)
  <2> DEFINE pc == IF Matches(Fetch(cl[c].typ), cl[c].id) THEN "send" ELSE "idle"
  <2>1. PICK p \in ClientPc : p = pc
    BY <1>3
  <2>2. /\ p \in {"idle", "exists", "send"} /\ cl[c].pc = "upload"
        /\ cl' = [cl EXCEPT ![c].pc = p]
        /\ UNCHANGED <<meta, objs, nextId, request, stored, age, pending, failures, signed>>
    BY <1>8, <2>1 DEF UploadCheck
  <2>3. failures' \in 0..MaxFailures
    BY <1>1, <2>2 DEF TypeOK
  <2>4. QED
    BY <2>2, <2>3, MoveInd
<1>9. CASE UploadStore(c) \/ SignedPUT(c)
  BY <1>9, StoreInd DEF UploadStore, SignedPUT
<1>10. CASE GiveUp(c)
  <2>1. failures' \in 0..MaxFailures
    BY <1>1, <1>10, StoreAssumption DEF TypeOK, GiveUp
  <2>2. QED
    BY <1>3, <1>10, <2>1, MoveInd DEF GiveUp
<1>11. QED
  BY <1>4, <1>5, <1>6, <1>7, <1>8, <1>9, <1>10, FoundInd, ClientWriteInd, FetchInd
     DEF ClientStep

\* Time passes, or nothing happens.
LEMMA QuietInd ==
    ASSUME IndInv, Tick \/ UNCHANGED vars
    PROVE  IndInv'
<1>1. UNCHANGED <<meta, objs, cl, nextId, request, stored, pending, failures, signed>>
  BY DEF Tick, vars
<1>2. TypeOK
  BY DEF IndInv
<1>3. age' \in [Ids -> 0..(StaleAfter + 1)]
  <2>1. CASE Tick
    BY <1>2, <2>1, StoreAssumption DEF Tick, TypeOK
  <2>2. CASE UNCHANGED vars
    BY <1>2, <2>2 DEF vars, TypeOK
  <2>3. QED
    BY <2>1, <2>2
<1>4. TypeOK'
  BY <1>1, <1>2, <1>3 DEF TypeOK
<1>5. Grows
  BY <1>1, QuietGrows
<1>6. MetaGood' /\ PendingGood' /\ StoredGood'
  BY <1>1, <1>5, MetaUnchanged, PendingUnchanged, QuietStored DEF IndInv
<1>7. ClientsGood'
  BY <1>1, <1>5, OtherClients DEF ClientsGood
<1>8. QED
  BY <1>4, <1>6, <1>7 DEF IndInv

-----------------------------------------------------------------------------
(* The records held and stored are good in every state that is reached, however the
   read-modify-write cycles of metadata.go overlap. *)
THEOREM Invariance == Spec => []IndInv
<1>1. IndInv /\ [Next]_vars => IndInv'
  BY ClientInd, SetterInd, QuietInd DEF Next
<1>2. QED
  BY <1>1, InitInd, PTL DEF Spec

(* Types of the state of the store and of its clients. *)
THEOREM TypeCorrect == Spec => []TypeOK
<1>1. IndInv => TypeOK
  BY DEF IndInv
<1>2. QED
  BY <1>1, Invariance, PTL

\* A record that is stored or held is one of the two kinds the invariant is about.
LEMMA RecordIsGood ==
    ASSUME IndInv, NEW m \in Records
    PROVE  m \in Metadata /\ GoodRecord(m)
<1>1. CASE \E k \in MetaKeys : m = meta[k]
  BY <1>1 DEF Records, IndInv, TypeOK, MetaGood
<1>2. CASE \E g \in Holders : m = pending[g]
  BY <1>2 DEF Records, IndInv, TypeOK, PendingGood, Holders
<1>3. QED
  BY <1>1, <1>2 DEF Records, Holders

(* A record never mixes two uploads, although every operation of metadata.go writes back
   a whole record it read earlier. *)
THEOREM RecordsOfOneUpload == Spec => []RecordsAreWhole
<1>1. IndInv => RecordsAreWhole
  BY RecordIsGood DEF RecordsAreWhole, GoodRecord, Issued
<1>2. QED
  BY <1>1, Invariance, PTL

(* MarkUploadFinished never reports an upload whose file was not stored, and there is a
   file for the type of the record. *)
THEOREM UploadedIsStored == Spec => []UploadedMeansStored
<1>1. IndInv => UploadedMeansStored
  <2>1. SUFFICES ASSUME IndInv, NEW m \in Records, m.state = "uploaded"
                 PROVE  m.id \in stored /\ objs[m.typ] # NoFile
    BY DEF UploadedMeansStored
  <2>2. GoodRecord(m)
    BY <2>1, RecordIsGood
  <2>3. m.id \in stored /\ m.typ = request[m.id].typ
    BY <2>1, <2>2 DEF GoodRecord
  <2>4. QED
    BY <2>1, <2>3 DEF IndInv, StoredGood
<1>2. QED
  BY <1>1, Invariance, PTL

(* ShouldInitiateUpload never finds metadata it calls inconsistent. *)
THEOREM NoInconsistency == Spec => []MetadataIsConsistent
<1>1. IndInv => MetadataIsConsistent
  <2>1. SUFFICES ASSUME IndInv, NEW t \in Types
                 PROVE  Reason(Fetch(t), NoFile, FALSE) # "MetadataInconsistency"
    BY DEF MetadataIsConsistent
  <2>2. CASE Fetch(t) = NoMeta
    BY <2>2 DEF Reason
  <2>3. CASE Fetch(t) # NoMeta
    <3>1. Fetch(t) \in Metadata /\ GoodRecord(Fetch(t))
      BY <2>1, <2>3, FetchedGood
    <3>2. QED
      BY <2>3, <3>1 DEF Reason, GoodRecord, Metadata
  <2>4. QED
    BY <2>2, <2>3
<1>2. QED
  BY <1>1, Invariance, PTL

(* No record blocks a build ID: it says that the debuginfos are there, or a client with any
   file is let in without Force, or it is of an upload that was issued and whose time is
   running, so that it becomes stale. *)
NotBlocked ==
    \A t \in Types : Fetch(t) # NoMeta =>
        \/ Fetch(t).state = "uploaded" \/ Fetch(t).source = "debuginfod"
        \/ \A f \in Files : Accepts(Reason(Fetch(t), f, FALSE))
        \/ /\ Fetch(t).state = "uploading"
           /\ Fetch(t).id \in Issued /\ age[Fetch(t).id] <= StaleAfter

(* What GoodRecord says of a record is enough. *)
LEMMA GoodNotBlocked == IndInv => NotBlocked
<1>1. SUFFICES ASSUME IndInv, NEW t \in Types, Fetch(t) # NoMeta,
                      Fetch(t).state # "uploaded", Fetch(t).source # "debuginfod",
                      ~(/\ Fetch(t).state = "uploading"
                        /\ Fetch(t).id \in Issued /\ age[Fetch(t).id] <= StaleAfter),
                      NEW f \in Files
               PROVE  Accepts(Reason(Fetch(t), f, FALSE))
  BY DEF NotBlocked
<1>2. Fetch(t) \in Metadata /\ GoodRecord(Fetch(t))
  BY <1>1, FetchedGood
<1>3. Fetch(t).source = "upload" /\ Fetch(t).state \in {"uploading", "purged"} /\ Fetch(t).id \in Issued
  BY <1>1, <1>2 DEF GoodRecord, Metadata
<1>4. Fetch(t).state = "uploading" => uploadIsStale(Fetch(t))
  <2>1. Fetch(t).id \in Ids
    BY <1>2, <1>3, StoreAssumption DEF Metadata, Issued, Ids, IndInv, TypeOK
  <2>2. age[Fetch(t).id] \in Nat
    BY <1>1, <2>1, StoreAssumption DEF IndInv, TypeOK
  <2>3. QED
    BY <1>1, <1>3, <2>2, StoreAssumption DEF uploadIsStale
<1>5. Reason(Fetch(t), f, FALSE) \in {"UploadStale", "DebuginfoPurged"}
  BY <1>1, <1>3, <1>4 DEF Reason
<1>6. QED
  BY <1>5 DEF Accepts

(* The part of DebuginfosBecomeAvailable that is no liveness: an upload that was abandoned at
   any point, or overtaken by another one, leaves a record that ages until
   ShouldInitiateUpload accepts the next client. *)
THEOREM BuildIdIsNotBlocked == Spec => []NotBlocked
<1>1. QED
  BY GoodNotBlocked, Invariance, PTL
=============================================================================
