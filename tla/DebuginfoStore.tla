--------------------------- MODULE DebuginfoStore ---------------------------
(***************************************************************************)
(* The debuginfo store of pkg/debuginfo (store.go, metadata.go) for one    *)
(* build ID.  What it keeps about the build ID is a metadata object per    *)
(* debuginfo type and the uploaded file, all in an object store that knows *)
(* nothing but reading and overwriting an object.  Every RPC reads the     *)
(* metadata, decides, and writes it back later; between the two any other  *)
(* RPC, and the symbolizer, may do the same.  Each access to the object    *)
(* store is therefore a step of its own.                                   *)
(*                                                                         *)
(* Clients follow pkg/debuginfo/client.go: InitiateUpload, send the file   *)
(* (by gRPC, or to a signed URL), MarkUploadFinished; they may fail at any *)
(* point and start again.  A standalone ShouldInitiateUpload is the first  *)
(* half of InitiateUpload, after which the client may give up.  Setters    *)
(* are the callers of SetQuality and MarkAsPurged.                         *)
(*                                                                         *)
(* A file stands for its hash.                                             *)
(***************************************************************************)
EXTENDS Naturals

CONSTANTS
    Clients, Setters,   \* goroutines
    Types,              \* the debuginfo types in use
    Files, NoFile,      \* file contents; no content
    NoMeta,             \* there is no metadata object
    SignedModes,        \* the values of signedUpload.Enabled in use
    Answers,            \* what debuginfod may answer: "found", "none", "error"
    Forces,             \* the values of the request field Force in use
    StaleAfter,         \* maxUploadDuration plus two minutes, in ticks
    Slow,               \* an upload in progress may outlast that time
    MaxIds,             \* bound: uploads initiated
    MaxFailures         \* bound: clients giving up

AllTypes == {"debuginfo", "executable", "sources", "sourcemap"}

ASSUME StoreAssumption ==
    /\ Types \subseteq AllTypes
    /\ NoFile \notin Files
    /\ Clients \cap Setters = {}
    /\ SignedModes \subseteq BOOLEAN
    /\ Answers \subseteq {"found", "none", "error"}
    /\ Forces \subseteq BOOLEAN
    /\ StaleAfter \in Nat \ {0}
    /\ Slow \in BOOLEAN
    /\ MaxIds \in Nat /\ MaxFailures \in Nat

Ids == 1..MaxIds

\* The metadata of a build ID.  An upload in state "none" is a nil Upload, quality
\* "none" a nil Quality; "empty" is a valid ELF file without debug information.
Metadata == [source  : {"upload", "debuginfod"},
             typ     : Types,
             id      : 0..MaxIds,
             hash    : Files \cup {NoFile},
             state   : {"none", "uploading", "uploaded", "purged"},
             quality : {"none", "ok", "empty", "invalid"}]

ASSUME NoMetaAssumption == NoMeta \notin Metadata

metadataObjectPath(t) ==
    CASE t = "executable" -> "executable.metadata"
      [] t = "sources"    -> "sources.metadata"
      [] OTHER            -> "metadata"

MetaKeys == {metadataObjectPath(t) : t \in Types}

VARIABLES
    meta,       \* metadata objects, by path
    objs,       \* uploaded files, by type: objectPath has one path for each type
    cl,         \* the clients
    nextId,     \* the next upload ID
    request,    \* what each upload ID was issued for
    stored,     \* history: the uploads whose file reached the object store
    age,        \* ticks since each upload was started, counted to StaleAfter + 1
    pending,    \* the record a goroutine is about to write to the object store
    failures,   \* how often a goroutine failed or gave up
    signed      \* files are sent to signed URLs; set when the server starts

vars == <<meta, objs, cl, nextId, request, stored, age, pending, failures, signed>>

ClientPc == {"idle", "exists", "found", "mark", "upload", "send", "finish", "finished"}

Init ==
    /\ meta = [k \in MetaKeys |-> NoMeta]
    /\ objs = [t \in Types |-> NoFile]
    /\ \E t \in Types, f \in Files :
        /\ cl = [c \in Clients |-> [pc |-> "idle", typ |-> t, file |-> f, id |-> 0]]
        /\ request = [i \in Ids |-> [typ |-> t, file |-> NoFile]]
    /\ nextId = 1
    /\ stored = {}
    /\ age = [i \in Ids |-> 0]
    /\ pending = [g \in Clients \cup Setters |-> NoMeta]
    /\ failures = 0
    /\ signed \in SignedModes

-----------------------------------------------------------------------------
(* ObjectStoreMetadata. *)

Fetch(t) == meta[metadataObjectPath(t)]

\* Mutant of write: it keeps the upload ID of a record that is there.
writeKeepsId(g) ==
    LET k == metadataObjectPath(pending[g].typ)
    IN  /\ meta' = [meta EXCEPT ![k] =
                        [pending[g] EXCEPT !.id = IF meta[k] = NoMeta THEN @ ELSE meta[k].id]]
        /\ pending' = [pending EXCEPT ![g] = NoMeta]

\* A goroutine writes the record it has prepared, over whatever is there.
write(g) ==
    /\ meta' = [meta EXCEPT ![metadataObjectPath(pending[g].typ)] = pending[g]]
    /\ pending' = [pending EXCEPT ![g] = NoMeta]

\* SetQuality reads the record and later writes all of it back.
SetQuality(s, t, q) ==
    /\ pending[s] = NoMeta
    /\ Fetch(t) # NoMeta
    /\ pending' = [pending EXCEPT ![s] = [Fetch(t) EXCEPT !.quality = q]]
    /\ UNCHANGED <<meta, objs, cl, nextId, request, stored, age, failures, signed>>

MarkAsPurged(s, t) ==
    /\ pending[s] = NoMeta
    /\ Fetch(t) # NoMeta
    /\ Fetch(t).state # "none"
    /\ pending' = [pending EXCEPT ![s] = [Fetch(t) EXCEPT !.state = "purged"]]
    /\ UNCHANGED <<meta, objs, cl, nextId, request, stored, age, failures, signed>>

SetterWrite(s) ==
    /\ pending[s] # NoMeta
    /\ write(s)
    /\ UNCHANGED <<objs, cl, nextId, request, stored, age, failures, signed>>

-----------------------------------------------------------------------------
(* ShouldInitiateUpload and InitiateUpload. *)

\* Mutant of uploadIsStale.
NothingIsStale(m) == FALSE

uploadIsStale(m) == age[m.id] > StaleAfter

\* The answer of ShouldInitiateUpload, given the metadata m.
Reason(m, hash, force) ==
    CASE m = NoMeta -> "FirstTimeSeen"
      [] m # NoMeta /\ m.source = "debuginfod" ->
            IF m.quality = "invalid" THEN "DebuginfodInvalid" ELSE "DebuginfodSource"
      [] m # NoMeta /\ m.source = "upload" /\ m.state = "uploading" ->
            IF force THEN "UploadInProgressButForced"
            ELSE IF uploadIsStale(m) THEN "UploadStale" ELSE "UploadInProgress"
      [] m # NoMeta /\ m.source = "upload" /\ m.state = "uploaded" /\ m.quality # "invalid" ->
            IF force THEN "DebuginfoAlreadyExistsButForced" ELSE "DebuginfoAlreadyExists"
      [] m # NoMeta /\ m.source = "upload" /\ m.state = "uploaded" /\ m.quality = "invalid" ->
            IF hash = NoFile THEN "DebuginfoInvalid"
            ELSE IF m.hash = hash THEN "DebuginfoEqual" ELSE "DebuginfoNotEqual"
      [] m # NoMeta /\ m.source = "upload" /\ m.state = "purged" -> "DebuginfoPurged"
      [] OTHER -> "MetadataInconsistency"

Accepts(reason) ==
    reason \in {"UploadInProgressButForced", "UploadStale", "DebuginfoAlreadyExistsButForced",
                "DebuginfoInvalid", "DebuginfoNotEqual", "DebuginfoPurged", "DebuginfodInvalid"}

\* InitiateUpload is going to MarkAsUploading with a new upload ID.
Accept(c, t, f) ==
    /\ nextId <= MaxIds
    /\ nextId' = nextId + 1
    /\ request' = [request EXCEPT ![nextId] = [typ |-> t, file |-> f]]
    /\ cl' = [cl EXCEPT ![c] = [pc |-> "mark", typ |-> t, file |-> f, id |-> nextId]]
    /\ pending' = [pending EXCEPT ![c] =
                    [source |-> "upload", typ |-> t, id |-> nextId, hash |-> f,
                     state |-> "uploading", quality |-> "none"]]
    /\ UNCHANGED <<meta, objs, stored, age, failures, signed>>

InitiateUpload(c, t, f, force) ==
    /\ cl[c].pc = "idle"
    /\ Accepts(Reason(Fetch(t), f, force))
    /\ Accept(c, t, f)

\* The first time the build ID is seen, ask debuginfod.
InitiateUploadFirst(c, t, f) ==
    /\ cl[c].pc = "idle"
    /\ Reason(Fetch(t), f, FALSE) = "FirstTimeSeen"
    /\ cl' = [cl EXCEPT ![c] = [pc |-> "exists", typ |-> t, file |-> f, id |-> 0]]
    /\ UNCHANGED <<meta, objs, nextId, request, stored, age, pending, failures, signed>>

\* Mutants of DebuginfodRecord: the type, or the source, is left out.
DebuginfodRecordNoType(t) == [source |-> "debuginfod", typ |-> "", id |-> 0, hash |-> NoFile,
                              state |-> "none", quality |-> "none"]
DebuginfodRecordNoSource(t) == [source |-> "upload", typ |-> t, id |-> 0, hash |-> NoFile,
                                state |-> "none", quality |-> "none"]

\* The record that MarkAsDebuginfodSource writes.
DebuginfodRecord(t) == [source |-> "debuginfod", typ |-> t, id |-> 0, hash |-> NoFile,
                        state |-> "none", quality |-> "none"]

\* debuginfodClients.Exists: found, so it is going to MarkAsDebuginfodSource ...
DebuginfodFound(c) ==
    /\ cl[c].pc = "exists"
    /\ "found" \in Answers
    /\ cl' = [cl EXCEPT ![c].pc = "found"]
    /\ pending' = [pending EXCEPT ![c] = DebuginfodRecord(cl[c].typ)]
    /\ UNCHANGED <<meta, objs, nextId, request, stored, age, failures, signed>>

\* ... not found (or not asked, for a build ID that is no GNU one) ...
DebuginfodNone(c) ==
    /\ cl[c].pc = "exists"
    /\ "none" \in Answers
    /\ Accept(c, cl[c].typ, cl[c].file)

\* ... or an error, which the RPC returns.
DebuginfodError(c) ==
    /\ cl[c].pc = "exists"
    /\ "error" \in Answers
    /\ cl' = [cl EXCEPT ![c].pc = "idle"]
    /\ UNCHANGED <<meta, objs, nextId, request, stored, age, pending, failures, signed>>

MarkAsDebuginfodSource(c) ==
    /\ cl[c].pc = "found"
    /\ write(c)
    /\ cl' = [cl EXCEPT ![c].pc = "idle"]
    /\ UNCHANGED <<objs, nextId, request, stored, age, failures, signed>>

MarkAsUploading(c) ==
    /\ cl[c].pc = "mark"
    /\ write(c)
    /\ cl' = [cl EXCEPT ![c].pc = "upload"]
    /\ UNCHANGED <<objs, nextId, request, stored, age, failures, signed>>

-----------------------------------------------------------------------------
(* Upload and MarkUploadFinished. *)

\* Mutant of Matches: the ID is not looked at.
MatchesAnyUpload(m, id) == m # NoMeta /\ m.state # "none"

\* The record is about an upload with this ID.
Matches(m, id) == m # NoMeta /\ m.state # "none" /\ m.id = id

\* upload: the metadata is checked once, before the file is received.
UploadCheck(c) ==
    /\ ~signed
    /\ cl[c].pc = "upload"
    /\ cl' = [cl EXCEPT ![c].pc =
                IF Matches(Fetch(cl[c].typ), cl[c].id) THEN "send" ELSE "idle"]
    /\ UNCHANGED <<meta, objs, nextId, request, stored, age, pending, failures, signed>>

Store(c) ==
    /\ objs' = [objs EXCEPT ![cl[c].typ] = cl[c].file]
    /\ stored' = stored \cup {cl[c].id}
    /\ cl' = [cl EXCEPT ![c].pc = "finish"]
    /\ UNCHANGED <<meta, nextId, request, age, pending, failures, signed>>

UploadStore(c) ==
    /\ cl[c].pc = "send"
    /\ Store(c)

\* The signed URL is valid for maxUploadDuration and bound to the object only.
SignedPUT(c) ==
    /\ signed
    /\ cl[c].pc = "upload"
    /\ age[cl[c].id] < StaleAfter
    /\ Store(c)

\* MarkAsUploaded: read and check, then write the record back.
MarkAsUploadedFetch(c) ==
    /\ cl[c].pc = "finish"
    /\ LET m == Fetch(cl[c].typ) IN
        IF Matches(m, cl[c].id)
        THEN /\ pending' = [pending EXCEPT ![c] = [m EXCEPT !.state = "uploaded"]]
             /\ cl' = [cl EXCEPT ![c].pc = "finished"]
        ELSE /\ cl' = [cl EXCEPT ![c].pc = "idle"]
             /\ UNCHANGED pending
    /\ UNCHANGED <<meta, objs, nextId, request, stored, age, failures, signed>>

MarkAsUploaded(c) ==
    /\ cl[c].pc = "finished"
    /\ write(c)
    /\ cl' = [cl EXCEPT ![c].pc = "idle"]
    /\ UNCHANGED <<objs, nextId, request, stored, age, failures, signed>>

\* A client, its connection or the object store fails; the RPC in progress ends
\* without its next effect.
GiveUp(c) ==
    /\ cl[c].pc # "idle"
    /\ failures < MaxFailures
    /\ failures' = failures + 1
    /\ cl' = [cl EXCEPT ![c].pc = "idle"]
    /\ pending' = [pending EXCEPT ![c] = NoMeta]
    /\ UNCHANGED <<meta, objs, nextId, request, stored, age, signed>>

\* Time passes.  Unless uploads may be Slow, one in progress is not stale.
Tick ==
    /\ \A c \in Clients :
        cl[c].pc \in {"mark", "upload", "send", "finish", "finished"} =>
            Slow \/ age[cl[c].id] < StaleAfter
    /\ \E i \in Ids : i < nextId /\ age[i] <= StaleAfter
    /\ age' = [i \in Ids |-> IF i < nextId /\ age[i] <= StaleAfter THEN age[i] + 1 ELSE age[i]]
    /\ UNCHANGED <<meta, objs, cl, nextId, request, stored, pending, failures, signed>>

-----------------------------------------------------------------------------
ClientStep(c) ==
    \/ \E t \in Types, f \in Files :
            \/ \E force \in Forces : InitiateUpload(c, t, f, force)
            \/ InitiateUploadFirst(c, t, f)
    \/ DebuginfodFound(c) \/ DebuginfodNone(c) \/ DebuginfodError(c)
    \/ MarkAsDebuginfodSource(c) \/ MarkAsUploading(c)
    \/ UploadCheck(c) \/ UploadStore(c) \/ SignedPUT(c)
    \/ MarkAsUploadedFetch(c) \/ MarkAsUploaded(c)
    \/ GiveUp(c)

SetterStep(s) ==
    \/ \E t \in Types : \/ \E q \in {"ok", "empty", "invalid"} : SetQuality(s, t, q)
                         \/ MarkAsPurged(s, t)
    \/ SetterWrite(s)

Next ==
    \/ \E c \in Clients : ClientStep(c)
    \/ \E s \in Setters : SetterStep(s)
    \/ Tick

Spec == Init /\ [][Next]_vars

\* Clients keep asking for an upload, without Force, and their RPCs make progress.
Progress(c) ==
    \/ \E t \in Types, f \in Files : InitiateUpload(c, t, f, FALSE) \/ InitiateUploadFirst(c, t, f)
    \/ DebuginfodFound(c) \/ DebuginfodNone(c) \/ DebuginfodError(c)
    \/ MarkAsDebuginfodSource(c) \/ MarkAsUploading(c)
    \/ UploadCheck(c) \/ UploadStore(c) \/ SignedPUT(c)
    \/ MarkAsUploadedFetch(c) \/ MarkAsUploaded(c)

-----------------------------------------------------------------------------
(* Properties. *)

TypeOK ==
    /\ meta \in [MetaKeys -> Metadata \cup {NoMeta}]
    /\ objs \in [Types -> Files \cup {NoFile}]
    /\ cl \in [Clients -> [pc : ClientPc, typ : Types, file : Files, id : 0..MaxIds]]
    /\ nextId \in 1..(MaxIds + 1)
    /\ request \in [Ids -> [typ : Types, file : Files \cup {NoFile}]]
    /\ stored \subseteq Ids
    /\ age \in [Ids -> 0..(StaleAfter + 1)]
    /\ pending \in [Clients \cup Setters -> Metadata \cup {NoMeta}]
    /\ failures \in 0..MaxFailures
    /\ signed \in BOOLEAN

\* The records that are in the object store or about to be written to it.
Records == ({meta[k] : k \in MetaKeys} \cup {pending[g] : g \in Clients \cup Setters}) \ {NoMeta}

\* However the read-modify-write cycles of the RPCs and of SetQuality overlap, a
\* record never mixes two uploads: its type and hash are the ones its upload ID
\* was issued for.
RecordsAreWhole ==
    \A m \in Records : m.state # "none" =>
        m.id \in 1..(nextId - 1) /\ m.typ = request[m.id].typ /\ m.hash = request[m.id].file

\* An upload is never reported as uploaded before its own file was stored, and
\* there is a file to fetch then: MarkAsUploaded checks neither, and may write
\* a record that other uploads have replaced in the meantime.
UploadedMeansStored ==
    \A m \in Records : m.state = "uploaded" => m.id \in stored /\ objs[m.typ] # NoFile

\* ShouldInitiateUpload never runs into its "metadata inconsistency" errors.
MetadataIsConsistent ==
    \A t \in Types : Reason(Fetch(t), NoFile, FALSE) # "MetadataInconsistency"

\* An upload that was started and abandoned does not block the build ID: once it
\* is stale it is retried, and in the end there are debuginfos for the build ID,
\* uploaded or at debuginfod.
DebuginfosBecomeAvailable ==
    \A t \in Types :
        <>(Fetch(t) # NoMeta /\ (Fetch(t).state = "uploaded" \/ Fetch(t).source = "debuginfod"))

=============================================================================
