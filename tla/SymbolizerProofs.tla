-------------------------- MODULE SymbolizerProofs --------------------------
(***************************************************************************)
(* Proofs about Symbolizer, for any number of clients, queries, files and  *)
(* uploads, on top of the invariant of DebuginfoStoreProofs: the steps of  *)
(* the symbolizer are steps of the store's setters, or fail.               *)
(*                                                                         *)
(* Files that are there to be assessed never cease to be: what the object  *)
(* store, tmpDir or a goroutine has is one of them, although the object    *)
(* may be overwritten and tmpDir replaced between any two steps.           *)
(***************************************************************************)
EXTENDS Symbolizer, DebuginfoStoreProofs

\* What is in the object store was uploaded by some request.
ObjsGood == \A t \in Types : objs[t] # NoFile => objs[t] \in Available

TmpGood == tmp # NoFile => tmp \in Available

\* What a goroutine has read allowed it to go on; the file it has is one of those
\* that were there, and so is the one in tmpDir once it goes on to open it.
GoodSym(r) ==
    /\ r.pc # "idle" =>
        /\ r.saw \in Metadata /\ GoodRecord(r.saw)
        /\ r.saw.source = "upload" => r.saw.state = "uploaded"
    /\ r.pc \in {"rename", "assess", "write"} => r.file # NoFile /\ r.file \in Available
    /\ r.pc \in {"open", "assess", "write", "lines"} => tmp # NoFile

SymGood == \A s \in Setters : GoodSym(sym[s])

SymInd ==
    /\ IndInv /\ SymTypeOK
    /\ ObjsGood /\ TmpGood /\ SymGood
    /\ QualityWasObserved

-----------------------------------------------------------------------------
(* The records after a step. *)

\* A goroutine holds another record: no other record is new.
LEMMA RecordsHeld ==
    ASSUME TypeOK, UNCHANGED meta, NEW g \in Holders, NEW r, pending' = [pending EXCEPT ![g] = r]
    PROVE  \A m \in Records' : m \in Records \/ (m = r /\ r # NoMeta)
<1>1. pending \in [Holders -> Metadata \cup {NoMeta}]
  BY DEF TypeOK, Holders
<1>2. \A h \in Holders : pending'[h] = IF h = g THEN r ELSE pending[h]
  BY <1>1
<1>3. QED
  BY <1>2 DEF Records, Holders

\* A write stores a record that was held.
LEMMA RecordsWritten ==
    ASSUME TypeOK, NEW g \in Holders, pending[g] # NoMeta, write(g)
    PROVE  Records' \subseteq Records
<1>1. pending \in [Holders -> Metadata \cup {NoMeta}] /\ meta \in [MetaKeys -> Metadata \cup {NoMeta}]
  BY DEF TypeOK, Holders
<1>2. \A h \in Holders : pending'[h] = IF h = g THEN NoMeta ELSE pending[h]
  BY <1>1 DEF write
<1>3. \A k \in MetaKeys : meta'[k] = meta[k] \/ meta'[k] = pending[g]
  BY <1>1 DEF write
<1>4. QED
  BY <1>2, <1>3 DEF Records, Holders

\* A client brings records without a quality, or with that of a record that is there.
LEMMA ClientQualities ==
    ASSUME IndInv, NEW c \in Clients, ClientStep(c), NEW m \in Records'
    PROVE  m.quality = "none" \/ \E n \in Records : n.quality = m.quality
<1>0. TypeOK /\ c \in Holders
  BY DEF IndInv, Holders
<1>1. CASE UNCHANGED <<meta, pending>>
  BY <1>1 DEF Records
<1>2. ASSUME NEW t \in Types, NEW f \in Files, Accept(c, t, f)
      PROVE  m.quality = "none" \/ \E n \in Records : n.quality = m.quality
  <2> DEFINE r == [source |-> "upload", typ |-> t, id |-> nextId, hash |-> f,
                   state |-> "uploading", quality |-> "none"]
  <2>1. UNCHANGED meta /\ pending' = [pending EXCEPT ![c] = r]
    BY <1>2 DEF Accept
  <2>2. m \in Records \/ m = r
    BY <1>0, <2>1, RecordsHeld
  <2>3. QED
    BY <2>2
<1>3. CASE DebuginfodFound(c)
  <2> DEFINE r == DebuginfodRecord(cl[c].typ)
  <2>1. UNCHANGED meta /\ pending' = [pending EXCEPT ![c] = r]
    BY <1>3 DEF DebuginfodFound
  <2>2. m \in Records \/ m = r
    BY <1>0, <2>1, RecordsHeld
  <2>3. QED
    BY <2>2 DEF DebuginfodRecord
<1>4. CASE MarkAsDebuginfodSource(c) \/ MarkAsUploading(c) \/ MarkAsUploaded(c)
  <2>1. write(c) /\ cl[c].pc \in {"found", "mark", "finished"}
    BY <1>4 DEF MarkAsDebuginfodSource, MarkAsUploading, MarkAsUploaded
  <2>2. pending[c] # NoMeta
    BY <2>1 DEF IndInv, ClientsGood, ClientGood
  <2>3. QED
    BY <1>0, <2>1, <2>2, RecordsWritten
<1>5. CASE MarkAsUploadedFetch(c) /\ ~UNCHANGED pending
  <2> DEFINE r == [Fetch(cl[c].typ) EXCEPT !.state = "uploaded"]
  <2>1. UNCHANGED meta /\ pending' = [pending EXCEPT ![c] = r] /\ Fetch(cl[c].typ) # NoMeta
    BY <1>5 DEF MarkAsUploadedFetch, Matches
  <2>2. cl[c].typ \in Types
    BY <1>0 DEF TypeOK
  <2>3. Fetch(cl[c].typ) \in Metadata /\ Fetch(cl[c].typ) \in Records
    BY <2>1, <2>2, FetchedGood DEF Records, Fetch, MetaKeys
  <2>4. r.quality = Fetch(cl[c].typ).quality
    BY <2>3 DEF Metadata
  <2>5. m \in Records \/ m = r
    BY <1>0, <2>1, RecordsHeld
  <2>6. QED
    BY <2>3, <2>4, <2>5
<1>6. CASE GiveUp(c)
  <2>1. UNCHANGED meta /\ pending' = [pending EXCEPT ![c] = NoMeta]
    BY <1>6 DEF GiveUp
  <2>2. QED
    BY <1>0, <2>1, RecordsHeld
<1>7. CASE \/ \E t \in Types, f \in Files : InitiateUploadFirst(c, t, f)
           \/ DebuginfodError(c) \/ UploadCheck(c) \/ UploadStore(c) \/ SignedPUT(c)
           \/ MarkAsUploadedFetch(c) /\ UNCHANGED pending
  BY <1>1, <1>7 DEF InitiateUploadFirst, DebuginfodError, UploadCheck, UploadStore, SignedPUT,
                   Store, MarkAsUploadedFetch
<1>8. CASE \/ \E t \in Types, f \in Files : \E force \in Forces : InitiateUpload(c, t, f, force)
           \/ DebuginfodNone(c)
  <2>1. cl[c].typ \in Types /\ cl[c].file \in Files
    BY <1>0 DEF TypeOK
  <2>2. QED
    BY <1>2, <1>8, <2>1 DEF InitiateUpload, DebuginfodNone
<1>9. QED
  BY <1>3, <1>4, <1>5, <1>6, <1>7, <1>8 DEF ClientStep

-----------------------------------------------------------------------------
(* The files that are there after a step. *)

\* A file that was there to be fetched stays one.
LEMMA AvailableGrows ==
    ASSUME IndInv, Grows
    PROVE  Available \subseteq Available'
BY DEF IndInv, StoredGood, Grows, Available

\* Clients only add uploads and files.
LEMMA ClientGrows ==
    ASSUME IndInv, NEW c \in Clients, ClientStep(c)
    PROVE  Grows
<1>0. TypeOK
  BY DEF IndInv
<1>1. ASSUME NEW t, NEW f, Accept(c, t, f)
      PROVE  Grows
  <2>1. nextId \in Nat \ {0} /\ nextId' = nextId + 1 /\ stored' = stored
    BY <1>0, <1>1 DEF TypeOK, Accept
  <2>2. \A i \in Issued : i # nextId /\ i \in Ids
    BY <1>0, <1>1, StoreAssumption DEF TypeOK, Issued, Ids, Accept
  <2>3. QED
    BY <1>0, <1>1, <2>1, <2>2 DEF TypeOK, Grows, Issued, Accept
<1>2. CASE UNCHANGED <<nextId, request>> /\ stored \subseteq stored'
  BY <1>2 DEF Grows, Issued
<1>3. QED
  BY <1>1, <1>2
     DEF ClientStep, InitiateUpload, InitiateUploadFirst, DebuginfodFound, DebuginfodNone,
         DebuginfodError, MarkAsDebuginfodSource, MarkAsUploading, UploadCheck, UploadStore,
         SignedPUT, Store, MarkAsUploadedFetch, MarkAsUploaded, GiveUp

\* What a client stores is the file of its request.
LEMMA ClientObjs ==
    ASSUME IndInv, ObjsGood, NEW c \in Clients, ClientStep(c)
    PROVE  ObjsGood'
<1>0. TypeOK /\ Available \subseteq Available'
  BY ClientGrows, AvailableGrows DEF IndInv
<1>1. CASE UNCHANGED objs
  BY <1>0, <1>1 DEF ObjsGood
<1>2. CASE Store(c) /\ cl[c].pc \in {"upload", "send"}
  <2>1. request[cl[c].id].file = cl[c].file
    <3>1. request[cl[c].id] = [typ |-> cl[c].typ, file |-> cl[c].file]
      BY <1>2 DEF IndInv, ClientsGood, ClientGood
    <3>2. QED
      BY <3>1
  <2>2. cl[c].file \in Available'
    BY <1>2, <2>1 DEF Store, Available
  <2>3. \A t \in Types : objs'[t] = objs[t] \/ objs'[t] = cl[c].file
    BY <1>0, <1>2 DEF Store, TypeOK
  <2>4. QED
    BY <1>0, <2>2, <2>3 DEF ObjsGood
<1>3. QED
  BY <1>1, <1>2
     DEF ClientStep, InitiateUpload, InitiateUploadFirst, DebuginfodFound, DebuginfodNone, Accept,
         DebuginfodError, MarkAsDebuginfodSource, MarkAsUploading, UploadCheck, UploadStore,
         SignedPUT, MarkAsUploadedFetch, MarkAsUploaded, GiveUp

-----------------------------------------------------------------------------
(* What stays true of goroutines and records. *)

Syms == [pc : SymPc, saw : Metadata \cup {NoMeta}, file : Files \cup {UpstreamFile, NoFile}]

\* A step takes no file away.
KeepsFiles == IndInv /\ Grows /\ (tmp # NoFile => tmp' # NoFile)

\* What is said of a goroutine stays true while others move.
LEMMA GoodSymForever ==
    ASSUME KeepsFiles, NEW r \in Syms, GoodSym(r)
    PROVE  GoodSym(r)'
<1>1. Available \subseteq Available'
  BY AvailableGrows DEF KeepsFiles
<1>2. r.pc # "idle" => GoodRecord(r.saw)'
  <2>1. SUFFICES ASSUME r.pc # "idle"
                 PROVE  GoodRecord(r.saw)'
    OBVIOUS
  <2>2. r.saw \in Metadata /\ GoodRecord(r.saw)
    BY <2>1 DEF GoodSym
  <2>3. QED
    BY <2>2, GoodForever DEF KeepsFiles
<1>3. QED
  BY <1>1, <1>2 DEF GoodSym, KeepsFiles

\* So for all goroutines of the symbolizer, when none of them moves.
LEMMA SymUnchanged ==
    ASSUME SymInd, KeepsFiles, UNCHANGED sym
    PROVE  SymGood'
<1>1. SUFFICES ASSUME NEW s \in Setters
               PROVE  GoodSym(sym[s])'
  BY DEF SymGood
<1>2. sym[s] \in Syms /\ GoodSym(sym[s])
  BY DEF SymInd, SymTypeOK, SymGood, Syms
<1>3. PICK r \in Syms : r = sym[s]
  BY <1>2
<1>4. GoodSym(r)'
  BY <1>2, <1>3, GoodSymForever
<1>5. QED
  BY <1>3, <1>4 DEF GoodSym

\* One goroutine moves.
LEMMA SymMoves ==
    ASSUME SymInd, KeepsFiles, NEW s \in Setters, NEW r \in Syms, GoodSym(r)',
           sym' = [sym EXCEPT ![s] = r]
    PROVE  SymGood' /\ sym' \in [Setters -> Syms]
<1>1. sym \in [Setters -> Syms]
  BY DEF SymInd, SymTypeOK, Syms
<1>2. ASSUME NEW k \in Setters
      PROVE  GoodSym(sym[k])'
  <2>1. CASE k = s
    <3>1. sym'[k] = r
      BY <1>1, <2>1
    <3>2. QED
      BY <3>1 DEF GoodSym
  <2>2. CASE k # s
    <3>1. sym'[k] = sym[k] /\ sym[k] \in Syms /\ GoodSym(sym[k])
      BY <1>1, <2>2 DEF SymInd, SymGood
    <3>2. PICK q \in Syms : q = sym[k]
      BY <3>1
    <3>3. GoodSym(q)'
      BY <3>1, <3>2, GoodSymForever
    <3>4. QED
      BY <3>1, <3>2, <3>3 DEF GoodSym
  <2>3. QED
    BY <2>1, <2>2
<1>3. QED
  BY <1>1, <1>2 DEF SymGood

\* A step that makes up no quality.
LEMMA QualitiesKept ==
    ASSUME SymInd, KeepsFiles,
           \A m \in Records' : m.quality = "none" \/ \E n \in Records : n.quality = m.quality
    PROVE  QualityWasObserved'
<1>1. Available \subseteq Available'
  BY AvailableGrows DEF KeepsFiles
<1>2. SUFFICES ASSUME NEW m \in Records', m.quality # "none"
               PROVE  tmp' # NoFile /\ \E f \in Available' : m.quality = Kind[f]
  BY DEF QualityWasObserved
<1>3. PICK n \in Records : n.quality = m.quality
  BY <1>2
<1>4. tmp # NoFile /\ \E f \in Available : n.quality = Kind[f]
  BY <1>2, <1>3 DEF SymInd, QualityWasObserved
<1>5. QED
  BY <1>1, <1>3, <1>4 DEF KeepsFiles

-----------------------------------------------------------------------------
(* The initial states and the steps. *)

\* No query has begun and tmpDir is empty.
LEMMA SymInitInd == SymInit => SymInd
<1>1. SUFFICES ASSUME SymInit
               PROVE  SymInd
  OBVIOUS
<1>2. IndInv /\ Init
  BY <1>1, InitInd DEF SymInit
<1>3. SymTypeOK
  BY <1>1, <1>2 DEF SymInit, SymTypeOK, SymPc, IndInv
<1>4. ObjsGood /\ TmpGood
  BY <1>1, <1>2 DEF SymInit, Init, ObjsGood, TmpGood
<1>5. SymGood
  BY <1>1 DEF SymInit, SymGood, GoodSym
<1>6. Records = {}
  BY <1>2 DEF Init, Records
<1>7. QED
  BY <1>2, <1>3, <1>4, <1>5, <1>6 DEF SymInd, QualityWasObserved

\* A client moves, time passes or nothing happens.
LEMMA StoreSteps ==
    ASSUME SymInd, UNCHANGED symVars,
           (\E c \in Clients : ClientStep(c)) \/ Tick \/ UNCHANGED storeVars
    PROVE  SymInd'
<1>0. IndInv /\ SymTypeOK /\ ObjsGood /\ TmpGood /\ UNCHANGED <<sym, tmp>>
  BY DEF SymInd, symVars
<1>1. /\ IndInv' /\ Grows /\ ObjsGood'
      /\ \A m \in Records' : m.quality = "none" \/ \E n \in Records : n.quality = m.quality
  <2>1. CASE \E c \in Clients : ClientStep(c)
    BY <1>0, <2>1, ClientInd, ClientGrows, ClientObjs, ClientQualities
  <2>2. CASE Tick \/ UNCHANGED storeVars
    <3>1. UNCHANGED <<meta, objs, nextId, request, stored, pending>>
      BY <2>2 DEF Tick, storeVars, vars
    <3>2. IndInv'
      BY <1>0, <2>2, QuietInd DEF storeVars
    <3>3. QED
      BY <1>0, <3>1, <3>2, QuietGrows DEF ObjsGood, Available, Records
  <2>3. QED
    BY <2>1, <2>2
<1>2. KeepsFiles
  BY <1>0, <1>1 DEF KeepsFiles
<1>3. SymTypeOK'
  BY <1>0, <1>1 DEF SymTypeOK, IndInv
<1>4. SymGood'
  BY <1>0, <1>2, SymUnchanged
<1>5. TmpGood'
  BY <1>0, <1>1, AvailableGrows DEF TmpGood
<1>6. QualityWasObserved'
  BY <1>1, <1>2, QualitiesKept
<1>7. QED
  BY <1>1, <1>3, <1>4, <1>5, <1>6 DEF SymInd

\* A goroutine moves without touching the metadata.
LEMMA SymLocal ==
    ASSUME SymInd, UNCHANGED storeVars,
           NEW s \in Setters, NEW r \in Syms, GoodSym(r)', sym' = [sym EXCEPT ![s] = r],
           tmp' = tmp \/ (tmp' \in Files \cup {UpstreamFile} /\ tmp' # NoFile /\ tmp' \in Available)
    PROVE  SymInd'
<1>0. /\ IndInv /\ SymTypeOK /\ ObjsGood /\ TmpGood
      /\ UNCHANGED <<meta, objs, nextId, request, stored, pending>>
  BY DEF SymInd, storeVars, vars
<1>1. IndInv' /\ Grows /\ Records' = Records /\ Available' = Available
  BY <1>0, QuietInd, QuietGrows DEF storeVars, Records, Available
<1>2. KeepsFiles
  BY <1>0, <1>1 DEF KeepsFiles
<1>3. SymGood' /\ sym' \in [Setters -> Syms]
  BY <1>2, SymMoves
<1>4. SymTypeOK'
  BY <1>0, <1>1, <1>3 DEF SymTypeOK, IndInv, Syms
<1>5. TmpGood' /\ ObjsGood'
  BY <1>0, <1>1 DEF TmpGood, ObjsGood
<1>6. QualityWasObserved'
  BY <1>1, <1>2, QualitiesKept
<1>7. QED
  BY <1>1, <1>3, <1>4, <1>5, <1>6 DEF SymInd

\* A goroutine fails: it forgets the record that it was about to write.
LEMMA SymFails ==
    ASSUME SymInd, NEW s \in Setters, SymFail(s)
    PROVE  SymInd'
<1> USE StoreAssumption
<1>0. /\ IndInv /\ TypeOK /\ SymTypeOK /\ ObjsGood /\ TmpGood
      /\ s \in Holders /\ s \notin Clients
      /\ failures < MaxFailures /\ failures' = failures + 1
      /\ pending' = [pending EXCEPT ![s] = NoMeta]
      /\ UNCHANGED <<meta, objs, cl, nextId, request, stored, age, signed, tmp>>
  BY DEF SymInd, IndInv, SymFail, Holders
<1>1. Grows /\ Available' = Available
  BY <1>0, QuietGrows DEF Available
<1>2. KeepsFiles
  BY <1>0, <1>1 DEF KeepsFiles
<1>3. IndInv'
  <2>1. TypeOK'
    BY <1>0 DEF TypeOK, Holders
  <2>2. MetaGood' /\ PendingGood' /\ StoredGood'
    BY <1>0, <1>1, MetaUnchanged, PendingOnly, QuietStored DEF IndInv
  <2>3. ASSUME NEW c \in Clients
        PROVE  ClientGood(c)'
    <3>1. pending'[c] = pending[c]
      BY <1>0 DEF TypeOK
    <3>2. QED
      BY <1>0, <1>1, <3>1, OtherClients
  <2>4. QED
    BY <2>1, <2>2, <2>3 DEF IndInv, ClientsGood
<1>4. SymGood' /\ sym' \in [Setters -> Syms]
  <2>1. sym[s] \in Syms /\ sym \in [Setters -> Syms]
    BY <1>0 DEF SymTypeOK, Syms
  <2>2. PICK r \in Syms : r = [sym[s] EXCEPT !.pc = "idle"]
    BY <2>1 DEF Syms, SymPc
  <2>3. r.pc = "idle" /\ sym' = [sym EXCEPT ![s] = r]
    BY <2>1, <2>2 DEF SymFail, Syms
  <2>4. GoodSym(r)'
    BY <2>3 DEF GoodSym
  <2>5. QED
    BY <1>2, <2>3, <2>4, SymMoves
<1>5. SymTypeOK'
  BY <1>0, <1>3, <1>4 DEF SymTypeOK, IndInv, Syms
<1>6. QualityWasObserved'
  BY <1>0, <1>2, RecordsHeld, QualitiesKept
<1>7. QED
  BY <1>0, <1>1, <1>3, <1>4, <1>5, <1>6 DEF SymInd, TmpGood, ObjsGood

\* The steps of getDebuginfo that leave the metadata alone.
LEMMA LocalSteps ==
    ASSUME SymInd, NEW s \in Setters,
           getDebuginfo(s) \/ Stat(s) \/ FetchDebuginfo(s) \/ Rename(s) \/ Open(s) \/ PCToLines(s)
    PROVE  SymInd'
<1> USE SymbolizerAssumption
<1>0. /\ IndInv /\ ObjsGood /\ TmpGood /\ UNCHANGED storeVars
      /\ sym[s] \in Syms /\ sym \in [Setters -> Syms] /\ GoodSym(sym[s])
      /\ tmp \in Files \cup {UpstreamFile, NoFile}
  BY DEF SymInd, SymTypeOK, SymGood, Syms, getDebuginfo, Stat, FetchDebuginfo, Rename, Open, PCToLines
<1>1. UNCHANGED <<meta, objs, nextId, request, stored, pending>>
  BY <1>0 DEF storeVars, vars
<1>2. Available' = Available /\ \A m : GoodRecord(m)' = GoodRecord(m)
  BY <1>1 DEF Available, GoodRecord, Issued
<1>3. CASE getDebuginfo(s)
  <2>1. /\ Fetch("debuginfo") \in Metadata /\ GoodRecord(Fetch("debuginfo"))
        /\ Fetch("debuginfo").source = "upload" => Fetch("debuginfo").state = "uploaded"
    BY <1>0, <1>3, FetchedGood DEF getDebuginfo, Symbolizable
  <2>2. PICK r \in Syms : r = [pc |-> "stat", saw |-> Fetch("debuginfo"), file |-> NoFile]
    BY <2>1 DEF Syms, SymPc
  <2>3. sym' = [sym EXCEPT ![s] = r] /\ tmp' = tmp
    BY <1>3, <2>2 DEF getDebuginfo
  <2>4. r.pc = "stat" /\ r.saw = Fetch("debuginfo")
    BY <2>2
  <2>5. GoodSym(r)'
    BY <1>2, <2>1, <2>4 DEF GoodSym
  <2>6. QED
    BY <1>0, <2>3, <2>5, SymLocal
<1>4. CASE Stat(s)
  <2>0. PICK p \in SymPc : p = IF tmp = NoFile THEN "fetch" ELSE "open"
    BY DEF SymPc
  <2>1. PICK r \in Syms : r = [sym[s] EXCEPT !.pc = p]
    BY <1>0 DEF Syms
  <2>2. sym' = [sym EXCEPT ![s] = r] /\ tmp' = tmp /\ sym[s].pc = "stat"
    BY <1>0, <1>4, <2>0, <2>1 DEF Stat, Step
  <2>3. /\ r.pc = (IF tmp = NoFile THEN "fetch" ELSE "open")
        /\ r.saw = sym[s].saw /\ r.file = sym[s].file
    BY <1>0, <2>0, <2>1 DEF Syms
  <2>4. GoodSym(r)'
    BY <1>0, <1>2, <2>2, <2>3 DEF GoodSym
  <2>5. QED
    BY <1>0, <2>2, <2>4, SymLocal
<1>5. CASE FetchDebuginfo(s)
  <2> DEFINE f == Fetched(sym[s].saw)
  <2>1. sym[s].pc = "fetch" /\ sym[s].saw \in Metadata
    BY <1>0, <1>5 DEF FetchDebuginfo, GoodSym
  <2>2. f \in Files \cup {UpstreamFile, NoFile}
    BY <1>0, <2>1 DEF Fetched, IndInv, TypeOK, Metadata
  <2>3. f # NoFile => f \in Available
    BY <1>0, <2>1 DEF Fetched, ObjsGood, Available, Metadata
  <2> HIDE DEF f
  <2>p. PICK p \in SymPc : p = IF f = NoFile THEN "idle" ELSE "rename"
    BY DEF SymPc
  <2>4. PICK r \in Syms : r = [sym[s] EXCEPT !.pc = p, !.file = f]
    BY <1>0, <2>2 DEF Syms
  <2>5. sym' = [sym EXCEPT ![s] = r] /\ tmp' = tmp
    BY <1>0, <1>5, <2>p, <2>4 DEF FetchDebuginfo, f
  <2>6. r.pc = (IF f = NoFile THEN "idle" ELSE "rename") /\ r.saw = sym[s].saw /\ r.file = f
    BY <1>0, <2>p, <2>4 DEF Syms
  <2>7. GoodSym(r)'
    BY <1>0, <1>2, <2>1, <2>3, <2>6 DEF GoodSym
  <2>8. QED
    BY <1>0, <2>5, <2>7, SymLocal
<1>6. CASE Rename(s)
  <2>1. PICK r \in Syms : r = [sym[s] EXCEPT !.pc = "open"]
    BY <1>0 DEF Syms, SymPc
  <2>2. sym' = [sym EXCEPT ![s] = r] /\ tmp' = sym[s].file /\ sym[s].pc = "rename"
    BY <1>0, <1>6, <2>1 DEF Rename, Step
  <2>3. r.pc = "open" /\ r.saw = sym[s].saw
    BY <1>0, <2>1 DEF Syms
  <2>4. tmp' # NoFile /\ tmp' \in Available /\ tmp' \in Files \cup {UpstreamFile}
    BY <1>0, <2>2 DEF GoodSym, Syms
  <2>5. GoodSym(r)'
    BY <1>0, <1>2, <2>2, <2>3, <2>4 DEF GoodSym
  <2>6. QED
    BY <1>0, <2>2, <2>4, <2>5, SymLocal
<1>7. CASE Open(s)
  <2>1. PICK r \in Syms :
            r = [sym[s] EXCEPT !.file = tmp, !.pc = IF ToAssess(s) THEN "assess" ELSE "lines"]
    BY <1>0 DEF Syms, SymPc
  <2>2. sym' = [sym EXCEPT ![s] = r] /\ tmp' = tmp /\ sym[s].pc = "open"
    BY <1>0, <1>7, <2>1 DEF Open
  <2>3. r.pc \in {"assess", "lines"} /\ r.saw = sym[s].saw /\ r.file = tmp
    BY <1>0, <2>1 DEF Syms
  <2>4. tmp # NoFile /\ tmp \in Available
    BY <1>0, <2>2 DEF GoodSym, TmpGood
  <2>5. GoodSym(r)'
    BY <1>0, <1>2, <2>2, <2>3, <2>4 DEF GoodSym
  <2>6. QED
    BY <1>0, <2>2, <2>5, SymLocal
<1>8. CASE PCToLines(s)
  <2>1. PICK r \in Syms : r = [sym[s] EXCEPT !.pc = "idle"]
    BY <1>0 DEF Syms, SymPc
  <2>2. sym' = [sym EXCEPT ![s] = r] /\ tmp' = tmp
    BY <1>0, <1>8, <2>1 DEF PCToLines, Step
  <2>3. r.pc = "idle"
    BY <1>0, <2>1 DEF Syms
  <2>4. GoodSym(r)'
    BY <2>3 DEF GoodSym
  <2>5. QED
    BY <1>0, <2>2, <2>4, SymLocal
<1>9. QED
  BY <1>3, <1>4, <1>5, <1>6, <1>7, <1>8

\* Both halves of SetQuality.
LEMMA QualitySteps ==
    ASSUME SymInd, NEW s \in Setters, Assess(s) \/ Report(s)
    PROVE  SymInd'
<1> USE SymbolizerAssumption
<1>0. /\ IndInv /\ TypeOK /\ SymTypeOK /\ ObjsGood /\ TmpGood /\ tmp' = tmp /\ s \in Holders
      /\ sym[s] \in Syms /\ sym \in [Setters -> Syms] /\ GoodSym(sym[s])
  BY DEF SymInd, IndInv, SymTypeOK, SymGood, Syms, Holders, Assess, Report
<1>1. /\ sym[s].pc \in {"assess", "write"}
      /\ UNCHANGED <<objs, nextId, request, stored>>
  BY DEF Assess, Report, Step, SetQuality, SetterWrite
<1>2. Grows /\ Available' = Available /\ \A m : GoodRecord(m)' = GoodRecord(m)
  BY <1>1, QuietGrows DEF Available, GoodRecord, Issued
<1>3. KeepsFiles
  BY <1>0, <1>2 DEF KeepsFiles
<1>4. /\ sym[s].file # NoFile /\ sym[s].file \in Available /\ tmp # NoFile
      /\ Verdict(sym[s].file) \in {"ok", "empty", "invalid"}
  BY <1>0, <1>1 DEF GoodSym, Syms, Verdict
<1>5. SetterStep(s)
  BY <1>4 DEF SetterStep, Assess, Report
<1>6. IndInv'
  BY <1>0, <1>5, SetterInd
<1>7. \E p \in SymPc : sym' = [sym EXCEPT ![s].pc = p] /\ p \in {"write", "lines", "idle"}
  BY DEF Assess, Report, Step, SymPc
<1>8. SymGood' /\ sym' \in [Setters -> Syms]
  <2>1. PICK p \in SymPc : sym' = [sym EXCEPT ![s].pc = p] /\ p \in {"write", "lines", "idle"}
    BY <1>7
  <2>2. PICK r \in Syms : r = [sym[s] EXCEPT !.pc = p]
    BY <1>0 DEF Syms
  <2>3. sym' = [sym EXCEPT ![s] = r]
    BY <1>0, <2>1, <2>2
  <2>4. r.pc = p /\ r.saw = sym[s].saw /\ r.file = sym[s].file
    BY <1>0, <2>2 DEF Syms
  <2>5. GoodSym(r)'
    BY <1>0, <1>1, <1>2, <1>4, <2>1, <2>4 DEF GoodSym
  <2>6. QED
    BY <1>3, <2>3, <2>5, SymMoves
<1>9. SymTypeOK'
  BY <1>0, <1>6, <1>8 DEF SymTypeOK, IndInv, Syms
<1>10. QualityWasObserved'
  <2>1. CASE Assess(s)
    <3> DEFINE q == Verdict(sym[s].file)
    <3> DEFINE r == [Fetch("debuginfo") EXCEPT !.quality = q]
    <3>1. UNCHANGED meta /\ pending' = [pending EXCEPT ![s] = r] /\ Fetch("debuginfo") # NoMeta
      BY <2>1 DEF Assess, SetQuality
    <3>2. r.quality = q
      BY <1>0, <3>1, FetchedGood DEF Metadata
    <3>3. \A m \in Records' : m \in Records \/ m = r
      BY <1>0, <3>1, RecordsHeld
    <3> HIDE DEF r
    <3>4. \A m \in Records' : m.quality # "none" => \E f \in Available : m.quality = Kind[f]
      BY <1>4, <3>2, <3>3 DEF SymInd, QualityWasObserved, Verdict
    <3>5. QED
      BY <1>0, <1>2, <1>4, <3>4 DEF QualityWasObserved
  <2>2. CASE Report(s)
    <3>1. Records' \subseteq Records
      BY <1>0, <2>2, RecordsWritten DEF Report, SetterWrite
    <3>2. QED
      BY <1>3, <3>1, QualitiesKept
  <2>3. QED
    BY <2>1, <2>2
<1>11. TmpGood' /\ ObjsGood'
  BY <1>0, <1>1, <1>2 DEF TmpGood, ObjsGood
<1>12. QED
  BY <1>6, <1>8, <1>9, <1>10, <1>11 DEF SymInd

-----------------------------------------------------------------------------
\* The inductive invariant of store and symbolizer holds in every state that is reached.
THEOREM SymInvariance == SymSpec => []SymInd
<1>1. SymInd /\ [SymNext]_allVars => SymInd'
  BY StoreSteps, LocalSteps, QualitySteps, SymFails DEF SymNext, SymStep, allVars, symVars
<1>2. QED
  BY <1>1, SymInitInd, PTL DEF SymSpec

\* Types of the store together with the goroutines of the symbolizer.
THEOREM SymTypeCorrect == SymSpec => []SymTypeOK
<1>1. SymInd => SymTypeOK
  BY DEF SymInd
<1>2. QED
  BY <1>1, SymInvariance, PTL

\* SetQuality only ever records what was found in a file that had been uploaded or that
\* debuginfod served, although it writes back a record it read before.
THEOREM QualitiesWereObserved == SymSpec => []QualityWasObserved
<1>1. SymInd => QualityWasObserved
  BY DEF SymInd
<1>2. QED
  BY <1>1, SymInvariance, PTL

\* A goroutine that opens the file in tmpDir finds one that was there to be fetched.
THEOREM OpenedFileWasUploaded == SymSpec => []OpensAnUploadedFile
<1>1. SymInd => OpensAnUploadedFile
  <2>1. SUFFICES ASSUME SymInd, NEW s \in Setters,
                        sym[s].pc \in {"open", "assess", "write", "lines"}
                 PROVE  /\ tmp \in Available
                        /\ sym[s].saw.source = "upload" => sym[s].saw.id \in stored
    BY DEF OpensAnUploadedFile
  <2>2. GoodSym(sym[s]) /\ TmpGood
    BY <2>1 DEF SymInd, SymGood
  <2>3. QED
    BY <2>1, <2>2 DEF GoodSym, TmpGood, GoodRecord
<1>2. QED
  BY <1>1, SymInvariance, PTL

-----------------------------------------------------------------------------
(* A query that has begun goes on: what its next step needs is there. *)

\* FetchDebuginfo finds a file, the file to open is there, SetQuality finds a record
\* to read, and has one when it writes.
QueriesGoOn ==
    \A s \in Setters :
        /\ sym[s].pc = "fetch" => Fetched(sym[s].saw) # NoFile
        /\ sym[s].pc \in {"open", "assess", "write", "lines"} => tmp # NoFile
        /\ sym[s].pc = "assess" => pending[s] = NoMeta /\ Fetch("debuginfo") # NoMeta
        /\ sym[s].pc = "write" => pending[s] # NoMeta

\* A goroutine holds a record between the two halves of SetQuality and at no other
\* time, and the metadata that it found at the beginning is still there, if changed.
SymHeld ==
    \A s \in Setters :
        /\ pending[s] # NoMeta <=> sym[s].pc = "write"
        /\ sym[s].pc # "idle" => Fetch("debuginfo") # NoMeta

\* Metadata is overwritten, but never removed.
LEMMA MetadataStays ==
    ASSUME TypeOK, NEW g \in Holders, pending[g] # NoMeta, write(g)
    PROVE  \A k \in MetaKeys : meta[k] # NoMeta => meta'[k] # NoMeta
BY DEF TypeOK, write

\* Clients hold their own records only, and leave the metadata there.
LEMMA ClientHolds ==
    ASSUME IndInv, NEW c \in Clients, ClientStep(c)
    PROVE  /\ \A s \in Setters : pending'[s] = pending[s]
           /\ \A k \in MetaKeys : meta[k] # NoMeta => meta'[k] # NoMeta
<1>0. /\ TypeOK /\ c \in Holders /\ c \notin Setters
      /\ pending \in [Holders -> Metadata \cup {NoMeta}]
  BY StoreAssumption DEF IndInv, TypeOK, Holders
<1>1. ASSUME NEW r, pending' = [pending EXCEPT ![c] = r]
      PROVE  \A s \in Setters : pending'[s] = pending[s]
  BY <1>0, <1>1 DEF Holders
<1>2. CASE MarkAsDebuginfodSource(c) \/ MarkAsUploading(c) \/ MarkAsUploaded(c)
  <2>1. write(c) /\ cl[c].pc \in {"found", "mark", "finished"}
    BY <1>2 DEF MarkAsDebuginfodSource, MarkAsUploading, MarkAsUploaded
  <2>2. pending[c] # NoMeta
    BY <2>1 DEF IndInv, ClientsGood, ClientGood
  <2>3. QED
    BY <1>0, <1>1, <2>1, <2>2, MetadataStays DEF write
<1>3. CASE UNCHANGED meta
  <2>1. UNCHANGED pending \/ \E r : pending' = [pending EXCEPT ![c] = r]
    BY DEF ClientStep, InitiateUpload, InitiateUploadFirst, DebuginfodFound, DebuginfodNone, Accept,
           DebuginfodError, MarkAsDebuginfodSource, MarkAsUploading, UploadCheck, UploadStore,
           SignedPUT, Store, MarkAsUploadedFetch, MarkAsUploaded, GiveUp, write
  <2>2. QED
    BY <1>1, <1>3, <2>1
<1>4. QED
  BY <1>2, <1>3
     DEF ClientStep, InitiateUpload, InitiateUploadFirst, DebuginfodFound, DebuginfodNone, Accept,
         DebuginfodError, UploadCheck, UploadStore, SignedPUT, Store, MarkAsUploadedFetch, GiveUp

\* Every step keeps the metadata, and the records of the goroutines that do not move.
LEMMA HeldByOthers ==
    ASSUME SymInd, SymHeld, NEW s \in Setters,
           sym'[s] = sym[s], pending'[s] = pending[s],
           \A k \in MetaKeys : meta[k] # NoMeta => meta'[k] # NoMeta
    PROVE  /\ pending'[s] # NoMeta <=> sym'[s].pc = "write"
           /\ sym'[s].pc # "idle" => Fetch("debuginfo")' # NoMeta
<1>1. metadataObjectPath("debuginfo") \in MetaKeys
  BY SymbolizerAssumption DEF MetaKeys
<1>2. QED
  BY <1>1 DEF SymHeld, Fetch

\* A goroutine moves.
LEMMA SymHolds ==
    ASSUME SymInd, SymHeld, NEW s \in Setters, SymStep(s) \/ SymFail(s)
    PROVE  SymHeld'
<1> USE SymbolizerAssumption
<1>0. /\ TypeOK /\ s \in Holders /\ sym \in [Setters -> Syms]
      /\ pending \in [Holders -> Metadata \cup {NoMeta}]
      /\ metadataObjectPath("debuginfo") \in MetaKeys
  BY DEF SymInd, SymTypeOK, TypeOK, Holders, Syms, MetaKeys
<1>1. \A k \in MetaKeys : meta[k] # NoMeta => meta'[k] # NoMeta
  <2>1. CASE Report(s)
    BY <1>0, <2>1, MetadataStays DEF Report, SetterWrite
  <2>2. CASE ~Report(s)
    BY <2>2 DEF SymStep, SymFail, getDebuginfo, Stat, FetchDebuginfo, Rename, Open, Assess,
                PCToLines, SetQuality, storeVars, vars
  <2>3. QED
    BY <2>1, <2>2
<1>2. ASSUME NEW k \in Setters, k # s
      PROVE  sym'[k] = sym[k] /\ pending'[k] = pending[k]
  <2>1. sym'[k] = sym[k]
    BY <1>0, <1>2 DEF SymStep, SymFail, getDebuginfo, Stat, FetchDebuginfo, Rename, Open, Assess,
                      Report, PCToLines, Step
  <2>2. UNCHANGED pending \/ \E r : pending' = [pending EXCEPT ![s] = r]
    BY DEF SymStep, SymFail, getDebuginfo, Stat, FetchDebuginfo, Rename, Open, Assess,
           Report, PCToLines, SetQuality, SetterWrite, write, storeVars, vars
  <2>3. QED
    BY <1>0, <1>2, <2>1, <2>2 DEF Holders
<1>3. /\ pending'[s] # NoMeta <=> sym'[s].pc = "write"
      /\ sym'[s].pc # "idle" => Fetch("debuginfo")' # NoMeta
  <2>0. (pending[s] # NoMeta <=> sym[s].pc = "write") /\ sym[s] \in Syms
        /\ (sym[s].pc # "idle" => Fetch("debuginfo") # NoMeta)
    BY <1>0 DEF SymHeld
  <2>1. CASE getDebuginfo(s)
    <3>1. sym'[s].pc = "stat" /\ UNCHANGED <<meta, pending>> /\ sym[s].pc = "idle"
      BY <1>0, <2>1 DEF getDebuginfo, storeVars, vars
    <3>2. QED
      BY <2>0, <2>1, <3>1 DEF getDebuginfo, Symbolizable, Fetch
  <2>2. CASE Stat(s) \/ FetchDebuginfo(s) \/ Rename(s) \/ Open(s) \/ PCToLines(s)
    <3>1. UNCHANGED <<meta, pending>> /\ sym[s].pc \notin {"idle", "write"}
      BY <2>2 DEF Stat, FetchDebuginfo, Rename, Open, PCToLines, Step, storeVars, vars
    <3>2. sym'[s].pc # "write"
      BY <1>0, <2>2 DEF Syms, Stat, FetchDebuginfo, Rename, Open, PCToLines, Step
    <3>3. QED
      BY <2>0, <3>1, <3>2 DEF Fetch
  <2>3. CASE Assess(s)
    <3>1. /\ sym'[s].pc = "write" /\ sym[s].pc = "assess" /\ UNCHANGED meta
          /\ pending'[s] = [Fetch("debuginfo") EXCEPT !.quality = Verdict(sym[s].file)]
          /\ Fetch("debuginfo") # NoMeta
      BY <1>0, <2>3 DEF Assess, Step, Syms, SetQuality
    <3>2. pending'[s] # NoMeta
      <4>1. Fetch("debuginfo") \in Metadata
        BY <3>1, FetchedGood DEF SymInd
      <4>2. Verdict(sym[s].file) \in {"ok", "empty", "invalid"}
        <5>1. GoodSym(sym[s])
          BY DEF SymInd, SymGood
        <5>2. QED
          BY <2>0, <3>1, <5>1 DEF GoodSym, Syms, Verdict
      <4>3. [Fetch("debuginfo") EXCEPT !.quality = Verdict(sym[s].file)] \in Metadata
        BY <4>1, <4>2 DEF Metadata
      <4>4. QED
        BY <3>1, <4>3, NoMetaAssumption
    <3>3. QED
      BY <3>1, <3>2 DEF Fetch
  <2>4. CASE Report(s)
    <3>1. /\ sym[s].pc = "write" /\ sym'[s].pc \in {"lines", "idle"}
          /\ pending'[s] = NoMeta
      BY <1>0, <2>4 DEF Report, Step, Syms, SetterWrite, write
    <3>2. QED
      BY <1>0, <1>1, <2>0, <3>1 DEF Fetch
  <2>5. CASE SymFail(s)
    <3>1. sym'[s].pc = "idle" /\ pending'[s] = NoMeta
      BY <1>0, <2>5 DEF SymFail, Syms
    <3>2. QED
      BY <3>1
  <2>6. QED
    BY <2>1, <2>2, <2>3, <2>4, <2>5 DEF SymStep
<1>4. QED
  BY <1>1, <1>2, <1>3, HeldByOthers DEF SymHeld

\* A goroutine that fetches knows of an upload that was stored, or asks debuginfod.
LEMMA FetchesAFile ==
    ASSUME SymInd, NEW s \in Setters, sym[s].pc = "fetch"
    PROVE  Fetched(sym[s].saw) # NoFile
<1>1. /\ sym[s].saw \in Metadata /\ GoodRecord(sym[s].saw)
      /\ sym[s].saw.source = "upload" => sym[s].saw.state = "uploaded"
  BY DEF SymInd, SymGood, GoodSym
<1>2. CASE sym[s].saw.source = "upload"
  <2>1. sym[s].saw.id \in stored /\ sym[s].saw.typ = request[sym[s].saw.id].typ
    BY <1>1, <1>2 DEF GoodRecord
  <2>2. objs[sym[s].saw.typ] # NoFile
    BY <2>1 DEF SymInd, IndInv, StoredGood
  <2>3. QED
    BY <1>2, <2>2 DEF Fetched
<1>3. CASE sym[s].saw.source # "upload"
  BY <1>3, SymbolizerAssumption DEF Fetched
<1>4. QED
  BY <1>2, <1>3

\* The part of UploadsAreAssessed that is no liveness: a query that has begun never
\* finds that the file, or the record to set the quality of, is missing, whatever
\* uploads and other queries overwrite meanwhile, so only a failure keeps it from
\* assessing the file.
THEOREM QueriesAreNotStuck == SymSpec => []QueriesGoOn
<1>1. SymInit => SymHeld
  BY DEF SymInit, Init, SymHeld
<1>2. SymInd /\ SymHeld /\ [SymNext]_allVars => SymHeld'
  <2>1. SUFFICES ASSUME SymInd, SymHeld, [SymNext]_allVars
                 PROVE  SymHeld'
    OBVIOUS
  <2>2. CASE \E s \in Setters : SymStep(s) \/ SymFail(s)
    BY <2>1, <2>2, SymHolds
  <2>3. CASE /\ (\E c \in Clients : ClientStep(c)) \/ Tick \/ UNCHANGED storeVars
             /\ UNCHANGED symVars
    <3>1. /\ \A s \in Setters : pending'[s] = pending[s] /\ sym'[s] = sym[s]
          /\ \A k \in MetaKeys : meta[k] # NoMeta => meta'[k] # NoMeta
      BY <2>1, <2>3, ClientHolds DEF SymInd, symVars, Tick, storeVars, vars
    <3>2. QED
      BY <2>1, <3>1, HeldByOthers DEF SymHeld
  <2>4. QED
    BY <2>1, <2>2, <2>3 DEF SymNext, allVars
<1>3. SymInd /\ SymHeld => QueriesGoOn
  BY FetchesAFile DEF SymInd, SymGood, GoodSym, SymHeld, QueriesGoOn
<1>4. QED
  BY <1>1, <1>2, <1>3, SymInvariance, PTL DEF SymSpec

\* Nor do queries block a build ID: a verdict that is written over the record of a newer
\* upload leaves one that clients can go on from.
THEOREM QueriesBlockNobody == SymSpec => []NotBlocked
<1>1. SymInd => IndInv
  BY DEF SymInd
<1>2. QED
  BY <1>1, GoodNotBlocked, SymInvariance, PTL

=============================================================================
