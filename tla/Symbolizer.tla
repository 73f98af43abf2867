----------------------------- MODULE Symbolizer -----------------------------
(***************************************************************************)
(* The symbolizer (pkg/symbolizer/symbolizer.go, getDebuginfo) at work on  *)
(* the build ID of DebuginfoStore, while clients upload debuginfos for it. *)
(* Queries symbolize concurrently: each goroutine reads the metadata, gets *)
(* the file - from the object store or from debuginfod - into tmpDir       *)
(* unless a file is there already, opens it as ELF, and reports what it    *)
(* found with SetQuality, a read-modify-write of the same metadata object  *)
(* that the uploads write.  Nothing ever removes the file from tmpDir.     *)
(*                                                                         *)
(* The Setters of DebuginfoStore are the symbolizer's goroutines.          *)
(***************************************************************************)
EXTENDS DebuginfoStore

CONSTANTS
    Kind,           \* what elf.Open and elfutils say of a file
    UpstreamFile    \* the file that debuginfod serves

ASSUME SymbolizerAssumption ==
    /\ Kind \in [Files \cup {UpstreamFile} -> {"ok", "empty", "invalid"}]
    /\ UpstreamFile # NoFile
    /\ "debuginfo" \in Types

VARIABLES
    sym,    \* the goroutines: pc, the metadata read first, the file opened
    tmp     \* the file at tmpDir/buildID

storeVars == vars
symVars == <<sym, tmp>>
allVars == <<storeVars, symVars>>

SymPc == {"idle", "stat", "fetch", "rename", "open", "assess", "write", "lines"}

SymInit ==
    /\ Init
    /\ sym = [s \in Setters |-> [pc |-> "idle", saw |-> NoMeta, file |-> NoFile]]
    /\ tmp = NoFile

Step(s, pc, pc2) ==
    /\ sym[s].pc = pc
    /\ sym' = [sym EXCEPT ![s].pc = pc2]

\* Mutant of Symbolizable: the state of the upload is not looked at.
SymbolizableInAnyState(m) == m # NoMeta /\ m.quality \notin {"invalid", "empty"}

\* The metadata lets getDebuginfo go on.
Symbolizable(m) ==
    /\ m # NoMeta
    /\ m.quality \notin {"invalid", "empty"}
    /\ m.source = "upload" => m.state = "uploaded"

getDebuginfo(s) ==
    /\ sym[s].pc = "idle"
    /\ Symbolizable(Fetch("debuginfo"))
    /\ sym' = [sym EXCEPT ![s] = [pc |-> "stat", saw |-> Fetch("debuginfo"), file |-> NoFile]]
    /\ UNCHANGED <<storeVars, tmp>>

Stat(s) ==
    /\ Step(s, "stat", IF tmp = NoFile THEN "fetch" ELSE "open")
    /\ UNCHANGED <<storeVars, tmp>>

\* The file that FetchDebuginfo finds for the metadata m.
Fetched(m) == IF m.source = "upload" THEN objs[m.typ] ELSE UpstreamFile

FetchDebuginfo(s) ==
    /\ sym[s].pc = "fetch"
    /\ LET f == Fetched(sym[s].saw) IN
        sym' = [sym EXCEPT ![s].pc = IF f = NoFile THEN "idle" ELSE "rename", ![s].file = f]
    /\ UNCHANGED <<storeVars, tmp>>

\* The complete copy is moved to its place in tmpDir.
Rename(s) ==
    /\ Step(s, "rename", "open")
    /\ tmp' = sym[s].file
    /\ UNCHANGED storeVars

\* Mutants of Verdict and ToAssess: every file is reported as invalid; only files
\* that are no ELF files are reported.
VerdictInvalid(f) == "invalid"
ToAssessInvalid(s) == Kind[tmp] = "invalid"

\* What elf.Open and elfutils say of the file.
Verdict(f) == Kind[f]

\* The quality is set when the file is no ELF file, or when the metadata read at
\* the beginning had none.
ToAssess(s) == Verdict(tmp) = "invalid" \/ sym[s].saw.quality = "none"

\* elf.Open of whatever is in tmpDir by now.
Open(s) ==
    /\ sym[s].pc = "open"
    /\ sym' = [sym EXCEPT ![s].file = tmp, ![s].pc = IF ToAssess(s) THEN "assess" ELSE "lines"]
    /\ UNCHANGED <<storeVars, tmp>>

\* SetQuality: reads the metadata as it is now ...
Assess(s) ==
    /\ Step(s, "assess", "write")
    /\ SetQuality(s, "debuginfo", Verdict(sym[s].file))
    /\ UNCHANGED tmp

\* ... and writes it.
Report(s) ==
    /\ Step(s, "write", IF Verdict(sym[s].file) = "ok" THEN "lines" ELSE "idle")
    /\ SetterWrite(s)
    /\ UNCHANGED tmp

\* The liner works on the open file; symbolize returns.
PCToLines(s) ==
    /\ Step(s, "lines", "idle")
    /\ UNCHANGED <<storeVars, tmp>>

\* Any access to the object store, debuginfod or the disk may fail; Symbolize
\* logs the error and returns.
SymFail(s) ==
    /\ sym[s].pc # "idle"
    /\ failures < MaxFailures
    /\ failures' = failures + 1
    /\ sym' = [sym EXCEPT ![s].pc = "idle"]
    /\ pending' = [pending EXCEPT ![s] = NoMeta]
    /\ UNCHANGED <<meta, objs, cl, nextId, request, stored, age, signed, tmp>>

SymStep(s) ==
    \/ getDebuginfo(s) \/ Stat(s) \/ FetchDebuginfo(s) \/ Rename(s)
    \/ Open(s) \/ Assess(s) \/ Report(s) \/ PCToLines(s)

SymNext ==
    \/ (\E c \in Clients : ClientStep(c)) /\ UNCHANGED symVars
    \/ Tick /\ UNCHANGED symVars
    \/ \E s \in Setters : SymStep(s) \/ SymFail(s)

SymSpec == SymInit /\ [][SymNext]_allVars

\* Queries keep asking for the build ID, clients keep trying to upload, time passes
\* and no step hangs.  Nothing has to fail, and nobody has to use Force.
FairSymSpec ==
    /\ SymSpec
    /\ WF_allVars(Tick /\ UNCHANGED symVars)
    /\ \A c \in Clients : WF_allVars(Progress(c) /\ UNCHANGED symVars)
    /\ \A s \in Setters : WF_allVars(SymStep(s))

-----------------------------------------------------------------------------
(* Properties. *)

SymTypeOK ==
    /\ TypeOK
    /\ sym \in [Setters -> [pc : SymPc, saw : Metadata \cup {NoMeta},
                            file : Files \cup {UpstreamFile, NoFile}]]
    /\ tmp \in Files \cup {UpstreamFile, NoFile}

\* The files that were there to be assessed.
Available == {UpstreamFile} \cup {request[i].file : i \in stored}

\* However SetQuality overlaps with uploads and with other queries, a quality in
\* the metadata is what the symbolizer found in a file that was really uploaded,
\* or served by debuginfod, for the build ID.
QualityWasObserved ==
    \A m \in Records : m.quality # "none" =>
        /\ tmp # NoFile
        /\ \E f \in Available : m.quality = Kind[f]

\* Once a goroutine goes on to open the file in tmpDir there is one, it was
\* uploaded or served for the build ID, and the upload in the metadata that the
\* goroutine has read was stored: overlapping downloads and uploads change which
\* file that is, but never leave the goroutine without one.
OpensAnUploadedFile ==
    \A s \in Setters : sym[s].pc \in {"open", "assess", "write", "lines"} =>
        /\ tmp \in Available
        /\ sym[s].saw.source = "upload" => sym[s].saw.id \in stored

\* A completed upload does not stay without a quality: when the record that
\* SetQuality wrote is overwritten by a goroutine that had read it before, a
\* later query assesses the file again, or another upload replaces it.
UploadsAreAssessed ==
    LET m == Fetch("debuginfo")
        Unassessed == m # NoMeta /\ m.state = "uploaded" /\ m.quality = "none"
    IN  Unassessed ~> ~Unassessed

\* "Debuginfo already exists and is marked as invalid, but the proposed hash is the
\* same as the one already available, therefore the upload is not accepted as it
\* would result in the same invalid debuginfos" (ReasonDebuginfoEqual): a file
\* that is turned away for that reason is not a valid ELF file.
EqualMeansInvalid ==
    \A f \in Files :
        Reason(Fetch("debuginfo"), f, FALSE) = "DebuginfoEqual" => Kind[f] = "invalid"

=============================================================================
