----------------------------- MODULE ScrapeLoop -----------------------------
(***************************************************************************)
(* What the loops of one scrape pool do in an iteration of run             *)
(* (pkg/scrape/scrape.go): take a buffer from the pool of buffers that     *)
(* they share, scrape into it, parse the profile, drop the sample types    *)
(* that are not to be kept, write the profile to the store under the       *)
(* labels of the target, and give the buffer back.                         *)
(*                                                                         *)
(* ScrapePool shows that a target has one loop at work, so a loop stands   *)
(* for its target here.  A profile is the target it was taken from.        *)
(***************************************************************************)
EXTENDS Naturals

CONSTANTS
    Loops,      \* loops, one for each target
    KeepAlone,  \* a target with a keep_sample_type is the only one of its job
    Buffers,    \* bound: byte slices that can be made
    None        \* no buffer, no profile

ASSUME LoopAssumption == KeepAlone \in BOOLEAN /\ None \notin Loops \cup Buffers

VARIABLES
    keeps,      \* the sample types a target keeps: all, some; "off" if it has no loop
    pooled,     \* how many times each slice is in the pool of buffers
    made,       \* slices made so far
    content,    \* the profile that the bytes of a slice are
    run,        \* the loops: pc; b, the slice that is to be put back on return;
                \* out, the slice that goes to the store; parsed, the profile
    health, lastError,  \* fields of the target
    series      \* history: <<labels, profile>> of every series written

vars == <<keeps, pooled, made, content, run, health, lastError, series>>

\* The slices that a loop still uses: run has it, or processScrapeResp does.
Held(l) == {run[l].b, run[l].out} \ {None}

\* Mutant of HealthGood: no health that a target can have.
HealthOk == "ok"

HealthGood == "up"

Idle == [pc |-> "idle", b |-> None, out |-> None, parsed |-> None]

Init ==
    /\ keeps \in [Loops -> {"off", "all", "some"}]
    /\ KeepAlone => \A l \in Loops : keeps[l] = "some" => \A k \in Loops \ {l} : keeps[k] = "off"
    /\ pooled = [b \in Buffers |-> 0]
    /\ made = {}
    /\ content = [b \in Buffers |-> None]
    /\ run = [l \in Loops |-> Idle]
    /\ health = [l \in Loops |-> "unknown"]
    /\ lastError = [l \in Loops |-> FALSE]
    /\ series = {}

-----------------------------------------------------------------------------
(* The pool of buffers (prometheus/util/pool over sync.Pool): Get returns any *)
(* slice that was put, or makes one; Put does not look at what it is given.   *)

Get(b) ==
    \/ /\ pooled[b] > 0
       /\ pooled' = [pooled EXCEPT ![b] = @ - 1]
       /\ made' = made
    \/ /\ b \notin made
       /\ made' = made \cup {b}
       /\ pooled' = pooled

Put(b) == pooled' = [pooled EXCEPT ![b] = @ + 1]

-----------------------------------------------------------------------------
(* run and processScrapeResp. *)

GetBuffer(l, b) ==
    /\ keeps[l] # "off"
    /\ run[l].pc = "idle"
    /\ Get(b)
    /\ run' = [run EXCEPT ![l] = [Idle EXCEPT !.pc = "scrape", !.b = b]]
    /\ UNCHANGED <<keeps, content, health, lastError, series>>

\* The scrape failed, possibly after it wrote something; the slice is dropped.
ScrapeFailed(l) ==
    /\ run[l].pc = "scrape"
    /\ content' \in {content, [content EXCEPT ![run[l].b] = l]}
    /\ health' = [health EXCEPT ![l] = "down"]
    /\ lastError' = [lastError EXCEPT ![l] = TRUE]
    /\ run' = [run EXCEPT ![l] = Idle]
    /\ UNCHANGED <<keeps, pooled, made, series>>

ScrapeOk(l) ==
    /\ run[l].pc = "scrape"
    /\ content' = [content EXCEPT ![run[l].b] = l]
    /\ run' = [run EXCEPT ![l].pc = "parse", ![l].out = run[l].b]
    /\ UNCHANGED <<keeps, pooled, made, health, lastError, series>>

ParseData(l) ==
    /\ run[l].pc = "parse"
    /\ run' = [run EXCEPT ![l].pc = IF keeps[l] = "some" THEN "filter" ELSE "write",
                          ![l].parsed = content[run[l].out]]
    /\ UNCHANGED <<keeps, pooled, made, content, health, lastError, series>>

\* Only some sample types are kept: the slice is put back here, for another one
\* to write the smaller profile into; the deferred Put will put it back again.
FilterPut(l) ==
    /\ run[l].pc = "filter"
    /\ Put(run[l].b)
    /\ run' = [run EXCEPT ![l].pc = "encode", ![l].out = None]
    /\ UNCHANGED <<keeps, made, content, health, lastError, series>>

\* Mutant of FilterWrite: the smaller profile is not written.
FilterWriteNothing(l, b) ==
    /\ run[l].pc = "encode"
    /\ Get(b)
    /\ run' = [run EXCEPT ![l].pc = "write", ![l].out = b]
    /\ UNCHANGED <<keeps, content, health, lastError, series>>

FilterWrite(l, b) ==
    /\ run[l].pc = "encode"
    /\ Get(b)
    /\ content' = [content EXCEPT ![b] = run[l].parsed]
    /\ run' = [run EXCEPT ![l].pc = "write", ![l].out = b]
    /\ UNCHANGED <<keeps, health, lastError, series>>

\* processScrapeResp returns with an error: the deferred Put, and run notes it.
ProcessFailed(l) ==
    /\ run[l].pc \in {"parse", "write"}
    /\ Put(run[l].b)
    /\ health' = [health EXCEPT ![l] = "down"]
    /\ lastError' = [lastError EXCEPT ![l] = TRUE]
    /\ run' = [run EXCEPT ![l] = Idle]
    /\ UNCHANGED <<keeps, made, content, series>>

\* Mutant of WriteRaw: the slice is put back before the store is done with it.
WriteRawPuts(l) ==
    /\ run[l].pc = "write"
    /\ Put(run[l].b)
    /\ series' = series \cup {<<l, content[run[l].out]>>}
    /\ run' = [run EXCEPT ![l].pc = "return"]
    /\ UNCHANGED <<keeps, made, content, health, lastError>>

\* store.WriteRaw reads the slice ...
WriteRaw(l) ==
    /\ run[l].pc = "write"
    /\ series' = series \cup {<<l, content[run[l].out]>>}
    /\ run' = [run EXCEPT ![l].pc = "return"]
    /\ UNCHANGED <<keeps, pooled, made, content, health, lastError>>

\* ... and processScrapeResp returns nil: the deferred Put, and run notes it.
ProcessOk(l) ==
    /\ run[l].pc = "return"
    /\ Put(run[l].b)
    /\ health' = [health EXCEPT ![l] = HealthGood]
    /\ run' = [run EXCEPT ![l] = Idle]
    /\ UNCHANGED <<keeps, made, content, lastError, series>>

Next ==
    \E l \in Loops :
        \/ \E b \in Buffers : GetBuffer(l, b) \/ FilterWrite(l, b)
        \/ ScrapeFailed(l) \/ ScrapeOk(l)
        \/ ParseData(l) \/ FilterPut(l) \/ ProcessFailed(l)
        \/ WriteRaw(l) \/ ProcessOk(l)

Spec == Init /\ [][Next]_vars

-----------------------------------------------------------------------------
(* Properties. *)

Pcs == {"idle", "scrape", "parse", "filter", "encode", "write", "return"}

TypeOK ==
    /\ keeps \in [Loops -> {"off", "all", "some"}]
    /\ pooled \in [Buffers -> Nat]
    /\ made \subseteq Buffers
    /\ content \in [Buffers -> Loops \cup {None}]
    /\ run \in [Loops -> [pc : Pcs, b : Buffers \cup {None}, out : Buffers \cup {None},
                          parsed : Loops \cup {None}]]
    /\ health \in [Loops -> {"unknown", "up", "down"}]
    /\ lastError \in [Loops -> BOOLEAN]
    /\ series \subseteq Loops \X (Loops \cup {None})

\* Among targets that keep all sample types, a slice that a loop uses is not in the
\* pool and no other loop uses it, through failures and successes of all loops.
BuffersAreNotShared ==
    (\A l \in Loops : keeps[l] # "some") => \A l \in Loops : \A b \in Held(l) :
        /\ pooled[b] = 0
        /\ \A k \in Loops \ {l} : b \notin Held(k)

\* "LabelSet is the key value pairs to identify the corresponding profile"
\* (RawProfileSeries): what is written with the labels of a target is the
\* profile of that target.
SeriesMatchLabels == \A s \in series : s[1] = s[2]

=============================================================================
