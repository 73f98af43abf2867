--------------------------- MODULE ConfigReloader ---------------------------
(***************************************************************************)
(* The configuration reloader of pkg/config/reloader.go.  One goroutine    *)
(* (watchFile) receives the events of the file watcher and puts a token    *)
(* into the channel triggerReload (capacity one, and the send blocks); the *)
(* other (Run) takes the token, loads the file and passes the              *)
(* configuration to the components one after the other.                    *)
(*                                                                         *)
(* The file and its watcher (fsnotify) are external.  A watch belongs to   *)
(* the file that was there when it was added, links followed: it sees what *)
(* happens to that file, whether or not the name still leads to it, and    *)
(* ends with the event that the file is deleted or moved away.  Writing a  *)
(* file takes several steps, between which it is not a valid               *)
(* configuration.                                                          *)
(***************************************************************************)
EXTENDS Naturals, Sequences

CONSTANTS
    Components,     \* the number of component reloaders, called in order
    Configs,        \* valid configurations
    Invalid,        \* content that does not parse or validate
    Absent,         \* there is no file
    MayFail,        \* the reloaders that may return an error
    MaxChanges      \* bound: changes of the file

ASSUME ReloaderAssumption ==
    /\ Components \in Nat \ {0}
    /\ Invalid \notin Configs /\ Absent \notin Configs /\ Invalid # Absent
    /\ MayFail \subseteq 1..Components
    /\ MaxChanges \in Nat

VARIABLES
    file, changes,  \* the content under the file's name, and how often it changed
    watch,          \* the watch is on the file of that name ("current"), on the one
                    \* the name led to before ("old"), or has ended because its file
                    \* was deleted ("none") or moved away ("gone")
    events,         \* what the watch has seen
    watchPc,        \* watchFile
    triggerReload,  \* the channel holds a token
    runPc,          \* Run
    cfg, next, failed,      \* reloadFile: what it loaded, and how far it is
    applied,        \* the configuration each component runs with
    configSuccess,  \* the gauge of that name
    ctxDone         \* the context of Run was cancelled

fileVars == <<file, watch, events, changes>>
watchVars == <<watchPc, triggerReload>>
runVars == <<runPc, cfg, next, failed, applied, configSuccess, ctxDone>>
vars == <<fileVars, watchVars, runVars>>

Events == {"write", "chmod", "remove", "rename"}

Init ==
    /\ file \in Configs
    /\ watch = "current"
    /\ events = <<>>
    /\ changes = 0
    /\ watchPc = "select"
    /\ triggerReload = FALSE
    /\ runPc = "select"
    /\ cfg = file
    /\ next = 1
    /\ failed = FALSE
    /\ applied = [i \in 1..Components |-> file]
    /\ configSuccess = FALSE
    /\ ctxDone = FALSE

-----------------------------------------------------------------------------
(* The file. *)

\* The watch reports e if it is on that file; a deletion or a move is the last it
\* reports.
Notify(on, e) ==
    IF watch = on
    THEN /\ events' = Append(events, e)
         /\ watch' = CASE e = "remove" -> "none" [] e = "rename" -> "gone" [] OTHER -> watch
    ELSE UNCHANGED <<watch, events>>

Change(c) ==
    /\ changes < MaxChanges
    /\ changes' = changes + 1
    /\ file' = c
    /\ UNCHANGED <<watchVars, runVars>>

\* A write to the file in place.
WriteFile(c) == file # Absent /\ Change(c) /\ Notify("current", "write")

\* Its mode or its times change.
ChmodFile == file # Absent /\ Change(file) /\ Notify("current", "chmod")

\* The file is deleted, and possibly another takes its name in the same step.
ReplaceFile(c) == {file, c} # {Absent} /\ Change(c) /\ Notify("current", "remove")

\* The name is linked to a new file, or the link removed, and the file it led to is
\* still there, or still open.
RelinkFile(c) ==
    /\ {file, c} # {Absent}
    /\ Change(c)
    /\ watch' = IF watch = "current" THEN "old" ELSE watch
    /\ UNCHANGED events

\* The file to which the name led when it was watched is written, deleted or moved.
OldFile(e) == watch = "old" /\ Change(file) /\ Notify("old", e)

\* The file is moved to another name.
MoveFile == file # Absent /\ Change(Absent) /\ Notify("current", "rename")

-----------------------------------------------------------------------------
(* watchFile. *)

\* Events other than removals and writes are ignored.
WatchEvent ==
    /\ watchPc = "select"
    /\ events # <<>>
    /\ events' = Tail(events)
    /\ watchPc' = CASE Head(events) = "remove" -> "add"
                    [] Head(events) = "write" -> "send"
                    [] OTHER -> "select"
    /\ UNCHANGED <<file, watch, changes, triggerReload, runVars>>

\* Mutant of WatchAdd: the new file is not watched.
WatchAddNothing ==
    /\ watchPc = "add"
    /\ file # Absent
    /\ watchPc' = "send"
    /\ UNCHANGED <<fileVars, triggerReload, runVars>>

\* The file that has the name now is watched.
WatchAdd ==
    /\ watchPc = "add"
    /\ file # Absent
    /\ watch' = "current"
    /\ watchPc' = "send"
    /\ UNCHANGED <<file, events, changes, triggerReload, runVars>>

\* The goroutine returns when the old watch cannot be removed or a new one not be
\* added, as when there is no file.
WatchError ==
    /\ watchPc = "add"
    /\ watchPc' = "done"
    /\ UNCHANGED <<fileVars, triggerReload, runVars>>

WatchSend ==
    /\ watchPc = "send"
    /\ ~triggerReload
    /\ triggerReload' = TRUE
    /\ watchPc' = "select"
    /\ UNCHANGED <<fileVars, runVars>>

\* Run has closed the watcher.
WatchClosed ==
    /\ watchPc = "select"
    /\ runPc = "done"
    /\ watchPc' = "done"
    /\ UNCHANGED <<fileVars, triggerReload, runVars>>

WatchStep == WatchEvent \/ WatchAdd \/ WatchError \/ WatchSend \/ WatchClosed

-----------------------------------------------------------------------------
(* Run and reloadFile. *)

RunTriggered ==
    /\ runPc = "select"
    /\ triggerReload
    /\ triggerReload' = FALSE
    /\ runPc' = "load"
    /\ UNCHANGED <<fileVars, watchPc, cfg, next, failed, applied, configSuccess, ctxDone>>

\* Mutant of Valid: the configuration is not validated.
AlwaysValid == TRUE

\* The file can be read, parsed and validated.
Valid == file \in Configs

LoadFile ==
    /\ runPc = "load"
    /\ Valid
    /\ cfg' = file
    /\ next' = 1
    /\ failed' = FALSE
    /\ runPc' = "apply"
    /\ UNCHANGED <<fileVars, watchVars, applied, configSuccess, ctxDone>>

LoadFileError ==
    /\ runPc = "load"
    /\ ~Valid
    /\ configSuccess' = FALSE
    /\ runPc' = "select"
    /\ UNCHANGED <<fileVars, watchVars, cfg, next, failed, applied, ctxDone>>

Reloader ==
    /\ runPc = "apply"
    /\ next <= Components
    /\ applied' = [applied EXCEPT ![next] = cfg]
    /\ next' = next + 1
    /\ UNCHANGED <<fileVars, watchVars, runPc, cfg, failed, configSuccess, ctxDone>>

\* The others are called all the same.
ReloaderError ==
    /\ runPc = "apply"
    /\ next \in MayFail
    /\ failed' = TRUE
    /\ next' = next + 1
    /\ UNCHANGED <<fileVars, watchVars, runPc, cfg, applied, configSuccess, ctxDone>>

\* Mutant of ReloadReturn: errors of the components are forgotten.
ReloadReturnNil ==
    /\ runPc = "apply"
    /\ next > Components
    /\ configSuccess' = TRUE
    /\ runPc' = "select"
    /\ UNCHANGED <<fileVars, watchVars, cfg, next, failed, applied, ctxDone>>

ReloadReturn ==
    /\ runPc = "apply"
    /\ next > Components
    /\ configSuccess' = ~failed
    /\ runPc' = "select"
    /\ UNCHANGED <<fileVars, watchVars, cfg, next, failed, applied, ctxDone>>

Cancel ==
    /\ ~ctxDone
    /\ ctxDone' = TRUE
    /\ UNCHANGED <<fileVars, watchVars, runPc, cfg, next, failed, applied, configSuccess>>

RunExit ==
    /\ runPc = "select"
    /\ ctxDone
    /\ runPc' = "done"
    /\ UNCHANGED <<fileVars, watchVars, cfg, next, failed, applied, configSuccess, ctxDone>>

RunStep ==
    \/ RunTriggered \/ LoadFile \/ LoadFileError
    \/ Reloader \/ ReloaderError \/ ReloadReturn \/ RunExit

-----------------------------------------------------------------------------
FileStep ==
    \/ \E c \in Configs \cup {Invalid} : WriteFile(c)
    \/ \E c \in Configs \cup {Invalid, Absent} : ReplaceFile(c) \/ RelinkFile(c)
    \/ \E e \in {"write", "remove", "rename"} : OldFile(e)
    \/ ChmodFile \/ MoveFile

Next == FileStep \/ WatchStep \/ RunStep \/ Cancel

Spec == Init /\ [][Next]_vars

FairSpec == Spec /\ WF_vars(WatchStep) /\ WF_vars(RunStep)

-----------------------------------------------------------------------------
(* Properties. *)

TypeOK ==
    /\ file \in Configs \cup {Invalid, Absent}
    /\ watch \in {"current", "old", "none", "gone"}
    /\ events \in Seq(Events)
    /\ changes \in 0..MaxChanges
    /\ watchPc \in {"select", "add", "send", "done"}
    /\ triggerReload \in BOOLEAN
    /\ runPc \in {"select", "load", "apply", "done"}
    /\ cfg \in Configs
    /\ next \in 1..(Components + 1)
    /\ failed \in BOOLEAN
    /\ applied \in [1..Components -> Configs]
    /\ configSuccess \in BOOLEAN
    /\ ctxDone \in BOOLEAN

\* Between two reloads, parca_config_last_reload_successful ("Whether the last
\* configuration reload attempt was successful") is 1 only if all components run
\* with one and the same configuration, also after attempts that failed half way.
SuccessMeansAgreement ==
    configSuccess /\ runPc \in {"select", "load", "done"}
        => \A i, j \in 1..Components : applied[i] = applied[j]

\* However writes, replacements and reloads overlap, the components without errors
\* come to run with the configuration in the file.  Three cases are excepted, in
\* which watchFile does not learn of a change, or no longer runs: the name was linked
\* to another file and the one it led to still exists (which the test of the reloader
\* says of links: no event before the old target is deleted); the watched file was
\* moved away, after which nothing is watched; and watchFile has returned, because
\* Run stopped or the watch could not be added again.
NewestConfigIsApplied ==
    <>[](\/ watchPc = "done" \/ ctxDone \/ file \notin Configs
         \/ watch \in {"old", "gone"}
         \/ \A i \in (1..Components) \ MayFail : applied[i] = file)

=============================================================================
