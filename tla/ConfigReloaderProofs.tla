------------------------ MODULE ConfigReloaderProofs ------------------------
(***************************************************************************)
(* Proofs about ConfigReloader, for any number of components, any set of   *)
(* them that may fail and any number of changes of the file.               *)
(*                                                                         *)
(* Two arguments.  What Run has applied: the components before next, and   *)
(* between two reloads all of them, run with cfg unless they failed.  What *)
(* watchFile has noticed: while cfg is not the configuration in the file,  *)
(* a notification is on its way - an event on which watchFile acts, the    *)
(* goroutine between event and token, the token, or a load that has not    *)
(* begun - unless the watch is on a file that no longer has the name, or   *)
(* ended when its file was moved away; and while no file is watched after  *)
(* a deletion, the event that will add the watch again is on its way.      *)
(***************************************************************************)
EXTENDS ConfigReloader, TLAPS

Unbroken == (1..Components) \ MayFail

\* The components that reloadFile has called; none is missing between reloads.
Called(i) == runPc = "apply" => i < next

\* Components that cannot fail have the configuration loaded last, and so have
\* all components if none failed.
AppliedGood ==
    /\ \A i \in Unbroken : Called(i) => applied[i] = cfg
    /\ runPc = "apply" /\ ~failed => \A i \in 1..Components : i < next => applied[i] = cfg

\* One of the events of E waits in the queue s.
Has(s, E) == \E i \in 1..Len(s) : s[i] \in E

\* A notification of a change is on its way to reloadFile.
Notified ==
    \/ Has(events, {"write", "remove"})
    \/ watchPc \in {"add", "send"}
    \/ triggerReload
    \/ runPc = "load"

ChangesNotified ==
    watchPc # "done" /\ watch \notin {"old", "gone"} /\ file \in Configs /\ file # cfg
        => Notified

\* While no file is watched after a deletion, the watch is about to be added again.
Rewatched == watch = "none" => Has(events, {"remove"}) \/ watchPc \in {"add", "done"}

IndInv == TypeOK /\ AppliedGood /\ SuccessMeansAgreement /\ ChangesNotified /\ Rewatched

\* Nothing is on its way: watchFile and Run wait, with nothing to wait for.
Quiet == watchPc = "select" /\ events = <<>> /\ ~triggerReload /\ runPc = "select"

\* When the reloader has come to rest, a deletion of the file was answered by a new
\* watch, and the components that cannot fail run with the configuration in the file,
\* however replacements of the file, writes and reloads overlap.  Excepted is a file
\* that the watch does not see: the name was linked to it while the file watched
\* before still exists, or the watched file was moved away.
QuietMeansNewest ==
    Quiet => /\ watch # "none"
             /\ watch = "current" /\ file \in Configs => \A i \in Unbroken : applied[i] = file

-----------------------------------------------------------------------------
(* Sequences of events. *)

\* fsnotify queues an event behind those that wait.
LEMMA AppendEvent ==
    ASSUME NEW s \in Seq(Events), NEW e \in Events, NEW E
    PROVE  /\ Append(s, e) \in Seq(Events)
           /\ Has(s, E) => Has(Append(s, e), E)
           /\ e \in E => Has(Append(s, e), E)
<1>1. /\ Append(s, e) \in Seq(Events)
      /\ Len(Append(s, e)) = Len(s) + 1
      /\ Len(s) \in Nat
      /\ Append(s, e)[Len(s) + 1] = e
      /\ \A i \in 1..Len(s) : Append(s, e)[i] = s[i]
  OBVIOUS
<1>2. Has(s, E) => Has(Append(s, e), E)
  BY <1>1 DEF Has
<1>3. e \in E => Has(Append(s, e), E)
  BY <1>1 DEF Has
<1>4. QED
  BY <1>1, <1>2, <1>3

\* watchFile takes the first event of the queue.
LEMMA TailEvent ==
    ASSUME NEW s \in Seq(Events), s # <<>>, NEW E
    PROVE  /\ Tail(s) \in Seq(Events)
           /\ Has(s, E) => Head(s) \in E \/ Has(Tail(s), E)
<1>1. /\ Tail(s) \in Seq(Events)
      /\ Len(Tail(s)) = Len(s) - 1
      /\ Len(s) \in Nat \ {0}
      /\ Head(s) = s[1]
      /\ \A i \in 1..(Len(s) - 1) : Tail(s)[i] = s[i + 1]
  OBVIOUS
<1>2. ASSUME NEW i \in 1..Len(s), s[i] \in E, Head(s) \notin E
      PROVE  Has(Tail(s), E)
  <2>1. i - 1 \in 1..(Len(s) - 1) /\ (i - 1) + 1 = i
    BY <1>1, <1>2
  <2>2. Tail(s)[i - 1] \in E
    BY <1>1, <1>2, <2>1
  <2>3. QED
    BY <1>1, <2>1, <2>2 DEF Has
<1>3. QED
  BY <1>1, <1>2 DEF Has

\* A removal is an event on which watchFile acts.
LEMMA RemovalActs ==
    ASSUME NEW s, Has(s, {"remove"})
    PROVE  Has(s, {"write", "remove"})
BY DEF Has

-----------------------------------------------------------------------------
(* Invariance, one lemma per part that several actions leave alone. *)

\* A step that leaves the variables of Run alone leaves what it says alone.
LEMMA RunUnchanged ==
    ASSUME AppliedGood, SuccessMeansAgreement, UNCHANGED runVars
    PROVE  AppliedGood' /\ SuccessMeansAgreement'
BY DEF runVars, AppliedGood, Called, SuccessMeansAgreement

\* A change of the file leaves Run's part and the types alone.
LEMMA ChangeKeeps ==
    ASSUME IndInv, NEW c \in Configs \cup {Invalid, Absent}, Change(c),
           events' \in Seq(Events), watch' \in {"current", "old", "none", "gone"}
    PROVE  TypeOK' /\ AppliedGood' /\ SuccessMeansAgreement'
<1> USE DEF Change, watchVars, runVars
<1>1. changes' \in 0..MaxChanges
  BY ReloaderAssumption DEF IndInv, TypeOK
<1>2. file' \in Configs \cup {Invalid, Absent}
  OBVIOUS
<1>3. TypeOK'
  BY <1>1, <1>2, Zenon DEF IndInv, TypeOK
<1>4. QED
  BY <1>3, RunUnchanged DEF IndInv

\* Without a new event, a change is notified if the watch on the file was deleted and
\* not added again: the event of the deletion is still on its way.
LEMMA UnwatchedChange ==
    ASSUME IndInv, NEW c, Change(c), UNCHANGED events,
           watch' \in {"current", "old", "none", "gone"},
           watch' = "none" => watch = "none",
           (c = file /\ watch' = watch) \/ watch' # "current"
    PROVE  ChangesNotified' /\ Rewatched'
<1> USE DEF Change, watchVars, runVars
<1>t. ChangesNotified /\ Rewatched /\ TypeOK
  BY DEF IndInv
<1>1. Rewatched'
  BY <1>t DEF Rewatched, Has
<1>2. CASE c = file /\ watch' = watch
  BY <1>t, <1>1, <1>2 DEF ChangesNotified, Notified, Has
<1>3. CASE watch' = "none"
  <2>1. Has(events, {"remove"}) \/ watchPc \in {"add", "done"}
    BY <1>t, <1>3 DEF Rewatched
  <2>2. Has(events, {"write", "remove"}) \/ watchPc \in {"add", "done"}
    BY <2>1, RemovalActs
  <2>3. ChangesNotified'
    BY <2>2 DEF ChangesNotified, Notified, Has
  <2>4. QED
    BY <1>1, <2>3
<1>4. CASE watch' \notin {"current", "none"}
  <2>1. ChangesNotified'
    BY <1>4 DEF ChangesNotified, Notified
  <2>2. QED
    BY <1>1, <2>1
<1>5. QED
  BY <1>2, <1>3, <1>4

\* What is reported of a file: a change of the file that has the name is notified
\* unless it is moved away, and what happens to another changes nothing there.
LEMMA FileChanges ==
    ASSUME IndInv, NEW c \in Configs \cup {Invalid, Absent},
           NEW on \in {"current", "old"}, NEW e \in Events,
           Change(c), Notify(on, e),
           c = file \/ (on = "current" /\ e # "chmod")
    PROVE  IndInv'
<1>t. TypeOK /\ ChangesNotified /\ Rewatched
  BY DEF IndInv
<1>1. CASE watch # on
  <2>1. UNCHANGED <<watch, events>>
    BY <1>1 DEF Notify
  <2>2. TypeOK' /\ AppliedGood' /\ SuccessMeansAgreement'
    BY <1>t, <2>1, ChangeKeeps DEF TypeOK
  <2>3. ChangesNotified' /\ Rewatched'
    BY <1>t, <1>1, <2>1, UnwatchedChange DEF TypeOK
  <2>4. QED
    BY <2>2, <2>3 DEF IndInv
<1>2. CASE watch = on
  <2>1. events' = Append(events, e) /\ events \in Seq(Events)
    BY <1>2, <1>t DEF Notify, TypeOK
  <2>2. /\ e = "remove" => watch' = "none"
        /\ e = "rename" => watch' = "gone"
        /\ e \in {"write", "chmod"} => watch' = watch
    BY <1>2 DEF Notify
  <2>3. PICK s \in Seq(Events) : s = events
    BY <2>1
  <2>4. /\ events' \in Seq(Events)
        /\ Has(events, {"write", "remove"}) => Has(events', {"write", "remove"})
        /\ e \in {"write", "remove"} => Has(events', {"write", "remove"})
        /\ e = "remove" => Has(events', {"remove"})
    BY <2>1, <2>3, AppendEvent
  <2>5. watch' \in {"current", "old", "none", "gone"}
    BY <1>2, <2>2 DEF Events
  <2>6. TypeOK' /\ AppliedGood' /\ SuccessMeansAgreement'
    BY <2>4, <2>5, ChangeKeeps
  <2>7. Rewatched'
    BY <1>2, <2>2, <2>4 DEF Rewatched, Events
  <2>8. ChangesNotified'
    <3>1. CASE e \in {"write", "remove"}
      BY <2>4, <3>1 DEF ChangesNotified, Notified
    <3>2. CASE e = "rename"
      BY <2>2, <3>2 DEF ChangesNotified
    <3>3. CASE e = "chmod"
      BY <1>t, <2>2, <2>4, <3>3 DEF ChangesNotified, Notified, Change, watchVars, runVars
    <3>4. QED
      BY <3>1, <3>2, <3>3 DEF Events
  <2>9. QED
    BY <2>6, <2>7, <2>8 DEF IndInv
<1>3. QED
  BY <1>1, <1>2

\* The steps of Run and Cancel leave the file and its watch alone.
LEMMA RewatchedUnchanged ==
    ASSUME Rewatched, UNCHANGED <<fileVars, watchPc>>
    PROVE  Rewatched'
BY DEF Rewatched, fileVars, Has

\* The reloader starts with the configuration in the file applied.
LEMMA InitInv == Init => IndInv
<1> SUFFICES ASSUME Init
             PROVE  IndInv
  OBVIOUS
<1>1. TypeOK
  <2>1. changes \in 0..MaxChanges /\ next \in 1..(Components + 1)
    BY ReloaderAssumption DEF Init
  <2>2. events \in Seq(Events)
    BY DEF Init
  <2>3. applied \in [1..Components -> Configs]
    BY DEF Init
  <2>4. QED
    BY <2>1, <2>2, <2>3, Zenon DEF Init, TypeOK
<1>2. AppliedGood
  BY DEF Init, AppliedGood, Unbroken
<1>3. QED
  BY <1>1, <1>2 DEF Init, IndInv, SuccessMeansAgreement, ChangesNotified, Rewatched

\* Each step of the file, of watchFile and of Run keeps the invariant.
LEMMA NextInv == IndInv /\ [Next]_vars => IndInv'
<1> SUFFICES ASSUME IndInv, [Next]_vars
             PROVE  IndInv'
  OBVIOUS
<1> USE DEF fileVars, watchVars, runVars
<1>t. TypeOK /\ AppliedGood /\ SuccessMeansAgreement /\ ChangesNotified /\ Rewatched
  BY DEF IndInv
<1>1. ASSUME NEW c \in Configs \cup {Invalid}, WriteFile(c)
      PROVE  IndInv'
  BY <1>1, FileChanges DEF WriteFile, Events
<1>2. ASSUME NEW c \in Configs \cup {Invalid, Absent}, ReplaceFile(c)
      PROVE  IndInv'
  BY <1>2, FileChanges DEF ReplaceFile, Events
<1>3. ASSUME NEW c \in Configs \cup {Invalid, Absent}, RelinkFile(c)
      PROVE  IndInv'
  <2>1. /\ Change(c) /\ UNCHANGED events
        /\ watch' = IF watch = "current" THEN "old" ELSE watch
    BY <1>3 DEF RelinkFile
  <2>2. /\ events' \in Seq(Events) /\ watch' \in {"current", "old", "none", "gone"}
        /\ watch' # "current" /\ (watch' = "none" => watch = "none")
    BY <1>t, <2>1 DEF TypeOK
  <2>3. QED
    BY <2>1, <2>2, ChangeKeeps, UnwatchedChange DEF IndInv
<1>4. ASSUME NEW e \in {"write", "remove", "rename"}, OldFile(e)
       PROVE  IndInv'
  BY <1>4, <1>t, FileChanges DEF OldFile, Events, TypeOK
<1>5. CASE ChmodFile
  BY <1>5, <1>t, FileChanges DEF ChmodFile, Events, TypeOK
<1>6. CASE MoveFile
  BY <1>6, FileChanges DEF MoveFile, Events
<1>7. CASE WatchEvent
  <2> USE <1>7 DEF WatchEvent
  <2>1. PICK s \in Seq(Events) : s = events
    BY <1>t DEF TypeOK
  <2>2. /\ events' \in Seq(Events)
        /\ Has(events, {"remove"}) => Head(events) = "remove" \/ Has(events', {"remove"})
        /\ Has(events, {"write", "remove"})
              => Head(events) \in {"write", "remove"} \/ Has(events', {"write", "remove"})
    BY <2>1, TailEvent
  <2>3. /\ watchPc' \in {"add", "send", "select"}
        /\ Head(events) = "remove" => watchPc' = "add"
        /\ Head(events) = "write" => watchPc' = "send"
    OBVIOUS
  <2>4. TypeOK'
    BY <1>t, <2>2, <2>3, Zenon DEF TypeOK
  <2>5. AppliedGood' /\ SuccessMeansAgreement'
    BY <1>t, RunUnchanged
  <2>6. ChangesNotified'
    BY <1>t, <2>2, <2>3 DEF ChangesNotified, Notified
  <2>7. Rewatched'
    BY <1>t, <2>2, <2>3 DEF Rewatched
  <2>8. QED
    BY <2>4, <2>5, <2>6, <2>7 DEF IndInv
<1>8. CASE WatchAdd
  <2> USE <1>8 DEF WatchAdd
  <2>1. TypeOK'
    BY <1>t, Zenon DEF TypeOK
  <2>2. AppliedGood' /\ SuccessMeansAgreement'
    BY <1>t, RunUnchanged
  <2>3. ChangesNotified' /\ Rewatched'
    BY DEF ChangesNotified, Notified, Rewatched
  <2>4. QED
    BY <2>1, <2>2, <2>3 DEF IndInv
<1>9. CASE WatchError
  <2> USE <1>9 DEF WatchError
  <2>1. TypeOK'
    BY <1>t, Zenon DEF TypeOK
  <2>2. AppliedGood' /\ SuccessMeansAgreement'
    BY <1>t, RunUnchanged
  <2>3. ChangesNotified' /\ Rewatched'
    BY DEF ChangesNotified, Rewatched
  <2>4. QED
    BY <2>1, <2>2, <2>3 DEF IndInv
<1>10. CASE WatchSend
  <2> USE <1>10 DEF WatchSend
  <2>1. TypeOK'
    BY <1>t, Zenon DEF TypeOK
  <2>2. AppliedGood' /\ SuccessMeansAgreement'
    BY <1>t, RunUnchanged
  <2>3. ChangesNotified'
    BY DEF ChangesNotified, Notified
  <2>4. Rewatched'
    BY <1>t DEF Rewatched, Has
  <2>5. QED
    BY <2>1, <2>2, <2>3, <2>4 DEF IndInv
<1>11. CASE WatchClosed
  <2> USE <1>11 DEF WatchClosed
  <2>1. TypeOK'
    BY <1>t, Zenon DEF TypeOK
  <2>2. AppliedGood' /\ SuccessMeansAgreement'
    BY <1>t, RunUnchanged
  <2>3. ChangesNotified' /\ Rewatched'
    BY DEF ChangesNotified, Rewatched
  <2>4. QED
    BY <2>1, <2>2, <2>3 DEF IndInv
<1>12. CASE RunTriggered
  <2> USE <1>12 DEF RunTriggered
  <2>1. TypeOK'
    BY <1>t, Zenon DEF TypeOK
  <2>2. AppliedGood' /\ SuccessMeansAgreement'
    BY <1>t DEF AppliedGood, Called, SuccessMeansAgreement
  <2>3. ChangesNotified'
    BY DEF ChangesNotified, Notified
  <2>4. QED
    BY <1>t, <2>1, <2>2, <2>3, RewatchedUnchanged DEF IndInv
<1>13. CASE LoadFile
  <2> USE <1>13 DEF LoadFile
  <2>1. next' \in 1..(Components + 1) /\ cfg' \in Configs
    BY ReloaderAssumption DEF Valid
  <2>2. TypeOK'
    BY <1>t, <2>1, Zenon DEF TypeOK
  <2>3. AppliedGood'
    BY DEF AppliedGood, Called, Unbroken
  <2>4. SuccessMeansAgreement'
    BY DEF SuccessMeansAgreement
  <2>5. ChangesNotified'
    BY DEF ChangesNotified
  <2>6. QED
    BY <1>t, <2>2, <2>3, <2>4, <2>5, RewatchedUnchanged DEF IndInv
<1>14. CASE LoadFileError
  <2> USE <1>14 DEF LoadFileError
  <2>1. TypeOK'
    BY <1>t, Zenon DEF TypeOK
  <2>2. AppliedGood' /\ SuccessMeansAgreement'
    BY <1>t DEF AppliedGood, Called, SuccessMeansAgreement
  <2>3. ChangesNotified'
    BY DEF ChangesNotified, Valid
  <2>4. QED
    BY <1>t, <2>1, <2>2, <2>3, RewatchedUnchanged DEF IndInv
<1>15. CASE Reloader
  <2> USE <1>15 DEF Reloader
  <2>1. /\ next \in 1..(Components + 1) /\ next <= Components /\ Components \in Nat
        /\ applied \in [1..Components -> Configs] /\ cfg \in Configs
    BY <1>t, ReloaderAssumption DEF TypeOK
  <2>2. /\ next' \in 1..(Components + 1)
        /\ applied' \in [1..Components -> Configs]
        /\ \A i \in 1..Components : applied'[i] = IF i = next THEN cfg ELSE applied[i]
    BY <2>1
  <2>3. TypeOK'
    BY <1>t, <2>2, Zenon DEF TypeOK
  <2>4. AppliedGood'
    <3>1. \A i \in 1..Components : i < next' => i = next \/ i < next
      BY <2>1
    <3>2. QED
      BY <1>t, <2>1, <2>2, <3>1 DEF AppliedGood, Called, Unbroken
  <2>5. SuccessMeansAgreement' /\ ChangesNotified'
    BY <1>t DEF SuccessMeansAgreement, ChangesNotified, Notified
  <2>6. QED
    BY <1>t, <2>3, <2>4, <2>5, RewatchedUnchanged DEF IndInv
<1>16. CASE ReloaderError
  <2> USE <1>16 DEF ReloaderError
  <2>1. next \in 1..Components /\ next \in MayFail /\ Components \in Nat
    BY ReloaderAssumption
  <2>2. next' \in 1..(Components + 1)
    BY <2>1
  <2>3. TypeOK'
    BY <1>t, <2>2, Zenon DEF TypeOK
  <2>4. AppliedGood'
    <3>1. \A i \in Unbroken : i < next' => i < next
      BY <2>1 DEF Unbroken
    <3>2. QED
      BY <1>t, <3>1 DEF AppliedGood, Called
  <2>5. SuccessMeansAgreement' /\ ChangesNotified'
    BY <1>t DEF SuccessMeansAgreement, ChangesNotified, Notified
  <2>6. QED
    BY <1>t, <2>3, <2>4, <2>5, RewatchedUnchanged DEF IndInv
<1>17. CASE ReloadReturn
  <2> USE <1>17 DEF ReloadReturn
  <2>1. configSuccess' \in BOOLEAN
    OBVIOUS
  <2>2. TypeOK'
    BY <1>t, <2>1, Zenon DEF TypeOK
  <2>3. \A i \in 1..Components : i < next
    BY <1>t, ReloaderAssumption DEF TypeOK
  <2>4. AppliedGood' /\ SuccessMeansAgreement'
    BY <1>t, <2>3 DEF AppliedGood, Called, Unbroken, SuccessMeansAgreement
  <2>5. ChangesNotified'
    BY <1>t DEF ChangesNotified, Notified
  <2>6. QED
    BY <1>t, <2>2, <2>4, <2>5, RewatchedUnchanged DEF IndInv
<1>18. CASE RunExit
  <2> USE <1>18 DEF RunExit
  <2>1. TypeOK'
    BY <1>t, Zenon DEF TypeOK
  <2>2. AppliedGood' /\ SuccessMeansAgreement'
    BY <1>t DEF AppliedGood, Called, SuccessMeansAgreement
  <2>3. ChangesNotified'
    BY <1>t DEF ChangesNotified, Notified
  <2>4. QED
    BY <1>t, <2>1, <2>2, <2>3, RewatchedUnchanged DEF IndInv
<1>19. CASE Cancel
  <2> USE <1>19 DEF Cancel
  <2>1. TypeOK'
    BY <1>t, Zenon DEF TypeOK
  <2>2. AppliedGood' /\ SuccessMeansAgreement' /\ ChangesNotified'
    BY <1>t DEF AppliedGood, Called, SuccessMeansAgreement, ChangesNotified, Notified
  <2>3. QED
    BY <1>t, <2>1, <2>2, RewatchedUnchanged DEF IndInv
<1>20. CASE UNCHANGED vars
  <2> USE <1>20 DEF vars
  <2>1. TypeOK'
    BY <1>t, Zenon DEF TypeOK
  <2>2. ChangesNotified'
    BY <1>t DEF ChangesNotified, Notified
  <2>3. QED
    BY <1>t, <2>1, <2>2, RunUnchanged, RewatchedUnchanged DEF IndInv
<1>21. QED
  BY <1>1, <1>2, <1>3, <1>4, <1>5, <1>6, <1>7, <1>8, <1>9, <1>10, <1>11,
     <1>12, <1>13, <1>14, <1>15, <1>16, <1>17, <1>18, <1>19, <1>20
     DEF Next, FileStep, WatchStep, RunStep

\* The inductive invariant holds in every reachable state.
THEOREM Invariance == Spec => []IndInv
<1>1. QED
  BY InitInv, NextInv, PTL DEF Spec

\* The file, its watcher and both goroutines of the reloader stay within their types.
THEOREM TypeCorrect == Spec => []TypeOK
<1>1. IndInv => TypeOK
  BY DEF IndInv
<1>2. QED
  BY <1>1, Invariance, PTL

\* The gauge parca_config_last_reload_successful tells the truth: between reloads it is
\* 1 only if all components run with one configuration.
THEOREM SuccessIsAgreement == Spec => []SuccessMeansAgreement
<1>1. IndInv => SuccessMeansAgreement
  BY DEF IndInv
<1>2. QED
  BY <1>1, Invariance, PTL

\* The safety half of NewestConfigIsApplied: a reloader at rest watches the file or has
\* a reason not to, and if it does, it has applied what is in it.
THEOREM NoChangeIsLost == Spec => []QuietMeansNewest
<1>1. IndInv => QuietMeansNewest
  <2> SUFFICES ASSUME IndInv, Quiet
               PROVE  QuietMeansNewest
    BY DEF QuietMeansNewest
  <2>1. ~Notified /\ watchPc # "done" /\ ~Has(events, {"remove"}) /\ watchPc # "add"
    BY DEF Quiet, Notified, Has
  <2>2. watch # "none"
    BY <2>1 DEF IndInv, Rewatched
  <2>3. ASSUME watch = "current", file \in Configs, NEW i \in Unbroken
        PROVE  applied[i] = file
    <3>1. cfg = file
      BY <2>1, <2>3 DEF IndInv, ChangesNotified
    <3>2. QED
      BY <2>3, <3>1 DEF IndInv, AppliedGood, Called, Quiet
  <2>4. QED
    BY <2>2, <2>3 DEF QuietMeansNewest
<1>2. QED
  BY <1>1, Invariance, PTL

=============================================================================
