------------------------------- MODULE Explorer -------------------------------
(***************************************************************************)
(* The query page of the web UI when one profile is explored: the URL and  *)
(* its browser history, the edits the selector holds back until Search     *)
(* (useQueryState, useSumBy, ProfileSelector), the query the page runs by  *)
(* itself when it is opened without one (useAutoQuerySelector), the        *)
(* metrics graph that writes to the URL directly, and the flame graph      *)
(* whose zoom path lives in the same URL.                                  *)
(*                                                                         *)
(* React renders after every event, with the effects of the render, before *)
(* the next event is handled: Render is a step of its own, user events     *)
(* wait for it, answers of the server and timers do not.  An effect sees   *)
(* the drafts of the render it belongs to.  The parameters are what nuqs   *)
(* makes of the URL: updates in quick succession are one history entry, a  *)
(* new one if any of them pushes.                                          *)
(***************************************************************************)
EXTENDS Integers, Sequences, FiniteSets

CONSTANTS
    Types,          \* profile types the server offers
    Delta,          \* those of them that are delta profiles
    LabelsOf,       \* [Types -> set of label names]
    Preferred,      \* the type useAutoQuerySelector picks
    Matchers,       \* contents of the braces of an expression; "" is empty
    Times,          \* time ranges, as evaluated at some moment
    Binaries,       \* binaries a filter can exclude
    Links,          \* the URLs the page is opened with
    MaxEvents       \* bound: events of the user

VARIABLES
    url,            \* the parameters of the current history entry
    hist,           \* the history entries
    pos,            \* the current one
    written,        \* nuqs has written the current entry to the browser
    draft,          \* draftExpression, draft time range, draft sumBy
    shown,          \* queryExpressionString of the selector
    userSel,        \* userSelectedSumBy
    synced,         \* hasSyncedSumByRef
    auto,           \* autoQuery = 'true' in the store
    typesAt,        \* time ranges whose profile types have arrived
    answered,       \* <<type, time>> whose label names arrived or failed
    failed,         \* those that failed
    resets,         \* timers that will clear cur_path
    seen,           \* url of the last render
    rendered,       \* nothing changed since the last render
    went,           \* entry the user went to through the history, if the effects have
                    \* nothing to fill in there (Navigate)
    met,            \* known defects this behaviour has run into
    events          \* events so far

page == <<draft, shown, userSel, synced, auto, seen>>
server == <<typesAt, answered, failed>>
nav == <<url, hist, pos, written>>
vars == <<nav, page, server, resets, rendered, went, met, events>>

NoType == ""
Blank == [type |-> NoType, m |-> ""]
Exprs == [type : Types \cup {NoType}, m : Matchers]
Labels == UNION {LabelsOf[t] : t \in Types}
Lists == {<<>>} \cup {<<l>> : l \in Labels}
Options == {<<>>} \cup {<<o>> : o \in Lists}

-------------------------------------------------------------------------------
(* The sum_by parameter and the lists it stands for; <<>> is undefined.    *)

Null == ""
NoneParam == "__none__"
Params == {Null, NoneParam} \cup Labels

sumByToParam(o) ==
    CASE o = <<>> -> Null
      [] o # <<>> /\ o[1] = <<>> -> NoneParam
      [] OTHER -> o[1][1]

getSumByFromParam(p) ==
    CASE p = Null -> <<>>
      [] p = NoneParam -> << <<>> >>
      [] OTHER -> << <<p>> >>

\* The first option that is defined (the ?? of the code).
Or(o, p) == IF o # <<>> THEN o ELSE p
NonEmpty(o) == IF o # <<>> /\ o[1] # <<>> THEN o ELSE <<>>

Loading(t, time) == t # NoType /\ <<t, time>> \notin answered

\* The label names the code sees: none while the answer is out or failed.
LabelNames(t, time) ==
    IF t # NoType /\ <<t, time>> \in answered \ failed THEN LabelsOf[t] ELSE {}

getDefaultSumBy(t, labels) ==
    CASE t \notin Delta -> << <<>> >>
      [] t \in Delta /\ "comm" \in labels -> << <<"comm">> >>
      [] t \in Delta /\ "comm" \notin labels /\ "namespace" \in labels -> << <<"namespace">> >>
      [] t \in Delta /\ labels \cap {"comm", "namespace", "container"} = {"container"} ->
            << <<"container">> >>
      [] OTHER -> <<>>

\* draftSumBy of useDraftSumBy, for the drafts d and the parameters u.
DraftSumBy(d, u) ==
    Or(d.sum, Or(NonEmpty(getSumByFromParam(u.sum)),
    Or(getDefaultSumBy(d.expr.type, LabelNames(d.expr.type, d.time)), << <<>> >>)))[1]

\* The type whose sumBy is computed: the committed one, else the draft's.
SumByType(d, u) == IF u.expr.type # NoType THEN u.expr.type ELSE d.expr.type

\* userSelectedSumBy after a render: the URL's value is taken over.
RememberSumBy(sel, d, u) ==
    LET t == SumByType(d, u)
        o == getSumByFromParam(u.sum)
    IN  IF t # NoType /\ o # <<>> THEN [sel EXCEPT ![t] = o] ELSE sel

\* sumBy of useSumBySelection.
SumBySelection(sel, d, u) ==
    LET t == SumByType(d, u)
    IN  IF Loading(t, d.time) THEN DraftSumBy(d, u)
        ELSE IF t \notin Delta THEN <<>>
        ELSE Or(sel[t], Or(NonEmpty(getSumByFromParam(u.sum)),
             Or(getDefaultSumBy(t, LabelNames(t, d.time)), << <<>> >>)))[1]

SumByLoading(d, u) ==
    Loading(SumByType(d, u), d.time) \/ Loading(d.expr.type, d.time)

-------------------------------------------------------------------------------
(* The URL, its history and the flame graph.                               *)

\* What the flame graph is drawn from; a zoom path is a path in one of them.
ViewOf(u) == [merge |-> u.merge, sel |-> u.sel, group |-> u.group, filters |-> u.filters]

\* profileSource is not null.
HasProfile(u) == u.merge # <<>> /\ u.sel # Blank

\* A selected profile is one of the query: same type, with its time range.
ViewFits(u) == u.sel # Blank => u.merge # <<>> /\ u.sel.type = u.expr.type

\* The zoom path is a path in the flame graph.
ZoomFits(u) == u.zoom # <<>> => u.zoom[1] = ViewOf(u)

\* The label of sum_by is one of the type.
SumFits(u) == u.expr.type # NoType /\ u.sum \in Labels => u.sum \in LabelsOf[u.expr.type]

Ranges == {<<>>} \cup {<<t>> : t \in Times}
Views == [merge : Ranges, sel : Exprs, group : BOOLEAN, filters : SUBSET Binaries]
Urls == [expr : Exprs, time : Times, sum : Params, merge : Ranges, sel : Exprs,
         zoom : {<<>>} \cup {<<v>> : v \in Views}, group : BOOLEAN, filters : SUBSET Binaries]
Drafts == [expr : Exprs, time : Times, sum : Options]

\* Type names and labels are no words of the URL, and a page is opened with a URL
\* that a page wrote.
ASSUME ExplorerAssumption ==
    /\ NoType \notin Types /\ Delta \subseteq Types /\ Preferred \in Types
    /\ DOMAIN LabelsOf = Types /\ Labels \cap {Null, NoneParam} = {}
    /\ "" \in Matchers
    /\ MaxEvents \in Nat
    /\ Links \subseteq {u \in Urls : ViewFits(u) /\ ZoomFits(u) /\ SumFits(u)}

Replace(u) ==
    /\ url' = u
    /\ hist' = [hist EXCEPT ![pos] = u]
    /\ UNCHANGED <<pos, written>>

\* A fault: the entries ahead are not dropped.
Push_KeepsForward(u) ==
    \/ /\ written
       /\ url' = u
       /\ hist' = Append(hist, u)
       /\ pos' = pos + 1
       /\ written' = FALSE
    \/ ~written /\ Replace(u)

Push(u) ==
    \/ /\ written
       /\ url' = u
       /\ hist' = Append(SubSeq(hist, 1, pos), u)
       /\ pos' = pos + 1
       /\ written' = FALSE
    \/ ~written /\ Replace(u)

\* A fault: nothing clears the path.
ResetFlameGraphState_Never(u) == 0

\* resetFlameGraphState and resetStateOnSeriesChange: a timer clears cur_path,
\* if there is one at the time of the call.
ResetFlameGraphState(u) == IF u.zoom # <<>> THEN 1 ELSE 0

\* A fault: sum_by survives the change of type.
ResetOnProfileTypeChange_KeepsSumBy(u, v) ==
    [v EXCEPT !.zoom = <<>>, !.group = FALSE, !.filters = {}]

\* resetStateOnProfileTypeChange: v is the URL the commit asks for, u the one
\* of the last render.  A sum_by that u has is removed, the committed one too.
ResetOnProfileTypeChange(u, v) ==
    [v EXCEPT !.zoom = <<>>, !.group = FALSE, !.filters = {},
              !.sum = IF u.sum # Null THEN Null ELSE @]

\* The URL commitDraft writes, for drafts d, a time range t and an expression e.
Committed(u, d, t, e) ==
    LET delta == e.type \in Delta
        v == [u EXCEPT !.expr = e, !.time = t,
                       !.sum = IF delta THEN sumByToParam(<<DraftSumBy(d, u)>>) ELSE NoneParam,
                       !.merge = IF delta THEN <<t>> ELSE <<>>,
                       !.sel = IF delta THEN e ELSE Blank]
    IN  IF d.expr.type # u.expr.type THEN ResetOnProfileTypeChange(u, v) ELSE v

DraftOf(u) == [expr |-> u.expr, time |-> u.time, sum |-> getSumByFromParam(u.sum)]

-------------------------------------------------------------------------------
(* A render and its effects.                                               *)

\* A fault: the selector does not follow the URL.
ShownQuery_Keeps == shown

\* queryExpressionString follows the URL's expression when that changes.
ShownQuery == IF url.expr # seen.expr THEN url.expr ELSE shown

\* timeRangeSelection follows the URL's time range when that changes.
ShownTime == IF url.time # seen.time THEN url.time ELSE draft.time

\* The effects that carry a changed parameter into the drafts.
SyncedDraft ==
    [expr |-> IF url.expr # seen.expr THEN url.expr ELSE draft.expr,
     time |-> IF url.time # seen.time THEN url.time ELSE draft.time,
     sum  |-> IF url.sum # seen.sum THEN getSumByFromParam(url.sum) ELSE draft.sum]

\* The drafts of the explorer's own useQueryState: nobody edits them.
OuterDraft == DraftOf(seen)

\* An instance of useQueryState with the drafts d has a sumBy for the URL.
OffersSumBy(sel, d) ==
    /\ SumBySelection(sel, d, url) # <<>>
    /\ ~Loading(SumByType(d, url), d.time)

\* A fault: sum_by is written whenever it is missing.
SyncsSumBy_Always(sel) ==
    url.sum = Null /\ (OffersSumBy(sel, draft) \/ OffersSumBy(sel, OuterDraft))

\* The computed sumBy goes to a URL that never had one.
SyncsSumBy(sel) ==
    ~synced /\ url.sum = Null /\ (OffersSumBy(sel, draft) \/ OffersSumBy(sel, OuterDraft))

\* Of two writes of one render the explorer's comes last.
SumByToSync(sel) ==
    SumBySelection(sel, IF OffersSumBy(sel, OuterDraft) THEN OuterDraft ELSE draft, url)

\* The page was opened without a query: select a type.
AutoSelects == ShownQuery.type = NoType /\ ShownTime \in typesAt /\ ~auto

\* ... and run it as soon as its sumBy is known.
AutoCommits ==
    auto /\ ShownTime \in typesAt /\ ShownQuery.type # NoType /\ ~SumByLoading(draft, url)

\* A fault: autoQuery is not switched off by the commit.
AutoAfter_StaysOn == AutoSelects \/ auto

\* autoQuery after the effects.
AutoAfter == AutoSelects \/ (auto /\ ~AutoCommits)

\* Known defects: a type is selected over a draft that is about to be replaced;
\* a sumBy chosen for the draft's type stays when only the type goes; the query
\* the page runs by itself carries a sumBy that the URL no longer has.
DefectsOfRender ==
    {x \in {"blank", "sum"} :
        \/ x = "blank" /\ AutoSelects /\ draft.expr.m # ShownQuery.m
        \/ x = "sum" /\ draft.sum # <<>> /\ SyncedDraft.sum = draft.sum
                     /\ SyncedDraft.expr.type # draft.expr.type
        \/ x = "sum" /\ AutoCommits /\ SyncedDraft.sum # draft.sum}

Render ==
    LET sel == RememberSumBy(userSel, draft, url)
        syncs == SyncsSumBy(sel)
        sum == IF syncs THEN sumByToParam(<<SumByToSync(sel)>>) ELSE url.sum
    IN  /\ ~rendered
        /\ seen' = url
        /\ userSel' = sel
        /\ synced' = (synced \/ url.sum # Null \/ syncs)
        /\ auto' = AutoAfter
        /\ shown' = IF AutoSelects THEN [ShownQuery EXCEPT !.type = Preferred] ELSE ShownQuery
        /\ draft' = IF AutoSelects
                       THEN [SyncedDraft EXCEPT !.expr = [draft.expr EXCEPT !.type = Preferred],
                                                !.sum = <<>>]
                       ELSE SyncedDraft
        /\ IF AutoCommits
              THEN /\ Push(Committed(url, draft, draft.time, draft.expr))
                   /\ resets' = resets + ResetFlameGraphState(url)
              ELSE /\ Replace([url EXCEPT !.sum = sum])
                   /\ UNCHANGED resets
        /\ rendered' = (page' = page /\ url' = url)
        /\ met' = met \cup DefectsOfRender
        /\ UNCHANGED <<server, went, events>>

\* nuqs writes the updates it has collected.
Flush ==
    /\ rendered /\ ~written
    /\ written' = TRUE
    /\ UNCHANGED <<url, hist, pos, page, server, resets, rendered, went, met, events>>

\* The timer of resetFlameGraphState fires.
TimerFires ==
    /\ rendered /\ resets > 0
    /\ resets' = resets - 1
    /\ Replace([url EXCEPT !.zoom = <<>>])
    /\ rendered' = FALSE
    /\ UNCHANGED <<page, server, went, met, events>>

-------------------------------------------------------------------------------
(* The server answers what the page asks for.  A timer without a delay is  *)
(* faster.                                                                 *)

\* useProfileTypes
TypesArrive ==
    /\ resets = 0 /\ draft.time \notin typesAt
    /\ typesAt' = typesAt \cup {draft.time}
    /\ rendered' = FALSE
    /\ UNCHANGED <<nav, page, answered, failed, resets, went, met, events>>

\* The useLabelNames queries of the page that have no answer yet.
LabelQueries ==
    {k \in {<<SumByType(draft, url), draft.time>>, <<draft.expr.type, draft.time>>,
            <<url.expr.type, url.time>>, <<shown.type, draft.time>>} :
        k[1] # NoType /\ k \notin answered}

\* useLabelNames: an answer, or an error after the retries.
LabelsArrive(k) ==
    /\ resets = 0 /\ k \in LabelQueries
    /\ answered' = answered \cup {k}
    /\ failed' \in {failed, failed \cup {k}}
    /\ rendered' = FALSE
    /\ UNCHANGED <<nav, page, typesAt, resets, went, met, events>>

-------------------------------------------------------------------------------
(* Events of the user.                                                     *)

\* The user is slower than the timers of the page.
Event(w) ==
    /\ rendered /\ written /\ resets = 0
    /\ events < MaxEvents
    /\ events' = events + 1
    /\ went' = w
    /\ rendered' = FALSE

\* setProfileName of the selector, with setDraftProfileName.
SetProfileName(t) ==
    /\ Event(<<>>)
    /\ draft.time \in typesAt
    /\ draft' = [draft EXCEPT !.expr.type = t, !.sum = <<>>]
    /\ shown' = [shown EXCEPT !.type = t]
    /\ UNCHANGED <<nav, userSel, synced, auto, seen, server, resets, met>>

\* setMatchersString of the selector, with setDraftMatchers.
SetMatchersString(m) ==
    /\ Event(<<>>)
    /\ draft' = [draft EXCEPT !.expr.m = m]
    /\ shown' = [shown EXCEPT !.m = m]
    /\ UNCHANGED <<nav, userSel, synced, auto, seen, server, resets, met>>

\* setDraftSumBy: the labels on offer are those of the type shown.
SetDraftSumBy(o) ==
    /\ Event(<<>>)
    /\ \A i \in DOMAIN o : o[i] \in LabelNames(shown.type, draft.time)
    /\ draft' = [draft EXCEPT !.sum = <<o>>]
    /\ UNCHANGED <<nav, shown, userSel, synced, auto, seen, server, resets, met>>

\* handleTimeRangeChange of the selector.
SetDraftTimeRange(t) ==
    /\ Event(<<>>)
    /\ draft' = [draft EXCEPT !.time = t]
    /\ UNCHANGED <<nav, shown, userSel, synced, auto, seen, server, resets, met>>

\* commitDraft of the selector; its drafts take over what it is called with.
CommitDraft(t, e) ==
    /\ Push(Committed(url, draft, t, e))
    /\ draft' = [draft EXCEPT !.time = t, !.expr = e]
    /\ resets' = resets + ResetFlameGraphState(url)
    /\ UNCHANGED <<shown, userSel, synced, auto, seen, server>>

\* setQueryExpression(true): the Search button.  A relative range is evaluated
\* again, so what is committed may be another range than the one selected.
Search(t) ==
    /\ Event(<<>>)
    /\ shown # Blank
    /\ CommitDraft(t, draft.expr)
    /\ UNCHANGED met

\* handleTimeRangeChange of the metrics graph.
SelectTimeRange(t) ==
    /\ Event(<<>>)
    /\ url.expr # Blank
    /\ CommitDraft(t, draft.expr)
    /\ UNCHANGED met

\* addLabelMatcher of the metrics graph.  When the new expression is the one
\* in the URL, nothing tells the selector to show it.
AddLabelMatcher(m) ==
    LET e == [shown EXCEPT !.m = m]
    IN  /\ Event(<<>>)
        /\ url.expr # Blank
        /\ CommitDraft(draft.time, e)
        /\ met' = IF e = url.expr /\ shown # e THEN met \cup {"label"} ELSE met

\* A fault: the expression being edited is taken for the graph's.
HandlePointClick_OfTheDraft(m, t) ==
    /\ Event(<<>>)
    /\ url.expr # Blank
    /\ Push([url EXCEPT !.sel = [shown EXCEPT !.m = m], !.merge = <<t>>])
    /\ resets' = resets + ResetFlameGraphState(url)
    /\ UNCHANGED <<page, server, met>>

\* handlePointClick of the metrics graph: its series belong to the URL's query.
HandlePointClick(m, t) ==
    /\ Event(<<>>)
    /\ url.expr # Blank
    /\ Push([url EXCEPT !.sel = [url.expr EXCEPT !.m = m], !.merge = <<t>>])
    /\ resets' = resets + ResetFlameGraphState(url)
    /\ UNCHANGED <<page, server, met>>

\* handleSwitchToFifteenMinutes: commitDraft of the explorer's own drafts.
SwitchToFifteenMinutes(t) ==
    /\ Event(<<>>)
    /\ HasProfile(url)
    /\ t # url.time
    /\ Push(Committed(url, DraftOf(url), t, url.expr))
    /\ resets' = resets + ResetFlameGraphState(url)
    /\ UNCHANGED <<page, server, met>>

\* setCurPathArrow: a click into the flame graph, or the reset button.
SetCurPath(zoom) ==
    /\ Event(<<>>)
    /\ HasProfile(url)
    /\ Push([url EXCEPT !.zoom = zoom])
    /\ UNCHANGED <<page, server, resets, met>>

\* toggleGroupBy and setGroupByLabels; inverting the call stacks is alike.
ToggleGroupBy ==
    /\ Event(<<>>)
    /\ HasProfile(url)
    /\ Push([url EXCEPT !.group = ~@])
    /\ resets' = resets + ResetFlameGraphState(url)
    /\ UNCHANGED <<page, server, met>>

\* onApplyFilters, excludeBinary, removeExcludeBinary and resetFilters.
SetAppliedFilters(f) ==
    /\ Event(<<>>)
    /\ HasProfile(url)
    /\ Replace([url EXCEPT !.filters = f])
    /\ resets' = resets + ResetFlameGraphState(url)
    /\ UNCHANGED <<page, server, met>>

\* The back and forward buttons.  A visit is kept in went unless the page is to fill in
\* what the entry lacks: the automatic query is pending or the entry has no query, or
\* sum_by is not in the entry and was not synced to the URL yet.
Navigate(p) ==
    LET entry == hist[p]
        kept == ~auto /\ entry.expr.type # NoType /\ (synced \/ entry.sum # Null)
    IN  /\ p \in {pos - 1, pos + 1} \cap 1..Len(hist)
        /\ Event(IF kept THEN <<entry>> ELSE <<>>)
        /\ pos' = p /\ url' = entry
        /\ met' = IF auto THEN met \cup {"auto"} ELSE met
        /\ UNCHANGED <<hist, written, page, server, resets>>

\* The page is loaded again: what is not in the URL starts afresh.
Mounted(u) ==
    /\ draft' = DraftOf(u)
    /\ shown' = u.expr
    /\ userSel' = [t \in Types |-> <<>>]
    /\ synced' = FALSE
    /\ auto' = FALSE
    /\ seen' = u

Reload ==
    /\ Event(<<>>)
    /\ Mounted(url)
    /\ typesAt' = {} /\ answered' = {} /\ failed' = {}
    /\ met' = met \cap {"sum"}
    /\ UNCHANGED <<nav, resets>>
-------------------------------------------------------------------------------
Init ==
    /\ url \in Links
    /\ hist = <<url>> /\ pos = 1 /\ written = TRUE
    /\ draft = DraftOf(url) /\ shown = url.expr
    /\ userSel = [t \in Types |-> <<>>]
    /\ synced = FALSE /\ auto = FALSE
    /\ seen = url
    /\ typesAt = {} /\ answered = {} /\ failed = {}
    /\ resets = 0 /\ rendered = FALSE
    /\ went = <<>> /\ met = {} /\ events = 0

User ==
    \/ \E t \in Types : SetProfileName(t)
    \/ \E m \in Matchers : SetMatchersString(m) \/ AddLabelMatcher(m)
    \/ \E o \in Lists : SetDraftSumBy(o)
    \/ \E t \in Times : SetDraftTimeRange(t) \/ Search(t) \/ SelectTimeRange(t)
    \/ \E m \in Matchers, t \in Times : HandlePointClick(m, t)
    \/ \E t \in Times : SwitchToFifteenMinutes(t)
    \/ \E zoom \in {<<>>, <<ViewOf(url)>>} : SetCurPath(zoom)
    \/ ToggleGroupBy
    \/ \E f \in SUBSET Binaries : SetAppliedFilters(f)
    \/ \E p \in 1..Len(hist) : Navigate(p)
    \/ Reload

Next ==
    \/ Render
    \/ Flush
    \/ TimerFires
    \/ TypesArrive
    \/ \E k \in Types \X Times : LabelsArrive(k)
    \/ User

\* React renders, timers fire, the server answers or the query gives up.
Fairness ==
    /\ WF_vars(Render) /\ WF_vars(Flush) /\ WF_vars(TimerFires) /\ WF_vars(TypesArrive)
    /\ \A k \in Types \X Times : WF_vars(LabelsArrive(k))

Spec == Init /\ [][Next]_vars /\ Fairness

-------------------------------------------------------------------------------
\* Types of the variables; the current entry is the URL.
ExplorerTypeOK ==
    /\ url \in Urls /\ seen \in Urls
    /\ pos \in 1..Len(hist) /\ hist[pos] = url
    /\ draft \in Drafts
    /\ shown \in Exprs
    /\ userSel \in [Types -> Options]
    /\ {written, synced, auto, rendered} \subseteq BOOLEAN
    /\ typesAt \subseteq Times /\ failed \subseteq answered
    /\ answered \subseteq Types \X Times
    /\ resets \in Nat /\ events \in 0..MaxEvents
    /\ met \subseteq {"auto", "blank", "label", "sum"}

\* What the selector shows and what Search would commit are the same query,
\* although one is kept by ProfileSelector and the other by useQueryState and
\* each follows the URL by itself.
SearchCommitsWhatIsShown ==
    rendered /\ met \cap {"blank", "label"} = {} => shown = draft.expr

\* A selected profile is one of the query in the URL: same type, and never a
\* selection without its time range, whatever edits are pending.
ViewIsOfTheQuery == ViewFits(url)

\* A zoom path belongs to the flame graph on the page, once the timers have
\* fired: on the entries reached through the history too.
ZoomIsOfTheView == resets = 0 => ZoomFits(url)

\* Going back or forward to a query stays there: no effect of the renders that
\* follow writes another query, selection or sum_by over it.  Visits during which the
\* automatic query is pending are left out, and so are visits to an entry without
\* sum_by before the page has synced it to the URL once, which the comment in
\* useQueryState says it is meant to do.
HistoryIsNotRewritten ==
    went # <<>> =>
        [url EXCEPT !.zoom = <<>>] = [went[1] EXCEPT !.zoom = <<>>]

\* The label the URL sums by is a label of the type in the URL: changing the
\* type never carries a label of the old one into the new query.
SumByIsOfTheType == "sum" \notin met => SumFits(url)

\* The page comes to rest with a query: the effects do not write the URL for
\* ever, and a page opened without a query runs one.
PageComesToRest ==
    <>[](rendered /\ resets = 0 /\ (url.expr.type # NoType \/ "auto" \in met))
===============================================================================
