---------------------------- MODULE ExplorerProofs ----------------------------
(* Proofs about Explorer, for every set of profile types, labels, matchers,    *)
(* time ranges and binaries and any number of events of the user.              *)
EXTENDS Explorer, TLAPS

-------------------------------------------------------------------------------
(* The inductive invariant. *)

\* The label of the list is one of the type.
OptionFits(o, t) == t # NoType => \A x \in Labels : o = << <<x>> >> => x \in LabelsOf[t]

\* Every entry of the history can be gone back to: only the zoom path of the
\* current one may wait for its timer.
HistoryFits ==
    /\ hist \in Seq(Urls)
    /\ \A i \in 1..Len(hist) : /\ ViewFits(hist[i])
                               /\ i # pos => ZoomFits(hist[i])
                               /\ "sum" \notin met => SumFits(hist[i])

\* When React has rendered, nothing is left for the effects.
AtRest == rendered => seen = url /\ ~AutoSelects /\ ~AutoCommits

\* A stale zoom path has a timer; on an entry the browser already has, the page
\* does not run a query by itself before the timer fires.
ZoomIsPending ==
    ~ZoomFits(url) =>
        /\ resets > 0
        /\ written => /\ url.expr = seen.expr /\ url.time = seen.time
                      /\ ~AutoSelects /\ ~AutoCommits

\* The selector and the drafts, each following the URL, hold the same type, and
\* the same query unless one of two known defects was met.
SelectorFollows ==
    /\ url.expr = seen.expr => /\ shown.type = draft.expr.type
                               /\ met \cap {"blank", "label"} = {} => shown = draft.expr
    /\ seen.expr.type # NoType => shown.type # NoType

\* An entry the user went to is complete: there is nothing to add to it.
VisitIsComplete ==
    went # <<>> => ~auto /\ url.expr.type # NoType /\ (synced \/ url.sum # Null)

\* The draft's sumBy is one of the draft's type or what the URL had; a sumBy is
\* remembered only after the URL had one.
SumByFollows ==
    /\ ~synced => \A t \in Types : userSel[t] = <<>>
    /\ "sum" \notin met => \/ OptionFits(draft.sum, draft.expr.type)
                           \/ draft.sum = getSumByFromParam(seen.sum)

PageInd ==
    /\ ExplorerTypeOK
    /\ HistoryFits
    /\ AtRest
    /\ ZoomIsPending
    /\ SelectorFollows
    /\ VisitIsComplete
    /\ HistoryIsNotRewritten
    /\ SumByFollows
-------------------------------------------------------------------------------
(* The sum_by parameter. *)

\* A sequence of one element is not empty and has that element.
LEMMA Single == \A x, y : <<x>> # <<>> /\ <<x>>[1] = x /\ (<<x>> = <<y>> => x = y)
  <1>. SUFFICES ASSUME NEW x, NEW y
                PROVE  <<x>> # <<>> /\ <<x>>[1] = x /\ (<<x>> = <<y>> => x = y)
    OBVIOUS
  <1>1. <<x>> # <<>>
    OBVIOUS
  <1>2. <<x>>[1] = x /\ <<y>>[1] = y
    OBVIOUS
  <1>. QED  BY <1>1, <1>2

\* A list is written to the URL and read back.
LEMMA ParamOfList ==
    ASSUME NEW o \in Lists
    PROVE  /\ sumByToParam(<<o>>) \in Params \ {Null}
           /\ \A x \in Labels : sumByToParam(<<o>>) = x => o = <<x>>
  <1>1. CASE o = <<>>
    <2>1. sumByToParam(<<o>>) = NoneParam
      BY <1>1, Single DEF sumByToParam
    <2>. QED  BY <2>1, ExplorerAssumption DEF Params, Null, NoneParam
  <1>2. CASE o # <<>>
    <2>1. PICK x \in Labels : o = <<x>>
      BY <1>2 DEF Lists
    <2>2. sumByToParam(<<o>>) = x
      BY <1>2, <2>1, Single DEF sumByToParam
    <2>. QED  BY <2>1, <2>2, ExplorerAssumption DEF Params
  <1>. QED  BY <1>1, <1>2

\* What the URL stands for.
LEMMA ListOfParam ==
    ASSUME NEW p \in Params
    PROVE  /\ getSumByFromParam(p) \in Options
           /\ getSumByFromParam(p) = <<>> <=> p = Null
           /\ \A x \in Labels : getSumByFromParam(p) = << <<x>> >> => p = x
  <1>1. CASE p = Null
    <2>1. getSumByFromParam(p) = <<>>
      BY <1>1 DEF getSumByFromParam, Null, NoneParam
    <2>. QED  BY <1>1, <2>1, Single DEF Options
  <1>2. CASE p = NoneParam /\ p # Null
    BY <1>2 DEF getSumByFromParam, Options, Lists
  <1>3. CASE p \in Labels /\ p # Null /\ p # NoneParam
    BY <1>3 DEF getSumByFromParam, Options, Lists
  <1>. QED  BY <1>1, <1>2, <1>3 DEF Params

\* The labels of a type, as far as they are known.
LEMMA KnownLabels ==
    ASSUME NEW t \in Types \cup {NoType}, NEW time
    PROVE  /\ LabelNames(t, time) \subseteq Labels
           /\ t # NoType => LabelNames(t, time) \subseteq LabelsOf[t]
  BY DEF LabelNames, Labels

\* The default is a label of the type.
LEMMA DefaultSumBy ==
    ASSUME NEW t \in Types \cup {NoType}, NEW ls \in SUBSET Labels,
           t # NoType => ls \subseteq LabelsOf[t]
    PROVE  getDefaultSumBy(t, ls) \in Options /\ OptionFits(getDefaultSumBy(t, ls), t)
  <1>1. getDefaultSumBy(t, ls) \in {<<>>, << <<>> >>} \cup {<< <<x>> >> : x \in ls}
    BY DEF getDefaultSumBy
  <1>. QED  BY <1>1 DEF Options, Lists, OptionFits

\* Or takes the first option that is there, NonEmpty drops an empty list.
LEMMA Choices ==
    ASSUME NEW o \in Options, NEW p \in Options
    PROVE  /\ Or(o, p) \in {o, p} /\ Or(o, p) \in Options
           /\ p # <<>> => Or(o, p) # <<>>
           /\ o # <<>> => Or(o, p) = o
           /\ o = <<>> => Or(o, p) = p
           /\ NonEmpty(o) \in {o, <<>>} /\ NonEmpty(o) \in Options
  BY DEF Or, NonEmpty, Options

\* draftSumBy is a list, and of the draft's type if the drafts and the URL are.
LEMMA DraftSumByFits ==
    ASSUME NEW d \in Drafts, NEW u \in Urls
    PROVE  /\ DraftSumBy(d, u) \in Lists
           /\ (/\ OptionFits(d.sum, d.expr.type)
               /\ d.sum = <<>> => OptionFits(getSumByFromParam(u.sum), d.expr.type))
                => OptionFits(<<DraftSumBy(d, u)>>, d.expr.type)
  <1>. DEFINE g == getSumByFromParam(u.sum)
              def == getDefaultSumBy(d.expr.type, LabelNames(d.expr.type, d.time))
              o3 == Or(def, << <<>> >>)
              o2 == Or(NonEmpty(g), o3)
              o1 == Or(d.sum, o2)
  <1>0. d.sum \in Options /\ d.expr.type \in Types \cup {NoType} /\ u.sum \in Params
    BY DEF Drafts, Exprs, Urls
  <1>1. g \in Options
    BY <1>0, ListOfParam
  <1>2. def \in Options /\ OptionFits(def, d.expr.type)
    BY <1>0, KnownLabels, DefaultSumBy
  <1>3. << <<>> >> \in Options /\ << <<>> >> # <<>> /\ \A x : << <<x>> >> # << <<>> >>
    BY Single DEF Options, Lists
  <1>. HIDE DEF g, def
  <1>4. NonEmpty(g) \in {g, <<>>} /\ NonEmpty(g) \in Options
    BY <1>1, Choices
  <1>5. o3 \in Options /\ o3 # <<>> /\ o3 \in {def, << <<>> >>}
    BY <1>2, <1>3, Choices
  <1>6. o2 \in Options /\ o2 # <<>> /\ o2 \in {NonEmpty(g), o3}
    BY <1>4, <1>5, Choices
  <1>7. o1 \in Options /\ o1 # <<>> /\ o1 \in {d.sum, o2} /\ (d.sum # <<>> => o1 = d.sum)
    BY <1>0, <1>6, Choices
  <1>8. DraftSumBy(d, u) = o1[1]
    BY DEF DraftSumBy, g, def
  <1>9. PICK o \in Lists : o1 = <<o>>
    BY <1>7 DEF Options
  <1>10. o1[1] = o
    BY <1>9, Single
  <1>11. ASSUME OptionFits(d.sum, d.expr.type),
                d.sum = <<>> => OptionFits(g, d.expr.type)
         PROVE  OptionFits(o1, d.expr.type)
    <2>1. OptionFits(<<>>, d.expr.type) /\ OptionFits(<< <<>> >>, d.expr.type)
      BY <1>3, Single DEF OptionFits
    <2>2. OptionFits(o3, d.expr.type)
      BY <1>2, <1>5, <2>1
    <2>3. d.sum = <<>> => OptionFits(o2, d.expr.type)
      BY <1>4, <1>6, <1>11, <2>1, <2>2
    <2>. QED  BY <1>7, <1>11, <2>3
  <1>. QED  BY <1>8, <1>9, <1>10, <1>11 DEF g

\* The sumBy that an effect writes to a URL without one is of the URL's type.
LEMMA SelectionFits ==
    ASSUME NEW d \in Drafts, NEW u \in Urls, NEW sel \in [Types -> Options],
           u.sum = Null, \A t \in Types : sel[t] = <<>>,
           SumBySelection(sel, d, u) # <<>>, ~Loading(SumByType(d, u), d.time)
    PROVE  /\ SumBySelection(sel, d, u) \in Lists
           /\ OptionFits(<<SumBySelection(sel, d, u)>>, SumByType(d, u))
  <1>. DEFINE t == SumByType(d, u)
              def == getDefaultSumBy(t, LabelNames(t, d.time))
              o3 == Or(def, << <<>> >>)
              g == getSumByFromParam(u.sum)
              o1 == Or(sel[t], Or(NonEmpty(g), o3))
  <1>0. t \in Types \cup {NoType} /\ u.sum \in Params
    BY DEF Drafts, Exprs, Urls, SumByType
  <1>1. SumBySelection(sel, d, u) = IF t \notin Delta THEN <<>> ELSE o1[1]
    BY DEF SumBySelection
  <1>2. t \in Types
    BY <1>1, ExplorerAssumption
  <1>3. def \in Options /\ OptionFits(def, t)
    BY <1>0, KnownLabels, DefaultSumBy
  <1>4. << <<>> >> \in Options /\ << <<>> >> # <<>> /\ <<>> \in Options
    BY Single DEF Options, Lists
  <1>5. g = <<>>
    BY <1>0, ListOfParam
  <1>. HIDE DEF def, t, g
  <1>6. o3 \in Options /\ o3 # <<>> /\ o3 \in {def, << <<>> >>}
    BY <1>3, <1>4, Choices
  <1>7. NonEmpty(g) = <<>>
    BY <1>5 DEF NonEmpty
  <1>8. o1 = o3
    BY <1>2, <1>4, <1>6, <1>7, Choices
  <1>9. PICK o \in Lists : o1 = <<o>>
    BY <1>6, <1>8 DEF Options
  <1>10. SumBySelection(sel, d, u) = o
    BY <1>1, <1>2, <1>9, Single
  <1>11. OptionFits(o3, t)
    <2>1. OptionFits(<< <<>> >>, t)
      BY Single DEF OptionFits
    <2>. QED  BY <1>3, <1>6, <2>1
  <1>. QED  BY <1>8, <1>9, <1>10, <1>11 DEF t

-------------------------------------------------------------------------------
(* The URL. *)

\* What commitDraft writes: a well-formed URL with the profile of its query, whose
\* zoom path is gone or that of the old URL, and with a label of its type.
LEMMA CommittedFits ==
    ASSUME NEW u \in Urls, NEW d \in Drafts, NEW t \in Times, NEW e \in Exprs,
           e.type = d.expr.type
    PROVE  LET c == Committed(u, d, t, e)
           IN  /\ c \in Urls /\ c.expr = e /\ c.time = t
               /\ ViewFits(c)
               /\ c.zoom \in {<<>>, u.zoom}
               /\ SumFits(u) /\ (OptionFits(d.sum, d.expr.type) \/ d.sum = getSumByFromParam(u.sum))
                    => SumFits(c)
  <1>. DEFINE x == DraftSumBy(d, u)
              sum == IF e.type \in Delta THEN sumByToParam(<<x>>) ELSE NoneParam
              v == [u EXCEPT !.expr = e, !.time = t, !.sum = sum,
                             !.merge = IF e.type \in Delta THEN <<t>> ELSE <<>>,
                             !.sel = IF e.type \in Delta THEN e ELSE Blank]
              c == Committed(u, d, t, e)
  <1>1. x \in Lists
    BY DraftSumByFits
  <1>. HIDE DEF x
  <1>2. sum \in Params \ {Null}
    BY <1>1, ParamOfList DEF Params, Null, NoneParam
  <1>3. Blank \in Exprs /\ <<t>> \in Ranges /\ <<>> \in Ranges /\ <<t>> # <<>>
    BY ExplorerAssumption, Single DEF Blank, Exprs, Ranges
  <1>4. c = IF d.expr.type # u.expr.type
              THEN [v EXCEPT !.zoom = <<>>, !.group = FALSE, !.filters = {},
                             !.sum = IF u.sum # Null THEN Null ELSE @]
              ELSE v
    BY DEF Committed, ResetOnProfileTypeChange, x
  <1>. HIDE DEF c, sum
  <1>5. v \in Urls /\ v.expr = e /\ v.time = t /\ v.zoom = u.zoom /\ v.sum = sum
          /\ v.merge = (IF e.type \in Delta THEN <<t>> ELSE <<>>)
          /\ v.sel = (IF e.type \in Delta THEN e ELSE Blank)
    BY <1>2, <1>3 DEF Urls
  <1>. HIDE DEF v
  <1>6. <<>> \in {<<>>} \cup {<<w>> : w \in Views} /\ Null \in Params
    BY DEF Params
  <1>7. /\ c \in Urls /\ c.expr = e /\ c.time = t /\ c.zoom \in {<<>>, u.zoom}
        /\ c.merge = v.merge /\ c.sel = v.sel
        /\ c.sum = IF d.expr.type # u.expr.type /\ u.sum # Null THEN Null ELSE sum
    BY <1>4, <1>5, <1>6 DEF Urls
  <1>8. ViewFits(c)
    <2>. SUFFICES ASSUME c.sel # Blank
                  PROVE  c.merge # <<>> /\ c.sel.type = c.expr.type
      BY DEF ViewFits
    <2>1. e.type \in Delta
      BY <1>5, <1>7
    <2>2. c.merge = <<t>> /\ c.sel = e
      BY <1>5, <1>7, <2>1
    <2>. QED  BY <1>3, <1>7, <2>2
  <1>9. ASSUME SumFits(u), OptionFits(d.sum, d.expr.type) \/ d.sum = getSumByFromParam(u.sum),
               c.expr.type # NoType, c.sum \in Labels
        PROVE  c.sum \in LabelsOf[c.expr.type]
    <2>0. u.sum \in Params /\ u.expr.type \in Types \cup {NoType}
      BY DEF Urls, Exprs
    <2>1. c.sum = sum /\ sum = sumByToParam(<<x>>) /\ sum # Null
          /\ (d.expr.type = u.expr.type \/ u.sum = Null)
      BY <1>7, <1>2, <1>9, ExplorerAssumption DEF sum
    <2>2. d.expr.type = u.expr.type => OptionFits(getSumByFromParam(u.sum), d.expr.type)
      BY <1>9, <2>0, ListOfParam DEF SumFits, OptionFits
    <2>3. u.sum = Null => OptionFits(getSumByFromParam(u.sum), d.expr.type)
      BY <2>0, ListOfParam, Single DEF OptionFits
    <2>4. OptionFits(d.sum, d.expr.type) /\ OptionFits(getSumByFromParam(u.sum), d.expr.type)
      BY <1>9, <2>1, <2>2, <2>3
    <2>5. OptionFits(<<x>>, d.expr.type)
      BY <2>4, DraftSumByFits DEF x
    <2>6. x = <<c.sum>>
      BY <1>1, <1>9, <2>1, ParamOfList
    <2>. QED  BY <1>7, <1>9, <2>5, <2>6 DEF OptionFits
  <1>. QED  BY <1>7, <1>8, <1>9 DEF c, SumFits

-------------------------------------------------------------------------------
(* The history. *)

\* The current entry is the URL, and all entries fit.
NavFits == pos \in 1..Len(hist) /\ hist[pos] = url /\ HistoryFits

\* An update of the current entry.
LEMMA ReplaceFits ==
    ASSUME NavFits, NEW u \in Urls, Replace(u), ViewFits(u),
           "sum" \notin met' => "sum" \notin met /\ SumFits(u)
    PROVE  NavFits' /\ url' = u /\ written' = written
  <1>1. hist \in Seq(Urls) /\ pos \in 1..Len(hist) /\ pos' = pos /\ url' = u /\ written' = written
    BY DEF NavFits, HistoryFits, Replace
  <1>2. /\ hist' \in Seq(Urls) /\ Len(hist') = Len(hist)
        /\ \A i \in 1..Len(hist) : hist'[i] = IF i = pos THEN u ELSE hist[i]
    BY <1>1 DEF Replace
  <1>3. \A i \in 1..Len(hist') : /\ ViewFits(hist'[i])
                                 /\ i # pos' => ZoomFits(hist'[i])
                                 /\ "sum" \notin met' => SumFits(hist'[i])
    BY <1>1, <1>2 DEF NavFits, HistoryFits
  <1>4. HistoryFits'
    BY <1>2, <1>3 DEF HistoryFits, ViewFits, ZoomFits, ViewOf, SumFits
  <1>. QED  BY <1>1, <1>2, <1>4 DEF NavFits

\* A new entry in the place of those ahead, or an update of one that nuqs has not
\* written yet; the entry that is left behind has its zoom path in order.
LEMMA PushFits ==
    ASSUME NavFits, NEW u \in Urls, Push(u), ViewFits(u), written => ZoomFits(url),
           "sum" \notin met' => "sum" \notin met /\ SumFits(u)
    PROVE  NavFits' /\ url' = u /\ ~written'
  <1>1. CASE ~written /\ Replace(u)
    BY <1>1, ReplaceFits
  <1>2. CASE written /\ ~Replace(u)
    <2>1. /\ hist \in Seq(Urls) /\ pos \in 1..Len(hist) /\ pos' = pos + 1 /\ url' = u
          /\ hist' = Append(SubSeq(hist, 1, pos), u) /\ written' = FALSE
      BY <1>2 DEF NavFits, HistoryFits, Push
    <2>2. /\ SubSeq(hist, 1, pos) \in Seq(Urls) /\ Len(SubSeq(hist, 1, pos)) = pos
          /\ \A i \in 1..pos : SubSeq(hist, 1, pos)[i] = hist[i]
      BY <2>1
    <2>3. /\ hist' \in Seq(Urls) /\ Len(hist') = pos + 1
          /\ \A i \in 1..(pos + 1) : hist'[i] = IF i = pos + 1 THEN u ELSE hist[i]
      BY <2>1, <2>2
    <2>4. \A i \in 1..pos : ZoomFits(hist[i])
      BY <1>2, <2>1 DEF NavFits, HistoryFits
    <2>5. \A i \in 1..Len(hist') : /\ ViewFits(hist'[i])
                                   /\ i # pos' => ZoomFits(hist'[i])
                                   /\ "sum" \notin met' => SumFits(hist'[i])
      BY <2>1, <2>3, <2>4 DEF NavFits, HistoryFits
    <2>6. HistoryFits'
      BY <2>3, <2>5 DEF HistoryFits, ViewFits, ZoomFits, ViewOf, SumFits
    <2>. QED  BY <2>1, <2>3, <2>6 DEF NavFits
  <1>3. CASE written /\ Replace(u)
    BY <1>3 DEF Push, Replace
  <1>. QED  BY <1>1, <1>2, <1>3 DEF Push

\* Nothing is written.
LEMMA KeepFits ==
    ASSUME NavFits, UNCHANGED <<url, hist, pos>>, "sum" \notin met' => "sum" \notin met
    PROVE  NavFits'
  BY DEF NavFits, HistoryFits, ViewFits, ZoomFits, ViewOf, SumFits

-------------------------------------------------------------------------------
(* The events of the user. *)

\* What an event finds: the effects are done and the zoom path is in order.
LEMMA EventFinds ==
    ASSUME PageInd, NEW w, Event(w)
    PROVE  /\ NavFits /\ seen = url /\ ~AutoSelects /\ ~AutoCommits
           /\ written /\ resets = 0 /\ ZoomFits(url) /\ ViewFits(url)
           /\ "sum" \notin met => SumFits(url)
           /\ url \in Urls /\ draft \in Drafts /\ shown \in Exprs
           /\ shown.type = draft.expr.type
           /\ events' \in 0..MaxEvents /\ rendered' = FALSE /\ went' = w
  <1>1. NavFits
    BY DEF PageInd, NavFits, ExplorerTypeOK
  <1>2. rendered /\ written /\ resets = 0 /\ rendered' = FALSE /\ went' = w
    BY DEF Event
  <1>3. seen = url /\ ~AutoSelects /\ ~AutoCommits
    BY <1>2 DEF PageInd, AtRest
  <1>4. ZoomFits(url)
    BY <1>2 DEF PageInd, ZoomIsPending
  <1>5. ViewFits(url) /\ ("sum" \notin met => SumFits(url))
    BY <1>1 DEF NavFits, HistoryFits
  <1>6. shown.type = draft.expr.type
    BY <1>3 DEF PageInd, SelectorFollows
  <1>7. events' \in 0..MaxEvents
    <2>1. events \in 0..MaxEvents /\ events < MaxEvents /\ events' = events + 1
      BY DEF PageInd, ExplorerTypeOK, Event
    <2>2. MaxEvents \in Nat
      BY ExplorerAssumption
    <2>. QED  BY <2>1, <2>2
  <1>. QED  BY <1>1, <1>2, <1>3, <1>4, <1>5, <1>6, <1>7 DEF PageInd, ExplorerTypeOK

\* An edit of the drafts that the selector shows as well, and that leaves the sumBy
\* of its type.
LEMMA EditInd ==
    ASSUME PageInd, Event(<<>>),
           UNCHANGED <<nav, userSel, synced, auto, seen, server, resets, met>>,
           draft' \in Drafts, shown' \in Exprs, shown'.type = draft'.expr.type,
           shown = draft.expr => shown' = draft'.expr,
           shown.type # NoType => shown'.type # NoType,
           \/ OptionFits(draft'.sum, draft'.expr.type)
           \/ draft'.sum = draft.sum /\ draft'.expr.type = draft.expr.type
    PROVE  PageInd'
  <1>. USE DEF nav, server
  <1>1. /\ NavFits /\ seen = url /\ ZoomFits(url) /\ events' \in 0..MaxEvents
        /\ rendered' = FALSE /\ went' = <<>>
    BY EventFinds
  <1>2. NavFits'
    BY <1>1, KeepFits
  <1>3. ExplorerTypeOK'
    BY <1>1 DEF PageInd, ExplorerTypeOK
  <1>4. AtRest' /\ VisitIsComplete' /\ HistoryIsNotRewritten'
    BY <1>1 DEF AtRest, VisitIsComplete, HistoryIsNotRewritten
  <1>5. ZoomIsPending'
    BY <1>1 DEF ZoomIsPending, ZoomFits, ViewOf
  <1>6. SelectorFollows'
    BY <1>1 DEF PageInd, SelectorFollows
  <1>7. SumByFollows'
    BY DEF PageInd, SumByFollows, OptionFits
  <1>. QED  BY <1>2, <1>3, <1>4, <1>5, <1>6, <1>7 DEF PageInd, NavFits

\* The selector is given another type.
LEMMA SetProfileNameInd ==
    ASSUME PageInd, NEW t \in Types, SetProfileName(t)
    PROVE  PageInd'
  <1>1. Event(<<>>) /\ draft \in Drafts /\ shown \in Exprs
    BY DEF SetProfileName, PageInd, ExplorerTypeOK
  <1>2. /\ draft' = [draft EXCEPT !.expr.type = t, !.sum = <<>>]
        /\ shown' = [shown EXCEPT !.type = t]
    BY DEF SetProfileName
  <1>3. draft' \in Drafts /\ draft'.expr = [draft.expr EXCEPT !.type = t] /\ draft'.sum = <<>>
    BY <1>1, <1>2 DEF Drafts, Exprs, Options
  <1>4. shown' \in Exprs /\ shown'.type = t /\ draft'.expr.type = t /\ t # NoType
        /\ (shown = draft.expr => shown' = draft'.expr)
    BY <1>1, <1>2, <1>3, ExplorerAssumption DEF Drafts, Exprs
  <1>5. OptionFits(draft'.sum, draft'.expr.type)
    BY <1>3, Single DEF OptionFits
  <1>. QED  BY <1>1, <1>3, <1>4, <1>5, EditInd DEF SetProfileName

\* ... or other matchers.
LEMMA SetMatchersStringInd ==
    ASSUME PageInd, NEW m \in Matchers, SetMatchersString(m)
    PROVE  PageInd'
  <1>1. Event(<<>>) /\ draft \in Drafts /\ shown \in Exprs
    BY DEF SetMatchersString, PageInd, ExplorerTypeOK
  <1>2. draft' = [draft EXCEPT !.expr.m = m] /\ shown' = [shown EXCEPT !.m = m]
    BY DEF SetMatchersString
  <1>3. draft' \in Drafts /\ draft'.expr = [draft.expr EXCEPT !.m = m] /\ draft'.sum = draft.sum
    BY <1>1, <1>2 DEF Drafts, Exprs
  <1>4. shown' \in Exprs /\ shown'.type = shown.type /\ draft'.expr.type = draft.expr.type
        /\ (shown = draft.expr => shown' = draft'.expr)
    BY <1>1, <1>2, <1>3 DEF Drafts, Exprs
  <1>5. shown.type = draft.expr.type
    BY <1>1, EventFinds
  <1>. QED  BY <1>1, <1>3, <1>4, <1>5, EditInd DEF SetMatchersString

\* ... or another sumBy, out of the labels of the type it shows.
LEMMA SetDraftSumByInd ==
    ASSUME PageInd, NEW o \in Lists, SetDraftSumBy(o)
    PROVE  PageInd'
  <1>1. Event(<<>>) /\ draft \in Drafts /\ shown \in Exprs
    BY DEF SetDraftSumBy, PageInd, ExplorerTypeOK
  <1>2. draft' = [draft EXCEPT !.sum = <<o>>] /\ shown' = shown
    BY DEF SetDraftSumBy
  <1>3. draft' \in Drafts /\ draft'.expr = draft.expr /\ draft'.sum = <<o>>
    BY <1>1, <1>2 DEF Drafts, Options
  <1>4. shown.type = draft.expr.type
    BY <1>1, EventFinds
  <1>5. OptionFits(<<o>>, draft.expr.type)
    <2>. SUFFICES ASSUME draft.expr.type # NoType, NEW x \in Labels, <<o>> = << <<x>> >>
                  PROVE  x \in LabelsOf[draft.expr.type]
      BY DEF OptionFits
    <2>1. o = <<x>>
      BY Single
    <2>2. x \in LabelNames(shown.type, draft.time)
      BY <2>1 DEF SetDraftSumBy
    <2>3. shown.type \in Types \cup {NoType}
      BY <1>1 DEF Exprs
    <2>. QED  BY <1>4, <2>2, <2>3, KnownLabels
  <1>. QED  BY <1>1, <1>2, <1>3, <1>4, <1>5, EditInd DEF SetDraftSumBy

\* ... or another time range.
LEMMA SetDraftTimeRangeInd ==
    ASSUME PageInd, NEW t \in Times, SetDraftTimeRange(t)
    PROVE  PageInd'
  <1>1. Event(<<>>) /\ draft \in Drafts /\ shown \in Exprs
    BY DEF SetDraftTimeRange, PageInd, ExplorerTypeOK
  <1>2. draft' \in Drafts /\ draft'.expr = draft.expr /\ draft'.sum = draft.sum /\ shown' = shown
    BY <1>1 DEF SetDraftTimeRange, Drafts
  <1>3. shown.type = draft.expr.type
    BY <1>1, EventFinds
  <1>. QED  BY <1>1, <1>2, <1>3, EditInd DEF SetDraftTimeRange

\* The call that may leave a stale zoom path behind starts the timer that clears it.
LEMMA TimerIsStarted ==
    ASSUME NEW u, resets \in Nat, resets' = resets + ResetFlameGraphState(url),
           u.zoom \in {<<>>, url.zoom}
    PROVE  resets' \in Nat /\ (ZoomFits(u) \/ resets' > 0)
  BY DEF ResetFlameGraphState, ZoomFits

\* An event that makes a new entry.  The label matcher of the graph may be met with
\* a defect.
LEMMA PushInd ==
    ASSUME PageInd, Event(<<>>), NEW u \in Urls, Push(u),
           ViewFits(u), "sum" \notin met => SumFits(u),
           met' \in {met, met \cup {"label"}},
           resets' \in Nat, ZoomFits(u) \/ resets' > 0,
           UNCHANGED <<shown, userSel, synced, auto, seen, server>>,
           draft' \in Drafts, draft'.sum = draft.sum, draft'.expr.type = draft.expr.type,
           u.expr = url.expr /\ met' \cap {"blank", "label"} = {} => shown = draft'.expr
    PROVE  PageInd'
  <1>. USE DEF server
  <1>1. /\ NavFits /\ seen = url /\ ZoomFits(url) /\ events' \in 0..MaxEvents
        /\ rendered' = FALSE /\ went' = <<>> /\ shown.type = draft.expr.type
    BY EventFinds
  <1>2. "sum" \in met <=> "sum" \in met'
    OBVIOUS
  <1>3. NavFits' /\ url' = u /\ ~written'
    BY <1>1, <1>2, PushFits
  <1>4. ExplorerTypeOK'
    <2>1. met' \subseteq {"auto", "blank", "label", "sum"}
      BY DEF PageInd, ExplorerTypeOK
    <2>2. written' \in BOOLEAN
      BY DEF PageInd, ExplorerTypeOK, Push, Replace
    <2>. QED  BY <1>1, <1>3, <2>1, <2>2, Zenon DEF PageInd, ExplorerTypeOK, NavFits
  <1>5. AtRest' /\ VisitIsComplete' /\ HistoryIsNotRewritten'
    BY <1>1 DEF AtRest, VisitIsComplete, HistoryIsNotRewritten
  <1>6. ZoomIsPending'
    BY <1>3 DEF ZoomIsPending, ZoomFits, ViewOf
  <1>7. SelectorFollows'
    BY <1>1, <1>3 DEF PageInd, SelectorFollows
  <1>8. SumByFollows'
    BY <1>2 DEF PageInd, SumByFollows, OptionFits
  <1>. QED  BY <1>3, <1>4, <1>5, <1>6, <1>7, <1>8 DEF PageInd, NavFits

\* commitDraft of an expression of the draft's type.
LEMMA CommitDraftInd ==
    ASSUME PageInd, Event(<<>>), NEW t \in Times, NEW e \in Exprs, e.type = draft.expr.type,
           CommitDraft(t, e), met' \in {met, met \cup {"label"}},
           e = url.expr /\ met' \cap {"blank", "label"} = {} => shown = e
    PROVE  PageInd'
  <1>. DEFINE c == Committed(url, draft, t, e)
  <1>1. /\ NavFits /\ seen = url /\ url \in Urls /\ draft \in Drafts /\ resets = 0
        /\ "sum" \notin met => SumFits(url)
    BY EventFinds
  <1>2. /\ c \in Urls /\ c.expr = e /\ ViewFits(c) /\ c.zoom \in {<<>>, url.zoom}
        /\ SumFits(url) /\ (OptionFits(draft.sum, draft.expr.type)
                              \/ draft.sum = getSumByFromParam(url.sum)) => SumFits(c)
    BY <1>1, CommittedFits
  <1>3. "sum" \notin met => SumFits(c)
    BY <1>1, <1>2 DEF PageInd, SumByFollows
  <1>. HIDE DEF c
  <1>4. /\ Push(c) /\ draft' = [draft EXCEPT !.time = t, !.expr = e]
        /\ resets' = resets + ResetFlameGraphState(url)
        /\ UNCHANGED <<shown, userSel, synced, auto, seen, server>>
    BY DEF CommitDraft, c
  <1>5. draft' \in Drafts /\ draft'.expr = e /\ draft'.sum = draft.sum
    BY <1>1, <1>4 DEF Drafts
  <1>6. resets' \in Nat /\ (ZoomFits(c) \/ resets' > 0)
    BY <1>1, <1>2, <1>4, TimerIsStarted
  <1>. QED  BY <1>2, <1>3, <1>4, <1>5, <1>6, PushInd

\* The drafts are committed as they are: the Search button and the metrics graph.
LEMMA SearchInd ==
    ASSUME PageInd, NEW t \in Times, Search(t) \/ SelectTimeRange(t)
    PROVE  PageInd'
  <1>1. Event(<<>>) /\ CommitDraft(t, draft.expr) /\ met' = met
    BY DEF Search, SelectTimeRange
  <1>2. draft.expr \in Exprs /\ seen = url
    BY <1>1, EventFinds DEF Drafts
  <1>3. met \cap {"blank", "label"} = {} => shown = draft.expr
    BY <1>2 DEF PageInd, SelectorFollows
  <1>. QED  BY <1>1, <1>2, <1>3, CommitDraftInd

\* A label of the metrics graph is added to the query the selector shows.
LEMMA AddLabelMatcherInd ==
    ASSUME PageInd, NEW m \in Matchers, AddLabelMatcher(m)
    PROVE  PageInd'
  <1>. DEFINE e == [shown EXCEPT !.m = m]
  <1>1. Event(<<>>) /\ CommitDraft(draft.time, e)
        /\ met' = IF e = url.expr /\ shown # e THEN met \cup {"label"} ELSE met
    BY DEF AddLabelMatcher
  <1>2. draft \in Drafts /\ shown \in Exprs /\ shown.type = draft.expr.type
    BY <1>1, EventFinds
  <1>3. e \in Exprs /\ e.type = draft.expr.type /\ draft.time \in Times
    BY <1>2 DEF Exprs, Drafts
  <1>. HIDE DEF e
  <1>. QED  BY <1>1, <1>3, CommitDraftInd

\* Events that leave the drafts and the query alone.
LEMMA ViewEventInd ==
    ASSUME PageInd, Event(<<>>), NEW u \in Urls, Push(u), UNCHANGED <<page, server, met>>,
           u.expr = url.expr, ViewFits(u), "sum" \notin met => SumFits(u),
           resets' \in Nat, ZoomFits(u) \/ resets' > 0
    PROVE  PageInd'
  <1>1. seen = url /\ draft \in Drafts
    BY EventFinds
  <1>2. met \cap {"blank", "label"} = {} => shown = draft.expr
    BY <1>1 DEF PageInd, SelectorFollows
  <1>. QED  BY <1>1, <1>2, PushInd DEF page

\* A point of the metrics graph is of the query in the URL.
LEMMA HandlePointClickInd ==
    ASSUME PageInd, NEW m \in Matchers, NEW t \in Times, HandlePointClick(m, t)
    PROVE  PageInd'
  <1>. DEFINE u == [url EXCEPT !.sel = [url.expr EXCEPT !.m = m], !.merge = <<t>>]
  <1>1. /\ Event(<<>>) /\ Push(u) /\ resets' = resets + ResetFlameGraphState(url)
        /\ UNCHANGED <<page, server, met>>
    BY DEF HandlePointClick
  <1>2. url \in Urls /\ resets = 0 /\ ("sum" \notin met => SumFits(url))
    BY <1>1, EventFinds
  <1>3. [url.expr EXCEPT !.m = m] \in Exprs /\ [url.expr EXCEPT !.m = m].type = url.expr.type
    BY <1>2 DEF Urls, Exprs
  <1>4. <<t>> \in Ranges /\ <<t>> # <<>>
    BY Single DEF Ranges
  <1>5. /\ u \in Urls /\ u.expr = url.expr /\ u.sum = url.sum /\ u.zoom = url.zoom
        /\ u.merge = <<t>> /\ u.sel.type = url.expr.type
    BY <1>2, <1>3, <1>4 DEF Urls
  <1>. HIDE DEF u
  <1>6. ViewFits(u) /\ ("sum" \notin met => SumFits(u))
    BY <1>2, <1>4, <1>5 DEF ViewFits, SumFits
  <1>. QED  BY <1>1, <1>2, <1>5, <1>6, TimerIsStarted, ViewEventInd

\* The explorer commits its own drafts, which are the query in the URL.
LEMMA SwitchToFifteenMinutesInd ==
    ASSUME PageInd, NEW t \in Times, SwitchToFifteenMinutes(t)
    PROVE  PageInd'
  <1>. DEFINE d == DraftOf(url)
              c == Committed(url, d, t, url.expr)
  <1>1. /\ Event(<<>>) /\ Push(c) /\ resets' = resets + ResetFlameGraphState(url)
        /\ UNCHANGED <<page, server, met>>
    BY DEF SwitchToFifteenMinutes
  <1>2. url \in Urls /\ resets = 0 /\ ("sum" \notin met => SumFits(url))
    BY <1>1, EventFinds
  <1>3. url.expr \in Exprs /\ url.time \in Times /\ url.sum \in Params
    BY <1>2 DEF Urls
  <1>4. getSumByFromParam(url.sum) \in Options
    BY <1>3, ListOfParam
  <1>5. d \in Drafts /\ d.expr = url.expr /\ d.sum = getSumByFromParam(url.sum)
    BY <1>3, <1>4 DEF DraftOf, Drafts
  <1>. HIDE DEF d
  <1>6. /\ c \in Urls /\ c.expr = url.expr /\ ViewFits(c) /\ c.zoom \in {<<>>, url.zoom}
        /\ SumFits(url) => SumFits(c)
    BY <1>2, <1>3, <1>5, CommittedFits
  <1>. HIDE DEF c
  <1>. QED  BY <1>1, <1>2, <1>6, TimerIsStarted, ViewEventInd

\* A click into the flame graph makes a path of that flame graph.
LEMMA SetCurPathInd ==
    ASSUME PageInd, NEW zoom \in {<<>>, <<ViewOf(url)>>}, SetCurPath(zoom)
    PROVE  PageInd'
  <1>. DEFINE u == [url EXCEPT !.zoom = zoom]
  <1>1. Event(<<>>) /\ Push(u) /\ UNCHANGED <<page, server, resets, met>>
    BY DEF SetCurPath
  <1>2. url \in Urls /\ resets = 0 /\ ViewFits(url) /\ ("sum" \notin met => SumFits(url))
    BY <1>1, EventFinds
  <1>3. ViewOf(url) \in Views
    BY <1>2 DEF ViewOf, Views, Urls
  <1>4. zoom \in {<<>>} \cup {<<v>> : v \in Views}
    BY <1>3
  <1>5. /\ u \in Urls /\ u.expr = url.expr /\ u.sum = url.sum /\ u.zoom = zoom
        /\ u.merge = url.merge /\ u.sel = url.sel /\ u.group = url.group
        /\ u.filters = url.filters
    BY <1>2, <1>4 DEF Urls
  <1>. HIDE DEF u
  <1>6. ViewFits(u) /\ ("sum" \notin met => SumFits(u))
    BY <1>2, <1>5 DEF ViewFits, SumFits
  <1>7. ZoomFits(u)
    BY <1>5, Single DEF ZoomFits, ViewOf
  <1>. QED  BY <1>1, <1>2, <1>5, <1>6, <1>7, ViewEventInd

\* Another grouping makes another flame graph.
LEMMA ToggleGroupByInd ==
    ASSUME PageInd, ToggleGroupBy
    PROVE  PageInd'
  <1>. DEFINE u == [url EXCEPT !.group = ~@]
  <1>1. /\ Event(<<>>) /\ Push(u) /\ resets' = resets + ResetFlameGraphState(url)
        /\ UNCHANGED <<page, server, met>>
    BY DEF ToggleGroupBy
  <1>2. url \in Urls /\ resets = 0 /\ ViewFits(url) /\ ("sum" \notin met => SumFits(url))
    BY <1>1, EventFinds
  <1>3. /\ u \in Urls /\ u.expr = url.expr /\ u.sum = url.sum /\ u.zoom = url.zoom
        /\ u.merge = url.merge /\ u.sel = url.sel
    BY <1>2 DEF Urls
  <1>. HIDE DEF u
  <1>4. ViewFits(u) /\ ("sum" \notin met => SumFits(u))
    BY <1>2, <1>3 DEF ViewFits, SumFits
  <1>. QED  BY <1>1, <1>2, <1>3, <1>4, TimerIsStarted, ViewEventInd

\* Whether the page runs a query by itself depends on the query, not on the view.
LEMMA AutoKept ==
    ASSUME UNCHANGED <<draft, shown, auto, seen, typesAt, answered>>,
           url'.expr = url.expr, url'.time = url.time
    PROVE  (AutoSelects' <=> AutoSelects) /\ (AutoCommits' <=> AutoCommits)
  <1>1. ShownQuery' = ShownQuery /\ ShownTime' = ShownTime
    BY DEF ShownQuery, ShownTime
  <1>2. SumByLoading(draft, url)' <=> SumByLoading(draft, url)
    BY DEF SumByLoading, Loading, SumByType
  <1>. QED  BY <1>1, <1>2 DEF AutoSelects, AutoCommits

\* So do other filters, on the entry that is there.
LEMMA SetAppliedFiltersInd ==
    ASSUME PageInd, NEW f \in SUBSET Binaries, SetAppliedFilters(f)
    PROVE  PageInd'
  <1>. USE DEF page, server
  <1>. DEFINE u == [url EXCEPT !.filters = f]
  <1>1. /\ Event(<<>>) /\ Replace(u) /\ resets' = resets + ResetFlameGraphState(url)
        /\ UNCHANGED <<page, server, met>>
    BY DEF SetAppliedFilters
  <1>2. /\ NavFits /\ seen = url /\ ~AutoSelects /\ ~AutoCommits /\ resets = 0
        /\ ViewFits(url) /\ url \in Urls /\ events' \in 0..MaxEvents
        /\ rendered' = FALSE /\ went' = <<>>
        /\ "sum" \notin met => SumFits(url)
    BY <1>1, EventFinds
  <1>3. /\ u \in Urls /\ u.expr = url.expr /\ u.time = url.time /\ u.sum = url.sum
        /\ u.zoom = url.zoom /\ u.merge = url.merge /\ u.sel = url.sel
    BY <1>2 DEF Urls
  <1>. HIDE DEF u
  <1>4. ViewFits(u) /\ ("sum" \notin met => SumFits(u))
    BY <1>2, <1>3 DEF ViewFits, SumFits
  <1>5. NavFits' /\ url' = u /\ written' = written
    BY <1>1, <1>2, <1>3, <1>4, ReplaceFits
  <1>6. resets' \in Nat /\ (ZoomFits(u) \/ resets' > 0)
    BY <1>1, <1>2, <1>3, TimerIsStarted
  <1>7. ExplorerTypeOK'
    BY <1>1, <1>2, <1>3, <1>5, <1>6, Zenon DEF PageInd, ExplorerTypeOK, NavFits
  <1>8. AtRest' /\ VisitIsComplete' /\ HistoryIsNotRewritten'
    BY <1>2 DEF AtRest, VisitIsComplete, HistoryIsNotRewritten
  <1>9. ZoomIsPending'
    <2>1. ~AutoSelects' /\ ~AutoCommits'
      BY <1>1, <1>2, <1>3, <1>5, AutoKept
    <2>2. url'.expr = seen'.expr /\ url'.time = seen'.time
      BY <1>1, <1>2, <1>3, <1>5
    <2>3. ZoomFits(url)' \/ resets' > 0
      BY <1>5, <1>6 DEF ZoomFits, ViewOf
    <2>. QED  BY <2>1, <2>2, <2>3 DEF ZoomIsPending
  <1>10. SelectorFollows'
    BY <1>1, <1>3, <1>5 DEF PageInd, SelectorFollows
  <1>11. SumByFollows'
    BY <1>1 DEF PageInd, SumByFollows, OptionFits
  <1>. QED  BY <1>5, <1>7, <1>8, <1>9, <1>10, <1>11 DEF PageInd, NavFits

\* The entry gone to is one the page has left in order.
LEMMA NavigateInd ==
    ASSUME PageInd, NEW p \in 1..Len(hist), Navigate(p)
    PROVE  PageInd'
  <1>. USE DEF page, server
  <1>. DEFINE entry == hist[p]
              kept == ~auto /\ entry.expr.type # NoType /\ (synced \/ entry.sum # Null)
              w == IF kept THEN <<entry>> ELSE <<>>
  <1>1. /\ Event(w) /\ p # pos /\ pos' = p /\ url' = entry
        /\ met' = IF auto THEN met \cup {"auto"} ELSE met
        /\ UNCHANGED <<hist, written, page, server, resets>>
    <2>1. p \in {pos - 1, pos + 1} /\ pos \in Int
      BY DEF Navigate, PageInd, ExplorerTypeOK
    <2>. QED  BY <2>1 DEF Navigate
  <1>. HIDE DEF w
  <1>2. /\ NavFits /\ seen = url /\ ZoomFits(url) /\ shown.type = draft.expr.type
        /\ events' \in 0..MaxEvents /\ rendered' = FALSE /\ went' = w
    BY <1>1, EventFinds
  <1>3. /\ hist \in Seq(Urls) /\ entry \in Urls /\ ViewFits(entry) /\ ZoomFits(entry)
        /\ \A i \in 1..Len(hist) : ZoomFits(hist[i])
    BY <1>1, <1>2 DEF NavFits, HistoryFits
  <1>4. "sum" \in met <=> "sum" \in met'
    BY <1>1
  <1>5. NavFits'
    BY <1>1, <1>2, <1>3, <1>4 DEF NavFits, HistoryFits, ViewFits, ZoomFits, ViewOf, SumFits
  <1>6. ExplorerTypeOK'
    <2>1. met' \subseteq {"auto", "blank", "label", "sum"}
      BY <1>1 DEF PageInd, ExplorerTypeOK
    <2>. QED  BY <1>1, <1>2, <1>3, <1>5, <2>1, Zenon DEF PageInd, ExplorerTypeOK, NavFits
  <1>7. AtRest' /\ ZoomIsPending'
    BY <1>1, <1>2, <1>3 DEF AtRest, ZoomIsPending, ZoomFits, ViewOf
  <1>8. VisitIsComplete' /\ HistoryIsNotRewritten'
    BY <1>1, <1>2, Single DEF VisitIsComplete, HistoryIsNotRewritten, w
  <1>9. SelectorFollows'
    BY <1>1, <1>2 DEF PageInd, SelectorFollows
  <1>10. SumByFollows'
    BY <1>1, <1>4 DEF PageInd, SumByFollows, OptionFits
  <1>. QED  BY <1>5, <1>6, <1>7, <1>8, <1>9, <1>10 DEF PageInd, NavFits

\* The drafts a URL is opened with.
LEMMA DraftOfFits ==
    ASSUME NEW u \in Urls
    PROVE  DraftOf(u) \in Drafts /\ DraftOf(u).expr = u.expr
           /\ DraftOf(u).sum = getSumByFromParam(u.sum)
  <1>1. u.expr \in Exprs /\ u.time \in Times /\ u.sum \in Params
    BY DEF Urls
  <1>2. getSumByFromParam(u.sum) \in Options
    BY <1>1, ListOfParam
  <1>. QED  BY <1>1, <1>2 DEF DraftOf, Drafts

\* After a reload of the page the drafts are what the URL has.
LEMMA ReloadInd ==
    ASSUME PageInd, Reload
    PROVE  PageInd'
  <1>. USE DEF nav
  <1>1. /\ Event(<<>>) /\ Mounted(url) /\ met' = met \cap {"sum"} /\ UNCHANGED <<nav, resets>>
        /\ typesAt' = {} /\ answered' = {} /\ failed' = {}
    BY DEF Reload
  <1>2. /\ NavFits /\ ZoomFits(url) /\ url \in Urls
        /\ events' \in 0..MaxEvents /\ rendered' = FALSE /\ went' = <<>>
    BY <1>1, EventFinds
  <1>3. NavFits'
    BY <1>1, <1>2, KeepFits
  <1>4. /\ draft' \in Drafts /\ draft'.expr = url.expr /\ shown' = url.expr /\ seen' = url
        /\ draft'.sum = getSumByFromParam(url.sum)
        /\ userSel' = [t \in Types |-> <<>>] /\ synced' = FALSE /\ auto' = FALSE
    BY <1>1, <1>2, DraftOfFits DEF Mounted
  <1>5. shown' \in Exprs /\ userSel' \in [Types -> Options]
    BY <1>2, <1>4 DEF Urls, Options
  <1>6. ExplorerTypeOK'
    <2>1. met' \subseteq {"auto", "blank", "label", "sum"}
      BY <1>1
    <2>2. typesAt' \subseteq Times /\ failed' \subseteq answered' /\ answered' \subseteq Types \X Times
      BY <1>1
    <2>. QED  BY <1>1, <1>2, <1>3, <1>4, <1>5, <2>1, <2>2, Zenon
              DEF PageInd, ExplorerTypeOK, NavFits
  <1>7. AtRest' /\ ZoomIsPending' /\ VisitIsComplete' /\ HistoryIsNotRewritten'
    BY <1>1, <1>2 DEF AtRest, ZoomIsPending, ZoomFits, ViewOf, VisitIsComplete,
                      HistoryIsNotRewritten
  <1>8. SelectorFollows' /\ SumByFollows'
    BY <1>1, <1>4 DEF SelectorFollows, SumByFollows
  <1>. QED  BY <1>3, <1>6, <1>7, <1>8 DEF PageInd, NavFits

-------------------------------------------------------------------------------
(* Timers and answers. *)

\* nuqs writes an entry only when the effects are done.
LEMMA FlushInd ==
    ASSUME PageInd, Flush
    PROVE  PageInd'
  <1>. USE DEF page, server
  <1>1. /\ rendered /\ written' = TRUE
        /\ UNCHANGED <<url, hist, pos, page, server, resets, rendered, went, met, events>>
    BY DEF Flush
  <1>2. NavFits
    BY DEF PageInd, NavFits, ExplorerTypeOK
  <1>3. NavFits'
    BY <1>1, <1>2, KeepFits
  <1>4. ExplorerTypeOK'
    BY <1>1, <1>3, Zenon DEF PageInd, ExplorerTypeOK, NavFits
  <1>5. (AutoSelects' <=> AutoSelects) /\ (AutoCommits' <=> AutoCommits)
    BY <1>1, AutoKept
  <1>6. seen = url /\ ~AutoSelects /\ ~AutoCommits
    BY <1>1 DEF PageInd, AtRest
  <1>7. AtRest' /\ ZoomIsPending'
    BY <1>1, <1>5, <1>6 DEF PageInd, AtRest, ZoomIsPending, ZoomFits, ViewOf
  <1>8. VisitIsComplete' /\ HistoryIsNotRewritten' /\ SelectorFollows' /\ SumByFollows'
    BY <1>1 DEF PageInd, VisitIsComplete, HistoryIsNotRewritten, SelectorFollows,
                SumByFollows, OptionFits
  <1>. QED  BY <1>3, <1>4, <1>7, <1>8 DEF PageInd, NavFits

\* The timer clears the zoom path and nothing else.
LEMMA TimerFiresInd ==
    ASSUME PageInd, TimerFires
    PROVE  PageInd'
  <1>. USE DEF page, server
  <1>. DEFINE u == [url EXCEPT !.zoom = <<>>]
  <1>1. /\ resets > 0 /\ resets' = resets - 1 /\ Replace(u) /\ rendered' = FALSE
        /\ UNCHANGED <<page, server, went, met, events>>
    BY DEF TimerFires
  <1>2. NavFits /\ url \in Urls /\ resets \in Nat
    BY DEF PageInd, NavFits, ExplorerTypeOK
  <1>3. ViewFits(url) /\ ("sum" \notin met => SumFits(url))
    BY <1>2 DEF NavFits, HistoryFits
  <1>4. /\ u \in Urls /\ u.expr = url.expr /\ u.sum = url.sum /\ u.zoom = <<>>
        /\ u.merge = url.merge /\ u.sel = url.sel
        /\ [u EXCEPT !.zoom = <<>>] = [url EXCEPT !.zoom = <<>>]
    BY <1>2 DEF Urls
  <1>. HIDE DEF u
  <1>5. ViewFits(u) /\ ("sum" \notin met => SumFits(u))
    BY <1>3, <1>4 DEF ViewFits, SumFits
  <1>6. NavFits' /\ url' = u /\ written' = written
    BY <1>1, <1>2, <1>4, <1>5, ReplaceFits
  <1>7. ExplorerTypeOK'
    <2>1. resets' \in Nat
      BY <1>1, <1>2
    <2>. QED  BY <1>1, <1>4, <1>6, <2>1, Zenon DEF PageInd, ExplorerTypeOK, NavFits
  <1>8. AtRest' /\ ZoomIsPending'
    BY <1>1, <1>4, <1>6 DEF AtRest, ZoomIsPending, ZoomFits
  <1>9. VisitIsComplete' /\ HistoryIsNotRewritten'
    BY <1>1, <1>4, <1>6 DEF PageInd, VisitIsComplete, HistoryIsNotRewritten
  <1>10. SelectorFollows' /\ SumByFollows'
    BY <1>1, <1>4, <1>6 DEF PageInd, SelectorFollows, SumByFollows, OptionFits
  <1>. QED  BY <1>6, <1>7, <1>8, <1>9, <1>10 DEF PageInd, NavFits

\* An answer changes what the next render sees, nothing else.
LEMMA AnswerInd ==
    ASSUME PageInd, resets = 0, rendered' = FALSE,
           UNCHANGED <<nav, page, resets, went, met, events>>,
           typesAt' \subseteq Times, failed' \subseteq answered', answered' \subseteq Types \X Times
    PROVE  PageInd'
  <1>. USE DEF page, nav
  <1>1. NavFits
    BY DEF PageInd, NavFits, ExplorerTypeOK
  <1>2. NavFits'
    BY <1>1, KeepFits
  <1>3. ExplorerTypeOK'
    BY <1>2, Zenon DEF PageInd, ExplorerTypeOK, NavFits
  <1>4. AtRest' /\ ZoomIsPending'
    BY DEF PageInd, AtRest, ZoomIsPending, ZoomFits, ViewOf
  <1>5. VisitIsComplete' /\ HistoryIsNotRewritten' /\ SelectorFollows' /\ SumByFollows'
    BY DEF PageInd, VisitIsComplete, HistoryIsNotRewritten, SelectorFollows,
           SumByFollows, OptionFits
  <1>. QED  BY <1>2, <1>3, <1>4, <1>5 DEF PageInd, NavFits

\* The profile types of a time range arrive.
LEMMA TypesArriveInd ==
    ASSUME PageInd, TypesArrive
    PROVE  PageInd'
  <1>1. /\ typesAt \subseteq Times /\ failed \subseteq answered /\ answered \subseteq Types \X Times
        /\ draft.time \in Times
    BY DEF PageInd, ExplorerTypeOK, Drafts
  <1>. QED  BY <1>1, AnswerInd DEF TypesArrive

\* The label names of a type arrive, or the query for them gives up.
LEMMA LabelsArriveInd ==
    ASSUME PageInd, NEW k \in Types \X Times, LabelsArrive(k)
    PROVE  PageInd'
  <1>1. typesAt \subseteq Times /\ failed \subseteq answered /\ answered \subseteq Types \X Times
    BY DEF PageInd, ExplorerTypeOK
  <1>2. failed' \subseteq answered' /\ answered' \subseteq Types \X Times
    BY <1>1 DEF LabelsArrive
  <1>. QED  BY <1>1, <1>2, AnswerInd DEF LabelsArrive

-------------------------------------------------------------------------------
(* A render. *)

\* What the selector shows and the drafts are once they have followed the URL.
LEMMA Followed ==
    ASSUME PageInd
    PROVE  /\ ShownQuery \in Exprs /\ SyncedDraft \in Drafts
           /\ ShownQuery.type = SyncedDraft.expr.type
           /\ met \cap {"blank", "label"} = {} => ShownQuery = SyncedDraft.expr
           /\ url.expr.type # NoType => ShownQuery.type # NoType
           /\ "sum" \notin met \cup DefectsOfRender =>
                 \/ OptionFits(SyncedDraft.sum, SyncedDraft.expr.type)
                 \/ SyncedDraft.sum = getSumByFromParam(url.sum)
  <1>1. url \in Urls /\ draft \in Drafts /\ shown \in Exprs
    BY DEF PageInd, ExplorerTypeOK
  <1>2. url.expr \in Exprs /\ url.time \in Times /\ url.sum \in Params
    BY <1>1 DEF Urls
  <1>3. getSumByFromParam(url.sum) \in Options
    BY <1>2, ListOfParam
  <1>4. /\ SyncedDraft.expr = (IF url.expr # seen.expr THEN url.expr ELSE draft.expr)
        /\ SyncedDraft.time = (IF url.time # seen.time THEN url.time ELSE draft.time)
        /\ SyncedDraft.sum =
              (IF url.sum # seen.sum THEN getSumByFromParam(url.sum) ELSE draft.sum)
    BY DEF SyncedDraft
  <1>5. SyncedDraft \in Drafts
    BY <1>1, <1>2, <1>3 DEF SyncedDraft, Drafts
  <1>6. /\ ShownQuery \in Exprs /\ ShownQuery.type = SyncedDraft.expr.type
        /\ met \cap {"blank", "label"} = {} => ShownQuery = SyncedDraft.expr
        /\ url.expr.type # NoType => ShownQuery.type # NoType
    BY <1>1, <1>2, <1>4 DEF PageInd, SelectorFollows, ShownQuery
  <1>7. ASSUME "sum" \notin met, "sum" \notin DefectsOfRender
        PROVE  \/ OptionFits(SyncedDraft.sum, SyncedDraft.expr.type)
               \/ SyncedDraft.sum = getSumByFromParam(url.sum)
    <2>1. CASE url.sum # seen.sum
      BY <1>4, <2>1
    <2>2. CASE url.sum = seen.sum
      <3>1. SyncedDraft.sum = draft.sum
        BY <1>4, <2>2
      <3>2. draft.sum = <<>> \/ SyncedDraft.expr.type = draft.expr.type
        BY <1>7, <3>1 DEF DefectsOfRender
      <3>3. OptionFits(<<>>, SyncedDraft.expr.type)
        BY Single DEF OptionFits
      <3>4. OptionFits(draft.sum, draft.expr.type) \/ draft.sum = getSumByFromParam(seen.sum)
        BY <1>7 DEF PageInd, SumByFollows
      <3>. QED  BY <2>2, <3>1, <3>2, <3>3, <3>4
    <2>. QED  BY <2>1, <2>2
  <1>. QED  BY <1>5, <1>6, <1>7

\* The sum_by a render writes.
RenderedSum ==
    LET sel == RememberSumBy(userSel, draft, url)
    IN  IF SyncsSumBy(sel) THEN sumByToParam(<<SumByToSync(sel)>>) ELSE url.sum

\* It is a label of the type in the URL, and is written only where none was.
LEMMA SyncFits ==
    ASSUME PageInd
    PROVE  /\ RememberSumBy(userSel, draft, url) \in [Types -> Options]
           /\ url.sum = Null => RememberSumBy(userSel, draft, url) = userSel
           /\ RenderedSum \in Params
           /\ synced \/ url.sum # Null => RenderedSum = url.sum
           /\ url.expr.type # NoType /\ RenderedSum \in Labels /\ SumFits(url)
                 => RenderedSum \in LabelsOf[url.expr.type]
  <1>. DEFINE sel == RememberSumBy(userSel, draft, url)
  <1>1. /\ url \in Urls /\ seen \in Urls /\ draft \in Drafts
        /\ userSel \in [Types -> Options]
    BY DEF PageInd, ExplorerTypeOK
  <1>2. url.sum \in Params /\ SumByType(draft, url) \in Types \cup {NoType}
    BY <1>1 DEF Urls, Drafts, Exprs, SumByType
  <1>3. getSumByFromParam(url.sum) \in Options /\ (getSumByFromParam(url.sum) = <<>> <=> url.sum = Null)
    BY <1>2, ListOfParam
  <1>4. sel \in [Types -> Options] /\ (url.sum = Null => sel = userSel)
    BY <1>1, <1>2, <1>3 DEF RememberSumBy
  <1>. HIDE DEF sel
  <1>5. RenderedSum = IF SyncsSumBy(sel) THEN sumByToParam(<<SumByToSync(sel)>>) ELSE url.sum
    BY DEF RenderedSum, sel
  <1>6. CASE ~SyncsSumBy(sel)
    BY <1>2, <1>4, <1>5, <1>6 DEF sel, SumFits
  <1>7. CASE SyncsSumBy(sel)
    <2>1. /\ ~synced /\ url.sum = Null
          /\ OffersSumBy(sel, draft) \/ OffersSumBy(sel, OuterDraft)
      BY <1>7 DEF SyncsSumBy
    <2>2. \A t \in Types : sel[t] = <<>>
      BY <1>4, <2>1 DEF PageInd, SumByFollows
    <2>3. OuterDraft \in Drafts
      BY <1>1, DraftOfFits DEF OuterDraft
    <2>4. PICK d \in Drafts : OffersSumBy(sel, d) /\ SumByToSync(sel) = SumBySelection(sel, d, url)
      BY <1>1, <2>1, <2>3 DEF SumByToSync
    <2>5. PICK o : o = SumBySelection(sel, d, url)
      OBVIOUS
    <2>6. o \in Lists /\ OptionFits(<<o>>, SumByType(d, url))
      BY <1>1, <1>4, <2>1, <2>2, <2>4, <2>5, SelectionFits DEF OffersSumBy
    <2>7. RenderedSum = sumByToParam(<<o>>)
      BY <1>5, <1>7, <2>4, <2>5
    <2>8. /\ RenderedSum \in Params
          /\ \A x \in Labels : RenderedSum = x => o = <<x>>
      BY <2>6, <2>7, ParamOfList
    <2>9. url.expr.type # NoType => SumByType(d, url) = url.expr.type
      BY DEF SumByType
    <2>10. url.expr.type # NoType /\ RenderedSum \in Labels
             => RenderedSum \in LabelsOf[url.expr.type]
      BY <2>6, <2>8, <2>9 DEF OptionFits
    <2>. QED  BY <1>4, <2>1, <2>8, <2>10 DEF sel
  <1>. QED  BY <1>6, <1>7

\* The types of the variables after a render.
LEMMA RenderTypeOK ==
    ASSUME PageInd, Render, NavFits', url' \in Urls, resets' \in Nat
    PROVE  ExplorerTypeOK'
  <1>1. draft \in Drafts /\ url \in Urls /\ ShownQuery \in Exprs /\ SyncedDraft \in Drafts
    BY Followed DEF PageInd, ExplorerTypeOK
  <1>2. shown' \in Exprs /\ draft' \in Drafts /\ seen' \in Urls
    <2>1. Preferred \in Types
      BY ExplorerAssumption
    <2>2. [ShownQuery EXCEPT !.type = Preferred] \in Exprs
      BY <1>1, <2>1 DEF Exprs
    <2>3. [draft.expr EXCEPT !.type = Preferred] \in Exprs
      BY <1>1, <2>1 DEF Exprs, Drafts
    <2>4. [SyncedDraft EXCEPT !.expr = [draft.expr EXCEPT !.type = Preferred], !.sum = <<>>]
            \in Drafts
      BY <1>1, <2>3 DEF Drafts, Options
    <2>. QED  BY <1>1, <2>2, <2>4 DEF Render
  <1>3. userSel' \in [Types -> Options]
    BY SyncFits DEF Render
  <1>4. synced' \in BOOLEAN /\ auto' \in BOOLEAN /\ rendered' \in BOOLEAN
    <2>1. synced' \in BOOLEAN
      BY DEF Render, SyncsSumBy
    <2>2. auto' \in BOOLEAN
      BY DEF Render, AutoAfter
    <2>3. rendered' \in BOOLEAN
      BY DEF Render
    <2>. QED  BY <2>1, <2>2, <2>3
  <1>5. written' \in BOOLEAN
    BY DEF PageInd, ExplorerTypeOK, Render, Push, Replace
  <1>6. met' \subseteq {"auto", "blank", "label", "sum"}
    BY DEF PageInd, ExplorerTypeOK, Render, DefectsOfRender
  <1>7. UNCHANGED <<typesAt, answered, failed, events>>
    BY DEF Render, server
  <1>. QED  BY <1>2, <1>3, <1>4, <1>5, <1>6, <1>7, Zenon
            DEF PageInd, ExplorerTypeOK, NavFits

\* The selector and the drafts after a render; the type is selected in both.
LEMMA RenderFollows ==
    ASSUME PageInd, Render
    PROVE  SelectorFollows' /\ SumByFollows'
  <1>1. /\ ShownQuery \in Exprs /\ SyncedDraft \in Drafts
        /\ ShownQuery.type = SyncedDraft.expr.type
        /\ met \cap {"blank", "label"} = {} => ShownQuery = SyncedDraft.expr
        /\ url.expr.type # NoType => ShownQuery.type # NoType
        /\ "sum" \notin met \cup DefectsOfRender =>
              \/ OptionFits(SyncedDraft.sum, SyncedDraft.expr.type)
              \/ SyncedDraft.sum = getSumByFromParam(url.sum)
    BY Followed
  <1>2. /\ seen' = url /\ met' = met \cup DefectsOfRender
        /\ shown' = IF AutoSelects THEN [ShownQuery EXCEPT !.type = Preferred] ELSE ShownQuery
        /\ draft' = IF AutoSelects
                       THEN [SyncedDraft EXCEPT !.expr = [draft.expr EXCEPT !.type = Preferred],
                                                !.sum = <<>>]
                       ELSE SyncedDraft
    BY DEF Render
  <1>3. Preferred \in Types /\ Preferred # NoType /\ draft.expr \in Exprs
    BY ExplorerAssumption DEF PageInd, ExplorerTypeOK, Drafts
  <1>4. ~synced' => \A t \in Types : userSel'[t] = <<>>
    <2>. SUFFICES ASSUME ~synced'  PROVE \A t \in Types : userSel'[t] = <<>>
      OBVIOUS
    <2>1. ~synced /\ url.sum = Null
      BY DEF Render
    <2>2. userSel' = userSel
      BY <2>1, SyncFits DEF Render
    <2>. QED  BY <2>1, <2>2 DEF PageInd, SumByFollows
  <1>5. CASE AutoSelects
    <2>1. /\ shown' = [ShownQuery EXCEPT !.type = Preferred]
          /\ draft' = [SyncedDraft EXCEPT !.expr = [draft.expr EXCEPT !.type = Preferred],
                                           !.sum = <<>>]
      BY <1>2, <1>5
    <2>2. draft'.expr = [draft.expr EXCEPT !.type = Preferred] /\ draft'.sum = <<>>
      BY <1>1, <2>1 DEF Drafts
    <2>3. shown'.type = Preferred /\ draft'.expr.type = Preferred
      BY <1>1, <1>3, <2>1, <2>2 DEF Exprs
    <2>4. ASSUME "blank" \notin met'
          PROVE  shown' = draft'.expr
      <3>1. draft.expr.m = ShownQuery.m
        BY <1>2, <1>5, <2>4 DEF DefectsOfRender
      <3>. QED  BY <1>1, <1>3, <2>1, <2>2, <3>1 DEF Exprs
    <2>5. OptionFits(draft'.sum, draft'.expr.type)
      BY <2>2, Single DEF OptionFits
    <2>6. SelectorFollows'
      BY <1>3, <2>3, <2>4 DEF SelectorFollows
    <2>7. SumByFollows'
      BY <1>4, <2>5 DEF SumByFollows, OptionFits
    <2>. QED  BY <2>6, <2>7
  <1>6. CASE ~AutoSelects
    <2>1. shown' = ShownQuery /\ draft' = SyncedDraft
      BY <1>2, <1>6
    <2>2. SelectorFollows'
      BY <1>1, <1>2, <2>1 DEF SelectorFollows
    <2>3. SumByFollows'
      BY <1>1, <1>2, <1>4, <2>1 DEF SumByFollows, OptionFits
    <2>. QED  BY <2>2, <2>3
  <1>. QED  BY <1>5, <1>6

\* The page runs a query: the entry left behind is in order, and the new one too.
LEMMA RenderCommits ==
    ASSUME PageInd, Render, AutoCommits
    PROVE  PageInd'
  <1>. DEFINE c == Committed(url, draft, draft.time, draft.expr)
  <1>1. /\ url \in Urls /\ draft \in Drafts /\ resets \in Nat /\ NavFits
    BY DEF PageInd, ExplorerTypeOK, NavFits
  <1>2. auto /\ went = <<>>
    BY DEF PageInd, VisitIsComplete, AutoCommits
  <1>3. /\ Push(c) /\ resets' = resets + ResetFlameGraphState(url)
        /\ met' = met \cup DefectsOfRender /\ auto' = AutoAfter /\ went' = went
        /\ rendered' = (page' = page /\ url' = url)
    BY DEF Render
  <1>4. draft.expr \in Exprs /\ draft.time \in Times
    BY <1>1 DEF Drafts
  <1>5. /\ c \in Urls /\ ViewFits(c) /\ c.zoom \in {<<>>, url.zoom}
        /\ SumFits(url) /\ (OptionFits(draft.sum, draft.expr.type)
                              \/ draft.sum = getSumByFromParam(url.sum)) => SumFits(c)
    BY <1>1, <1>4, CommittedFits
  <1>. HIDE DEF c
  <1>6. "sum" \notin met' => "sum" \notin met /\ SumFits(c)
    <2>. SUFFICES ASSUME "sum" \notin met'
                  PROVE  "sum" \notin met /\ SumFits(c)
      OBVIOUS
    <2>1. "sum" \notin met /\ "sum" \notin DefectsOfRender
      BY <1>3
    <2>2. SumFits(url)
      BY <1>1, <2>1 DEF NavFits, HistoryFits
    <2>3. SyncedDraft.sum = draft.sum
      BY <2>1 DEF DefectsOfRender
    <2>4. url.sum # seen.sum => draft.sum = getSumByFromParam(url.sum)
      BY <2>3 DEF SyncedDraft
    <2>5. OptionFits(draft.sum, draft.expr.type) \/ draft.sum = getSumByFromParam(seen.sum)
      BY <2>1 DEF PageInd, SumByFollows
    <2>. QED  BY <1>5, <2>1, <2>2, <2>4, <2>5
  <1>7. written => ZoomFits(url)
    BY DEF PageInd, ZoomIsPending
  <1>8. NavFits' /\ url' = c /\ ~written'
    BY <1>1, <1>3, <1>5, <1>6, <1>7, PushFits
  <1>9. resets' \in Nat /\ (ZoomFits(c) \/ resets' > 0)
    BY <1>1, <1>3, <1>5, TimerIsStarted
  <1>10. ExplorerTypeOK'
    BY <1>5, <1>8, <1>9, RenderTypeOK
  <1>11. ZoomIsPending'
    BY <1>8, <1>9 DEF ZoomIsPending, ZoomFits, ViewOf
  <1>12. ~AutoSelects /\ ~auto'
    BY <1>2, <1>3 DEF AutoSelects, AutoAfter
  <1>13. ~rendered'
    BY <1>2, <1>3, <1>12 DEF page
  <1>14. AtRest' /\ VisitIsComplete' /\ HistoryIsNotRewritten'
    BY <1>2, <1>3, <1>13 DEF AtRest, VisitIsComplete, HistoryIsNotRewritten
  <1>. QED  BY <1>8, <1>10, <1>11, <1>14, RenderFollows DEF PageInd, NavFits

\* Otherwise a render writes sum_by at most, and comes to rest when nothing changes.
LEMMA RenderSettles ==
    ASSUME PageInd, Render, ~AutoCommits
    PROVE  PageInd'
  <1>. DEFINE u == [url EXCEPT !.sum = RenderedSum]
  <1>1. /\ url \in Urls /\ draft \in Drafts /\ resets \in Nat /\ NavFits
    BY DEF PageInd, ExplorerTypeOK, NavFits
  <1>2. /\ Replace(u) /\ resets' = resets /\ seen' = url
        /\ met' = met \cup DefectsOfRender /\ went' = went
        /\ auto' = (AutoSelects \/ auto)
        /\ synced => synced'
        /\ rendered' = (page' = page /\ url' = url)
        /\ typesAt' = typesAt /\ answered' = answered
    BY DEF Render, RenderedSum, AutoAfter, server
  <1>3. /\ RenderedSum \in Params
        /\ synced \/ url.sum # Null => RenderedSum = url.sum
        /\ url.expr.type # NoType /\ RenderedSum \in Labels /\ SumFits(url)
              => RenderedSum \in LabelsOf[url.expr.type]
    BY SyncFits
  <1>4. PICK r : r = RenderedSum
    OBVIOUS
  <1>5. /\ u \in Urls /\ u.expr = url.expr /\ u.time = url.time /\ u.sum = r
        /\ u.zoom = url.zoom /\ u.merge = url.merge /\ u.sel = url.sel
        /\ u.group = url.group /\ u.filters = url.filters
        /\ r = url.sum => u = url
    BY <1>1, <1>3, <1>4 DEF Urls
  <1>. HIDE DEF u
  <1>6. ViewFits(u) /\ ("sum" \notin met => SumFits(u))
    <2>1. ViewFits(url) /\ ("sum" \notin met => SumFits(url))
      BY <1>1 DEF NavFits, HistoryFits
    <2>2. ViewFits(u)
      BY <1>5, <2>1 DEF ViewFits
    <2>3. "sum" \notin met => SumFits(u)
      BY <1>3, <1>4, <1>5, <2>1 DEF SumFits
    <2>. QED  BY <2>2, <2>3
  <1>7. NavFits' /\ url' = u /\ written' = written
    BY <1>1, <1>2, <1>5, <1>6, ReplaceFits
  <1>8. ExplorerTypeOK'
    BY <1>1, <1>2, <1>5, <1>7, RenderTypeOK
  <1>9. went # <<>> => ~AutoSelects /\ u = url
    <2>. SUFFICES ASSUME went # <<>>  PROVE ~AutoSelects /\ u = url
      OBVIOUS
    <2>1. url.expr.type # NoType /\ (synced \/ url.sum # Null)
      BY DEF PageInd, VisitIsComplete
    <2>2. ~AutoSelects
      BY <2>1, Followed DEF AutoSelects
    <2>. QED  BY <1>3, <1>4, <1>5, <2>1, <2>2
  <1>10. VisitIsComplete' /\ HistoryIsNotRewritten'
    BY <1>2, <1>7, <1>9 DEF PageInd, VisitIsComplete, HistoryIsNotRewritten
  <1>11. AtRest'
    <2>. SUFFICES ASSUME rendered'
                  PROVE  seen' = url' /\ ~AutoSelects' /\ ~AutoCommits'
      BY DEF AtRest
    <2>1. UNCHANGED <<draft, shown, auto, seen>> /\ url' = url
      BY <1>2 DEF page
    <2>2. ~AutoSelects
      <3>1. AutoSelects => ~auto
        BY DEF AutoSelects
      <3>2. auto' = auto
        BY <2>1
      <3>3. AutoSelects => auto'
        BY <1>2, Zenon
      <3>. QED  BY <3>1, <3>2, <3>3, Zenon
    <2>3. ~AutoSelects' /\ ~AutoCommits'
      BY <1>2, <2>1, <2>2, AutoKept
    <2>. QED  BY <1>2, <2>1, <2>3
  <1>12. ZoomIsPending'
    <2>. SUFFICES ASSUME ~ZoomFits(url)'
                  PROVE  /\ resets' > 0
                         /\ written' => /\ url'.expr = seen'.expr /\ url'.time = seen'.time
                                        /\ ~AutoSelects' /\ ~AutoCommits'
      BY DEF ZoomIsPending
    <2>1. ~ZoomFits(url)
      BY <1>5, <1>7 DEF ZoomFits, ViewOf
    <2>2. resets' > 0
      BY <1>2, <2>1 DEF PageInd, ZoomIsPending
    <2>3. ASSUME written
          PROVE  ~AutoSelects' /\ ~AutoCommits'
      <3>1. url.expr = seen.expr /\ url.time = seen.time /\ ~AutoSelects
        BY <2>1, <2>3 DEF PageInd, ZoomIsPending
      <3>2. /\ shown' = shown /\ auto' = auto
            /\ draft'.expr = draft.expr /\ draft'.time = draft.time
        <4>1. shown' = shown
          BY <3>1 DEF Render, ShownQuery
        <4>2. draft' = SyncedDraft
          BY <3>1 DEF Render
        <4>3. draft'.expr = draft.expr /\ draft'.time = draft.time
          BY <3>1, <4>2 DEF SyncedDraft
        <4>4. auto \in BOOLEAN
          BY DEF PageInd, ExplorerTypeOK
        <4>5. auto' = auto
          BY <1>2, <3>1, <4>4, Zenon
        <4>. QED  BY <4>1, <4>3, <4>5
      <3>3. ShownQuery' = ShownQuery /\ ShownTime' = ShownTime
        BY <1>2, <1>5, <1>7, <3>1, <3>2 DEF ShownQuery, ShownTime
      <3>4. SumByLoading(draft, url)' <=> SumByLoading(draft, url)
        BY <1>2, <1>5, <1>7, <3>2 DEF SumByLoading, Loading, SumByType
      <3>. QED  BY <1>2, <3>1, <3>2, <3>3, <3>4 DEF AutoSelects, AutoCommits
    <2>. QED  BY <1>2, <1>5, <1>7, <2>2, <2>3
  <1>. QED  BY <1>7, <1>8, <1>10, <1>11, <1>12, RenderFollows DEF PageInd, NavFits

-------------------------------------------------------------------------------
(* The theorems. *)

\* The page is opened with a URL that a page wrote.
LEMMA InitPageInd ==
    ASSUME Init
    PROVE  PageInd
  <1>1. url \in Urls /\ ViewFits(url) /\ ZoomFits(url) /\ SumFits(url)
    BY ExplorerAssumption DEF Init
  <1>2. hist = <<url>> /\ pos = 1
    BY DEF Init
  <1>3. hist \in Seq(Urls) /\ Len(hist) = 1 /\ hist[1] = url
    BY <1>1, <1>2
  <1>4. HistoryFits
    BY <1>1, <1>2, <1>3 DEF HistoryFits
  <1>5. draft \in Drafts /\ draft.expr = url.expr /\ draft.sum = getSumByFromParam(url.sum)
    BY <1>1, DraftOfFits DEF Init
  <1>6. shown \in Exprs /\ userSel \in [Types -> Options]
    BY <1>1 DEF Init, Urls, Options
  <1>7. ExplorerTypeOK
    <2>1. pos \in 1..Len(hist) /\ hist[pos] = url
      BY <1>2, <1>3
    <2>2. resets \in Nat /\ events \in 0..MaxEvents
      <3>1. MaxEvents \in Nat
        BY ExplorerAssumption
      <3>2. resets = 0 /\ events = 0
        BY DEF Init
      <3>. QED  BY <3>1, <3>2
    <2>3. {written, synced, auto, rendered} \subseteq BOOLEAN
      BY DEF Init
    <2>4. seen \in Urls /\ typesAt \subseteq Times /\ failed \subseteq answered
          /\ answered \subseteq Types \X Times /\ met \subseteq {"auto", "blank", "label", "sum"}
      BY <1>1 DEF Init
    <2>. QED  BY <1>1, <1>5, <1>6, <2>1, <2>2, <2>3, <2>4 DEF ExplorerTypeOK
  <1>8. AtRest /\ ZoomIsPending /\ VisitIsComplete /\ HistoryIsNotRewritten
    BY <1>1 DEF Init, AtRest, ZoomIsPending, VisitIsComplete, HistoryIsNotRewritten
  <1>9. SelectorFollows /\ SumByFollows
    BY <1>5 DEF Init, SelectorFollows, SumByFollows
  <1>. QED  BY <1>4, <1>7, <1>8, <1>9 DEF PageInd

\* Each event of the user keeps the invariant.
LEMMA UserPageInd ==
    ASSUME PageInd, User
    PROVE  PageInd'
  <1>1. CASE \E t \in Types : SetProfileName(t)
    BY <1>1, SetProfileNameInd
  <1>2. CASE \E m \in Matchers : SetMatchersString(m) \/ AddLabelMatcher(m)
    BY <1>2, SetMatchersStringInd, AddLabelMatcherInd
  <1>3. CASE \E o \in Lists : SetDraftSumBy(o)
    BY <1>3, SetDraftSumByInd
  <1>4. CASE \E t \in Times : SetDraftTimeRange(t) \/ Search(t) \/ SelectTimeRange(t)
    BY <1>4, SetDraftTimeRangeInd, SearchInd
  <1>5. CASE \E m \in Matchers, t \in Times : HandlePointClick(m, t)
    BY <1>5, HandlePointClickInd
  <1>6. CASE \E t \in Times : SwitchToFifteenMinutes(t)
    BY <1>6, SwitchToFifteenMinutesInd
  <1>7. CASE \E zoom \in {<<>>, <<ViewOf(url)>>} : SetCurPath(zoom)
    <2>1. PICK zoom \in {<<>>, <<ViewOf(url)>>} : SetCurPath(zoom)
      BY <1>7
    <2>. QED  BY <2>1, SetCurPathInd
  <1>8. CASE ToggleGroupBy
    BY <1>8, ToggleGroupByInd
  <1>9. CASE \E f \in SUBSET Binaries : SetAppliedFilters(f)
    BY <1>9, SetAppliedFiltersInd
  <1>10. CASE \E p \in 1..Len(hist) : Navigate(p)
    <2>1. PICK p \in 1..Len(hist) : Navigate(p)
      BY <1>10
    <2>. QED  BY <2>1, NavigateInd
  <1>11. CASE Reload
    BY <1>11, ReloadInd
  <1>. QED  BY <1>1, <1>2, <1>3, <1>4, <1>5, <1>6, <1>7, <1>8, <1>9, <1>10, <1>11 DEF User

\* So does each step of the page.
LEMMA NextPageInd ==
    ASSUME PageInd, [Next]_vars
    PROVE  PageInd'
  <1>1. CASE Render
    BY <1>1, RenderCommits, RenderSettles
  <1>2. CASE Flush
    BY <1>2, FlushInd
  <1>3. CASE TimerFires
    BY <1>3, TimerFiresInd
  <1>4. CASE TypesArrive
    BY <1>4, TypesArriveInd
  <1>5. CASE \E k \in Types \X Times : LabelsArrive(k)
    BY <1>5, LabelsArriveInd
  <1>6. CASE User
    BY <1>6, UserPageInd
  <1>7. CASE UNCHANGED vars
    <2>1. UNCHANGED <<nav, page, server, resets, rendered, went, met, events>>
      BY <1>7 DEF vars
    <2>2. /\ UNCHANGED <<url, hist, pos, written>>
          /\ UNCHANGED <<draft, shown, userSel, synced, auto, seen>>
          /\ UNCHANGED <<typesAt, answered, failed>>
      BY <2>1 DEF nav, page, server
    <2>3. ExplorerTypeOK'
      BY <2>1, <2>2, Zenon DEF PageInd, ExplorerTypeOK
    <2>4. HistoryFits' /\ SelectorFollows' /\ SumByFollows'
      BY <2>1, <2>2 DEF PageInd, HistoryFits, ViewFits, ZoomFits, ViewOf, SumFits,
                        SelectorFollows, SumByFollows, OptionFits
    <2>5. (AutoSelects' <=> AutoSelects) /\ (AutoCommits' <=> AutoCommits)
      BY <2>2, AutoKept
    <2>6. AtRest' /\ ZoomIsPending' /\ VisitIsComplete' /\ HistoryIsNotRewritten'
      BY <2>1, <2>2, <2>5 DEF PageInd, AtRest, ZoomIsPending, ZoomFits, ViewOf,
                              VisitIsComplete, HistoryIsNotRewritten
    <2>. QED  BY <2>3, <2>4, <2>6 DEF PageInd
  <1>. QED  BY <1>1, <1>2, <1>3, <1>4, <1>5, <1>6, <1>7 DEF Next

\* The inductive invariant of the query page.
THEOREM PageInvariance == Spec => []PageInd
  <1>1. Init => PageInd
    BY InitPageInd
  <1>2. PageInd /\ [Next]_vars => PageInd'
    BY NextPageInd
  <1>. QED  BY <1>1, <1>2, PTL DEF Spec

\* The variables keep their types: every value of sum_by that useSumBy computes can
\* be written to the URL, and the position stays inside the history.
THEOREM ExplorerTypeCorrect == Spec => []ExplorerTypeOK
  <1>1. PageInd => ExplorerTypeOK
    BY DEF PageInd
  <1>. QED  BY <1>1, PageInvariance, PTL

\* ProfileSelector and useQueryState follow the URL each by itself and agree on the
\* query, unless one of two known defects was met.
THEOREM SearchCommits == Spec => []SearchCommitsWhatIsShown
  <1>1. PageInd => SearchCommitsWhatIsShown
    BY DEF PageInd, AtRest, SelectorFollows, SearchCommitsWhatIsShown
  <1>. QED  BY <1>1, PageInvariance, PTL

\* The selected profile is one of the query in the URL, on every entry.
THEOREM ViewFollowsQuery == Spec => []ViewIsOfTheQuery
  <1>1. PageInd => ViewIsOfTheQuery
    BY DEF PageInd, ExplorerTypeOK, HistoryFits, ViewIsOfTheQuery
  <1>. QED  BY <1>1, PageInvariance, PTL

\* Once the timers of resetFlameGraphState have fired, the zoom path is one of the
\* flame graph on the page.
THEOREM ZoomFollowsView == Spec => []ZoomIsOfTheView
  <1>1. PageInd => ZoomIsOfTheView
    BY DEF PageInd, ExplorerTypeOK, ZoomIsPending, ZoomIsOfTheView
  <1>. QED  BY <1>1, PageInvariance, PTL

\* No effect rewrites an entry the user went back or forward to.
THEOREM HistoryIsKept == Spec => []HistoryIsNotRewritten
  <1>1. PageInd => HistoryIsNotRewritten
    BY DEF PageInd
  <1>. QED  BY <1>1, PageInvariance, PTL

\* sum_by is a label of the type in the URL, unless the known defect was met.
THEOREM SumByFollowsType == Spec => []SumByIsOfTheType
  <1>1. PageInd => SumByIsOfTheType
    BY DEF PageInd, ExplorerTypeOK, HistoryFits, SumByIsOfTheType
  <1>. QED  BY <1>1, PageInvariance, PTL

-------------------------------------------------------------------------------
(* Where the page comes to rest. *)

\* Nothing is left to do but to wait for the user: the page is rendered and
\* written, no timer is set, and the server has answered.
Settled ==
    /\ rendered /\ written /\ resets = 0
    /\ draft.time \in typesAt /\ LabelQueries = {}

\* A page at rest has a query: one opened without a query has run one, unless the
\* known defect of going through the history meanwhile was met.
SettledHasQuery == Settled => url.expr.type # NoType \/ "auto" \in met

\* The page runs a query by itself exactly when it selected a type for a URL that
\* has none and has not committed it yet.
AutoFollows ==
    "auto" \notin met =>
        /\ auto => shown.type # NoType
        /\ url.expr.type = NoType /\ url.expr = seen.expr /\ shown.type # NoType => auto
        /\ auto => url.expr = seen.expr \/ url.expr.type # NoType

\* If the query were missing, the page would select a type or run its query.
LEMMA AutoRests == PageInd /\ AutoFollows => SettledHasQuery
  <1>. SUFFICES ASSUME PageInd, AutoFollows, Settled, url.expr.type = NoType, "auto" \notin met
                PROVE  FALSE
    BY DEF SettledHasQuery
  <1>1. seen = url /\ ~AutoSelects /\ ~AutoCommits
    BY DEF PageInd, AtRest, Settled
  <1>2. ShownQuery = shown /\ ShownTime = draft.time
    BY <1>1 DEF ShownQuery, ShownTime
  <1>3. auto /\ shown.type # NoType
    BY <1>1, <1>2 DEF AutoFollows, AutoSelects, Settled
  <1>4. SumByLoading(draft, url)
    BY <1>1, <1>2, <1>3 DEF AutoCommits, Settled
  <1>5. PICK t \in {SumByType(draft, url), draft.expr.type} : Loading(t, draft.time)
    BY <1>4 DEF SumByLoading
  <1>6. t # NoType /\ <<t, draft.time>> \notin answered
    BY <1>5 DEF Loading
  <1>7. <<t, draft.time>>[1] = t
    OBVIOUS
  <1>8. <<t, draft.time>> \in LabelQueries
    BY <1>5, <1>6, <1>7 DEF LabelQueries
  <1>. QED  BY <1>8 DEF Settled

\* A step that leaves the expression of the URL and the selector alone.
LEMMA AutoFrame ==
    ASSUME AutoFollows, UNCHANGED <<seen, auto>>, shown'.type = shown.type,
           url'.expr = url.expr, "auto" \in met => "auto" \in met'
    PROVE  AutoFollows'
  BY DEF AutoFollows

\* A step that commits an expression of the type the selector shows.
LEMMA AutoPush ==
    ASSUME AutoFollows, UNCHANGED <<seen, auto, shown>>, url'.expr.type = shown.type,
           "auto" \in met => "auto" \in met'
    PROVE  AutoFollows'
  BY DEF AutoFollows

\* The expression that is pushed, and the one that commitDraft asks for.
LEMMA PushedExpr ==
    ASSUME NEW u, Push(u)
    PROVE  url' = u
  BY DEF Push, Replace

\* commitDraft writes the expression it is called with.
LEMMA CommittedExpr ==
    ASSUME NEW u \in Urls, NEW d, NEW t, NEW e
    PROVE  Committed(u, d, t, e).expr = e
  BY DEF Committed, ResetOnProfileTypeChange, Urls

\* A render selects a type, commits it, or leaves both to a later one.
LEMMA RenderAuto ==
    ASSUME PageInd, AutoFollows, Render
    PROVE  AutoFollows'
  <1>. SUFFICES ASSUME "auto" \notin met'
                PROVE  AutoFollows'
    BY DEF AutoFollows
  <1>0. url \in Urls /\ draft \in Drafts /\ shown \in Exprs /\ "auto" \notin met
    BY DEF PageInd, ExplorerTypeOK, Render
  <1>1. /\ auto => shown.type # NoType
        /\ url.expr.type = NoType /\ url.expr = seen.expr /\ shown.type # NoType => auto
        /\ auto => url.expr = seen.expr \/ url.expr.type # NoType
    BY <1>0 DEF AutoFollows
  <1>2. /\ seen' = url
        /\ auto' = (AutoSelects \/ (auto /\ ~AutoCommits))
        /\ shown' = IF AutoSelects THEN [ShownQuery EXCEPT !.type = Preferred] ELSE ShownQuery
    BY DEF Render, AutoAfter
  <1>3. ShownQuery \in Exprs
    BY Followed
  <1>4. CASE AutoSelects
    <2>1. ~AutoCommits
      BY <1>4 DEF AutoSelects, AutoCommits
    <2>2. url'.expr = url.expr
      <3>1. PICK sum : url' = [url EXCEPT !.sum = sum]
        BY <2>1 DEF Render, Replace
      <3>. QED  BY <1>0, <3>1 DEF Urls
    <2>3. shown'.type = Preferred /\ Preferred # NoType
      BY <1>2, <1>3, <1>4, ExplorerAssumption DEF Exprs
    <2>4. auto'
      BY <1>2, <1>4
    <2>. QED  BY <1>2, <2>2, <2>3, <2>4 DEF AutoFollows
  <1>5. CASE ~AutoSelects /\ AutoCommits
    <2>1. ~auto' /\ shown' = ShownQuery /\ ShownQuery.type # NoType
      BY <1>2, <1>5 DEF AutoCommits
    <2>2. url'.expr = draft.expr
      BY <1>0, <1>5, PushedExpr, CommittedExpr DEF Render
    <2>3. CASE url.expr = seen.expr
      BY <2>1, <2>2, <2>3 DEF ShownQuery, PageInd, SelectorFollows, AutoFollows
    <2>4. CASE url.expr # seen.expr
      <3>1. url.expr.type # NoType
        BY <2>1, <2>4 DEF ShownQuery
      <3>. QED  BY <1>2, <2>1, <3>1 DEF AutoFollows
    <2>. QED  BY <2>3, <2>4
  <1>6. CASE ~AutoSelects /\ ~AutoCommits
    <2>1. (auto' <=> auto) /\ shown' = ShownQuery
      BY <1>2, <1>6
    <2>2. url'.expr = url.expr
      <3>1. PICK sum : url' = [url EXCEPT !.sum = sum]
        BY <1>6 DEF Render, Replace
      <3>. QED  BY <1>0, <3>1 DEF Urls
    <2>. QED  BY <1>1, <1>2, <2>1, <2>2 DEF AutoFollows, ShownQuery
  <1>. QED  BY <1>4, <1>5, <1>6

\* The events of the user.  A type is given to the selector only when the page has
\* selected one before, or the URL has one.
LEMMA UserAuto ==
    ASSUME PageInd, AutoFollows, User
    PROVE  AutoFollows'
  <1>. USE DEF page
  <1>0. url \in Urls /\ draft \in Drafts /\ shown \in Exprs
    BY DEF PageInd, ExplorerTypeOK
  <1>1. ASSUME NEW t \in Types, SetProfileName(t)
        PROVE  AutoFollows'
    <2>1. seen = url /\ ~AutoSelects
      BY <1>1, EventFinds DEF SetProfileName
    <2>2. shown'.type = t /\ t # NoType
      BY <1>0, <1>1, ExplorerAssumption DEF SetProfileName, Exprs
    <2>3. UNCHANGED <<url, seen, auto, met>> /\ draft.time \in typesAt
      BY <1>1 DEF SetProfileName, nav
    <2>4. shown.type # NoType \/ auto
      BY <2>1, <2>3 DEF AutoSelects, ShownQuery, ShownTime
    <2>. QED  BY <2>1, <2>2, <2>3, <2>4 DEF AutoFollows
  <1>2. ASSUME NEW m \in Matchers, SetMatchersString(m)
        PROVE  AutoFollows'
    <2>1. shown'.type = shown.type
      BY <1>0, <1>2 DEF SetMatchersString, Exprs
    <2>. QED  BY <1>2, <2>1, AutoFrame DEF SetMatchersString, nav
  <1>3. ASSUME NEW m \in Matchers, AddLabelMatcher(m)
        PROVE  AutoFollows'
    <2>1. url' = Committed(url, draft, draft.time, [shown EXCEPT !.m = m])
      BY <1>3, PushedExpr DEF AddLabelMatcher, CommitDraft
    <2>2. url'.expr.type = shown.type
      BY <1>0, <2>1, CommittedExpr DEF Exprs
    <2>3. UNCHANGED <<seen, auto, shown>> /\ ("auto" \in met => "auto" \in met')
      BY <1>3 DEF AddLabelMatcher, CommitDraft
    <2>. QED  BY <2>2, <2>3, AutoPush
  <1>4. ASSUME NEW t \in Times, Search(t) \/ SelectTimeRange(t)
        PROVE  AutoFollows'
    <2>1. url' = Committed(url, draft, t, draft.expr)
      BY <1>4, PushedExpr DEF Search, SelectTimeRange, CommitDraft
    <2>2. shown.type = draft.expr.type
      BY <1>4, EventFinds DEF Search, SelectTimeRange
    <2>3. url'.expr.type = shown.type
      BY <1>0, <2>1, <2>2, CommittedExpr
    <2>4. UNCHANGED <<seen, auto, shown, met>>
      BY <1>4 DEF Search, SelectTimeRange, CommitDraft
    <2>. QED  BY <2>3, <2>4, AutoPush
  <1>5. ASSUME NEW o \in Lists, SetDraftSumBy(o)
        PROVE  AutoFollows'
    BY <1>5, AutoFrame DEF SetDraftSumBy, nav
  <1>6. ASSUME NEW t \in Times, SetDraftTimeRange(t)
        PROVE  AutoFollows'
    BY <1>6, AutoFrame DEF SetDraftTimeRange, nav
  <1>7. ASSUME NEW m \in Matchers, NEW t \in Times, HandlePointClick(m, t)
        PROVE  AutoFollows'
    <2>1. url'.expr = url.expr
      BY <1>0, <1>7, PushedExpr DEF HandlePointClick, Urls
    <2>. QED  BY <1>7, <2>1, AutoFrame DEF HandlePointClick
  <1>8. ASSUME NEW t \in Times, SwitchToFifteenMinutes(t)
        PROVE  AutoFollows'
    <2>1. url'.expr = url.expr
      BY <1>0, <1>8, PushedExpr, CommittedExpr DEF SwitchToFifteenMinutes
    <2>. QED  BY <1>8, <2>1, AutoFrame DEF SwitchToFifteenMinutes
  <1>9. ASSUME NEW zoom, SetCurPath(zoom)
        PROVE  AutoFollows'
    <2>1. url'.expr = url.expr
      BY <1>0, <1>9, PushedExpr DEF SetCurPath, Urls
    <2>. QED  BY <1>9, <2>1, AutoFrame DEF SetCurPath
  <1>10. CASE ToggleGroupBy
    <2>1. url'.expr = url.expr
      BY <1>0, <1>10, PushedExpr DEF ToggleGroupBy, Urls
    <2>. QED  BY <1>10, <2>1, AutoFrame DEF ToggleGroupBy
  <1>11. ASSUME NEW f \in SUBSET Binaries, SetAppliedFilters(f)
        PROVE  AutoFollows'
    <2>1. url'.expr = url.expr
      BY <1>0, <1>11 DEF SetAppliedFilters, Replace, Urls
    <2>. QED  BY <1>11, <2>1, AutoFrame DEF SetAppliedFilters
  <1>12. ASSUME NEW p, Navigate(p)
        PROVE  AutoFollows'
    <2>. SUFFICES ASSUME "auto" \notin met'
                  PROVE  AutoFollows'
      BY DEF AutoFollows
    <2>1. ~auto /\ met' = met
      BY <1>12 DEF Navigate
    <2>2. UNCHANGED <<seen, auto, shown>> /\ seen = url
      BY <1>12, EventFinds DEF Navigate
    <2>. QED  BY <2>1, <2>2 DEF AutoFollows
  <1>13. CASE Reload
    BY <1>13 DEF Reload, Mounted, nav, AutoFollows
  <1>. QED  BY <1>1, <1>2, <1>3, <1>4, <1>5, <1>6, <1>7, <1>8, <1>9, <1>10, <1>11, <1>12,
               <1>13 DEF User

\* The safety half of PageComesToRest: the page never rests without a query.
THEOREM PageRestsWithQuery == Spec => []SettledHasQuery
  <1>1. Init => AutoFollows
    BY DEF Init, AutoFollows
  <1>2. PageInd /\ AutoFollows /\ [Next]_vars => AutoFollows'
    <2>. SUFFICES ASSUME PageInd, AutoFollows, [Next]_vars
                  PROVE  AutoFollows'
      OBVIOUS
    <2>. USE DEF page, nav
    <2>1. CASE Flush
      BY <2>1, AutoFrame DEF Flush
    <2>2. CASE TimerFires
      <3>1. url'.expr = url.expr
        BY <2>2 DEF TimerFires, Replace, PageInd, ExplorerTypeOK, Urls
      <3>. QED  BY <2>2, <3>1, AutoFrame DEF TimerFires
    <2>3. CASE TypesArrive
      BY <2>3, AutoFrame DEF TypesArrive
    <2>4. CASE \E k \in Types \X Times : LabelsArrive(k)
      BY <2>4, AutoFrame DEF LabelsArrive
    <2>5. CASE UNCHANGED vars
      BY <2>5, AutoFrame DEF vars
    <2>. QED  BY <2>1, <2>2, <2>3, <2>4, <2>5, RenderAuto, UserAuto DEF Next
  <1>3. PageInd /\ AutoFollows => SettledHasQuery
    BY AutoRests
  <1>. QED  BY <1>1, <1>2, <1>3, PageInvariance, PTL DEF Spec

===============================================================================
