-------------------------- MODULE ScrapeLoopProofs --------------------------
(***************************************************************************)
(* Proofs about ScrapeLoop, for any number of loops and of byte slices.    *)
(*                                                                         *)
(* As long as every target keeps all sample types, a slice has one owner:  *)
(* the loop that took it, or the pool, which has it once.  Where a target  *)
(* keeps only some, the slice that processScrapeResp puts back is put back *)
(* twice, the pool hands it to two owners, and what is written with the    *)
(* labels of a target is its profile only if no other loop takes slices    *)
(* from the pool.                                                          *)
(***************************************************************************)
EXTENDS ScrapeLoop, TLAPS

AllKept == \A l \in Loops : keeps[l] # "some"

\* A target that keeps some sample types is the only one with a loop.
Alone == \A l \in Loops : keeps[l] = "some" => \A k \in Loops \ {l} : keeps[k] = "off"

\* What a loop has at each point of run and processScrapeResp.
ShapeOf(l) ==
    /\ run[l].pc = "idle" => run[l] = Idle
    /\ run[l].pc # "idle" => run[l].b \in Buffers /\ keeps[l] # "off"
    /\ run[l].pc \in {"parse", "filter", "write", "return"} => run[l].out \in Buffers
    /\ run[l].pc \in {"filter", "encode"} => keeps[l] = "some"

Shape == \A l \in Loops : ShapeOf(l)

\* The slice of a loop at work was made, is not in the pool, is the one that goes to
\* the store, and is of no other loop.
OwnedBy(l) ==
    run[l].pc # "idle" =>
        /\ run[l].b \in made
        /\ pooled[run[l].b] = 0
        /\ run[l].out \in {run[l].b, None}
        /\ \A k \in Loops \ {l} : run[k].pc # "idle" => run[k].b # run[l].b

\* The pool has a slice at most once, and only those that were made.
PooledOnce == \A b \in Buffers : pooled[b] <= 1 /\ (b \notin made => pooled[b] = 0)

Owned == AllKept => PooledOnce /\ \A l \in Loops : OwnedBy(l)

\* What a loop has read or is going to write is the profile of its own target.
RightFor(l) ==
    /\ run[l].pc \in {"parse", "write"} => content[run[l].out] = l
    /\ run[l].pc \in {"filter", "encode"} => run[l].parsed = l

Right == AllKept \/ Alone => SeriesMatchLabels /\ \A l \in Loops : RightFor(l)

IndInv == TypeOK /\ Shape /\ Owned /\ Right /\ (KeepAlone => Alone)

-----------------------------------------------------------------------------
(* What a step of one loop changes. *)

Runs == [pc : Pcs, b : Buffers \cup {None}, out : Buffers \cup {None}, parsed : Loops \cup {None}]

\* A step of one loop leaves the others where they are.
LEMMA Others ==
    ASSUME TypeOK, NEW l \in Loops, NEW r \in Runs, run' = [run EXCEPT ![l] = r]
    PROVE  /\ run' \in [Loops -> Runs]
           /\ \A k \in Loops : run'[k] = IF k = l THEN r ELSE run[k]
BY DEF TypeOK, Runs

\* The configuration of the targets does not change.
LEMMA KeepsConstant ==
    ASSUME UNCHANGED keeps
    PROVE  AllKept' = AllKept /\ Alone' = Alone
BY DEF AllKept, Alone

\* Two loops at work belong to targets that keep everything.
LEMMA TwoAtWork ==
    ASSUME IndInv, AllKept \/ Alone, NEW l \in Loops, NEW k \in Loops \ {l},
           run[l].pc # "idle", run[k].pc # "idle"
    PROVE  AllKept
BY DEF IndInv, Shape, ShapeOf, AllKept, Alone

\* What a loop has at each point, after a step of one of them.
LEMMA ShapeStep ==
    ASSUME IndInv, UNCHANGED keeps, NEW l \in Loops, NEW r \in Runs, run' = [run EXCEPT ![l] = r],
           r.pc = "idle" => r = Idle,
           r.pc # "idle" => r.b \in Buffers /\ keeps[l] # "off",
           r.pc \in {"parse", "filter", "write", "return"} => r.out \in Buffers,
           r.pc \in {"filter", "encode"} => keeps[l] = "some"
    PROVE  Shape'
<1>1. \A k \in Loops : run'[k] = IF k = l THEN r ELSE run[k]
  BY Others DEF IndInv
<1>2. SUFFICES ASSUME NEW k \in Loops
               PROVE  ShapeOf(k)'
  BY DEF Shape
<1>3. CASE k = l
  <2>1. run'[k] = r
    BY <1>1, <1>3
  <2>2. QED
    BY <1>3, <2>1 DEF ShapeOf, Idle
<1>4. CASE k # l
  <2>1. run'[k] = run[k] /\ ShapeOf(k)
    BY <1>1, <1>4 DEF IndInv, Shape
  <2>2. QED
    BY <2>1 DEF ShapeOf, Idle
<1>5. QED
  BY <1>3, <1>4

\* Loop l, which becomes r, takes no slice from the others and leaves theirs alone.
KeepsOwned(l, r) ==
    AllKept =>
        /\ PooledOnce' /\ made \subseteq made'
        /\ \A k \in Loops \ {l} : run[k].pc # "idle" =>
                /\ pooled'[run[k].b] = pooled[run[k].b]
                /\ r.pc # "idle" => r.b # run[k].b
        /\ r.pc # "idle" => r.b \in made' /\ pooled'[r.b] = 0 /\ r.out \in {r.b, None}

\* Slices still have one owner after a step of one loop.
LEMMA OwnedStep ==
    ASSUME IndInv, UNCHANGED keeps, NEW l \in Loops, NEW r \in Runs, run' = [run EXCEPT ![l] = r],
           KeepsOwned(l, r)
    PROVE  Owned'
<1> USE DEF KeepsOwned
<1>1. \A k \in Loops : run'[k] = IF k = l THEN r ELSE run[k]
  BY Others DEF IndInv
<1>2. SUFFICES ASSUME AllKept, NEW k \in Loops
               PROVE  OwnedBy(k)'
  BY KeepsConstant DEF Owned
<1>3. SUFFICES ASSUME run'[k].pc # "idle"
               PROVE  /\ run'[k].b \in made'
                      /\ pooled'[run'[k].b] = 0
                      /\ run'[k].out \in {run'[k].b, None}
                      /\ \A j \in Loops \ {k} : run'[j].pc # "idle" => run'[j].b # run'[k].b
  BY DEF OwnedBy
<1>4. CASE k = l
  BY <1>1, <1>2, <1>3, <1>4
<1>5. CASE k # l
  <2>1. run'[k] = run[k] /\ OwnedBy(k) /\ run[k].pc # "idle"
    BY <1>1, <1>2, <1>3, <1>5 DEF IndInv, Owned
  <2>2. /\ run[k].b \in made' /\ pooled'[run[k].b] = 0
        /\ run[k].out \in {run[k].b, None}
    BY <1>2, <1>5, <2>1 DEF OwnedBy
  <2>3. ASSUME NEW j \in Loops \ {k}, run'[j].pc # "idle"
        PROVE  run'[j].b # run[k].b
    <3>1. CASE j = l
      BY <1>1, <1>2, <1>5, <2>1, <2>3, <3>1
    <3>2. CASE j # l
      BY <1>1, <2>1, <2>3, <3>2 DEF OwnedBy
    <3>3. QED
      BY <3>1, <3>2
  <2>4. QED
    BY <2>1, <2>2, <2>3
<1>6. QED
  BY <1>4, <1>5

\* Loop l, which becomes r, writes and has the profile of its own target, and does not
\* touch what the others are going to read.
KeepsRight(l, r) ==
    AllKept \/ Alone =>
        /\ SeriesMatchLabels'
        /\ \A k \in Loops \ {l} : run[k].pc \in {"parse", "write"} =>
                content'[run[k].out] = content[run[k].out]
        /\ r.pc \in {"parse", "write"} => content'[r.out] = l
        /\ r.pc \in {"filter", "encode"} => r.parsed = l

\* Profiles still belong to their targets after a step of one loop.
LEMMA RightStep ==
    ASSUME IndInv, UNCHANGED keeps, NEW l \in Loops, NEW r \in Runs, run' = [run EXCEPT ![l] = r],
           KeepsRight(l, r)
    PROVE  Right'
<1> USE DEF KeepsRight
<1>1. \A k \in Loops : run'[k] = IF k = l THEN r ELSE run[k]
  BY Others DEF IndInv
<1>2. SUFFICES ASSUME AllKept \/ Alone, NEW k \in Loops
               PROVE  RightFor(k)'
  BY KeepsConstant DEF Right
<1>3. CASE k = l
  BY <1>1, <1>2, <1>3 DEF RightFor
<1>4. CASE k # l
  <2>1. run'[k] = run[k] /\ RightFor(k)
    BY <1>1, <1>2, <1>4 DEF IndInv, Right
  <2>2. QED
    BY <1>2, <1>4, <2>1 DEF RightFor
<1>5. QED
  BY <1>3, <1>4

\* A slice that Get returns has no other owner.
LEMMA GetOwned ==
    ASSUME IndInv, NEW b \in Buffers, Get(b)
    PROVE  /\ pooled' \in [Buffers -> Nat] /\ made' \subseteq Buffers
           /\ AllKept =>
                /\ PooledOnce' /\ made \subseteq made'
                /\ b \in made' /\ pooled'[b] = 0
                /\ \A k \in Loops : run[k].pc # "idle" =>
                        b # run[k].b /\ pooled'[run[k].b] = pooled[run[k].b]
<1>1. pooled \in [Buffers -> Nat] /\ made \subseteq Buffers
  BY DEF IndInv, TypeOK
<1>2. pooled[b] \in Nat
  BY <1>1
<1>3. /\ pooled' \in [Buffers -> Nat] /\ made' \subseteq Buffers
      /\ \A a \in Buffers \ {b} : pooled'[a] = pooled[a]
      /\ made' = made \cup {b} \/ made' = made
  <2>1. CASE pooled[b] > 0 /\ pooled' = [pooled EXCEPT ![b] = @ - 1] /\ made' = made
    BY <1>1, <1>2, <2>1
  <2>2. CASE made' = made \cup {b} /\ pooled' = pooled
    BY <1>1, <2>2
  <2>3. QED
    BY <2>1, <2>2 DEF Get
<1>4. ASSUME AllKept
      PROVE  b \in made' /\ pooled'[b] = 0
  <2>1. PooledOnce
    BY <1>4 DEF IndInv, Owned
  <2>2. QED
    BY <1>1, <1>2, <2>1 DEF PooledOnce, Get
<1>5. ASSUME AllKept
      PROVE  PooledOnce'
  <2>1. PooledOnce
    BY <1>5 DEF IndInv, Owned
  <2>2. QED
    BY <1>3, <1>4, <1>5, <2>1 DEF PooledOnce
<1>6. ASSUME AllKept, NEW k \in Loops, run[k].pc # "idle"
      PROVE  b # run[k].b /\ pooled'[run[k].b] = pooled[run[k].b]
  <2>1. OwnedBy(k) /\ ShapeOf(k)
    BY <1>6 DEF IndInv, Owned, Shape
  <2>2. run[k].b \in made /\ pooled[run[k].b] = 0 /\ run[k].b \in Buffers
    BY <1>6, <2>1 DEF OwnedBy, ShapeOf
  <2>3. b # run[k].b
    BY <1>2, <2>2 DEF Get
  <2>4. QED
    BY <1>3, <2>2, <2>3
<1>7. QED
  BY <1>3, <1>4, <1>5, <1>6

\* The deferred Put gives the slice back once.
LEMMA PutOwned ==
    ASSUME IndInv, NEW l \in Loops, run[l].pc # "idle", Put(run[l].b)
    PROVE  /\ pooled' \in [Buffers -> Nat]
           /\ AllKept /\ made' = made =>
                /\ PooledOnce'
                /\ \A k \in Loops \ {l} : run[k].pc # "idle" =>
                        pooled'[run[k].b] = pooled[run[k].b]
<1>1. pooled \in [Buffers -> Nat] /\ run[l].b \in Buffers
  BY DEF IndInv, TypeOK, Shape, ShapeOf
<1>2. pooled[run[l].b] \in Nat
  BY <1>1
<1>3. /\ pooled' \in [Buffers -> Nat]
      /\ \A a \in Buffers : pooled'[a] = IF a = run[l].b THEN pooled[a] + 1 ELSE pooled[a]
  BY <1>1, <1>2 DEF Put
<1>4. ASSUME AllKept, made' = made
      PROVE  PooledOnce'
  <2>1. PooledOnce /\ OwnedBy(l)
    BY <1>4 DEF IndInv, Owned
  <2>2. run[l].b \in made /\ pooled[run[l].b] = 0
    BY <2>1 DEF OwnedBy
  <2>3. QED
    BY <1>3, <1>4, <2>1, <2>2 DEF PooledOnce
<1>5. ASSUME AllKept, NEW k \in Loops \ {l}, run[k].pc # "idle"
      PROVE  pooled'[run[k].b] = pooled[run[k].b]
  <2>1. OwnedBy(l) /\ run[k].b \in Buffers
    BY <1>5 DEF IndInv, Owned, Shape, ShapeOf
  <2>2. run[k].b # run[l].b
    BY <1>5, <2>1 DEF OwnedBy
  <2>3. QED
    BY <1>3, <2>1, <2>2
<1>6. QED
  BY <1>3, <1>4, <1>5

\* Slices of other loops that are going to be read keep their content when a loop
\* writes into its own.
LEMMA ContentOfOthers ==
    ASSUME IndInv, AllKept \/ Alone, NEW l \in Loops, run[l].pc # "idle", NEW p,
           content' = [content EXCEPT ![run[l].b] = p],
           NEW k \in Loops \ {l}, run[k].pc \in {"parse", "write"}
    PROVE  content'[run[k].out] = content[run[k].out]
<1>1. AllKept
  BY TwoAtWork
<1>2. OwnedBy(l) /\ OwnedBy(k) /\ ShapeOf(k)
  BY <1>1 DEF IndInv, Owned, Shape
<1>3. run[k].out \in Buffers /\ run[k].out # run[l].b
  BY <1>2, LoopAssumption DEF OwnedBy, ShapeOf
<1>4. QED
  BY <1>3 DEF IndInv, TypeOK

-----------------------------------------------------------------------------
\* All loops are idle and the pool of buffers is empty.
LEMMA InitInv == Init => IndInv
<1> SUFFICES ASSUME Init
             PROVE  IndInv
  OBVIOUS
<1>1. Idle \in Runs
  BY DEF Idle, Runs, Pcs
<1>2. TypeOK
  BY <1>1 DEF Init, TypeOK, Runs
<1>3. \A l \in Loops : run[l] = Idle /\ run[l].pc = "idle"
  BY DEF Init, Idle
<1>4. Shape
  BY <1>3 DEF Shape, ShapeOf
<1>5. Owned
  BY <1>3 DEF Owned, OwnedBy, PooledOnce, Init
<1>6. Right
  BY <1>3 DEF Right, RightFor, SeriesMatchLabels, Init
<1>7. QED
  BY <1>2, <1>4, <1>5, <1>6 DEF IndInv, Init, Alone

\* Each step of a loop keeps the invariant.
LEMMA NextInv == IndInv /\ [Next]_vars => IndInv'
<1> SUFFICES ASSUME IndInv, [Next]_vars
             PROVE  IndInv'
  OBVIOUS
<1>t. TypeOK /\ run \in [Loops -> Runs] /\ (KeepAlone => Alone)
  BY DEF IndInv, TypeOK, Runs
<1>i. Idle \in Runs /\ Idle.pc = "idle"
  BY DEF Idle, Runs, Pcs
<1>1. ASSUME NEW l \in Loops, NEW b \in Buffers, GetBuffer(l, b)
      PROVE  IndInv'
  <2> USE <1>1 DEF GetBuffer
  <2> DEFINE r == [Idle EXCEPT !.pc = "scrape", !.b = b]
  <2>1. /\ r \in Runs /\ r.pc = "scrape" /\ r.b = b /\ r.out = None
        /\ run' = [run EXCEPT ![l] = r]
    BY DEF Idle, Runs, Pcs
  <2> HIDE DEF r
  <2>2. TypeOK'
    <3>1. run' \in [Loops -> Runs]
      BY <1>t, <2>1, Others
    <3>2. pooled' \in [Buffers -> Nat] /\ made' \subseteq Buffers
      BY GetOwned
    <3>3. QED
      BY <1>t, <3>1, <3>2 DEF TypeOK, Runs
  <2>3. Shape'
    BY <2>1, ShapeStep
  <2>4. Owned'
    <3>1. AllKept =>
            /\ PooledOnce' /\ made \subseteq made'
            /\ b \in made' /\ pooled'[b] = 0
            /\ \A k \in Loops : run[k].pc # "idle" =>
                    b # run[k].b /\ pooled'[run[k].b] = pooled[run[k].b]
      BY GetOwned
    <3>2. KeepsOwned(l, r)
      BY <2>1, <3>1 DEF KeepsOwned
    <3>3. QED
      BY <2>1, <3>2, OwnedStep
  <2>5. SeriesMatchLabels' = SeriesMatchLabels
    BY DEF SeriesMatchLabels
  <2>6. Right'
    <3>1. KeepsRight(l, r)
      BY <2>1, <2>5 DEF KeepsRight, IndInv, Right
    <3>2. QED
      BY <2>1, <3>1, RightStep
  <2>7. QED
    BY <1>t, <2>2, <2>3, <2>4, <2>6, KeepsConstant DEF IndInv
<1>2. ASSUME NEW l \in Loops, ScrapeFailed(l)
      PROVE  IndInv'
  <2> USE <1>2 DEF ScrapeFailed
  <2>1. TypeOK'
    BY <1>t, <1>i, Others DEF TypeOK, Runs
  <2>2. Shape'
    BY <1>i, ShapeStep
  <2>3. Owned'
    <3>1. PooledOnce' = PooledOnce
      BY DEF PooledOnce
    <3>2. KeepsOwned(l, Idle)
      BY <1>i, <3>1 DEF KeepsOwned, IndInv, Owned
    <3>3. QED
      BY <1>i, <3>2, OwnedStep
  <2>4. Right'
    <3>1. SeriesMatchLabels' = SeriesMatchLabels
      BY DEF SeriesMatchLabels
    <3>2. ASSUME AllKept \/ Alone, NEW k \in Loops \ {l}, run[k].pc \in {"parse", "write"}
          PROVE  content'[run[k].out] = content[run[k].out]
      BY <3>2, ContentOfOthers
    <3>3. KeepsRight(l, Idle)
      BY <1>i, <3>1, <3>2 DEF KeepsRight, IndInv, Right
    <3>4. QED
      BY <1>i, <3>3, RightStep
  <2>5. QED
    BY <1>t, <2>1, <2>2, <2>3, <2>4, KeepsConstant DEF IndInv
<1>3. ASSUME NEW l \in Loops, ScrapeOk(l)
      PROVE  IndInv'
  <2> USE <1>3 DEF ScrapeOk
  <2> DEFINE r == [run[l] EXCEPT !.pc = "parse", !.out = run[l].b]
  <2>0. run[l] \in Runs /\ run[l].b \in Buffers /\ keeps[l] # "off"
    BY <1>t DEF IndInv, Shape, ShapeOf
  <2>1. /\ r \in Runs /\ r.pc = "parse" /\ r.b = run[l].b /\ r.out = run[l].b
        /\ run' = [run EXCEPT ![l] = r]
    BY <1>t, <2>0 DEF Runs, Pcs
  <2> HIDE DEF r
  <2>2. TypeOK'
    <3>1. run' \in [Loops -> Runs]
      BY <1>t, <2>1, Others
    <3>2. content' \in [Buffers -> Loops \cup {None}]
      BY <1>t DEF TypeOK
    <3>3. QED
      BY <1>t, <3>1, <3>2 DEF TypeOK, Runs
  <2>3. Shape'
    BY <2>0, <2>1, ShapeStep
  <2>4. Owned'
    <3>1. PooledOnce' = PooledOnce
      BY DEF PooledOnce
    <3>2. AllKept => OwnedBy(l) /\ PooledOnce
      BY DEF IndInv, Owned
    <3>3. AllKept =>
            /\ run[l].b \in made /\ pooled[run[l].b] = 0 /\ run[l].out \in {run[l].b, None}
            /\ \A k \in Loops \ {l} : run[k].pc # "idle" => run[l].b # run[k].b
      BY <3>2 DEF OwnedBy
    <3>4. KeepsOwned(l, r)
      BY <2>1, <3>1, <3>2, <3>3 DEF KeepsOwned
    <3>5. QED
      BY <2>1, <3>4, OwnedStep
  <2>5. Right'
    <3>1. SeriesMatchLabels' = SeriesMatchLabels
      BY DEF SeriesMatchLabels
    <3>2. ASSUME AllKept \/ Alone, NEW k \in Loops \ {l}, run[k].pc \in {"parse", "write"}
          PROVE  content'[run[k].out] = content[run[k].out]
      BY <3>2, ContentOfOthers
    <3>3. content'[r.out] = l
      BY <1>t, <2>0, <2>1 DEF TypeOK
    <3>4. KeepsRight(l, r)
      BY <2>1, <3>1, <3>2, <3>3 DEF KeepsRight, IndInv, Right
    <3>5. QED
      BY <2>1, <3>4, RightStep
  <2>6. QED
    BY <1>t, <2>2, <2>3, <2>4, <2>5, KeepsConstant DEF IndInv
<1>4. ASSUME NEW l \in Loops, ParseData(l)
      PROVE  IndInv'
  <2> USE <1>4 DEF ParseData
  <2> DEFINE r == [run[l] EXCEPT !.pc = IF keeps[l] = "some" THEN "filter" ELSE "write",
                                 !.parsed = content[run[l].out]]
  <2>0. /\ run[l] \in Runs /\ run[l].b \in Buffers /\ keeps[l] # "off"
        /\ run[l].out \in Buffers /\ content[run[l].out] \in Loops \cup {None}
    BY <1>t DEF IndInv, TypeOK, Shape, ShapeOf
  <2>1. /\ r \in Runs /\ r.b = run[l].b /\ r.out = run[l].out
        /\ r.parsed = content[run[l].out]
        /\ r.pc = IF keeps[l] = "some" THEN "filter" ELSE "write"
        /\ run' = [run EXCEPT ![l] = r]
    BY <1>t, <2>0 DEF Runs, Pcs
  <2> HIDE DEF r
  <2>2. TypeOK'
    BY <1>t, <2>1, Others DEF TypeOK, Runs
  <2>3. Shape'
    BY <2>0, <2>1, ShapeStep
  <2>4. Owned'
    <3>1. PooledOnce' = PooledOnce
      BY DEF PooledOnce
    <3>2. AllKept => OwnedBy(l) /\ PooledOnce
      BY DEF IndInv, Owned
    <3>3. AllKept =>
            /\ run[l].b \in made /\ pooled[run[l].b] = 0 /\ run[l].out \in {run[l].b, None}
            /\ \A k \in Loops \ {l} : run[k].pc # "idle" => run[l].b # run[k].b
      BY <3>2 DEF OwnedBy
    <3>4. KeepsOwned(l, r)
      BY <2>1, <3>1, <3>2, <3>3 DEF KeepsOwned
    <3>5. QED
      BY <2>1, <3>4, OwnedStep
  <2>5. Right'
    <3>1. SeriesMatchLabels' = SeriesMatchLabels
      BY DEF SeriesMatchLabels
    <3>2. AllKept \/ Alone => content[run[l].out] = l
      BY DEF IndInv, Right, RightFor
    <3>3. AllKept \/ Alone => SeriesMatchLabels
      BY DEF IndInv, Right
    <3>4. KeepsRight(l, r)
      BY <2>1, <3>1, <3>2, <3>3 DEF KeepsRight
    <3>5. QED
      BY <2>1, <3>4, RightStep
  <2>6. QED
    BY <1>t, <2>2, <2>3, <2>4, <2>5, KeepsConstant DEF IndInv
<1>5. ASSUME NEW l \in Loops, FilterPut(l)
      PROVE  IndInv'
  <2> USE <1>5 DEF FilterPut
  <2> DEFINE r == [run[l] EXCEPT !.pc = "encode", !.out = None]
  <2>0. /\ run[l] \in Runs /\ run[l].b \in Buffers /\ keeps[l] # "off" /\ keeps[l] = "some"
    BY <1>t DEF IndInv, Shape, ShapeOf
  <2>1. /\ r \in Runs /\ r.b = run[l].b /\ r.pc = "encode" /\ r.parsed = run[l].parsed
        /\ run' = [run EXCEPT ![l] = r]
    BY <1>t, <2>0 DEF Runs, Pcs
  <2> HIDE DEF r
  <2>2. TypeOK'
    BY <1>t, <2>1, Others, PutOwned DEF TypeOK, Runs
  <2>3. Shape'
    BY <2>0, <2>1, ShapeStep
  <2>4. Owned'
    BY <2>0, KeepsConstant DEF Owned, AllKept
  <2>5. Right'
    <3>1. SeriesMatchLabels' = SeriesMatchLabels
      BY DEF SeriesMatchLabels
    <3>2. AllKept \/ Alone => run[l].parsed = l
      BY DEF IndInv, Right, RightFor
    <3>3. KeepsRight(l, r)
      BY <2>1, <3>1, <3>2 DEF KeepsRight, IndInv, Right
    <3>4. QED
      BY <2>1, <3>3, RightStep
  <2>6. QED
    BY <1>t, <2>2, <2>3, <2>4, <2>5, KeepsConstant DEF IndInv
<1>6. ASSUME NEW l \in Loops, NEW b \in Buffers, FilterWrite(l, b)
      PROVE  IndInv'
  <2> USE <1>6 DEF FilterWrite
  <2> DEFINE r == [run[l] EXCEPT !.pc = "write", !.out = b]
  <2>0. /\ run[l] \in Runs /\ run[l].b \in Buffers /\ keeps[l] # "off" /\ keeps[l] = "some"
        /\ run[l].parsed \in Loops \cup {None}
    BY <1>t DEF IndInv, Shape, ShapeOf, Runs
  <2>1. /\ r \in Runs /\ r.b = run[l].b /\ r.pc = "write" /\ r.out = b
        /\ run' = [run EXCEPT ![l] = r]
    BY <1>t, <2>0 DEF Runs, Pcs
  <2> HIDE DEF r
  <2>2. TypeOK'
    BY <1>t, <2>0, <2>1, Others, GetOwned DEF TypeOK, Runs
  <2>3. Shape'
    BY <2>0, <2>1, ShapeStep
  <2>4. Owned'
    BY <2>0, KeepsConstant DEF Owned, AllKept
  <2>5. Right'
    <3>1. SeriesMatchLabels' = SeriesMatchLabels
      BY DEF SeriesMatchLabels
    <3>2. AllKept \/ Alone => run[l].parsed = l
      BY DEF IndInv, Right, RightFor
    <3>3. content'[b] = run[l].parsed
      BY <1>t DEF TypeOK
    <3>4. ASSUME AllKept \/ Alone, NEW k \in Loops \ {l}
          PROVE  run[k].pc = "idle"
      BY <2>0, <3>4, TwoAtWork DEF AllKept
    <3>5. AllKept \/ Alone => SeriesMatchLabels
      BY DEF IndInv, Right
    <3>6. KeepsRight(l, r)
      BY <2>1, <3>1, <3>2, <3>3, <3>4, <3>5 DEF KeepsRight
    <3>7. QED
      BY <2>1, <3>6, RightStep
  <2>6. QED
    BY <1>t, <2>2, <2>3, <2>4, <2>5, KeepsConstant DEF IndInv
<1>7. ASSUME NEW l \in Loops, ProcessFailed(l) \/ ProcessOk(l)
      PROVE  IndInv'
  <2> USE <1>7 DEF ProcessFailed, ProcessOk
  <2>0. /\ run[l].pc # "idle" /\ Put(run[l].b) /\ run' = [run EXCEPT ![l] = Idle]
        /\ UNCHANGED <<keeps, made, content, series>>
    OBVIOUS
  <2>1. TypeOK'
    BY <1>t, <1>i, <2>0, Others, PutOwned DEF TypeOK, Runs, HealthGood
  <2>2. Shape'
    BY <1>i, <2>0, ShapeStep
  <2>3. Owned'
    <3>1. KeepsOwned(l, Idle)
      BY <1>i, <2>0, PutOwned DEF KeepsOwned
    <3>2. QED
      BY <1>i, <2>0, <3>1, OwnedStep
  <2>4. Right'
    <3>1. SeriesMatchLabels' = SeriesMatchLabels
      BY <2>0 DEF SeriesMatchLabels
    <3>2. KeepsRight(l, Idle)
      BY <1>i, <2>0, <3>1 DEF KeepsRight, IndInv, Right
    <3>3. QED
      BY <1>i, <2>0, <3>2, RightStep
  <2>5. QED
    BY <1>t, <2>0, <2>1, <2>2, <2>3, <2>4, KeepsConstant DEF IndInv
<1>8. ASSUME NEW l \in Loops, WriteRaw(l)
      PROVE  IndInv'
  <2> USE <1>8 DEF WriteRaw
  <2> DEFINE r == [run[l] EXCEPT !.pc = "return"]
  <2>0. /\ run[l] \in Runs /\ run[l].b \in Buffers /\ keeps[l] # "off"
        /\ run[l].out \in Buffers /\ content[run[l].out] \in Loops \cup {None}
    BY <1>t DEF IndInv, TypeOK, Shape, ShapeOf
  <2>1. /\ r \in Runs /\ r.b = run[l].b /\ r.out = run[l].out /\ r.pc = "return"
        /\ run' = [run EXCEPT ![l] = r]
    BY <1>t, <2>0 DEF Runs, Pcs
  <2> HIDE DEF r
  <2>2. TypeOK'
    BY <1>t, <2>0, <2>1, Others DEF TypeOK, Runs
  <2>3. Shape'
    BY <2>0, <2>1, ShapeStep
  <2>4. Owned'
    <3>1. PooledOnce' = PooledOnce
      BY DEF PooledOnce
    <3>2. AllKept => OwnedBy(l) /\ PooledOnce
      BY DEF IndInv, Owned
    <3>3. AllKept =>
            /\ run[l].b \in made /\ pooled[run[l].b] = 0 /\ run[l].out \in {run[l].b, None}
            /\ \A k \in Loops \ {l} : run[k].pc # "idle" => run[l].b # run[k].b
      BY <3>2 DEF OwnedBy
    <3>4. KeepsOwned(l, r)
      BY <2>1, <3>1, <3>2, <3>3 DEF KeepsOwned
    <3>5. QED
      BY <2>1, <3>4, OwnedStep
  <2>5. Right'
    <3>1. AllKept \/ Alone => content[run[l].out] = l /\ SeriesMatchLabels
      BY DEF IndInv, Right, RightFor
    <3>2. AllKept \/ Alone => SeriesMatchLabels'
      BY <3>1 DEF SeriesMatchLabels
    <3>3. KeepsRight(l, r)
      BY <2>1, <3>2 DEF KeepsRight
    <3>4. QED
      BY <2>1, <3>3, RightStep
  <2>6. QED
    BY <1>t, <2>2, <2>3, <2>4, <2>5, KeepsConstant DEF IndInv
<1>9. CASE UNCHANGED vars
  BY <1>9 DEF vars, IndInv, TypeOK, Shape, ShapeOf, Owned, AllKept, PooledOnce, OwnedBy,
              Right, RightFor, SeriesMatchLabels, Alone
<1>10. QED
  BY <1>1, <1>2, <1>3, <1>4, <1>5, <1>6, <1>7, <1>8, <1>9 DEF Next

\* The inductive invariant holds in every reachable state.
THEOREM Invariance == Spec => []IndInv
<1>1. QED
  BY InitInv, NextInv, PTL DEF Spec

\* Loops, slices and the history of the store stay within their types.
THEOREM TypeCorrect == Spec => []TypeOK
<1>1. IndInv => TypeOK
  BY DEF IndInv
<1>2. QED
  BY <1>1, Invariance, PTL

\* Among targets that keep all sample types no slice has two users, however many loops
\* share the pool of buffers and whichever scrapes fail.
THEOREM SlicesHaveOneUser == Spec => []BuffersAreNotShared
<1>1. IndInv => BuffersAreNotShared
  <2> SUFFICES ASSUME IndInv, AllKept, NEW l \in Loops, NEW b \in Held(l)
               PROVE  pooled[b] = 0 /\ \A k \in Loops \ {l} : b \notin Held(k)
    BY DEF BuffersAreNotShared, AllKept
  <2>1. ASSUME NEW k \in Loops, Held(k) # {}
        PROVE  run[k].pc # "idle" /\ Held(k) = {run[k].b}
    <3>1. run[k].pc # "idle"
      BY <2>1 DEF IndInv, Shape, ShapeOf, Held, Idle
    <3>2. OwnedBy(k) /\ run[k].b \in Buffers
      BY <3>1 DEF IndInv, Owned, Shape, ShapeOf
    <3>3. QED
      BY <3>1, <3>2, LoopAssumption DEF OwnedBy, Held
  <2>2. run[l].pc # "idle" /\ b = run[l].b /\ OwnedBy(l)
    BY <2>1 DEF IndInv, Owned
  <2>3. QED
    BY <2>1, <2>2 DEF OwnedBy
<1>2. QED
  BY <1>1, Invariance, PTL

\* Unless a target that keeps only some sample types shares the pool of buffers with
\* another one, every series is the profile of the target whose labels it has.
THEOREM SeriesAreOfTheirTarget == KeepAlone => (Spec => []SeriesMatchLabels)
<1>1. SUFFICES ASSUME KeepAlone
               PROVE  Spec => []SeriesMatchLabels
  OBVIOUS
<1>2. IndInv => SeriesMatchLabels
  BY <1>1 DEF IndInv, Right
<1>3. QED
  BY <1>2, Invariance, PTL

=============================================================================
