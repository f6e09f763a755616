------------------------- MODULE PageLatchesProofs -------------------------
(***************************************************************************)
(* Writers never wait for each other in a circle, for any tree, any number *)
(* of writers and readers and any page numbers.  The inductive invariant   *)
(* says what a writer owns at each step: nothing while it plans or between *)
(* two flips, and only lower pages while it asks for the next one.         *)
(***************************************************************************)
EXTENDS PageLatches, TLAPS, WellFoundedInduction

\* The time the SMT solver may take for a leaf that names no prover.
USE SMTT(60)

\* What the tree must be: pages are bounded naturals, paths and leaf links
\* stay inside the tree, and a thread reads or writes.
TreeOK(bound) ==
  /\ bound \in Nat /\ Level \in Nat
  /\ Pages \subseteq 0..bound
  /\ \A k \in Keys : Path(k) \subseteq Pages /\ LeafOf(k) \in Leaves
  /\ \A leaf \in Leaves : {PrevLeaf[leaf], NextLeaf[leaf]} \subseteq Leaves \cup {NoPage}
  /\ Readers \cap Writers = {}

\* A set of naturals that is not empty has a least element.
LEMMA LeastNatural ==
  ASSUME NEW S \in SUBSET Nat, S # {}
  PROVE  \E n \in S : \A m \in S : n <= m
<1>1. PICK n \in S : \A m \in S : ~(<<m, n>> \in OpToRel(<, Nat))
  BY NatLessThanWellFounded, WFMin, Zenon
<1>2. \A m \in S : ~(m < n)
  BY <1>1, Zenon DEF OpToRel
<1> QED BY <1>2

\* The first page that acquire_pages latches is one of the pages to latch.
LEMMA LowestIn ==
  ASSUME NEW S \in SUBSET Nat, S # {}
  PROVE  Lowest(S) \in S
BY LeastNatural, Zenon DEF Lowest

\* A bounded set of naturals that is not empty has a greatest element.
LEMMA GreatestNatural ==
  ASSUME NEW bound \in Nat, NEW S \in SUBSET (0..bound), S # {}
  PROVE  \E n \in S : \A m \in S : m <= n
<1>1. \A n \in S : n \in Int /\ 0 <= n /\ n <= bound
  OBVIOUS
<1> DEFINE T == {d \in Nat : \E n \in S : d = bound - n}
<1>2. \A n \in S : bound - n \in T
  BY <1>1
<1>3. T \in SUBSET Nat /\ T # {}
  BY <1>2, Zenon
<1>4. PICK d \in T : \A e \in T : d <= e
  <2> HIDE DEF T
  <2> QED BY <1>3, LeastNatural, Zenon
<1>5. PICK n \in S : d = bound - n
  BY <1>4, Zenon
<1>6. ASSUME NEW m \in S PROVE m <= n
  <2>1. d <= bound - m
    BY <1>2, <1>4, Zenon
  <2> QED BY <2>1, <1>1, <1>5
<1> QED BY <1>6, Zenon

\* What a writer owns, by the step it is at.
Holds(w) ==
  /\ pc[w] \in {"idle", "plan", "claim", "drain", "check", "flipShare", "flipClaim", "flipDrain"}
  /\ targets[w] \in SUBSET Targets
  /\ need[w] \in SUBSET Pages
  /\ pc[w] # "idle" => targets[w] # {}
  /\ pc[w] \notin {"idle", "plan"} => page[w] \in Pages
  /\ pc[w] \in {"idle", "plan", "flipShare", "flipClaim"} => \A p \in Pages : w \notin writer[p]
  /\ pc[w] = "claim" => \A p \in Pages : w \in writer[p] => p < page[w]
  /\ pc[w] = "drain" => \A p \in Pages : w \in writer[p] => p <= page[w]

\* The inductive invariant.
LatchInv ==
  /\ writer \in [Pages -> SUBSET Writers]
  /\ sharers \in [Pages -> SUBSET Readers]
  /\ DOMAIN pc = Threads /\ DOMAIN page = Threads
  /\ DOMAIN targets = Writers /\ DOMAIN need = Writers
  /\ \A w \in Writers : Holds(w)

\* No writer waits in a circle when every writer owns what Holds says: the
\* one that waits for the highest page waits for a writer that waits for a
\* higher one.
LEMMA NoCycle ==
  ASSUME NEW bound, TreeOK(bound), LatchInv
  PROVE  WritersNeverCycle
<1> SUFFICES ASSUME NEW S \in SUBSET Writers, Cycle(S) PROVE FALSE
  BY Zenon DEF WritersNeverCycle
<1>1. \A t \in S : /\ pc[t] \in {"claim", "flipClaim", "flipShare"}
                   /\ page[t] \in Pages
                   /\ \E u \in S : u \in writer[page[t]]
  <2> TAKE t \in S
  <2>1. WaitsFor(t) \cap S # {}
    BY Zenon DEF Cycle
  <2>2. Holds(t)
    BY Zenon DEF LatchInv
  <2>3. pc[t] \in {"drain", "flipDrain"} => WaitsFor(t) \cap S = {}
    BY <2>2, Zenon DEF LatchInv, Holds, WaitsFor, TreeOK
  <2>4. pc[t] \in {"idle", "plan", "check"} => WaitsFor(t) = {}
    BY Zenon DEF WaitsFor
  <2>5. pc[t] \in {"claim", "flipClaim", "flipShare"}
    BY <2>1, <2>2, <2>3, <2>4, Zenon DEF Holds
  <2>6. WaitsFor(t) = writer[page[t]]
    BY <2>5, Zenon DEF WaitsFor
  <2> QED BY <2>1, <2>2, <2>5, <2>6, Zenon DEF Holds
<1>2. \A t \in S : page[t] \in 0..bound /\ page[t] \in Int
  <2>1. bound \in Nat /\ Pages \subseteq 0..bound
    BY Zenon DEF TreeOK
  <2>2. \A t \in S : page[t] \in 0..bound
    BY <2>1, <1>1, Zenon
  <2>3. \A p \in 0..bound : p \in Int
    BY <2>1
  <2> QED BY <2>2, <2>3, Zenon
<1>3. ASSUME NEW t \in S PROVE \E u \in S : page[t] < page[u]
  <2>1. PICK u \in S : u \in writer[page[t]]
    BY <1>1, Zenon
  <2>2. Holds(u)
    BY Zenon DEF LatchInv
  <2>3. pc[u] = "claim"
    BY <1>1, <2>1, <2>2, Zenon DEF Holds
  <2> QED BY <1>1, <2>1, <2>2, <2>3, Zenon DEF Holds
<1> DEFINE W == {p \in 0..bound : \E t \in S : p = page[t]}
<1>4. W # {} /\ bound \in Nat
  BY <1>2, Zenon DEF TreeOK, Cycle
<1>5. PICK n \in W : \A m \in W : m <= n
  <2>1. W \in SUBSET (0..bound)
    BY Zenon
  <2> HIDE DEF W
  <2> QED BY <2>1, <1>4, GreatestNatural, Zenon
<1>6. PICK t \in S : n = page[t]
  BY <1>5, Zenon
<1>7. PICK u \in S : n < page[u]
  BY <1>3, <1>6, Zenon
<1>8. page[u] <= n
  BY <1>2, <1>5, Zenon
<1> QED BY <1>2, <1>6, <1>7, <1>8

\* Every page a batch needs is a page of the tree, and there is one.
LEMMA NeedOK ==
  ASSUME NEW bound, TreeOK(bound), NEW shapes, DOMAIN shapes \in SUBSET Targets, DOMAIN shapes # {}
  PROVE  RequiredPages(shapes) \in SUBSET Pages /\ RequiredPages(shapes) # {}
<1>1. \A t \in Targets : t.key \in Keys
  BY Zenon DEF Targets
<1>2. \A t \in Targets : Siblings(t) \subseteq Pages
  BY <1>1, Zenon DEF Siblings, TreeOK, Pages
<1>3. \A t \in Targets : Path(t.key) \subseteq Pages /\ LeafOf(t.key) \in Pages
  BY <1>1, Zenon DEF TreeOK, Pages
<1>4. RequiredPages(shapes) \subseteq Pages
  BY <1>2, <1>3, Zenon DEF RequiredPages
<1>5. \A t \in Targets : LeafOf(t.key) \in Path(t.key)
  <2>1. Level \in 0..Level
    BY DEF TreeOK
  <2> QED BY <2>1, Zenon DEF Path, LeafOf
<1>6. PICK t \in DOMAIN shapes : t \in Targets
  BY Zenon
<1>7. LeafOf(t.key) \in RequiredPages(shapes)
  BY <1>5, <1>6 DEF RequiredPages
<1> QED BY <1>4, <1>7, Zenon

\* A step that changes neither the state of a writer nor what it owns keeps
\* what Holds says of it.
LEMMA HoldsSame ==
  ASSUME NEW w, Holds(w), pc'[w] = pc[w], page'[w] = page[w],
         targets'[w] = targets[w], need'[w] = need[w],
         \A p \in Pages : w \in writer'[p] => w \in writer[p]
  PROVE  Holds(w)'
BY Zenon DEF Holds, Pages, Leaves, Targets, Ops

\* The steps of a reader change no writer and own no page exclusively.
LEMMA ReaderKeeps ==
  ASSUME NEW bound, TreeOK(bound), LatchInv, NEW r \in Readers, ReaderStep(r)
  PROVE  LatchInv'
<1>1. r \in Threads /\ \A w \in Writers : w \in Threads /\ w # r
  BY Zenon DEF Threads, TreeOK
<1>2. /\ sharers' \in [Pages -> SUBSET Readers]
      /\ writer' = writer /\ targets' = targets /\ need' = need
      /\ DOMAIN pc' = Threads /\ DOMAIN page' = Threads
      /\ \A w \in Writers : pc'[w] = pc[w] /\ page'[w] = page[w]
  <2> USE <1>1 DEF LatchInv, latchVars, planVars
  <2>1. ASSUME NEW k \in Keys, NEW scan \in BOOLEAN, StartRead(r, k, scan) PROVE <1>2
    BY <2>1, Zenon DEF StartRead
  <2>2. CASE Descend(r)
    BY <2>2 DEF Descend, ShareOnly
  <2>3. CASE ReadLeaf(r)
    BY <2>3, Zenon DEF ReadLeaf, ShareOnly
  <2> QED BY <2>1, <2>2, <2>3, Zenon DEF ReaderStep
<1>3. \A w \in Writers : Holds(w)'
  BY <1>2, HoldsSame, Zenon DEF LatchInv
<1> QED BY <1>2, <1>3, Zenon DEF LatchInv, Pages, Leaves, Threads

\* A step of a writer keeps the invariant when the writer itself ends up
\* with what Holds allows and takes only its own pages.
LEMMA WriterFrame ==
  ASSUME NEW bound, TreeOK(bound), LatchInv, NEW w \in Writers,
         sharers' = sharers,
         writer' \in [Pages -> SUBSET Writers],
         \A v \in Writers \ {w}, p \in Pages : v \in writer'[p] => v \in writer[p],
         DOMAIN pc' = Threads, DOMAIN page' = Threads,
         DOMAIN targets' = Writers, DOMAIN need' = Writers,
         \A v \in Writers \ {w} : /\ pc'[v] = pc[v] /\ page'[v] = page[v]
                                  /\ targets'[v] = targets[v] /\ need'[v] = need[v],
         Holds(w)'
  PROVE  LatchInv'
<1>1. \A v \in Writers \ {w} : Holds(v)'
  BY HoldsSame, Zenon DEF LatchInv
<1> QED BY <1>1, Zenon DEF LatchInv, Pages, Leaves, Threads

\* The steps of a writer.  Claiming a page needs that the page was free, and
\* the choice of the next page that it is a higher one.
LEMMA WriterKeeps ==
  ASSUME NEW bound, TreeOK(bound), LatchInv, NEW w \in Writers, WriterStep(w)
  PROVE  LatchInv'
<1>1. w \in Threads /\ Holds(w) /\ Pages \subseteq Nat
  <2>1. bound \in Nat /\ Pages \subseteq 0..bound
    BY Zenon DEF TreeOK
  <2> QED BY <2>1 DEF LatchInv, Threads
<1>2. ASSUME NEW batch \in Batches, StartInstall(w, batch) PROVE LatchInv'
  <2>1. batch \in SUBSET Targets /\ batch # {}
    BY DEF Batches
  <2>2. Holds(w)'
    BY <1>1, <1>2, <2>1, Zenon DEF StartInstall, Holds, LatchInv, latchVars, Pages, Leaves, Targets, Ops
  <2> QED BY <1>2, <2>2, WriterFrame DEF StartInstall, LatchInv, latchVars
<1>3. ASSUME NEW t \in Targets, Classify(w, t) PROVE LatchInv'
  <2>1. Holds(w)'
    BY <1>1, <1>3, HoldsSame, Zenon DEF Classify, latchVars
  <2> QED BY <1>3, <2>1, WriterFrame, Zenon DEF Classify, LatchInv, latchVars
<1>4. CASE Planned(w)
  <2>1. RequiredPages(shape[w]) \in SUBSET Pages /\ RequiredPages(shape[w]) # {}
    BY <1>1, <1>4, NeedOK, Zenon DEF Planned, Holds
  <2>2. Lowest(RequiredPages(shape[w])) \in Pages
    BY <1>1, <2>1, LowestIn, Zenon
  <2>3. Holds(w)'
    BY <1>1, <1>4, <2>1, <2>2, Zenon DEF Planned, Holds, LatchInv, latchVars, Pages, Leaves, Targets, Ops
  <2> QED BY <1>4, <2>3, WriterFrame DEF Planned, LatchInv, latchVars
<1>5. CASE Claim(w)
  <2>1. page[w] \in Pages /\ writer[page[w]] = {}
    BY <1>1, <1>5, Zenon DEF Claim, MayClaim, Holds
  <2>2. writer' \in [Pages -> SUBSET Writers]
    BY <1>5, <2>1, Zenon DEF Claim, LatchInv
  <2>3. \A p \in Pages : writer'[p] = IF p = page[w] THEN {w} ELSE writer[p]
    BY <1>5, Zenon DEF Claim, LatchInv
  <2>4. Holds(w)'
    BY <1>1, <1>5, <2>1, <2>3
       DEF Claim, Holds, LatchInv, latchVars, planVars, Pages, Leaves, Targets, Ops
  <2> QED BY <1>5, <2>2, <2>3, <2>4, WriterFrame DEF Claim, LatchInv, planVars
<1>6. CASE Acquired(w)
  <2>1. Higher(w) \in SUBSET Pages /\ \A p \in Higher(w) : page[w] < p
    BY <1>1, <1>6, Zenon DEF Higher, Holds, Acquired
  <2>2. Higher(w) # {} => Lowest(Higher(w)) \in Higher(w)
    BY <1>1, <2>1, LowestIn, Zenon
  <2>3. Holds(w)'
    BY <1>1, <1>6, <2>1, <2>2
       DEF Acquired, Holds, LatchInv, latchVars, planVars, Pages, Leaves, Targets, Ops
  <2>4. /\ DOMAIN pc' = Threads /\ DOMAIN page' = Threads
        /\ \A v \in Writers \ {w} : pc'[v] = pc[v] /\ page'[v] = page[v]
    <3>1. CASE Higher(w) = {}
      BY <1>6, <3>1, Zenon DEF Acquired, LatchInv, Threads
    <3>2. CASE Higher(w) # {}
      BY <1>6, <3>2, Zenon DEF Acquired, LatchInv, Threads
    <3> QED BY <3>1, <3>2, Zenon
  <2> QED BY <1>6, <2>3, <2>4, WriterFrame, Zenon DEF Acquired, LatchInv, latchVars, planVars
<1>7. CASE Install(w)
  <2>1. TargetLeaves(w) \in SUBSET Pages /\ TargetLeaves(w) # {}
    <3>1. \A t \in Targets : LeafOf(t.key) \in Pages
      BY Zenon DEF Targets, TreeOK, Pages
    <3> QED BY <1>1, <1>7, <3>1, Zenon DEF TargetLeaves, Holds, Install
  <2>2. Lowest(TargetLeaves(w)) \in Pages
    BY <1>1, <2>1, LowestIn, Zenon
  <2>3. writer' \in [Pages -> SUBSET Writers] /\ \A p \in Pages : writer'[p] = writer[p] \ {w}
    BY <1>7, Zenon DEF Install, Disown, LatchInv
  <2>4. Holds(w)'
    BY <1>1, <1>7, <2>1, <2>2, <2>3 DEF Install, Holds, LatchInv, Pages, Leaves, Targets, Ops
  <2> QED BY <1>7, <2>3, <2>4, WriterFrame DEF Install, LatchInv
<1>8. CASE Reclassify(w)
  <2>1. writer' \in [Pages -> SUBSET Writers] /\ \A p \in Pages : writer'[p] = writer[p] \ {w}
    BY <1>8, Zenon DEF Reclassify, Disown, LatchInv
  <2>2. Holds(w)'
    BY <1>1, <1>8, <2>1 DEF Reclassify, Holds, LatchInv, Pages, Leaves, Targets, Ops
  <2> QED BY <1>8, <2>1, <2>2, WriterFrame DEF Reclassify, LatchInv
<1>9. CASE FlipPrepare(w)
  <2>1. Holds(w)'
    BY <1>1, <1>9, Zenon DEF FlipPrepare, Holds, LatchInv, latchVars, planVars, Pages, Leaves, Targets, Ops
  <2> QED BY <1>9, <2>1, WriterFrame DEF FlipPrepare, LatchInv, latchVars, planVars
<1>10. CASE FlipSwap(w)
  <2>1. writer' \in [Pages -> SUBSET Writers] /\ \A p \in Pages : writer'[p] = writer[p] \ {w}
    BY <1>10, Zenon DEF FlipSwap, Disown, LatchInv
  <2>2. Higher(w) \in SUBSET Pages
    BY <1>1, Zenon DEF Higher, Holds
  <2>3. Higher(w) # {} => Lowest(Higher(w)) \in Pages
    BY <1>1, <2>2, LowestIn, Zenon
  <2>4. Holds(w)'
    BY <1>1, <1>10, <2>1, <2>3 DEF FlipSwap, Holds, LatchInv, planVars, Pages, Leaves, Targets, Ops
  <2>5. /\ DOMAIN pc' = Threads /\ DOMAIN page' = Threads
        /\ \A v \in Writers \ {w} : pc'[v] = pc[v] /\ page'[v] = page[v]
    <3>1. CASE Higher(w) = {}
      BY <1>10, <3>1, Zenon DEF FlipSwap, LatchInv, Threads
    <3>2. CASE Higher(w) # {}
      BY <1>10, <3>2, Zenon DEF FlipSwap, LatchInv, Threads
    <3> QED BY <3>1, <3>2, Zenon
  <2> QED BY <1>10, <2>1, <2>4, <2>5, WriterFrame DEF FlipSwap, LatchInv, planVars
<1> QED BY <1>2, <1>3, <1>4, <1>5, <1>6, <1>7, <1>8, <1>9, <1>10, Zenon DEF WriterStep

\* Writers that commit to one tree never wait for each other's page latches
\* in a circle, whatever the tree's shape, page numbers and batches: the
\* ascending order of acquire_pages is enough among writers.
THEOREM WritersProceed ==
  ASSUME NEW CONSTANT bound, TreeOK(bound)
  PROVE  Spec => []WritersNeverCycle
<1>1. Init => LatchInv
  BY DEF Init, LatchInv, Holds, Threads
<1>2. LatchInv /\ [Next]_vars => LatchInv'
  <2> SUFFICES ASSUME LatchInv, [Next]_vars PROVE LatchInv'
    BY Zenon
  <2>1. ASSUME NEW r \in Readers, ReaderStep(r) PROVE LatchInv'
    BY <2>1, ReaderKeeps, Zenon
  <2>2. ASSUME NEW w \in Writers, WriterStep(w) PROVE LatchInv'
    BY <2>2, WriterKeeps, Zenon
  <2>3. ASSUME \/ UNCHANGED vars
               \/ \E leaf \in Leaves : Backfill(leaf)
        PROVE  LatchInv'
    <3>1. /\ writer' = writer /\ sharers' = sharers /\ pc' = pc /\ page' = page
          /\ targets' = targets /\ need' = need
      BY <2>3, Zenon DEF vars, Backfill, latchVars, planVars
    <3>2. \A w \in Writers : Holds(w)'
      BY <3>1, HoldsSame, Zenon DEF LatchInv
    <3> QED BY <3>1, <3>2, Zenon DEF LatchInv, Pages, Leaves, Threads
  <2> QED BY <2>1, <2>2, <2>3, Zenon DEF Next
<1>3. LatchInv => WritersNeverCycle
  BY NoCycle, Zenon
<1> QED BY <1>1, <1>2, <1>3, PTL DEF Spec
=============================================================================
