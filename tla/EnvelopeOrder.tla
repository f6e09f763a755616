--------------------------- MODULE EnvelopeOrder ----------------------------
(***************************************************************************)
(* What the operations of the commit envelope do to a version chain, for   *)
(* any chain: how a version is pushed, settled, folded or pruned, that a   *)
(* chain in order stays in order, from where a read is answered, what a    *)
(* held view still finds, and the steps that preserve SpillInv and LinkInv.*)
(***************************************************************************)
EXTENDS EnvelopeInvariant, WellFoundedInduction, TLAPS

\* The time the SMT solver may take for a leaf that names no prover.
USE SMTT(60)

-----------------------------------------------------------------------------
(* Least and greatest elements. *)

\* A set of naturals that is not empty has a least element.
LEMMA LeastNatural ==
    ASSUME NEW S \in SUBSET Nat, S # {}
    PROVE  \E n \in S : \A m \in S : n <= m
<1>1. PICK n \in S : \A m \in S : ~(<<m, n>> \in OpToRel(<, Nat))
  BY NatLessThanWellFounded, WFMin, Zenon
<1>2. \A m \in S : ~(m < n)
  BY <1>1, Zenon DEF OpToRel
<1> QED BY <1>2

\* A bounded set of naturals that is not empty has a greatest element.
LEMMA GreatestNatural ==
    ASSUME NEW b \in Nat, NEW S \in SUBSET (0 .. b), S # {}
    PROVE  \E n \in S : \A m \in S : m <= n
<1> DEFINE T == {d \in Nat : b - d \in S}
<1>1. \A n \in S : b - n \in T
  OBVIOUS
<1>2. PICK d \in T : \A e \in T : d <= e
  <2>1. T \in SUBSET Nat /\ T # {}
    BY <1>1, Zenon
  <2> HIDE DEF T
  <2> QED BY <2>1, LeastNatural, Zenon
<1>3. ASSUME NEW m \in S PROVE m <= b - d
  <2>1. d <= b - m
    BY <1>1, <1>2, Zenon
  <2> QED BY <2>1, <1>2
<1> QED BY <1>2, <1>3, Zenon

\* A scan from the front stops at the first position it looks for.
LEMMA FirstSpec ==
    ASSUME NEW S \in SUBSET (Nat \ {0})
    PROVE  /\ First(S) = 0 <=> S = {}
           /\ First(S) # 0 => First(S) \in S
           /\ \A m \in S : First(S) <= m
<1>1. S # {} => First(S) \in S /\ \A m \in S : First(S) <= m
  BY LeastNatural, Zenon DEF First
<1> QED BY <1>1, Zenon DEF First

-----------------------------------------------------------------------------
(* The operations on a chain. *)

\* f[i] is what Keep has after the first i versions of c.
Scans(f, c, I, n) ==
    f = [i \in 0 .. n |-> IF i = 0 THEN <<>>
                          ELSE IF i \in I THEN Append(f[i - 1], c[i]) ELSE f[i - 1]]

\* The scan Keep makes is well defined.
LEMMA ScanDefined ==
    ASSUME NEW c, NEW I, NEW n \in Nat
    PROVE  \E f : Scans(f, c, I, n)
<1> DEFINE Next1(f, i) == IF i \in I THEN Append(f[i - 1], c[i]) ELSE f[i - 1]
           Scan(f, b) == f = [i \in 0 .. b |-> IF i = 0 THEN <<>> ELSE Next1(f, i)]
           Bad == {b \in Nat : ~\E f : Scan(f, b)}
<1>1. \E f : Scan(f, 0)
  <2>1. Scan([i \in 0 .. 0 |-> <<>>], 0)
    OBVIOUS
  <2> QED BY <2>1, Zenon
<1>2. ASSUME NEW b \in Nat, NEW g, Scan(g, b) PROVE \E f : Scan(f, b + 1)
  <2> DEFINE f == [i \in 0 .. (b + 1) |-> IF i = b + 1 THEN Next1(g, b + 1) ELSE g[i]]
  <2>1. /\ b + 1 # 0 /\ (b + 1) - 1 = b /\ b # b + 1 /\ b \in 0 .. (b + 1)
        /\ \A i \in 0 .. (b + 1) : i = b + 1 \/ (i \in 0 .. b /\ i # b + 1)
        /\ \A i \in 0 .. b : i # 0 => /\ i - 1 \in 0 .. b /\ i - 1 \in 0 .. (b + 1)
                                       /\ i - 1 # b + 1
    OBVIOUS
  <2>2. /\ f[b] = g[b]
        /\ \A i \in 0 .. b : i # 0 => f[i - 1] = g[i - 1]
    BY <2>1, Zenon
  <2>3. \A i \in 0 .. b : g[i] = IF i = 0 THEN <<>> ELSE Next1(g, i)
    BY <1>2, Zenon
  <2>4. \A i \in 0 .. (b + 1) : (IF i = b + 1 THEN Next1(g, b + 1) ELSE g[i])
                                 = IF i = 0 THEN <<>> ELSE Next1(f, i)
    <3> SUFFICES ASSUME NEW i \in 0 .. (b + 1)
                 PROVE  (IF i = b + 1 THEN Next1(g, b + 1) ELSE g[i])
                        = IF i = 0 THEN <<>> ELSE Next1(f, i)
      BY Zenon
    <3>1. CASE i = b + 1
      <4>1. f[i - 1] = g[b] /\ g[(b + 1) - 1] = g[b]
        BY <2>1, <2>2, <3>1, Zenon
      <4> HIDE DEF f
      <4> QED BY <2>1, <3>1, <4>1, Zenon
    <3>2. CASE i \in 0 .. b /\ i # b + 1
      <4>1. i # 0 => f[i - 1] = g[i - 1]
        BY <2>2, <3>2, Zenon
      <4> HIDE DEF f
      <4> QED BY <2>3, <3>2, <4>1, Zenon
    <3> QED BY <2>1, <3>1, <3>2, Zenon
  <2>5. Scan(f, b + 1)
    BY <2>4, Zenon
  <2> QED BY <2>5, Zenon
<1> HIDE DEF Scan
<1>3. Bad = {}
  <2> SUFFICES ASSUME Bad # {} PROVE FALSE
    BY Zenon
  <2>1. Bad \in SUBSET Nat
    BY Zenon
  <2>2. PICK b \in Bad : \A x \in Bad : b <= x
    <3> HIDE DEF Bad
    <3> QED BY <2>1, LeastNatural, Zenon
  <2>3. b \in Nat /\ b # 0
    BY <1>1, <2>1, <2>2, Zenon
  <2>4. b - 1 \in Nat /\ ~(b <= b - 1) /\ (b - 1) + 1 = b
    BY <2>3
  <2>5. PICK g : Scan(g, b - 1)
    BY <2>2, <2>4, Zenon
  <2>6. \E f : Scan(f, (b - 1) + 1)
    BY <1>2, <2>4, <2>5, Zenon
  <2> QED BY <2>2, <2>4, <2>6, Zenon
<1>4. \E f : Scan(f, n)
  BY <1>3, Zenon
<1> QED BY <1>4, Zenon DEF Scan, Scans

\* Keep returns the kept versions, all of them and in their order.
LEMMA KeepSpec ==
    ASSUME NEW c \in Seq(Version), NEW I \in SUBSET DOMAIN c
    PROVE  Kept(Keep(c, I), c, I)
<1>1. Len(c) \in Nat /\ DOMAIN c = 1 .. Len(c) /\ \A i \in DOMAIN c : c[i] \in Version
  OBVIOUS
<1> DEFINE f == CHOOSE g : Scans(g, c, I, Len(c))
<1>2. Keep(c, I) = f[Len(c)]
  BY Zenon DEF Keep, Scans
<1>3. Scans(f, c, I, Len(c))
  BY <1>1, ScanDefined, Zenon
<1> HIDE DEF f
<1>4. /\ f[0] = <<>>
      /\ \A i \in 1 .. Len(c) : f[i] = IF i \in I THEN Append(f[i - 1], c[i]) ELSE f[i - 1]
  <2>1. \A i \in 0 .. Len(c) :
          f[i] = IF i = 0 THEN <<>> ELSE IF i \in I THEN Append(f[i - 1], c[i]) ELSE f[i - 1]
    BY <1>3, Zenon DEF Scans
  <2>2. 0 \in 0 .. Len(c) /\ \A i \in 1 .. Len(c) : i \in 0 .. Len(c) /\ i # 0
    BY <1>1
  <2> QED BY <2>1, <2>2, Zenon
<1> DEFINE J(i) == I \cap (1 .. i)
           Bad == {i \in 0 .. Len(c) : ~Kept(f[i], c, J(i))}
<1>5. Kept(f[0], c, J(0))
  <2>1. J(0) = {}
    OBVIOUS
  <2>2. <<>> \in Seq(Version) /\ DOMAIN <<>> = {}
    OBVIOUS
  <2>3. <<>> \in [DOMAIN <<>> -> {}]
    OBVIOUS
  <2> QED BY <1>4, <2>1, <2>2, <2>3, Zenon DEF Kept
<1>6. ASSUME NEW i \in 1 .. Len(c), Kept(f[i - 1], c, J(i - 1)) PROVE Kept(f[i], c, J(i))
  <2> DEFINE d == f[i - 1]
  <2>1. CASE i \notin I
    <3>1. J(i - 1) = J(i)
      BY <1>1, <2>1
    <3>2. f[i] = f[i - 1]
      BY <1>4, <2>1, Zenon
    <3> HIDE DEF J
    <3> QED BY <1>6, <3>1, <3>2, Zenon
  <2>2. CASE i \in I
    <3>1. PICK h \in [DOMAIN d -> J(i - 1)] :
            /\ \A n \in DOMAIN d : d[n] = c[h[n]]
            /\ \A n, m \in DOMAIN d : n < m => h[n] < h[m]
            /\ \A x \in J(i - 1) : \E n \in DOMAIN d : h[n] = x
      BY <1>6, Zenon DEF Kept
    <3>2. f[i] = Append(d, c[i]) /\ d \in Seq(Version) /\ c[i] \in Version
      BY <1>1, <1>4, <1>6, <2>2, Zenon DEF Kept
    <3> DEFINE e == Append(d, c[i])
               g == [n \in DOMAIN e |-> IF n = Len(d) + 1 THEN i ELSE h[n]]
    <3>3. /\ e \in Seq(Version) /\ DOMAIN e = 1 .. (Len(d) + 1) /\ DOMAIN d = 1 .. Len(d)
          /\ Len(d) \in Nat /\ e[Len(d) + 1] = c[i]
          /\ \A n \in DOMAIN d : e[n] = d[n]
      BY <3>2
    <3>4. /\ Len(d) + 1 \in DOMAIN e /\ Len(d) + 1 \notin DOMAIN d
          /\ \A n \in DOMAIN d : n \in DOMAIN e /\ n # Len(d) + 1
          /\ \A n \in DOMAIN e : n \in DOMAIN d \/ n = Len(d) + 1
          /\ \A n, m \in DOMAIN e : n < m => n \in DOMAIN d
      <4> HIDE DEF e, d
      <4> QED BY <3>3
    <3>5. \A x \in J(i) : x = i \/ x \in J(i - 1)
      BY <1>1
    <3>6. i \in J(i) /\ \A x \in J(i - 1) : x \in J(i) /\ x < i
      BY <1>1, <2>2
    <3> HIDE DEF e, d, J
    <3>7. /\ g[Len(d) + 1] = i
          /\ \A n \in DOMAIN d : g[n] = h[n] /\ h[n] \in J(i - 1)
      BY <3>1, <3>4, Zenon
    <3>8. g \in [DOMAIN e -> J(i)]
      BY <3>4, <3>6, <3>7, Zenon
    <3> HIDE DEF g
    <3>9. \A n \in DOMAIN e : e[n] = c[g[n]]
      BY <3>1, <3>3, <3>4, <3>7, Zenon
    <3>10. \A n, m \in DOMAIN e : n < m => g[n] < g[m]
      BY <3>1, <3>4, <3>6, <3>7, Zenon
    <3>11. \A x \in J(i) : \E n \in DOMAIN e : g[n] = x
      BY <3>1, <3>4, <3>5, <3>7, Zenon
    <3>12. Kept(e, c, J(i))
      BY <3>3, <3>8, <3>9, <3>10, <3>11, ZenonT(60) DEF Kept
    <3> QED BY <3>2, <3>12, Zenon DEF e
  <2> QED BY <2>1, <2>2, Zenon
<1> HIDE DEF J
<1>7. Bad = {}
  <2> SUFFICES ASSUME Bad # {} PROVE FALSE
    BY Zenon
  <2>1. Bad \in SUBSET Nat
    BY <1>1
  <2>2. PICK i \in Bad : \A x \in Bad : i <= x
    <3> HIDE DEF Bad
    <3> QED BY <2>1, LeastNatural, Zenon
  <2>3. i # 0 /\ i \in 0 .. Len(c) /\ ~Kept(f[i], c, J(i))
    BY <1>5, <2>2, Zenon
  <2>4. i \in 1 .. Len(c) /\ i - 1 \in 0 .. Len(c) /\ ~(i <= i - 1)
    BY <1>1, <2>3
  <2>5. Kept(f[i - 1], c, J(i - 1))
    BY <2>2, <2>4, Zenon
  <2> QED BY <1>6, <2>3, <2>4, <2>5, ZenonT(60)
<1>8. Kept(f[Len(c)], c, J(Len(c)))
  <2>1. Len(c) \in 0 .. Len(c)
    BY <1>1
  <2> QED BY <1>7, <2>1, Zenon
<1>9. J(Len(c)) = I
  BY <1>1, Zenon DEF J
<1> QED BY <1>2, <1>8, <1>9, Zenon

\* A fold or an eviction keeps some of the versions, in their order.
LEMMA KeepPart ==
    ASSUME NEW c \in Seq(Version), NEW I \in SUBSET DOMAIN c
    PROVE  PartOf(Keep(c, I), c)
<1>1. PICK h \in [DOMAIN Keep(c, I) -> I] :
        /\ \A n \in DOMAIN Keep(c, I) : Keep(c, I)[n] = c[h[n]]
        /\ \A n, m \in DOMAIN Keep(c, I) : n < m => h[n] < h[m]
  BY KeepSpec, Zenon DEF Kept
<1>2. h \in [DOMAIN Keep(c, I) -> DOMAIN c] /\ Keep(c, I) \in Seq(Version)
  BY <1>1, KeepSpec, Zenon DEF Kept
<1> QED BY <1>1, <1>2, Zenon DEF PartOf

\* live_head: the first version that nothing superseded and no abort voided.
LEMMA LiveHeadSpec ==
    ASSUME NEW c \in Seq(Version)
    PROVE  /\ LiveHead(c) \in {0} \cup DOMAIN c
           /\ LiveHead(c) # 0 =>
                 c[LiveHead(c)].stop = TsMax /\ c[LiveHead(c)].state # "Aborted"
           /\ \A i \in DOMAIN c : (c[i].stop = TsMax /\ c[i].state # "Aborted")
                 => LiveHead(c) # 0 /\ LiveHead(c) <= i
<1> DEFINE I == {i \in DOMAIN c : c[i].stop = TsMax /\ c[i].state # "Aborted"}
<1>1. LiveHead(c) = First(I)
  BY Zenon DEF LiveHead
<1>2. I \in SUBSET (Nat \ {0})
  OBVIOUS
<1>3. /\ First(I) = 0 <=> I = {}
      /\ First(I) # 0 => First(I) \in I
      /\ \A m \in I : First(I) <= m
  <2> HIDE DEF I
  <2> QED BY <1>2, FirstSpec, Zenon
<1> QED BY <1>1, <1>3, Zenon

\* The live head of a linked chain is its first standing version.
LEMMA HeadIsFirst ==
    ASSUME NEW c \in Seq(Version), LinkedChain(c)
    PROVE  HeadFirst(c)
<1>1. /\ LiveHead(c) \in {0} \cup DOMAIN c
      /\ LiveHead(c) # 0 => LiveHead(c) \in Standing(c)
      /\ \A i \in Standing(c) : c[i].stop = TsMax => LiveHead(c) # 0 /\ LiveHead(c) <= i
  BY LiveHeadSpec, Zenon DEF Standing
<1>2. ASSUME Standing(c) # {}
      PROVE  \E n \in Standing(c) : (\A i \in Standing(c) : n <= i) /\ c[n].stop = TsMax
  <2>1. Standing(c) \in SUBSET Nat
    BY DEF Standing
  <2>2. PICK n \in Standing(c) : \A i \in Standing(c) : n <= i
    BY <1>2, <2>1, LeastNatural, Zenon
  <2> QED BY <2>2, Zenon DEF LinkedChain
<1>3. \A i \in Standing(c) : i \in Nat
  BY DEF Standing
<1>4. LiveHead(c) \in Nat
  BY <1>1
<1> QED BY ONLY <1>1, <1>2, <1>3, <1>4 DEF HeadFirst

\* Replacing one version of a chain.
LEMMA ReplaceVersion ==
    ASSUME NEW c \in Seq(Version), NEW h \in DOMAIN c, NEW e \in Version
    PROVE  /\ [c EXCEPT ![h] = e] \in Seq(Version)
           /\ DOMAIN [c EXCEPT ![h] = e] = DOMAIN c
           /\ Len([c EXCEPT ![h] = e]) = Len(c)
           /\ \A i \in DOMAIN c : [c EXCEPT ![h] = e][i] = IF i = h THEN e ELSE c[i]
OBVIOUS

\* Push: the pending version is first, the live head is superseded and the
\* other versions are as they were.
LEMMA PushSpec ==
    ASSUME NEW c \in Seq(Version), NEW ts \in Times, NEW tomb \in BOOLEAN,
           NEW d, d = Push(c, ts, tomb)
    PROVE  Pushed(c, d, ts, tomb)
<1> DEFINE h == LiveHead(c)
           older == IF h = 0 THEN c ELSE [c EXCEPT ![h].stop = ts]
           new == [start |-> ts, stop |-> TsMax, state |-> "Pending", tomb |-> tomb]
<1>1. d = <<new>> \o older
  BY Zenon DEF Push
<1>2. h \in {0} \cup DOMAIN c
  BY LiveHeadSpec, Zenon
<1> HIDE DEF h
<1>3. /\ older \in Seq(Version) /\ Len(older) = Len(c)
      /\ \A i \in DOMAIN c : older[i] = IF i = h THEN [c[i] EXCEPT !.stop = ts] ELSE c[i]
  <2>1. CASE h = 0
    BY <2>1
  <2>2. CASE h # 0
    <3>1. h \in DOMAIN c /\ [c[h] EXCEPT !.stop = ts] \in Version
      <4>1. h \in DOMAIN c /\ c[h] \in Version
        BY <2>2, <1>2
      <4> QED BY <4>1, Zenon DEF Version
    <3>2. older = [c EXCEPT ![h] = [c[h] EXCEPT !.stop = ts]]
      BY <2>2, Zenon
    <3> HIDE DEF older
    <3> QED BY <3>1, <3>2, ReplaceVersion
  <2> QED BY <2>1, <2>2, Zenon
<1>4. new \in Version
  BY Zenon DEF Version
<1> HIDE DEF older, new
<1>5. d \in Seq(Version) /\ Len(d) = Len(c) + 1 /\ d[1] = new
  BY <1>1, <1>3, <1>4
<1>6. \A i \in DOMAIN c : d[i + 1] = older[i]
  BY <1>1, <1>3, <1>4
<1>7. ASSUME NEW i \in DOMAIN c
      PROVE  /\ d[i + 1].start = c[i].start
             /\ d[i + 1].state = c[i].state
             /\ d[i + 1].tomb = c[i].tomb
             /\ d[i + 1].stop = IF i = h THEN ts ELSE c[i].stop
  <2>1. c[i] \in Version
    OBVIOUS
  <2>2. d[i + 1] = IF i = h THEN [c[i] EXCEPT !.stop = ts] ELSE c[i]
    BY <1>3, <1>6, Zenon
  <2> QED BY <2>1, <2>2, Zenon DEF Version
<1> QED BY <1>5, <1>7, Zenon DEF h, new, Pushed

\* The install pushes a pending version on every chain it writes.
LEMMA InstallPushes ==
    ASSUME EnvelopeInv, NEW w \in Writers, pc[w] = "registered",
           NEW ks \in SUBSET txn[w].keys, InstallOn(w, ks)
    PROVE  \A k \in ks : Pushed(chain[k], chain'[k], txn[w].ts, txn[w].op = "delete")
<1>1. TypeInv /\ txn[w] \in Txn /\ txn[w].ts \in Times
  BY Zenon DEF EnvelopeInv, TypeInv, OwnerInv, Owning
<1>2. ASSUME NEW k \in ks PROVE Pushed(chain[k], chain'[k], txn[w].ts, txn[w].op = "delete")
  <2>1. k \in Keys
    BY <1>1, Zenon DEF Txn
  <2>2. chain[k] \in Seq(Version) /\ chain'[k] = Push(chain[k], txn[w].ts, txn[w].op = "delete")
    BY <1>1, <2>1, Zenon DEF InstallOn, TypeInv
  <2>3. (txn[w].op = "delete") \in BOOLEAN
    BY Zenon
  <2> QED BY ONLY <1>1, <2>2, <2>3, PushSpec, Zenon
<1> QED BY <1>2, Zenon

\* flip_pending_in_chain, to committed or aborted: the transaction's pending
\* version takes its final state and nothing else changes but, after an abort,
\* the stop of the version it had superseded.
LEMMA FlipSpec ==
    ASSUME NEW c \in Seq(Version), NEW ts \in Times, NEW state \in {"Committed", "Aborted"},
           \A i, j \in DOMAIN c : c[i].start = c[j].start => i = j,
           NEW d, d = FlipPending(c, ts, state)
    PROVE  Flipped(c, d, ts, state)
<1> DEFINE P == {i \in DOMAIN c : c[i].state = "Pending" /\ c[i].start = ts}
           n == First(P)
           settled == [c EXCEPT ![n].state = state]
           prev == {j \in (n + 1) .. Len(settled) : settled[j].state # "Aborted" /\ settled[j].stop = ts}
<1>1. d = IF n = 0 THEN c ELSE IF state = "Committed" THEN settled ELSE RestoreHead(settled, n, ts)
  BY Zenon DEF FlipPending
<1>2. P \in SUBSET (Nat \ {0}) /\ DOMAIN c = 1 .. Len(c) /\ Len(c) \in Nat
  OBVIOUS
<1>3. /\ n = 0 => P = {}
      /\ n # 0 => n \in P
  <2> HIDE DEF P
  <2> QED BY <1>2, FirstSpec, Zenon
<1>4. \A i \in P : i = n
  BY <1>2, <1>3, Zenon
<1> HIDE DEF n
<1>5. CASE n = 0
  BY <1>1, <1>2, <1>3, <1>5, Zenon DEF Flipped
<1>6. CASE n # 0
  <2>1. n \in DOMAIN c /\ c[n].state = "Pending" /\ c[n].start = ts
    BY <1>3, <1>6, <1>2, Zenon
  <2>2. c[n] \in Version /\ [c[n] EXCEPT !.state = state] \in Version
    <3>1. c[n] \in Version
      BY <2>1
    <3> QED BY <3>1, Zenon DEF Version
  <2>3. /\ settled \in Seq(Version) /\ DOMAIN settled = DOMAIN c /\ Len(settled) = Len(c)
        /\ \A i \in DOMAIN c : settled[i] = IF i = n THEN [c[n] EXCEPT !.state = state] ELSE c[i]
    BY <2>1, <2>2, ReplaceVersion
  <2>4. ASSUME NEW i \in DOMAIN c
        PROVE  /\ settled[i] \in Version
               /\ settled[i].start = c[i].start /\ settled[i].tomb = c[i].tomb
               /\ settled[i].stop = c[i].stop
               /\ settled[i].state = IF i = n THEN state ELSE c[i].state
    <3>1. c[i] \in Version
      OBVIOUS
    <3> HIDE DEF settled
    <3> QED BY <2>2, <2>3, <3>1 DEF Version
  <2>5. \A i \in DOMAIN c : (c[i].state = "Pending" /\ c[i].start = ts) <=> i = n
    BY <1>2, <1>4, <2>1, Zenon
  <2>6. CASE state = "Committed"
    <3>1. d = settled
      BY <1>1, <1>6, <2>6, Zenon
    <3> HIDE DEF settled
    <3> QED BY <2>3, <2>4, <2>5, <2>6, <3>1 DEF Flipped
  <2>7. CASE state = "Aborted"
    <3>1. d = IF prev = {} THEN settled ELSE [settled EXCEPT ![First(prev)].stop = TsMax]
      BY <1>1, <1>6, <2>7, Zenon DEF RestoreHead
    <3>2. prev \in SUBSET (Nat \ {0}) /\ \A j \in prev : j \in DOMAIN c /\ n < j
      BY <1>2, <2>1, <2>3
    <3>3. \A j \in DOMAIN c : j \in prev <=> (n < j /\ c[j].state # "Aborted" /\ c[j].stop = ts)
      <4> HIDE DEF settled
      <4> QED BY <1>2, <2>1, <2>3, <2>4
    <3> HIDE DEF prev, settled
    <3>4. CASE prev = {}
      BY <3>1, <3>3, <3>4, <2>3, <2>4, <2>5, <2>7 DEF Flipped
    <3>5. CASE prev # {}
      <4>1. First(prev) \in prev /\ \A j \in prev : First(prev) <= j
        BY <3>2, <3>5, FirstSpec, Zenon
      <4> DEFINE m == First(prev)
      <4>2. m \in DOMAIN c /\ n < m /\ c[m].state # "Aborted" /\ c[m].stop = ts
        BY <4>1, <3>2, <3>3, Zenon
      <4>3. settled[m] \in Version /\ [settled[m] EXCEPT !.stop = TsMax] \in Version
        BY <4>2, <2>4 DEF Version
      <4>4. d = [settled EXCEPT ![m] = [settled[m] EXCEPT !.stop = TsMax]]
        BY <3>1, <3>5, Zenon
      <4>5. /\ d \in Seq(Version) /\ DOMAIN d = DOMAIN c
            /\ \A i \in DOMAIN c : d[i] = IF i = m THEN [settled[m] EXCEPT !.stop = TsMax] ELSE settled[i]
        BY <4>2, <4>3, <4>4, <2>3, ReplaceVersion
      <4> HIDE DEF m
      <4>6. ASSUME NEW i \in DOMAIN c
            PROVE  /\ d[i].start = c[i].start /\ d[i].tomb = c[i].tomb
                   /\ d[i].state = IF i = n THEN state ELSE c[i].state
                   /\ d[i].stop = IF i = m THEN TsMax ELSE c[i].stop
        BY <4>3, <4>5, <2>4 DEF Version
      <4>7. ASSUME NEW i \in DOMAIN c, NEW j \in DOMAIN c,
                   c[i].state = "Pending", c[i].start = ts,
                   i < j, c[j].state # "Aborted", c[j].stop = ts,
                   \A q \in DOMAIN c : i < q /\ q < j => c[q].state = "Aborted" \/ c[q].stop # ts
            PROVE  j = m
        <5>1. i = n
          BY <2>5, <4>7, Zenon
        <5>2. j \in prev /\ m <= j
          BY <3>3, <4>1, <4>7, <5>1, Zenon DEF m
        <5>3. ~(m < j)
          BY <4>2, <4>7, <5>1, Zenon
        <5> QED BY <5>2, <5>3, <1>2, <4>2
      <4>8. \A i, j \in DOMAIN c :
              (/\ c[i].state = "Pending" /\ c[i].start = ts
               /\ i < j /\ c[j].state # "Aborted" /\ c[j].stop = ts
               /\ \A q \in DOMAIN c : i < q /\ q < j => c[q].state = "Aborted" \/ c[q].stop # ts)
                => d[j].stop = TsMax
        BY <4>6, <4>7, Zenon
      <4>9. \A i \in DOMAIN c :
              /\ d[i].start = c[i].start
              /\ d[i].tomb = c[i].tomb
              /\ d[i].state = IF c[i].state = "Pending" /\ c[i].start = ts THEN state ELSE c[i].state
              /\ d[i].stop # c[i].stop => d[i].stop = TsMax /\ c[i].stop = ts
        BY <4>2, <4>6, <2>5, ZenonT(60)
      <4>10. ~\A i \in DOMAIN c : ~(c[i].state = "Pending" /\ c[i].start = ts)
        BY <2>1, Zenon
      <4> QED BY <4>5, <4>8, <4>9, <4>10, <2>7, ZenonT(60) DEF Flipped
    <3> QED BY <3>4, <3>5, Zenon
  <2> QED BY <2>6, <2>7, Zenon
<1> QED BY <1>5, <1>6, Zenon

\* A flip settles the transaction's pending version of one key.
LEMMA FlipFlips ==
    ASSUME EnvelopeInv, NEW w \in Writers, NEW k \in Keys,
           NEW state \in {"Committed", "Aborted"}, NEW label \in {"durable", "cleanup"},
           Flip(w, k, label, state)
    PROVE  Flipped(chain[k], chain'[k], txn[w].ts, state)
<1>1. TypeInv /\ ChainInv /\ pc[w] \in Owning
  BY Zenon DEF EnvelopeInv, Flip, Owning
<1>2. txn[w].ts \in Times
  BY <1>1, Zenon DEF EnvelopeInv, OwnerInv
<1>3. chain[k] \in Seq(Version) /\ chain'[k] = FlipPending(chain[k], txn[w].ts, state)
  BY <1>1, Zenon DEF TypeInv, Flip
<1>4. \A i, j \in DOMAIN chain[k] : chain[k][i].start = chain[k][j].start => i = j
  BY <1>1, Zenon DEF ChainInv
<1> QED BY ONLY <1>2, <1>3, <1>4, FlipSpec, state \in {"Committed", "Aborted"}, Zenon

\* The fold's winner is a committed version of the boundary.
LEMMA WinnerSpec ==
    ASSUME NEW c \in Seq(Version), NEW ts \in Values
    PROVE  /\ Winner(c, ts) = 0 => \A i \in DOMAIN c : ~(c[i].state = "Committed" /\ c[i].start <= ts)
           /\ Winner(c, ts) # 0 =>
                /\ Winner(c, ts) \in DOMAIN c
                /\ c[Winner(c, ts)].state = "Committed" /\ c[Winner(c, ts)].start <= ts
                /\ \A j \in DOMAIN c : c[j].state = "Committed" /\ c[j].start <= ts
                                          => c[j].start <= c[Winner(c, ts)].start
<1> DEFINE at == {i \in DOMAIN c : c[i].state = "Committed" /\ c[i].start <= ts}
           S == {c[i].start : i \in at}
<1>1. \A i \in DOMAIN c : c[i].start \in Times /\ i # 0
  <2>1. \A i \in DOMAIN c : c[i] \in Version /\ i # 0
    OBVIOUS
  <2> QED BY <2>1, Zenon DEF Version
<1>2. S \in SUBSET (0 .. MaxTs) /\ MaxTs \in Nat
  BY <1>1, BoundAssumption DEF Times
<1>3. at # {} => \E n \in S : \A m \in S : m <= n
  <2>1. at # {} => S # {}
    BY Zenon
  <2> HIDE DEF S, at
  <2> QED BY <2>1, <1>2, GreatestNatural, Zenon
<1>4. at # {} => \E i \in at : \A j \in at : c[j].start <= c[i].start
  <2> HIDE DEF at
  <2> QED BY <1>3, Zenon
<1>5. Winner(c, ts) = IF at = {} THEN 0 ELSE CHOOSE i \in at : \A j \in at : c[j].start <= c[i].start
  BY Zenon DEF Winner
<1>6. CASE at = {}
  BY <1>5, <1>6, Zenon
<1>7. CASE at # {}
  <2>1. Winner(c, ts) \in at /\ \A j \in at : c[j].start <= c[Winner(c, ts)].start
    <3> HIDE DEF at
    <3> QED BY <1>4, <1>5, <1>7, Zenon
  <2> QED BY <2>1, <1>1, Zenon
<1> QED BY <1>6, <1>7, Zenon

\* Eviction prunes a chain only when no version of it stands.
LEMMA EvictPrunes ==
    ASSUME EnvelopeInv, LinkInv, NEW k \in Keys, Evict(k)
    PROVE  /\ \A x \in Keys : x # k => chain'[x] = chain[x]
           /\ chain'[k] = chain[k] \/ (Standing(chain[k]) = {} /\ DOMAIN chain'[k] = {})
<1> DEFINE c == chain[k]
           I == {i \in DOMAIN c : /\ c[i].state # "Aborted"
                                  /\ c[i].stop = TsMax \/ c[i].stop > victim.ort}
<1>0. chain \in [Keys -> Seq(Version)] /\ GoodChain(c) /\ c \in Seq(Version)
  BY Zenon DEF EnvelopeInv, TypeInv, LinkInv
<1>1. chain' = [chain EXCEPT ![k] = IF LiveHead(c) # 0 THEN c ELSE Needed(c, victim.ort)]
  BY <1>0 DEF Evict
<1>2. ASSUME LiveHead(c) = 0 PROVE Standing(c) = {} /\ DOMAIN Needed(c, victim.ort) = {}
  <2>1. Standing(c) = {}
    <3> HIDE DEF c
    <3> QED BY <1>0, <1>2, HeadIsFirst, Zenon DEF GoodChain, HeadFirst
  <2>2. I = {} /\ I \in SUBSET DOMAIN c /\ Needed(c, victim.ort) = Keep(c, I)
    BY <2>1, Zenon DEF Standing, Needed
  <2>3. Kept(Needed(c, victim.ort), c, I)
    <3> HIDE DEF I, c
    <3> QED BY <1>0, <2>2, KeepSpec, Zenon
  <2> QED BY <2>1, <2>2, <2>3, Zenon DEF Kept
<1> HIDE DEF c, I
<1>3. chain'[k] = IF LiveHead(c) # 0 THEN c ELSE Needed(c, victim.ort)
  BY <1>0, <1>1, Zenon
<1>4. \A x \in Keys : x # k => chain'[x] = chain[x]
  BY <1>0, <1>1, Zenon
<1> QED BY <1>2, <1>3, <1>4, Zenon DEF c

\* The first version that had started at ts had not stopped there.
LEMMA NotStopped ==
    ASSUME NEW c \in Seq(Version), GoodChain(c), NEW ts \in Values, NEW i \in Standing(c),
           c[i].start <= ts, \A j \in Standing(c) : c[j].start <= ts => i <= j
    PROVE  ts < c[i].stop
<1>0. \A j \in DOMAIN c : j \in 1 .. Len(c) /\ c[j] \in Version
  OBVIOUS
<1>1. LinkedChain(c) /\ \A j \in Standing(c) : j \in 1 .. Len(c) /\ c[j].start \in Times
  BY <1>0, Zenon DEF GoodChain, Standing, Version
<1>2. CASE \A j \in Standing(c) : i <= j
  <2>1. c[i].stop = TsMax
    BY <1>1, <1>2, Zenon DEF LinkedChain
  <2> QED BY <2>1, BoundAssumption DEF Values, TsMax
<1>3. ASSUME NEW j \in Standing(c), ~(i <= j) PROVE ts < c[i].stop
  <2> DEFINE S == {m \in Standing(c) : m < i}
  <2>1. i \in Nat /\ Len(c) \in Nat /\ j \in S /\ S \in SUBSET (0 .. Len(c))
    BY <1>1, <1>3
  <2>2. PICK m \in S : \A n \in S : n <= m
    <3> HIDE DEF S
    <3> QED BY <2>1, GreatestNatural, Zenon
  <2>3. m \in Standing(c) /\ m < i /\ ~\E n \in Standing(c) : m < n /\ n < i
    BY <1>1, <2>2
  <2>4. c[i].stop = c[m].start
    BY <1>1, <2>3, Zenon DEF LinkedChain
  <2>5. ~(c[m].start <= ts)
    BY <1>1, <2>1, <2>3
  <2> QED BY <1>1, <2>3, <2>4, <2>5, BoundAssumption DEF Times, Values
<1> QED BY <1>2, <1>3, Zenon

\* A version stops no later than any newer version that stands starts.
LEMMA StopsAtNewer ==
    ASSUME NEW c \in Seq(Version), GoodChain(c), NEW i \in Standing(c), NEW n \in Standing(c),
           c[i].start < c[n].start
    PROVE  c[i].stop <= c[n].start
<1>0. \A j \in DOMAIN c : j \in 1 .. Len(c) /\ c[j] \in Version
  OBVIOUS
<1>1. /\ LinkedChain(c) /\ SortedChain(c)
      /\ \A j \in Standing(c) : j \in 1 .. Len(c) /\ c[j].start \in Times
  BY <1>0, Zenon DEF GoodChain, Standing, Version
<1>2. n < i
  <2>1. ~(i < n) /\ i # n
    <3>1. c[i].start \in Nat /\ c[n].start \in Nat
      BY <1>1, BoundAssumption DEF Times
    <3>2. ~(c[n].start < c[i].start) /\ i # n
      BY <3>1
    <3> QED BY <1>1, <3>2, Zenon DEF SortedChain
  <2> QED BY <1>1, <2>1
<1> DEFINE S == {m \in Standing(c) : m < i}
<1>3. PICK m \in S : \A j \in S : j <= m
  <2>1. n \in S /\ Len(c) \in Nat /\ S \in SUBSET (0 .. Len(c))
    BY <1>1, <1>2
  <2> HIDE DEF S
  <2> QED BY <2>1, GreatestNatural, Zenon
<1>4. m \in Standing(c) /\ m < i /\ n <= m /\ ~\E j \in Standing(c) : m < j /\ j < i
  BY <1>1, <1>2, <1>3
<1>5. c[i].stop = c[m].start
  BY <1>1, <1>4, Zenon DEF LinkedChain
<1>6. n = m \/ c[m].start < c[n].start
  <2>1. n = m \/ n < m
    BY <1>1, <1>4
  <2> QED BY <1>1, <1>4, <2>1, Zenon DEF SortedChain
<1> QED BY <1>1, <1>4, <1>5, <1>6, BoundAssumption DEF Times

-----------------------------------------------------------------------------
(* What a held view finds, and what the checkpoint spills. *)

\* get_mvcc answers from the first visible version of the chain, else from a
\* history row, else from the base cell.
LEMMA LookupSpec ==
    ASSUME NEW k \in Keys, NEW ts, chain[k] \in Seq(Version), history \in SUBSET Row
    PROVE  Answered(k, ts)
<1> DEFINE c == chain[k]
           I == {i \in DOMAIN c : VisibleTo(c[i], ts, published)}
           hit == First(I)
           rows == HistoryRows(k, ts)
<1>1. Read(k, ts) = IF hit # 0 THEN ValueOf(c[hit])
                    ELSE IF HistoryIsCandidate(c, ts) /\ rows # {}
                    THEN ValueOf(CHOOSE r \in rows : \A q \in rows : q.start <= r.start)
                    ELSE base[k]
  BY DEF Read, Lookup
<1>8. hit = 0 /\ ~(HistoryIsCandidate(c, ts) /\ rows # {}) => Lookup(k, ts).from = "base"
  BY DEF Lookup
<1>2. c \in Seq(Version)
  BY Zenon
<1>3. I \in SUBSET (Nat \ {0})
  BY <1>2
<1>4. /\ hit = 0 <=> I = {}
      /\ hit # 0 => hit \in I
      /\ \A m \in I : hit <= m
  <2> HIDE DEF I
  <2> QED BY <1>3, FirstSpec, Zenon
<1>5. rows # {} => (CHOOSE r \in rows : \A q \in rows : q.start <= r.start) \in rows
  <2> DEFINE S == {r.start : r \in rows}
  <2>1. \A r \in rows : r.start \in Times
    BY Zenon DEF HistoryRows, Row
  <2>2. S \in SUBSET (0 .. MaxTs) /\ MaxTs \in Nat
    BY <2>1, BoundAssumption DEF Times
  <2>3. rows # {} => \E n \in S : \A m \in S : m <= n
    <3> HIDE DEF rows
    <3>1. rows # {} => S # {}
      BY Zenon
    <3> HIDE DEF S
    <3> QED BY <2>2, <3>1, GreatestNatural, Zenon
  <2> HIDE DEF rows
  <2>4. rows # {} => \E r \in rows : \A q \in rows : q.start <= r.start
    BY <2>3, Zenon
  <2> QED BY <2>4, Zenon
<1> HIDE DEF rows
<1> HIDE DEF hit
<1>6. CASE hit # 0
  BY <1>1, <1>4, <1>6, Zenon DEF Answered
<1>7. CASE hit = 0
  BY <1>1, <1>4, <1>5, <1>7, <1>8, Zenon DEF rows, Answered
<1> QED BY <1>6, <1>7, Zenon

\* The versions of k that had started at ts.
Started(k, ts) == {i \in Standing(chain[k]) : chain[k][i].start <= ts}

\* A read at or below the frontier of a key some version of which had started
\* returns the newest logged write up to its timestamp.
LEMMA ChainRead ==
    ASSUME EnvelopeInv, LinkInv, FoldInv, NEW k \in Keys, NEW ts \in Values, ts <= published,
           Started(k, ts) # {}
    PROVE  /\ Newest(commits, k, ts, Read(k, ts))
           /\ \E i \in Started(k, ts) : /\ chain[k][i].state = "Committed" /\ ts < chain[k][i].stop
                                        /\ Read(k, ts) = ValueOf(chain[k][i])
<1> DEFINE c == chain[k]
           S == Started(k, ts)
<1>1. /\ c \in Seq(Version) /\ GoodChain(c) /\ commits \in SUBSET CommitRow
      /\ history \in SUBSET Row /\ published \in Values
  BY Zenon DEF EnvelopeInv, TypeInv, LinkInv
<1>2. Answered(k, ts)
  BY <1>1, LookupSpec, Zenon
<1>3. \A j \in Standing(c) : j \in DOMAIN c /\ j \in Nat /\ c[j] \in Version /\ c[j].start \in Times
  <2> HIDE DEF c
  <2>1. \A j \in DOMAIN c : j \in Nat /\ c[j] \in Version
    BY <1>1
  <2> QED BY <2>1, Zenon DEF Standing, Version
<1>4. \A j \in S : j \in Standing(c) /\ c[j].start <= ts
  BY Zenon DEF Started
<1>5. \A j \in DOMAIN c : VisibleTo(c[j], ts, published) => j \in S
  BY Zenon DEF VisibleTo, Standing, Started
<1>6. PICK i \in S : \A j \in S : i <= j
  <2>1. S \in SUBSET Nat /\ S # {}
    BY <1>3, <1>4, Zenon
  <2> HIDE DEF S
  <2> QED BY <2>1, LeastNatural, Zenon
<1>7. i \in DOMAIN c /\ i \in Standing(c) /\ c[i] \in Version /\ c[i].start <= ts /\ c[i].start \in Times
  BY <1>3, <1>4, <1>6, Zenon
<1>8. ts < c[i].stop
  <2>1. \A j \in Standing(c) : c[j].start <= ts => i <= j
    BY <1>6, Zenon DEF Started
  <2> HIDE DEF c
  <2> QED BY <1>1, <1>7, <2>1, NotStopped, Zenon
<1>9. c[i].state = "Committed"
  <2>1. c[i].start <= published
    <3> HIDE DEF c
    <3> QED BY <1>1, <1>7, BoundAssumption DEF Times, Values
  <2>2. slot[c[i].start] # "Pending"
    BY <1>7, <2>1, Zenon DEF EnvelopeInv, SlotInv
  <2>3. EntryOf(k, c[i], slot, commits, pc, txn)
    BY <1>7, Zenon DEF EnvelopeInv, ChainInv, EntryInv
  <2> QED BY <1>7, <2>2, <2>3, Zenon DEF EntryOf, Standing, Version
<1>10. VisibleTo(c[i], ts, published)
  BY <1>7, <1>8, <1>9, Zenon DEF VisibleTo
<1>11. Read(k, ts) = ValueOf(c[i])
  <2>1. PICK j \in DOMAIN c : /\ VisibleTo(c[j], ts, published) /\ j <= i
                              /\ Read(k, ts) = ValueOf(c[j])
    BY <1>2, <1>7, <1>10, Zenon DEF Answered
  <2>2. i <= j /\ i \in Nat /\ j \in Nat
    BY <1>3, <1>4, <1>5, <1>6, <2>1, ZenonT(60)
  <2>3. i = j
    BY <2>1, <2>2
  <2> QED BY <2>1, <2>3, Zenon
<1>12. PICK d \in commits : d.key = k /\ d.ts = c[i].start /\ d.tomb = c[i].tomb
  BY <1>7, <1>9, ZenonT(60) DEF EnvelopeInv, ChainInv, EntryInv, EntryOf
<1>13. ASSUME NEW e \in commits, e.key = k, e.ts <= ts PROVE e.ts <= d.ts
  <2>1. e.ts \in Times /\ d.ts \in Times
    BY <1>1, Zenon DEF CommitRow
  <2>2. CASE Stands(e)
    <3>1. PICK j \in Standing(c) : c[j].start = e.ts
      BY <1>13, <2>2, Zenon DEF Stands
    <3>2. j \in S
      BY <1>13, <3>1, Zenon DEF Started
    <3>3. i <= j
      BY <1>6, <3>2, Zenon
    <3>4. i = j \/ i < j
      BY <1>3, <1>7, <3>1, <3>3
    <3>5. i = j \/ c[j].start < c[i].start
      BY <1>1, <1>7, <3>1, <3>4, ZenonT(60) DEF GoodChain, SortedChain
    <3> HIDE DEF c
    <3> QED BY <1>12, <2>1, <3>1, <3>5, BoundAssumption DEF Times
  <2>3. CASE ~Stands(e)
    <3>1. e.ts < d.ts
      BY <1>7, <1>12, <1>13, <2>3, Zenon DEF FoldInv
    <3> QED BY <2>1, <3>1, BoundAssumption DEF Times
  <2> QED BY <2>2, <2>3, Zenon
<1>14. Read(k, ts) = IF d.tomb THEN 0 ELSE d.ts
  BY <1>11, <1>12, Zenon DEF ValueOf
<1>15. d.ts <= ts
  BY <1>7, <1>12, Zenon
<1>16. Newest(commits, k, ts, Read(k, ts))
  BY <1>12, <1>13, <1>14, <1>15, Zenon DEF Newest
<1> QED BY <1>6, <1>8, <1>9, <1>11, <1>16, Zenon

\* A committed version of c whose window holds ts.
Holds(c, ts) ==
    \E i \in DOMAIN c : c[i].state = "Committed" /\ c[i].start <= ts /\ ts < c[i].stop

\* The fold of a leaf takes a version from a view only into the base cell or
\* after its row was spilled.
LEMMA FoldResolves ==
    ASSUME EnvelopeInv, LinkInv, ViewInv, SpillInv, NEW p \in Viewing, NEW k \in Keys, InstallFold(k),
           NEW i \in DOMAIN chain[k], chain[k][i].state = "Committed",
           chain[k][i].start <= view[p], view[p] < chain[k][i].stop
    PROVE  \/ Holds(chain'[k], view[p])
           \/ base'[k] = ValueOf(chain[k][i])
           \/ /\ HistoryIsCandidate(chain'[k], view[p])
              /\ \E r \in history' : r.key = k /\ r.start <= view[p] /\ view[p] < r.stop
<1> DEFINE c == chain[k]
           n == Winner(c, ckpt.ts)
           t == view[p]
           I == {j \in DOMAIN c : \/ c[j].state = "Committed" /\ c[j].start > ckpt.ts
                                  \/ c[j].state = "Pending"}
<1>0. /\ chain \in [Keys -> Seq(Version)] /\ base \in [Keys -> Values] /\ ckpt.ts \in Values /\ p \in Procs
      /\ c \in Seq(Version) /\ GoodChain(c) /\ t \in Values /\ ckpt.pc = "install" /\ k \in ckpt.todo
      /\ ckpt.ort \in 0 .. TsMax /\ history' = history
  BY Zenon DEF EnvelopeInv, TypeInv, LinkInv, CkptType, Viewing, InstallFold
<1>1. base'[k] = FoldedBase(k, ckpt.ts) /\ chain'[k] = Retained(c, ckpt.ts)
  BY <1>0, Zenon DEF InstallFold
<1>2. I \in SUBSET DOMAIN c /\ Retained(c, ckpt.ts) = Keep(c, I)
  BY Zenon DEF Retained
<1>3. PICK h \in [DOMAIN chain'[k] -> I] :
         /\ \A m \in DOMAIN chain'[k] : chain'[k][m] = c[h[m]]
         /\ \A j \in I : \E m \in DOMAIN chain'[k] : h[m] = j
  <2> HIDE DEF I, c
  <2>1. Kept(chain'[k], c, I)
    BY <1>0, <1>1, <1>2, KeepSpec, ZenonT(60)
  <2> QED BY <2>1, Zenon DEF Kept
<1>4. \A j \in DOMAIN c : c[j] \in Version /\ c[j].start \in Nat /\ c[j].stop \in Nat
  <2>1. \A j \in DOMAIN c : c[j] \in Version
    BY <1>0
  <2> HIDE DEF c
  <2> QED BY <2>1, BoundAssumption DEF Version, Times, TsMax
<1>5. t \in Nat /\ ckpt.ts \in Nat /\ ckpt.ort \in Nat
  BY <1>0, BoundAssumption DEF Values, TsMax
<1>6. CASE c[i].start > ckpt.ts
  <2>1. i \in I
    BY <1>6, Zenon
  <2>2. PICK m \in DOMAIN chain'[k] : chain'[k][m] = c[i]
    <3> HIDE DEF I, c
    <3>1. PICK m \in DOMAIN chain'[k] : h[m] = i
      BY <1>3, <2>1, Zenon
    <3>2. chain'[k][m] = c[h[m]]
      BY <1>3, <3>1, Zenon
    <3> QED BY <3>1, <3>2, Zenon
  <2>3. Holds(chain'[k], t)
    BY <2>2, Zenon DEF Holds
  <2> QED BY <2>3, Zenon
<1>7. CASE ~(c[i].start > ckpt.ts)
  <2>1. c[i].start <= ckpt.ts
    BY <1>4, <1>5, <1>7
  <2>2. /\ n # 0 /\ n \in DOMAIN c /\ c[n].state = "Committed" /\ c[n].start <= ckpt.ts
        /\ c[i].start <= c[n].start
    <3>1. c[i].state = "Committed" /\ i \in DOMAIN c
      BY Zenon
    <3> HIDE DEF c
    <3> QED BY <1>0, <2>1, <3>1, WinnerSpec, ZenonT(60) DEF n
  <2>3. CASE i = n
    <3>1. base'[k] = ValueOf(c[i])
      BY <1>1, <2>2, <2>3, Zenon DEF FoldedBase
    <3> QED BY <3>1, Zenon
  <2>4. CASE i # n
    <3>1. c[i].start # c[n].start /\ i \in Standing(c) /\ n \in Standing(c)
      BY <2>2, <2>4, ZenonT(60) DEF EnvelopeInv, ChainInv, Standing
    <3>2. c[i].start < c[n].start
      BY <1>4, <2>2, <3>1
    <3>3. c[i].stop <= c[n].start
      <4> HIDE DEF c, n
      <4> QED BY <1>0, <3>1, <3>2, StopsAtNewer, ZenonT(60)
    <3>4. t < ckpt.ts /\ c[i].stop > t
      <4>1. t < c[i].stop /\ i \in DOMAIN c
        BY Zenon
      <4> HIDE DEF c, n, t
      <4> QED BY <1>4, <1>5, <2>2, <3>3, <4>1
    <3>5. ckpt.ort <= t
      <4>1. ckpt.ort <= t \/ ckpt.ts <= t
        BY <1>0, Zenon DEF ViewInv, ViewOf
      <4> HIDE DEF t
      <4> QED BY <1>5, <3>4, <4>1
    <3>6. c[i].stop > ckpt.ort
      <4>1. i \in DOMAIN c
        BY Zenon
      <4> HIDE DEF c, t
      <4> QED BY <1>4, <1>5, <3>4, <3>5, <4>1
    <3> DEFINE r == [key |-> k, start |-> c[i].start, stop |-> c[i].stop, tomb |-> c[i].tomb]
    <3>7. r \in SpillOf(k, ckpt.ts, ckpt.ort)
      BY <2>1, <2>4, <3>6, Zenon DEF SpillOf
    <3>8. r \in history'
      BY <1>0, <3>7, Zenon DEF SpillInv
    <3>9. r.key = k /\ r.start = c[i].start /\ r.stop = c[i].stop
      BY Zenon
    <3>10. \E q \in history' : q.key = k /\ q.start <= t /\ t < q.stop
      <4> HIDE DEF r
      <4> QED BY <3>8, <3>9, Zenon
    <3>11. ASSUME NEW m \in DOMAIN chain'[k] PROVE chain'[k][m].start > t \/ chain'[k][m].state = "Pending"
      <4>1. h[m] \in I /\ h[m] \in DOMAIN c /\ chain'[k][m] = c[h[m]]
        BY <1>2, <1>3, Zenon
      <4>2. c[h[m]].start > ckpt.ts \/ c[h[m]].state = "Pending"
        BY <4>1, ZenonT(60)
      <4>3. c[h[m]].start > ckpt.ts => c[h[m]].start > t
        <5> HIDE DEF c, t, I
        <5> QED BY <1>4, <1>5, <3>4, <4>1
      <4> QED BY <4>1, <4>2, <4>3, Zenon
    <3> QED BY <3>10, <3>11, Zenon DEF HistoryIsCandidate
  <2> QED BY <2>3, <2>4, ZenonT(60)
<1> QED BY <1>6, <1>7, Zenon

\* A held view that resolves a key keeps resolving it, unless the version it
\* reads becomes the base cell.
LEMMA StaysResolved ==
    ASSUME EnvelopeInv, EnvelopeInv', LinkInv, FoldInv, ViewInv, SpillInv, Next,
           NEW p \in Viewing, NEW k \in Keys, registry'[p] = registry[p],
           Lookup(k, view[p]).from # "base"
    PROVE  /\ view'[p] = view[p]
           /\ Lookup(k, view[p])'.from # "base" \/ Read(k, view[p])' = Read(k, view[p])
<1> USE DEF storage, publishing, gate, maintenance
<1> DEFINE t == view[p]
           Spilled(h) == \E r \in h : r.key = k /\ r.start <= t /\ t < r.stop
           Goal == /\ view'[p] = view[p]
                   /\ Lookup(k, view[p])'.from # "base" \/ Read(k, view[p])' = Read(k, view[p])
<1>0. /\ p \in Procs /\ registry[p] # None /\ pc[p] # "pinned" /\ ViewOf(p)
      /\ t \in Values /\ t <= published /\ published \in Values
      /\ chain \in [Keys -> Seq(Version)] /\ chain'[k] \in Seq(Version)
      /\ history \in SUBSET Row /\ view \in [Procs -> Values] /\ registry \in [Procs -> Values \cup {None}]
      /\ ckpt \in CkptType /\ \A w \in Writers : w \in Procs
  BY ZenonT(60) DEF Viewing, EnvelopeInv, TypeInv, SlotInv, ViewInv, Procs
<1>1. \/ \E i \in DOMAIN chain[k] : /\ chain[k][i].state = "Committed" /\ chain[k][i].start <= t
                                    /\ t < chain[k][i].stop /\ Read(k, t) = ValueOf(chain[k][i])
      \/ HistoryIsCandidate(chain[k], t) /\ Spilled(history)
  <2>1. Answered(k, t)
    <3> HIDE DEF t
    <3> QED BY <1>0, LookupSpec, Zenon
  <2>2. CASE \E i \in DOMAIN chain[k] : VisibleTo(chain[k][i], t, published)
    <3>1. Started(k, t) # {}
      BY <2>2, Zenon DEF Started, Standing, VisibleTo
    <3>2. \E i \in Started(k, t) : /\ chain[k][i].state = "Committed" /\ t < chain[k][i].stop
                                   /\ Read(k, t) = ValueOf(chain[k][i])
      <4> HIDE DEF t
      <4> QED BY <1>0, <3>1, ChainRead, Zenon
    <3> QED BY <3>2, Zenon DEF Started, Standing
  <2>3. CASE ~\E i \in DOMAIN chain[k] : VisibleTo(chain[k][i], t, published)
    BY <2>1, <2>3, Zenon DEF Answered, HistoryRows
  <2> QED BY <2>2, <2>3, Zenon
<1>2. ASSUME view'[p] = t
      PROVE  /\ Holds(chain'[k], t) => Lookup(k, view[p])'.from # "base"
             /\ HistoryIsCandidate(chain'[k], t) /\ Spilled(history') => Lookup(k, view[p])'.from # "base"
             /\ Lookup(k, view[p])'.from # "base" \/ Read(k, view[p])' = base'[k]
  <2> DEFINE d == chain'[k]
             I == {i \in DOMAIN d : VisibleTo(d[i], view'[p], published')}
             hit == First(I)
             rows == {r \in history' : r.key = k /\ r.start <= view'[p] /\ view'[p] < r.stop}
             found == Lookup(k, view[p])'
  <2>1. found = IF hit # 0 THEN [from |-> "chain", value |-> ValueOf(d[hit])]
                ELSE IF HistoryIsCandidate(d, view'[p]) /\ rows # {}
                THEN [from |-> "history",
                      value |-> ValueOf(CHOOSE r \in rows : \A q \in rows : q.start <= r.start)]
                ELSE [from |-> "base", value |-> base'[k]]
    BY Zenon DEF Lookup, HistoryRows, HistoryIsCandidate, VisibleTo, ValueOf
  <2>2. hit = 0 <=> I = {}
    <3>1. I \in SUBSET (Nat \ {0})
      BY <1>0
    <3> HIDE DEF I
    <3> QED BY <3>1, FirstSpec, Zenon
  <2>3. Holds(d, t) => I # {}
    BY <1>2, Zenon DEF Holds, VisibleTo
  <2>4. Spilled(history') => rows # {}
    BY <1>2, Zenon
  <2>5. Read(k, view[p])' = found.value
    BY Zenon DEF Read
  <2>6. HistoryIsCandidate(d, t) => HistoryIsCandidate(d, view'[p])
    BY <1>2, Zenon
  <2> HIDE DEF found, rows, hit, I, d
  <2>7. /\ hit # 0 \/ (HistoryIsCandidate(d, view'[p]) /\ rows # {}) => found.from # "base"
        /\ found.from # "base" \/ found.value = base'[k]
    BY <2>1
  <2> QED BY <2>2, <2>3, <2>4, <2>5, <2>6, <2>7, ZenonT(60) DEF d, found
<1> HIDE DEF Spilled
<1>3. ASSUME view'[p] = t, Holds(chain[k], t) => Holds(chain'[k], t),
             HistoryIsCandidate(chain[k], t) => HistoryIsCandidate(chain'[k], t),
             Spilled(history) => Spilled(history')
      PROVE  Goal
  <2>1. Holds(chain[k], t) \/ (HistoryIsCandidate(chain[k], t) /\ Spilled(history))
    BY <1>1, Zenon DEF Holds
  <2> QED BY <1>2, <1>3, <2>1, Zenon
<1>4. ASSUME view'[p] = t, UNCHANGED <<chain, history>> PROVE Goal
  BY <1>3, <1>4, Zenon
<1>5. ASSUME NEW w \in Writers, Leave(w), UNCHANGED <<chain, history>> PROVE Goal
  <2>1. view'[p] = t
    BY <1>0, <1>5, Zenon DEF Leave
  <2> QED BY <1>4, <1>5, <2>1, Zenon
<1>6. ASSUME NEW q \in Procs, PinView(q) \/ RefineView(q) \/ CloseView(q) PROVE Goal
  <2>1. view'[p] = t /\ UNCHANGED <<chain, history>>
    BY <1>0, <1>6, Zenon DEF PinView, RefineView, CloseView
  <2> QED BY <1>4, <2>1, Zenon
<1>7. ASSUME NEW w \in Writers, Select(w) PROVE Goal
  <2>1. \/ UNCHANGED <<chain, history, view>>
        \/ Leave(w) /\ UNCHANGED <<chain, history>>
    BY <1>7, Zenon DEF Select, SelectDocs, SelectNothing, AttachExpectedHeads, SelectionStale
  <2> QED BY <1>4, <1>5, <2>1, Zenon
<1>8. ASSUME NEW w \in Writers, Enter(w) PROVE Goal
  <2>1. \/ UNCHANGED <<chain, history, view>>
        \/ Leave(w) /\ UNCHANGED <<chain, history>>
        \/ LoadVisibility(w)
    BY <1>8, Zenon DEF Enter, BeginInsert, Admit, Refused, RegisterVisibility, StageInsert, InsertDuplicate
  <2>2. CASE LoadVisibility(w)
    <3>1. w # p
      BY <1>0, <2>2, Zenon DEF LoadVisibility, ViewOf
    <3>2. view'[p] = t /\ UNCHANGED <<chain, history>>
      BY <1>0, <2>2, <3>1, ZenonT(60) DEF LoadVisibility
    <3> QED BY <1>4, <3>2, Zenon
  <2> QED BY <1>4, <1>5, <2>1, <2>2, ZenonT(60)
\* A transaction in flight is past the frontier, and so past the view.
<1>9. ASSUME NEW w \in Writers, pc[w] \in Owning PROVE txn[w].ts \in Times /\ t < txn[w].ts
  <2>1. txn[w].ts \in Times /\ ~(txn[w].ts <= published)
    BY <1>9, Zenon DEF EnvelopeInv, OwnerInv, SlotInv
  <2> HIDE DEF t
  <2> QED BY <1>0, <2>1, BoundAssumption DEF Values, Times
<1>10. ASSUME NEW w \in Writers, pc[w] = "registered", NEW ks \in SUBSET txn[w].keys, InstallOn(w, ks),
              UNCHANGED <<history, view>>
       PROVE  Goal
  <2>1. CASE k \notin ks
    <3>1. chain'[k] = chain[k]
      BY <1>10, <2>1, Zenon DEF InstallOn
    <3> QED BY <1>3, <1>10, <3>1, ZenonT(60)
  <2>2. CASE k \in ks
    <3> DEFINE c == chain[k]
               d == chain'[k]
               ts == txn[w].ts
    <3>1. Pushed(c, d, ts, txn[w].op = "delete")
      BY <1>10, <2>2, InstallPushes, Zenon
    <3>2. t < ts
      BY <1>9, <1>10, Zenon DEF Owning
    <3>3. c \in Seq(Version) /\ d \in Seq(Version) /\ Len(d) = Len(c) + 1
      BY <1>0, <3>1, Zenon DEF Pushed
    <3>4. ASSUME NEW i \in DOMAIN c PROVE i + 1 \in DOMAIN d
      BY <3>3
    <3>5. ASSUME NEW m \in DOMAIN d PROVE m = 1 \/ (m - 1 \in DOMAIN c /\ (m - 1) + 1 = m)
      BY <3>3
    <3> HIDE DEF c, d, t, ts
    <3>6. ASSUME NEW i \in DOMAIN c, c[i].state = "Committed", c[i].start <= t, t < c[i].stop
          PROVE  Holds(d, t)
      <4>1. /\ d[i + 1].start = c[i].start /\ d[i + 1].state = c[i].state
            /\ d[i + 1].stop = ts \/ d[i + 1].stop = c[i].stop
        BY <3>1, Zenon DEF Pushed
      <4>2. i + 1 \in DOMAIN d /\ d[i + 1].state = "Committed" /\ d[i + 1].start <= t /\ t < d[i + 1].stop
        BY <3>2, <3>4, <3>6, <4>1, Zenon
      <4> QED BY <4>2, Zenon DEF Holds
    <3>7. ASSUME HistoryIsCandidate(c, t), NEW m \in DOMAIN d PROVE d[m].start > t \/ d[m].state = "Pending"
      <4>1. CASE m = 1
        BY <3>1, <4>1 DEF Pushed
      <4>2. CASE m - 1 \in DOMAIN c /\ (m - 1) + 1 = m
        <5>1. d[m].start = c[m - 1].start /\ d[m].state = c[m - 1].state
          BY <3>1, <4>2, ZenonT(60) DEF Pushed
        <5> QED BY <3>7, <4>2, <5>1, Zenon DEF HistoryIsCandidate
      <4> QED BY <3>5, <4>1, <4>2, ZenonT(60)
    <3>8. Holds(c, t) => Holds(d, t)
      BY <3>6, Zenon DEF Holds
    <3>9. HistoryIsCandidate(c, t) => HistoryIsCandidate(d, t)
      BY <3>7, Zenon DEF HistoryIsCandidate
    <3> QED BY <1>3, <1>10, <3>8, <3>9, Zenon DEF c, d, t
  <2> QED BY <2>1, <2>2, Zenon
<1>11. ASSUME NEW w \in Writers, NEW x \in Keys, NEW label \in {"durable", "cleanup"},
              NEW state \in {"Committed", "Aborted"}, Flip(w, x, label, state)
       PROVE  Goal
  <2>0. pc[w] \in Owning /\ UNCHANGED <<history, view>>
    BY <1>11, Zenon DEF Flip, Owning
  <2>1. CASE k # x
    <3>1. chain'[k] = chain[k]
      BY <1>0, <1>11, <2>1, Zenon DEF Flip
    <3> QED BY <1>3, <2>0, <3>1, Zenon
  <2>2. CASE k = x
    <3> DEFINE c == chain[k]
               d == chain'[k]
               ts == txn[w].ts
    <3>1. Flipped(c, d, ts, state)
      BY <1>11, <2>2, FlipFlips, ZenonT(60)
    <3>2. t < ts /\ ts \in Nat /\ t \in Nat /\ t < TsMax
      BY <1>0, <1>9, <2>0, BoundAssumption DEF Times, Values, TsMax
    <3>3. \A i \in DOMAIN c : c[i].start \in Nat
      <4>1. \A i \in DOMAIN c : c[i] \in Version
        BY <1>0
      <4> HIDE DEF c
      <4> QED BY <4>1 DEF Version, Times
    <3> HIDE DEF c, d, t, ts
    <3>4. ASSUME NEW i \in DOMAIN c, c[i].start <= t
          PROVE  d[i].start = c[i].start /\ d[i].state = c[i].state
      <4>1. c[i].start # ts
        BY <3>2, <3>3, <3>4
      <4> QED BY <3>1, <4>1, Zenon DEF Flipped
    <3>5. ASSUME NEW i \in DOMAIN c, c[i].state = "Committed", c[i].start <= t, t < c[i].stop
          PROVE  Holds(d, t)
      <4>1. d[i].stop = c[i].stop \/ d[i].stop = TsMax
        BY <3>1, Zenon DEF Flipped
      <4>2. t < d[i].stop
        BY <3>2, <3>5, <4>1, Zenon
      <4>3. i \in DOMAIN d
        BY <3>1, Zenon DEF Flipped
      <4> QED BY <3>4, <3>5, <4>2, <4>3, Zenon DEF Holds
    <3>6. ASSUME HistoryIsCandidate(c, t), NEW i \in DOMAIN d PROVE d[i].start > t \/ d[i].state = "Pending"
      <4>1. i \in DOMAIN c /\ d[i].start = c[i].start
        BY <3>1, Zenon DEF Flipped
      <4>2. CASE c[i].start > t
        BY <4>1, <4>2, Zenon
      <4>3. CASE ~(c[i].start > t)
        <5>1. c[i].start <= t
          BY <3>2, <3>3, <4>1, <4>3
        <5>2. d[i].state = c[i].state
          BY <3>4, <4>1, <5>1, Zenon
        <5> QED BY <3>6, <4>1, <4>3, <5>2, ZenonT(60) DEF HistoryIsCandidate
      <4> QED BY <4>2, <4>3, Zenon
    <3>7. Holds(c, t) => Holds(d, t)
      BY <3>5, Zenon DEF Holds
    <3>8. HistoryIsCandidate(c, t) => HistoryIsCandidate(d, t)
      BY <3>6, Zenon DEF HistoryIsCandidate
    <3> QED BY <1>3, <2>0, <3>7, <3>8, ZenonT(60) DEF c, d, t
  <2> QED BY <2>1, <2>2, Zenon
<1>12. ASSUME NEW w \in Writers, Commit(w) PROVE Goal
  <2>1. CASE RegisterSlot(w) \/ FailBeforeLog(w) \/ AppendToLog(w) \/ MarkReady(w)
    <3>1. UNCHANGED <<chain, history, view>>
      BY <2>1, Zenon DEF RegisterSlot, FailBeforeLog, AppendToLog, MarkReady
    <3> QED BY <1>4, <3>1, Zenon
  <2>2. CASE AppendFails(w) \/ FlipFails(w) \/ MarkAborted(w) \/ PublishFails(w) \/ Acknowledge(w)
    <3>1. Leave(w) /\ UNCHANGED <<chain, history>>
      BY <2>2, Zenon DEF AppendFails, FlipFails, MarkAborted, PublishFails, Acknowledge, Poison
    <3> QED BY <1>5, <3>1, Zenon
  <2>3. CASE InstallPending(w)
    <3>1. txn[w].keys \in SUBSET txn[w].keys
      BY Zenon
    <3> QED BY <1>10, <2>3, <3>1, Zenon DEF InstallPending
  <2>4. ASSUME NEW ks \in SUBSET Keys, InstallConflicts(w, ks) PROVE Goal
    <3>1. ks \in SUBSET txn[w].keys
      BY <2>4, Zenon DEF InstallConflicts
    <3> QED BY <1>10, <2>4, <3>1, Zenon DEF InstallConflicts
  <2>5. ASSUME NEW x \in Keys, FlipToCommitted(w, x) \/ FlipToAborted(w, x) PROVE Goal
    BY <1>11, <2>5, Zenon DEF FlipToCommitted, FlipToAborted
  <2> QED BY <1>12, <2>1, <2>2, <2>3, <2>4, <2>5, ZenonT(60) DEF Commit
<1>13. CASE Checkpoint
  <2>0. view'[p] = t
    BY <1>13, Zenon DEF Checkpoint, CloseGate, PlanFold, SpillHistory, GcAndReopen, InstallFold,
                        CheckpointGivesUp, CheckpointFails
  <2>1. CASE CloseGate \/ PlanFold \/ CheckpointGivesUp \/ CheckpointFails
    BY <1>4, <2>0, <2>1, Zenon DEF CloseGate, PlanFold, CheckpointGivesUp, CheckpointFails
  <2>2. CASE SpillHistory
    <3>1. chain' = chain /\ history \in SUBSET history'
      BY <2>2, Zenon DEF SpillHistory
    <3>2. Spilled(history) => Spilled(history')
      BY <3>1, Zenon DEF Spilled
    <3> QED BY <1>3, <2>0, <3>1, <3>2, Zenon
  <2>3. CASE GcAndReopen
    <3>1. ASSUME NEW r \in history, r.key = k, r.start <= t, t < r.stop PROVE r \in history'
      <4>1. ckpt.pc = "install" /\ history' = {q \in history : q.stop = TsMax \/ q.stop > ckpt.ort}
        BY <2>3, Zenon DEF GcAndReopen
      <4>2. /\ r.stop <= ckpt.ts /\ r \in Row
            /\ ckpt.ort <= t \/ ckpt.ts <= t
        BY <1>0, <4>1, Zenon DEF SpillInv, ViewOf
      <4>3. r.stop > ckpt.ort
        <5>1. r.stop \in Nat /\ t \in Nat /\ ckpt.ts \in Nat /\ ckpt.ort \in Nat
          BY <1>0, <4>2, BoundAssumption DEF Row, CkptType, Values, Times, TsMax
        <5> HIDE DEF t
        <5> QED BY <3>1, <4>2, <5>1
      <4> QED BY <4>1, <4>3, Zenon
    <3>2. Spilled(history) => Spilled(history')
      BY <3>1, Zenon DEF Spilled
    <3>3. chain' = chain
      BY <2>3, Zenon DEF GcAndReopen
    <3> QED BY <1>3, <2>0, <3>2, <3>3, Zenon
  <2>4. ASSUME NEW x \in Keys, InstallFold(x) PROVE Goal
    <3>0. history' = history
      BY <2>4, Zenon DEF InstallFold
    <3>1. CASE x # k
      <4>1. chain'[k] = chain[k]
        BY <1>0, <2>4, <3>1, Zenon DEF InstallFold
      <4> QED BY <1>3, <2>0, <3>0, <4>1, Zenon
    <3>2. CASE x = k
      <4>1. ASSUME NEW i \in DOMAIN chain[k], chain[k][i].state = "Committed", chain[k][i].start <= t,
                   t < chain[k][i].stop, Read(k, t) = ValueOf(chain[k][i])
            PROVE  Goal
        <5>1. \/ Holds(chain'[k], t)
              \/ base'[k] = ValueOf(chain[k][i])
              \/ HistoryIsCandidate(chain'[k], t) /\ Spilled(history')
          BY <2>4, <3>2, <4>1, FoldResolves, ZenonT(60) DEF Spilled
        <5> QED BY <1>2, <2>0, <4>1, <5>1, ZenonT(60)
      <4>2. HistoryIsCandidate(chain[k], t) => HistoryIsCandidate(chain'[k], t)
        <5>1. PartOf(chain'[k], chain[k])
          <6> DEFINE c == chain[k]
                     I == {j \in DOMAIN c : \/ c[j].state = "Committed" /\ c[j].start > ckpt.ts
                                            \/ c[j].state = "Pending"}
          <6>1. c \in Seq(Version) /\ I \in SUBSET DOMAIN c
            BY <1>0, Zenon
          <6>2. chain'[k] = Keep(c, I)
            BY <1>0, <2>4, <3>2, Zenon DEF InstallFold, Retained
          <6> HIDE DEF c, I
          <6> QED BY <6>1, <6>2, KeepPart, Zenon DEF c
        <5>2. PICK g \in [DOMAIN chain'[k] -> DOMAIN chain[k]] : \A n \in DOMAIN chain'[k] : chain'[k][n] = chain[k][g[n]]
          BY <5>1, Zenon DEF PartOf
        <5>3. \A n \in DOMAIN chain'[k] : g[n] \in DOMAIN chain[k]
          BY <5>2, Zenon
        <5> QED BY <5>2, <5>3, ZenonT(60) DEF HistoryIsCandidate
      <4>3. HistoryIsCandidate(chain[k], t) /\ Spilled(history) => Goal
        BY <1>2, <2>0, <3>0, <4>2, ZenonT(60)
      <4> QED BY <1>1, <4>1, <4>3, Zenon
    <3> QED BY <3>1, <3>2, Zenon
  <2> QED BY <1>13, <2>1, <2>2, <2>3, <2>4, ZenonT(60) DEF Checkpoint
<1>14. ASSUME NEW x \in Evictable, SampleOrt(x) \/ Evict(x) PROVE Goal
  <2>0. x \in Keys /\ view'[p] = t /\ history' = history
    BY <1>14, PressureAssumption, Zenon DEF SampleOrt, Evict
  <2>1. CASE SampleOrt(x)
    BY <1>4, <2>0, <2>1, Zenon DEF SampleOrt
  <2>2. CASE Evict(x)
    <3>1. \/ chain'[k] = chain[k]
          \/ Standing(chain[k]) = {} /\ DOMAIN chain'[k] = {}
      BY <2>0, <2>2, EvictPrunes, Zenon
    <3>2. Holds(chain[k], t) => Holds(chain'[k], t)
      BY <3>1, Zenon DEF Holds, Standing
    <3>3. HistoryIsCandidate(chain[k], t) => HistoryIsCandidate(chain'[k], t)
      BY <3>1, Zenon DEF HistoryIsCandidate
    <3> QED BY <1>3, <2>0, <3>2, <3>3, ZenonT(60)
  <2> QED BY <1>14, <2>1, <2>2, Zenon
<1> QED
  <2>1. \A r \in Readers : r \in Procs
    BY Zenon DEF Procs
  <2> QED BY <1>6, <1>7, <1>8, <1>12, <1>13, <1>14, <2>1, ZenonT(60) DEF Next

\* A spilled row is a committed version that was superseded at or before the
\* boundary, and after the ort.
LEMMA SpillStops ==
    ASSUME EnvelopeInv, LinkInv, NEW k \in Keys, NEW ts \in Values, NEW ort, NEW r \in SpillOf(k, ts, ort)
    PROVE  /\ r.stop <= ts
           /\ \E i \in Standing(chain[k]) : /\ chain[k][i].start = r.start /\ chain[k][i].stop = r.stop
                                            /\ r.key = k
<1> DEFINE c == chain[k]
           n == Winner(c, ts)
<1>1. c \in Seq(Version) /\ GoodChain(c)
  BY Zenon DEF EnvelopeInv, TypeInv, LinkInv
<1>2. PICK i \in DOMAIN c : /\ i # n /\ c[i].state = "Committed" /\ c[i].start <= ts
                            /\ r = [key |-> k, start |-> c[i].start, stop |-> c[i].stop, tomb |-> c[i].tomb]
  BY Zenon DEF SpillOf
<1>3. /\ n \in DOMAIN c /\ c[n].state = "Committed" /\ c[n].start <= ts
      /\ c[i].start <= c[n].start
  <2> HIDE DEF c
  <2> QED BY <1>1, <1>2, WinnerSpec, Zenon
<1>4. i \in Standing(c) /\ n \in Standing(c) /\ c[i].start # c[n].start
  BY <1>2, <1>3, ZenonT(60) DEF Standing, EnvelopeInv, ChainInv
<1>5. c[i] \in Version /\ c[n] \in Version
  BY <1>1, <1>2, <1>3
<1> HIDE DEF c, n
<1>6. c[i].start \in Times /\ c[n].start \in Times /\ c[i].stop \in Times \cup {TsMax}
  BY <1>5, Zenon DEF Version
<1>7. c[i].start < c[n].start
  BY <1>3, <1>4, <1>6, BoundAssumption DEF Times
<1>8. c[i].stop <= c[n].start
  BY <1>1, <1>4, <1>7, StopsAtNewer, Zenon
<1>9. c[i].stop <= ts
  BY <1>3, <1>6, <1>8, BoundAssumption DEF Times, TsMax, Values
<1>10. r.stop = c[i].stop /\ r.start = c[i].start /\ r.key = k
  BY <1>2, Zenon
<1> QED BY <1>4, <1>9, <1>10, Zenon DEF c

\* No logged write falls inside the window of a row the checkpoint spills.
LEMMA SpillWindow ==
    ASSUME EnvelopeInv, LinkInv, FoldInv, NEW k \in Keys, NEW ts \in Values, NEW ort,
           NEW r \in SpillOf(k, ts, ort), NEW m \in commits, m.key = r.key
    PROVE  m.ts <= r.start \/ r.stop <= m.ts
<1>1. \E i \in Standing(chain[k]) : /\ chain[k][i].start = r.start /\ chain[k][i].stop = r.stop
                                    /\ r.key = k
  BY SpillStops
<1>2. PICK i \in Standing(chain[k]) : chain[k][i].start = r.start /\ chain[k][i].stop = r.stop
  BY <1>1, Zenon
<1>3. /\ m.key = k /\ m.ts \in Nat /\ r.start \in Nat
      /\ \A j \in Standing(chain[k]) : chain[k][j].start \in Nat
  <2>1. \A j \in Standing(chain[k]) : chain[k][j] \in Version
    BY DEF EnvelopeInv, TypeInv, Standing
  <2>2. m \in CommitRow /\ m.key = k
    BY <1>1, Zenon DEF EnvelopeInv, TypeInv
  <2> QED BY <1>2, <2>1, <2>2 DEF Version, CommitRow, Times
<1>4. CASE \A j \in Standing(chain[k]) : m.ts < chain[k][j].start
  BY <1>2, <1>3, <1>4
<1>5. ASSUME NEW j \in Standing(chain[k]), chain[k][j].start = m.ts
      PROVE  m.ts <= r.start \/ r.stop <= m.ts
  <2>1. CASE r.start < m.ts
    <3>1. chain[k] \in Seq(Version) /\ GoodChain(chain[k])
      BY Zenon DEF EnvelopeInv, TypeInv, LinkInv
    <3>2. chain[k][i].stop <= chain[k][j].start
      BY <1>2, <1>5, <2>1, <3>1, StopsAtNewer, Zenon
    <3> QED BY <1>2, <1>5, <3>2, Zenon
  <2> QED BY <1>3, <2>1
<1> QED BY <1>3, <1>4, <1>5, Zenon DEF FoldInv, Stands

\* Every step preserves SpillInv.
LEMMA SpillStep ==
    ASSUME EnvelopeInv, EnvelopeInv', LinkInv, FoldInv, ViewInv, SpillInv, [Next]_vars
    PROVE  SpillInv'
<1> USE DEF storage, publishing, gate, maintenance
<1> DEFINE Rows(c, k, ts, ort) ==
               {[key |-> k, start |-> c[i].start, stop |-> c[i].stop, tomb |-> c[i].tomb] :
                  i \in {j \in DOMAIN c : /\ j # Winner(c, ts) /\ c[j].state = "Committed"
                                          /\ c[j].start <= ts /\ c[j].stop > ort}}
           Clear(log) == \A r \in history' : \A c \in log : c.key = r.key => c.ts <= r.start \/ r.stop <= c.ts
<1>0. /\ history \in SUBSET Row /\ chain \in [Keys -> Seq(Version)] /\ ckpt \in CkptType
      /\ ckpt.ts \in Values /\ ckpt.todo \in SUBSET Keys /\ published \in Values
      /\ \A w \in Writers : w \in Procs
  BY Zenon DEF EnvelopeInv, TypeInv, CkptType, Procs
<1>1. /\ \A k \in Keys : SpillOf(k, ckpt.ts, ckpt.ort) = Rows(chain[k], k, ckpt.ts, ckpt.ort)
      /\ \A k \in Keys : SpillOf(k, ckpt.ts, ckpt.ort)' = Rows(chain'[k], k, ckpt'.ts, ckpt'.ort)
  BY Zenon DEF SpillOf
<1>2. \A c, k, ts, ort : DOMAIN c = {} => Rows(c, k, ts, ort) = {}
  BY Zenon
<1> HIDE DEF Rows
<1>3. commits' = commits /\ history' \in SUBSET history => Clear(commits')
  BY Zenon DEF SpillInv
\* The checkpoint plans no leaf and every leaf it has planned is as it was.
<1>4. ASSUME Clear(commits'),
             ckpt'.pc \in {"spill", "install"} => \A r \in history' : r.stop <= ckpt'.ts,
             ckpt'.pc = "install" =>
               /\ ckpt.pc = "install" /\ ckpt'.todo \in SUBSET ckpt.todo /\ history' = history
               /\ ckpt'.ts = ckpt.ts /\ ckpt'.ort = ckpt.ort
               /\ \A k \in ckpt'.todo : chain'[k] = chain[k] \/ DOMAIN chain'[k] = {}
      PROVE  SpillInv'
  <2>1. ASSUME ckpt'.pc = "install", NEW k \in ckpt'.todo
        PROVE  SpillOf(k, ckpt.ts, ckpt.ort)' \in SUBSET history'
    <3>1. k \in Keys /\ k \in ckpt.todo
      BY <1>0, <1>4, <2>1, Zenon
    <3>2. SpillOf(k, ckpt.ts, ckpt.ort) \in SUBSET history
      BY <1>4, <2>1, <3>1, Zenon DEF SpillInv
    <3>3. SpillOf(k, ckpt.ts, ckpt.ort)' = Rows(chain'[k], k, ckpt.ts, ckpt.ort)
      BY <1>1, <1>4, <2>1, <3>1, Zenon
    <3>4. CASE chain'[k] = chain[k]
      BY <1>1, <1>4, <2>1, <3>1, <3>2, <3>3, <3>4, ZenonT(60)
    <3>5. CASE DOMAIN chain'[k] = {}
      BY <1>2, <3>3, <3>5, Zenon
    <3> QED BY <1>4, <2>1, <3>4, <3>5, Zenon
  <2> QED BY <1>4, <2>1, Zenon DEF SpillInv
<1>5. ASSUME UNCHANGED <<chain, history, commits, ckpt>> PROVE SpillInv'
  BY <1>3, <1>4, <1>5, Zenon DEF SpillInv
<1>6. ASSUME NEW p \in Procs, PinView(p) \/ RefineView(p) \/ CloseView(p) PROVE SpillInv'
  BY <1>5, <1>6, Zenon DEF PinView, RefineView, CloseView
<1>7. ASSUME NEW w \in Writers, Select(w) \/ Enter(w) PROVE SpillInv'
  BY <1>5, <1>7, Zenon DEF Select, SelectDocs, SelectNothing, AttachExpectedHeads, SelectionStale, Enter,
       BeginInsert, Admit, Refused, LoadVisibility, RegisterVisibility, StageInsert, InsertDuplicate
<1>8. ASSUME NEW w \in Writers, Commit(w) PROVE SpillInv'
  <2>1. /\ pc[w] \in Inside /\ UNCHANGED <<history, ckpt>>
        /\ AppendToLog(w) \/ commits' = commits
    BY <1>8, Zenon DEF Commit, RegisterSlot, InstallPending, FailBeforeLog, InstallConflicts, AppendToLog,
         AppendFails, FlipToCommitted, FlipToAborted, Flip, FlipFails, MarkAborted, MarkReady,
         PublishFails, Acknowledge, Inside, Owning
  <2>2. ckpt'.pc \notin {"spill", "install"}
    BY <1>0, <2>1, Zenon DEF ViewInv, ViewOf
  <2>3. CASE AppendToLog(w)
    <3>1. ASSUME NEW r \in history, NEW c \in commits', c \notin commits PROVE r.stop <= c.ts
      <4>1. c.ts = txn[w].ts /\ pc[w] = "installed"
        BY <2>3, <3>1 DEF AppendToLog
      <4>2. txn[w].ts \in Times /\ slot[txn[w].ts] = "Pending"
        BY <4>1, Zenon DEF EnvelopeInv, OwnerInv, Owning
      <4>3. ~(txn[w].ts <= published)
        BY <4>2, Zenon DEF EnvelopeInv, SlotInv
      <4>4. r.stop <= published /\ r \in Row
        BY <1>0, <3>1, Zenon DEF FoldInv
      <4>5. r.stop \in Nat
        BY <4>4, BoundAssumption DEF Row, Times, TsMax
      <4> QED BY <1>0, <4>1, <4>2, <4>3, <4>4, <4>5, BoundAssumption DEF Values, Times
    <3>2. Clear(commits')
      BY <2>1, <3>1, Zenon DEF SpillInv
    <3> QED BY <1>4, <2>2, <3>2, Zenon
  <2> QED BY <1>3, <1>4, <2>1, <2>2, <2>3, ZenonT(60)
<1>9. CASE Checkpoint
  <2>1. CASE CloseGate \/ GcAndReopen \/ CheckpointGivesUp \/ CheckpointFails
    <3>1. /\ ckpt'.pc \in {"idle", "draining"} /\ commits' = commits /\ history' \in SUBSET history
      BY <1>0, <2>1 DEF CloseGate, GcAndReopen, CheckpointGivesUp, CheckpointFails, NoCkpt, CkptType
    <3> QED BY <1>3, <1>4, <3>1, Zenon
  <2>2. CASE PlanFold
    <3>1. ckpt'.pc = "spill" /\ ckpt'.ts = published /\ UNCHANGED <<commits, history>>
      BY <2>2 DEF PlanFold
    <3>2. \A r \in history : r.stop <= published
      BY Zenon DEF FoldInv
    <3> QED BY <1>3, <1>4, <3>1, <3>2, ZenonT(60)
  <2>3. CASE SpillHistory
    <3>1. /\ ckpt.pc = "spill" /\ ckpt'.pc = "install" /\ ckpt'.ts = ckpt.ts /\ ckpt'.ort = ckpt.ort
          /\ ckpt'.todo = ckpt.todo /\ UNCHANGED <<chain, commits>>
          /\ history' = history \cup UNION {SpillOf(k, ckpt.ts, ckpt.ort) : k \in ckpt.todo}
      BY <1>0, <2>3 DEF SpillHistory, CkptType
    <3>2. ASSUME NEW r \in history', r \notin history
          PROVE  \E k \in Keys : r \in SpillOf(k, ckpt.ts, ckpt.ort)
      BY <1>0, <3>1, <3>2, Zenon
    <3>3. Clear(commits')
      <4> SUFFICES ASSUME NEW r \in history', NEW c \in commits, c.key = r.key
                   PROVE  c.ts <= r.start \/ r.stop <= c.ts
        BY <3>1, Zenon
      <4>1. CASE r \in history
        BY <4>1, Zenon DEF SpillInv
      <4>2. CASE r \notin history
        BY <1>0, <3>2, <4>2, SpillWindow, Zenon
      <4> QED BY <4>1, <4>2, Zenon
    <3>4. ASSUME NEW r \in history' PROVE r.stop <= ckpt'.ts
      <4>1. CASE r \in history
        BY <3>1, <4>1, Zenon DEF SpillInv
      <4>2. CASE r \notin history
        BY <1>0, <3>1, <3>2, <4>2, SpillStops, ZenonT(60)
      <4> QED BY <4>1, <4>2, Zenon
    <3>5. ASSUME NEW k \in ckpt'.todo PROVE SpillOf(k, ckpt.ts, ckpt.ort)' \in SUBSET history'
      <4>1. k \in Keys /\ k \in ckpt.todo
        BY <1>0, <3>1, Zenon
      <4>2. SpillOf(k, ckpt.ts, ckpt.ort)' = SpillOf(k, ckpt.ts, ckpt.ort)
        BY <1>1, <3>1, <4>1
      <4>3. SpillOf(k, ckpt.ts, ckpt.ort) \in SUBSET history'
        BY <3>1, <4>1, Zenon
      <4> QED BY <4>2, <4>3, Zenon
    <3> QED BY <3>3, <3>4, <3>5, ZenonT(60) DEF SpillInv
  <2>4. ASSUME NEW k \in Keys, InstallFold(k) PROVE SpillInv'
    <3>1. /\ ckpt.pc = "install" /\ ckpt'.pc = "install" /\ ckpt'.ts = ckpt.ts /\ ckpt'.ort = ckpt.ort
          /\ ckpt'.todo = ckpt.todo \ {k} /\ UNCHANGED <<history, commits>>
      BY <1>0, <2>4 DEF InstallFold, CkptType
    <3>2. \A x \in ckpt'.todo : chain'[x] = chain[x]
      BY <1>0, <2>4, <3>1, Zenon DEF InstallFold
    <3> QED BY <1>3, <1>4, <3>1, <3>2, ZenonT(60) DEF SpillInv
  <2> QED BY <1>9, <2>1, <2>2, <2>3, <2>4, ZenonT(60) DEF Checkpoint
<1>10. ASSUME NEW k \in Evictable, SampleOrt(k) \/ Evict(k) PROVE SpillInv'
  <2>1. CASE SampleOrt(k)
    BY <1>5, <2>1, Zenon DEF SampleOrt
  <2>2. CASE Evict(k)
    <3>1. k \in Keys /\ UNCHANGED <<history, commits, ckpt>>
      BY <2>2, PressureAssumption, Zenon DEF Evict
    <3>2. \A x \in Keys : chain'[x] = chain[x] \/ DOMAIN chain'[x] = {}
      BY <2>2, <3>1, EvictPrunes, Zenon
    <3> QED BY <1>0, <1>3, <1>4, <3>1, <3>2, ZenonT(60) DEF SpillInv
  <2> QED BY <1>10, <2>1, <2>2, Zenon
<1> QED
  <2>1. \A r \in Readers : r \in Procs
    BY Zenon DEF Procs
  <2>2. CASE UNCHANGED vars
    BY <1>5, <2>2, Zenon DEF vars
  <2> QED BY <1>6, <1>7, <1>8, <1>9, <1>10, <2>1, <2>2, Zenon DEF Next

\* No registered view is older than the oldest required timestamp.
LEMMA OldestRequired ==
    ASSUME EnvelopeInv, NEW p \in Procs, registry[p] # None
    PROVE  OldestRequiredTs <= registry[p]
<1> DEFINE pins == {registry[q] : q \in {r \in Procs : registry[r] # None}} \cup {TsMax}
<1>1. \A q \in Procs : registry[q] # None => registry[q] \in Nat
  BY BoundAssumption DEF EnvelopeInv, TypeInv, Values
<1>2. pins \in SUBSET Nat /\ registry[p] \in pins
  <2>1. TsMax \in Nat
    BY BoundAssumption DEF TsMax
  <2> QED BY <1>1, <2>1, Zenon
<1>3. OldestRequiredTs = CHOOSE t \in pins : \A u \in pins : t <= u
  BY Zenon DEF OldestRequiredTs
<1> HIDE DEF pins
<1>4. \E t \in pins : \A u \in pins : t <= u
  BY <1>2, LeastNatural, Zenon
<1> QED BY <1>2, <1>3, <1>4, Zenon

-----------------------------------------------------------------------------
(* Chains that hand the key over without a gap. *)

\* Installing over an older committed head, or none, keeps the chain linked.
LEMMA PushGood ==
    ASSUME NEW c \in Seq(Version), NEW d, NEW ts \in Times, NEW tomb, Pushed(c, d, ts, tomb),
           GoodChain(c), HeadFirst(c),
           LiveHead(c) # 0 => c[LiveHead(c)].state = "Committed" /\ c[LiveHead(c)].start < ts
    PROVE  GoodChain(d)
<1> DEFINE h == LiveHead(c)
<1>0. LinkedChain(c) /\ SortedChain(c)
  BY Zenon DEF GoodChain
<1>1. /\ h = 0 => Standing(c) = {}
      /\ h # 0 => h \in Standing(c) /\ \A i \in Standing(c) : h <= i
      /\ h # 0 => c[h].state = "Committed" /\ c[h].start < ts
  BY Zenon DEF HeadFirst
<1>2. /\ \A i \in Standing(c) : i \in Nat \ {0} /\ c[i] \in Version
      /\ \A i \in Standing(c) : c[i].start \in Nat /\ c[i].start < c[i].stop
  <2>1. \A i \in Standing(c) : i \in Nat \ {0} /\ c[i] \in Version
    BY DEF Standing
  <2>2. \A i \in Standing(c) : c[i].start \in Nat
    BY <2>1 DEF Version, Times
  <2> QED BY <1>0, <2>1, <2>2, Zenon DEF LinkedChain
<1>3. /\ d[1].start = ts /\ d[1].stop = TsMax /\ 1 \in Standing(d)
      /\ ts \in Nat /\ ts < TsMax
  BY BoundAssumption DEF Pushed, Standing, Times, TsMax
<1>4. \A i \in Standing(c) :
        /\ i + 1 \in Standing(d)
        /\ d[i + 1].start = c[i].start /\ d[i + 1].state = c[i].state
        /\ d[i + 1].stop = IF i = h THEN ts ELSE c[i].stop
  BY DEF Pushed, Standing
<1>5. \A n \in Standing(d) : n \in Nat \ {0} /\ (n = 1 \/ n - 1 \in Standing(c))
  BY DEF Pushed, Standing
<1> HIDE DEF h
<1>6. SortedChain(d)
  <2> SUFFICES ASSUME NEW n \in Standing(d), NEW m \in Standing(d), n < m
               PROVE  d[m].start < d[n].start /\ d[m].state = "Committed"
    BY Zenon DEF SortedChain
  <2>1. m - 1 \in Standing(c) /\ d[m].start = c[m - 1].start /\ d[m].state = c[m - 1].state
    BY <1>4, <1>5
  <2>2. h # 0 /\ h \in Standing(c) /\ h <= m - 1 /\ c[h].state = "Committed" /\ c[h].start < ts
    BY <1>1, <2>1, Zenon
  <2>3. c[m - 1].start <= c[h].start /\ c[m - 1].state = "Committed"
    <3>1. CASE m - 1 = h
      BY <3>1, <2>2, <1>2
    <3>2. CASE m - 1 # h
      <4>1. h < m - 1
        BY <3>2, <2>1, <2>2, <1>2
      <4>2. c[m - 1].start < c[h].start /\ c[m - 1].state = "Committed"
        BY <1>0, <2>1, <2>2, <4>1, ZenonT(60) DEF SortedChain
      <4> QED BY <4>2, <1>2, <2>1, <2>2
    <3> QED BY <3>1, <3>2, Zenon
  <2>4. CASE n = 1
    BY <2>1, <2>2, <2>3, <2>4, <1>2, <1>3
  <2>5. CASE n # 1
    <3>1. n - 1 \in Standing(c) /\ n - 1 < m - 1 /\ d[n].start = c[n - 1].start
      BY <2>5, <1>4, <1>5
    <3>2. c[m - 1].start < c[n - 1].start
      BY <1>0, <2>1, <3>1, Zenon DEF SortedChain
    <3> QED BY <2>1, <2>3, <3>1, <3>2, ZenonT(60)
  <2> QED BY <2>4, <2>5, Zenon
<1>7. LinkedChain(d)
  <2> SUFFICES ASSUME NEW n \in Standing(d)
               PROVE  /\ d[n].start < d[n].stop
                      /\ (\A m \in Standing(d) : n <= m) => d[n].stop = TsMax
                      /\ \A m \in Standing(d) :
                           (m < n /\ ~\E q \in Standing(d) : m < q /\ q < n) => d[n].stop = d[m].start
    BY Zenon DEF LinkedChain
  <2>1. CASE n = 1
    BY <1>3, <1>5, <2>1
  <2>2. CASE n # 1
    <3> DEFINE i == n - 1
    <3>1. /\ i \in Standing(c) /\ n = i + 1 /\ d[n].start = c[i].start
          /\ d[n].stop = IF i = h THEN ts ELSE c[i].stop
          /\ h # 0 /\ h \in Standing(c) /\ h <= i
      BY <1>1, <1>4, <1>5, <2>2
    <3> HIDE DEF i
    <3>2. ~(\A m \in Standing(d) : n <= m)
      BY <1>2, <1>3, <3>1
    <3>3. d[n].start < d[n].stop
      BY <1>1, <1>2, <3>1, Zenon
    <3>4. ASSUME NEW m \in Standing(d), m < n, ~\E q \in Standing(d) : m < q /\ q < n
          PROVE  d[n].stop = d[m].start
      <4>1. CASE i = h
        <5>1. m = 1
          BY <1>1, <1>2, <1>5, <3>1, <3>4, <4>1
        <5> QED BY <3>1, <4>1, <5>1, <1>3, ZenonT(60)
      <4>2. CASE i # h
        <5>1. h \in Nat \ {0} /\ i \in Nat /\ h + 1 \in Standing(d)
          BY <1>2, <1>4, <3>1, Zenon
        <5>2. 1 < h + 1 /\ h + 1 < n
          BY ONLY <3>1, <4>2, <5>1
        <5>3. m # 1
          BY <3>4, <5>1, <5>2, Zenon
        <5>4. m \in Nat \ {0} /\ m - 1 \in Standing(c)
          BY <1>5, <5>3, Zenon
        <5>5. m - 1 < i /\ (m - 1) + 1 = m
          BY ONLY <3>1, <3>4, <5>1, <5>4
        <5>6. d[m].start = c[m - 1].start
          BY <1>4, <5>4, <5>5, Zenon
        <5>7. ASSUME NEW q \in Standing(c), m - 1 < q, q < i PROVE FALSE
          <6>1. q \in Nat /\ q + 1 \in Standing(d)
            BY <1>2, <1>4, Zenon
          <6>2. m < q + 1 /\ q + 1 < n
            BY ONLY <3>1, <5>1, <5>4, <5>7, <6>1
          <6> QED BY <3>4, <6>1, <6>2, Zenon
        <5>8. c[i].stop = c[m - 1].start
          BY <1>0, <3>1, <5>4, <5>5, <5>7, Zenon DEF LinkedChain
        <5> QED BY <3>1, <4>2, <5>6, <5>8, Zenon
      <4> QED BY <4>1, <4>2, Zenon
    <3> QED BY <3>2, <3>3, <3>4, ZenonT(60)
  <2> QED BY <2>1, <2>2, Zenon
<1> QED BY <1>6, <1>7, Zenon DEF GoodChain

\* Settling the pending version as committed changes no window.
LEMMA CommitGood ==
    ASSUME NEW c \in Seq(Version), NEW d, NEW ts, Flipped(c, d, ts, "Committed"), GoodChain(c)
    PROVE  GoodChain(d)
<1>0. LinkedChain(c) /\ SortedChain(c)
  BY Zenon DEF GoodChain
<1>1. Standing(d) = Standing(c)
  BY Zenon DEF Flipped, Standing
<1>2. \A i \in Standing(c) :
        /\ d[i].start = c[i].start /\ d[i].stop = c[i].stop
        /\ c[i].state = "Committed" => d[i].state = "Committed"
  BY Zenon DEF Flipped, Standing
<1>3. LinkedChain(d)
  <2> SUFFICES ASSUME NEW i \in Standing(c)
               PROVE  /\ d[i].start < d[i].stop
                      /\ (\A j \in Standing(c) : i <= j) => d[i].stop = TsMax
                      /\ \A j \in Standing(c) :
                           (j < i /\ ~\E m \in Standing(c) : j < m /\ m < i) => d[i].stop = d[j].start
    BY <1>1, Zenon DEF LinkedChain
  <2> QED BY <1>0, <1>2 DEF LinkedChain
<1>4. SortedChain(d)
  BY <1>0, <1>1, <1>2, Zenon DEF SortedChain
<1> QED BY <1>3, <1>4, Zenon DEF GoodChain

\* Aborting the pending version makes the version it superseded live again.
LEMMA AbortGood ==
    ASSUME NEW c \in Seq(Version), NEW d, NEW ts, Flipped(c, d, ts, "Aborted"), GoodChain(c)
    PROVE  GoodChain(d)
<1> DEFINE S == Standing(c)
<1>0. LinkedChain(c) /\ SortedChain(c)
  BY Zenon DEF GoodChain
<1>1. CASE \A i \in DOMAIN c : ~(c[i].state = "Pending" /\ c[i].start = ts)
  BY <1>1, Zenon DEF Flipped
<1>2. ASSUME NEW p \in DOMAIN c, c[p].state = "Pending", c[p].start = ts
      PROVE  GoodChain(d)
  <2>1. /\ p \in S
        /\ \A i \in S : i \in Nat /\ i \in DOMAIN c /\ c[i] \in Version
    BY <1>2 DEF Standing
  <2>2. \A i \in S : c[i].start \in Nat /\ c[i].start < TsMax
    BY <2>1, BoundAssumption DEF Version, Times, TsMax
  <2>3. \A i \in S : i # p => p < i /\ c[i].start < ts /\ c[i].state = "Committed"
    BY <1>0, <1>2, <2>1 DEF SortedChain
  <2>4. Standing(d) = S \ {p}
    <3>1. DOMAIN d = DOMAIN c /\ d[p].state = "Aborted"
      BY <1>2, Zenon DEF Flipped
    <3>2. \A i \in DOMAIN c : i # p => (d[i].state = "Aborted" <=> c[i].state = "Aborted")
      <4>1. \A i \in DOMAIN c : i # p => ~(c[i].state = "Pending" /\ c[i].start = ts)
        <5>1. \A i \in DOMAIN c : i # p => ~(c[i].state = "Pending")
          BY <2>3, Zenon DEF Standing
        <5> QED BY <5>1, Zenon
      <4> QED BY <4>1, Zenon DEF Flipped
    <3> QED BY <3>1, <3>2, Zenon DEF Standing
  <2>5. \A i \in S \ {p} :
          /\ d[i].start = c[i].start /\ d[i].state = "Committed"
          /\ d[i].stop # c[i].stop => d[i].stop = TsMax /\ c[i].stop = ts
    BY <1>2, <2>1, <2>3, Zenon DEF Flipped
  <2>6. SortedChain(d)
    BY <1>0, <2>4, <2>5, Zenon DEF SortedChain
  <2>7. ASSUME NEW q \in S \ {p}, \A j \in S \ {p} : q <= j
        PROVE  d[q].stop = TsMax
    <3>1. p < q /\ ~\E m \in S : p < m /\ m < q
      BY <2>1, <2>3, <2>7
    <3>2. c[q].stop = ts
      BY <1>0, <1>2, <2>1, <3>1, Zenon DEF LinkedChain
    <3>3. \A m \in DOMAIN c : p < m /\ m < q => c[m].state = "Aborted"
      BY <3>1, Zenon DEF Standing
    <3> QED BY <1>2, <2>1, <2>3, <3>1, <3>2, <3>3, ZenonT(60) DEF Flipped
  <2>8. ASSUME NEW i \in S \ {p}, NEW j \in S \ {p}, j < i, ~\E m \in S \ {p} : j < m /\ m < i
        PROVE  c[i].stop = c[j].start /\ d[i].stop = d[j].start
    <3>1. ~\E m \in S : j < m /\ m < i
      BY <2>1, <2>3, <2>8
    <3>2. c[i].stop = c[j].start
      BY <1>0, <2>8, <3>1, Zenon DEF LinkedChain
    <3>3. c[j].start < ts /\ c[j].start \in Nat
      BY <2>2, <2>3, Zenon
    <3>4. ts \in Nat
      BY <1>2, <2>1, <2>2, Zenon
    <3>5. c[i].stop # ts
      BY ONLY <3>2, <3>3, <3>4
    <3>6. d[i].stop = c[i].stop /\ d[j].start = c[j].start
      BY <2>5, <3>5, Zenon
    <3> QED BY <3>2, <3>6, Zenon
  <2>9. \A i \in S \ {p} : d[i].start < d[i].stop
    <3>1. \A i \in S : c[i].start < c[i].stop
      BY <1>0, Zenon DEF LinkedChain
    <3> QED BY <2>2, <2>5, <3>1, Zenon
  <2> HIDE DEF S
  <2>10. LinkedChain(d)
    BY <2>4, <2>7, <2>8, <2>9, Zenon DEF LinkedChain
  <2> QED BY <2>6, <2>10, Zenon DEF GoodChain
<1> QED BY <1>1, <1>2, Zenon

\* What is left of a linked chain when old versions go is linked.
LEMMA KeepGood ==
    ASSUME NEW c \in Seq(Version), GoodChain(c), NEW I \in SUBSET Standing(c),
           \A i \in I, j \in Standing(c) : j < i => j \in I,
           NEW d, Kept(d, c, I)
    PROVE  GoodChain(d)
<1>0. LinkedChain(c) /\ SortedChain(c)
  BY Zenon DEF GoodChain
<1>1. I \in SUBSET (1 .. Len(c))
  BY DEF Standing
<1>2. PICK h \in [DOMAIN d -> I] :
        /\ \A n \in DOMAIN d : d[n] = c[h[n]]
        /\ \A n, m \in DOMAIN d : n < m => h[n] < h[m]
        /\ \A i \in I : \E n \in DOMAIN d : h[n] = i
  BY Zenon DEF Kept
<1>3. d \in Seq(Version)
  BY Zenon DEF Kept
<1>4. /\ \A n \in DOMAIN d : n \in Nat /\ h[n] \in Standing(c) /\ h[n] \in I /\ h[n] \in Nat
      /\ Standing(d) \in SUBSET DOMAIN d
  <2>1. \A n \in DOMAIN d : n \in Nat
    BY <1>3
  <2>2. Standing(d) \in SUBSET DOMAIN d
    BY Zenon DEF Standing
  <2>3. \A n \in DOMAIN d : h[n] \in I
    BY <1>2, Zenon
  <2>4. \A i \in I : i \in Nat
    BY <1>1
  <2>5. \A i \in I : i \in Standing(c)
    BY Zenon
  <2> QED BY <2>1, <2>2, <2>3, <2>4, <2>5, Zenon
<1>5. SortedChain(d)
  BY <1>0, <1>2, <1>4 DEF SortedChain
<1>6. LinkedChain(d)
  <2> SUFFICES ASSUME NEW n \in DOMAIN d
               PROVE  /\ d[n].start < d[n].stop
                      /\ (\A m \in DOMAIN d : n <= m) => d[n].stop = TsMax
                      /\ \A m \in DOMAIN d :
                           (m < n /\ ~\E q \in DOMAIN d : m < q /\ q < n) => d[n].stop = d[m].start
    <3>1. \A m \in DOMAIN d : d[m].state # "Aborted"
      <4>1. \A m \in DOMAIN d : c[h[m]].state # "Aborted"
        BY <1>4, Zenon DEF Standing
      <4> QED BY <1>2, <4>1, ZenonT(60)
    <3>2. Standing(d) = DOMAIN d
      BY <3>1, Zenon DEF Standing
    <3> QED BY <3>2, Zenon DEF LinkedChain
  <2>1. d[n].start < d[n].stop
    BY <1>0, <1>2, <1>4, Zenon DEF LinkedChain
  <2>2. ASSUME \A m \in DOMAIN d : n <= m PROVE d[n].stop = TsMax
    <3>1. ASSUME NEW j \in Standing(c), j < h[n] PROVE FALSE
      <4>1. PICK m \in DOMAIN d : h[m] = j
        BY <1>2, <1>4, <3>1, Zenon
      <4>2. n \in Nat /\ m \in Nat /\ h[n] \in Nat /\ h[m] \in Nat /\ n <= m
        BY <1>4, <2>2, Zenon
      <4>3. n < m => h[n] < h[m]
        BY <1>2, Zenon
      <4> QED BY ONLY <3>1, <4>1, <4>2, <4>3
    <3>2. \A j \in Standing(c) : h[n] <= j
      BY <1>4, <3>1 DEF Standing
    <3>3. c[h[n]].stop = TsMax
      BY <1>0, <1>4, <3>2, Zenon DEF LinkedChain
    <3> QED BY <1>2, <3>3, Zenon
  <2>3. ASSUME NEW m \in DOMAIN d, m < n, ~\E q \in DOMAIN d : m < q /\ q < n
        PROVE  d[n].stop = d[m].start
    <3>1. ASSUME NEW j \in Standing(c), h[m] < j, j < h[n] PROVE FALSE
      <4>1. PICK q \in DOMAIN d : h[q] = j
        BY <1>2, <1>4, <3>1, Zenon
      <4>2. /\ q \in Nat /\ m \in Nat /\ n \in Nat /\ ~(m < q /\ q < n)
            /\ h[q] \in Nat /\ h[m] \in Nat /\ h[n] \in Nat
        BY <1>4, <2>3, Zenon
      <4>3. (q < m => h[q] < h[m]) /\ (n < q => h[n] < h[q])
        BY <1>2, Zenon
      <4> QED BY ONLY <3>1, <4>1, <4>2, <4>3
    <3>2. h[m] < h[n]
      BY <1>2, <2>3, Zenon
    <3>3. c[h[n]].stop = c[h[m]].start
      BY <1>0, <1>4, <3>1, <3>2, Zenon DEF LinkedChain
    <3> QED BY <1>2, <3>3, Zenon
  <2> QED BY <2>1, <2>2, <2>3, Zenon
<1> QED BY <1>5, <1>6, Zenon DEF GoodChain

\* What the fold leaves in the chain is its newest part.
LEMMA RetainedGood ==
    ASSUME NEW c \in Seq(Version), GoodChain(c), NEW ts \in Values, NEW d,
           Kept(d, c, {i \in DOMAIN c : \/ c[i].state = "Committed" /\ c[i].start > ts
                                        \/ c[i].state = "Pending"})
    PROVE  GoodChain(d)
<1> DEFINE I == {i \in DOMAIN c : \/ c[i].state = "Committed" /\ c[i].start > ts
                                  \/ c[i].state = "Pending"}
<1>1. I \in SUBSET Standing(c)
  BY Zenon DEF Standing
<1>2. ASSUME NEW i \in I, NEW j \in Standing(c), j < i PROVE j \in I
  <2>1. c[j].start > c[i].start /\ c[i].state = "Committed"
    BY <1>1, <1>2, Zenon DEF GoodChain, SortedChain
  <2>2. c[i] \in Version /\ c[j] \in Version /\ j \in DOMAIN c /\ c[j].state # "Aborted"
    BY DEF Standing
  <2> QED BY <1>2, <2>1, <2>2, BoundAssumption DEF Version, Times, Values
<1>3. Kept(d, c, I)
  BY Zenon
<1> HIDE DEF I
<1> QED BY <1>1, <1>2, <1>3, KeepGood, Zenon

\* An eviction prunes only a chain no version of which stands.
LEMMA NeededGood ==
    ASSUME NEW c \in Seq(Version), GoodChain(c), HeadFirst(c), LiveHead(c) = 0, NEW ort, NEW d,
           Kept(d, c, {i \in DOMAIN c : /\ c[i].state # "Aborted"
                                        /\ c[i].stop = TsMax \/ c[i].stop > ort})
    PROVE  GoodChain(d)
<1> DEFINE I == {i \in DOMAIN c : /\ c[i].state # "Aborted"
                                  /\ c[i].stop = TsMax \/ c[i].stop > ort}
<1>1. Standing(c) = {}
  BY Zenon DEF HeadFirst
<1>2. I = {}
  BY <1>1, Zenon DEF Standing
<1>3. Kept(d, c, I)
  BY Zenon
<1> HIDE DEF I
<1> QED BY <1>1, <1>2, <1>3, KeepGood, Zenon

-----------------------------------------------------------------------------
(* Reading a key. *)

\* A read returns a value.
LEMMA ReadType ==
    ASSUME NEW k \in Keys, NEW ts, chain[k] \in Seq(Version), history \in SUBSET Row,
           base[k] \in Values
    PROVE  Read(k, ts) \in Values
<1>1. ASSUME NEW i \in DOMAIN chain[k] PROVE ValueOf(chain[k][i]) \in Values
  <2>1. chain[k][i] \in Version
    OBVIOUS
  <2> QED BY <2>1, BoundAssumption DEF ValueOf, Version, Values, Times
<1>2. ASSUME NEW r \in HistoryRows(k, ts) PROVE ValueOf(r) \in Values
  <2>1. r \in Row
    BY Zenon DEF HistoryRows
  <2> QED BY <2>1, BoundAssumption DEF ValueOf, Row, Values, Times
<1> QED BY LookupSpec, <1>1, <1>2, Zenon DEF Answered

\* What a read at or below the frontier returns was logged and published.
LEMMA CleanRead ==
    ASSUME EnvelopeInv, NEW k \in Keys, NEW ts \in Values, ts <= published, Answered(k, ts), Read(k, ts) # 0
    PROVE  /\ Read(k, ts) \in Times /\ Read(k, ts) <= published
           /\ slot[Read(k, ts)] = "Ready"
           /\ \E c \in commits : c.key = k /\ c.ts = Read(k, ts)
<1> DEFINE v == Read(k, ts)
<1>0. TypeInv /\ SlotInv /\ OwnerInv /\ ChainInv /\ StoreInv
  BY Zenon DEF EnvelopeInv
<1>1. ts \in Nat /\ published \in Nat /\ ts <= published
  BY <1>0, BoundAssumption DEF TypeInv, Values
<1>2. \A t \in Times : t <= published => slot[t] \in {"Ready", "Aborted"}
  BY <1>0, Zenon DEF SlotInv
<1>3. \A t \in Times : (t <= published /\ \E c \in commits : c.key = k /\ c.ts = t) => slot[t] = "Ready"
  BY <1>0, <1>2, Zenon DEF OwnerInv
<1>4. ASSUME NEW i \in DOMAIN chain[k], VisibleTo(chain[k][i], ts, published), v = ValueOf(chain[k][i])
      PROVE  v \in Times /\ v <= published /\ \E c \in commits : c.key = k /\ c.ts = v
  <2> DEFINE e == chain[k][i]
  <2>1. e \in Version /\ EntryOf(k, e, slot, commits, pc, txn)
    BY <1>0 DEF TypeInv, ChainInv, EntryInv
  <2>2. v = e.start /\ e.start \in Times /\ e.start <= ts /\ e.state # "Aborted"
    BY <1>4, <2>1, Zenon DEF ValueOf, VisibleTo, Version
  <2>3. e.start <= published
    BY <2>2, <1>1, BoundAssumption DEF Times
  <2>4. e.state # "Pending"
    BY <2>1, <2>2, <2>3, <1>2, Zenon DEF EntryOf
  <2>5. e.state = "Committed"
    BY <2>1, <2>2, <2>4, Zenon DEF Version
  <2> QED BY <2>1, <2>2, <2>3, <2>5, Zenon DEF EntryOf
<1>5. ASSUME NEW r \in HistoryRows(k, ts), v = ValueOf(r)
      PROVE  v \in Times /\ v <= published /\ \E c \in commits : c.key = k /\ c.ts = v
  <2>1. r \in Row /\ r.key = k /\ Logged(r.key, r.start, r.tomb)
    BY <1>0, Zenon DEF TypeInv, HistoryRows, StoreInv
  <2> QED BY <1>5, <2>1, Zenon DEF ValueOf, Row, Logged
<1>6. ASSUME v = base[k]
      PROVE  v \in Times /\ v <= published /\ \E c \in commits : c.key = k /\ c.ts = v
  <2>1. base[k] \in Values /\ base[k] # 0
    BY <1>0, <1>6, Zenon DEF TypeInv
  <2>2. Logged(k, base[k], FALSE)
    BY <2>1, <1>0, Zenon DEF StoreInv
  <2>3. base[k] \in Times
    BY ONLY <2>1, BoundAssumption DEF Values, Times
  <2> QED BY <1>6, <2>2, <2>3, Zenon DEF Logged
<1> HIDE DEF v
<1>7. \/ \E i \in DOMAIN chain[k] : VisibleTo(chain[k][i], ts, published) /\ v = ValueOf(chain[k][i])
      \/ \E r \in HistoryRows(k, ts) : v = ValueOf(r)
      \/ v = base[k]
  BY Zenon DEF Answered, v
<1>8. v \in Times /\ v <= published /\ \E c \in commits : c.key = k /\ c.ts = v
  BY <1>4, <1>5, <1>6, <1>7, ZenonT(60)
<1>9. slot[v] = "Ready"
  BY <1>3, <1>8, Zenon
<1> QED BY <1>8, <1>9, Zenon DEF v

\* A view's reads are not newer than the oracle.
LEMMA ReadsAreOlder ==
    ASSUME EnvelopeInv, NEW k \in Keys, NEW p \in Procs,
           Read(k, view[p]) \in Values, Answered(k, view[p])
    PROVE  Read(k, view[p]) <= oracle
<1>1. TypeInv /\ SlotInv /\ oracle \in Values /\ published \in Values /\ published <= oracle
  BY Zenon DEF EnvelopeInv, TypeInv, SlotInv
<1>2. view[p] \in Values /\ view[p] <= published
  BY <1>1, Zenon DEF TypeInv, SlotInv
<1>3. Read(k, view[p]) # 0 => Read(k, view[p]) <= published
  BY <1>2, CleanRead, Zenon
<1> QED BY <1>1, <1>3, BoundAssumption DEF Values

\* What the operation's view reads is a value, answered by one of the sources
\* and not newer than the oracle.
LEMMA ViewReads ==
    ASSUME EnvelopeInv, NEW p \in Procs, NEW k \in Keys
    PROVE  /\ Read(k, view[p]) \in Values /\ Read(k, view[p]) <= oracle
           /\ Answered(k, view[p])
<1>1. chain[k] \in Seq(Version) /\ history \in SUBSET Row /\ base[k] \in Values
  BY Zenon DEF EnvelopeInv, TypeInv
<1>2. Read(k, view[p]) \in Values /\ Answered(k, view[p])
  BY <1>1, ReadType, LookupSpec, Zenon
<1> QED BY <1>2, ReadsAreOlder, Zenon

\* What a read finds in a chain or in the history store is the newest logged
\* write up to its timestamp.
LEMMA ResolvedRead ==
    ASSUME EnvelopeInv, LinkInv, FoldInv, SpillInv, NEW k \in Keys, NEW ts \in Values, ts <= published,
           Lookup(k, ts).from # "base"
    PROVE  Newest(commits, k, ts, Read(k, ts))
<1>1. chain[k] \in Seq(Version) /\ history \in SUBSET Row /\ commits \in SUBSET CommitRow
  BY Zenon DEF EnvelopeInv, TypeInv
<1>2. Answered(k, ts)
  BY <1>1, LookupSpec, Zenon
<1>3. CASE \E i \in DOMAIN chain[k] : VisibleTo(chain[k][i], ts, published)
  <2>1. Started(k, ts) # {}
    BY <1>3, Zenon DEF Started, Standing, VisibleTo
  <2> QED BY <2>1, ChainRead, Zenon
<1>4. CASE \A i \in DOMAIN chain[k] : ~VisibleTo(chain[k][i], ts, published)
  <2>1. PICK r \in HistoryRows(k, ts) : Read(k, ts) = ValueOf(r)
    BY <1>2, <1>4, Zenon DEF Answered
  <2>2. r \in history /\ r.key = k /\ r.start <= ts /\ ts < r.stop
    BY Zenon DEF HistoryRows
  <2>3. PICK c \in commits : c.key = k /\ c.ts = r.start /\ c.tomb = r.tomb
    <3>1. Logged(r.key, r.start, r.tomb)
      BY <2>2, Zenon DEF EnvelopeInv, StoreInv
    <3>2. \E c \in commits : c.key = r.key /\ c.ts = r.start /\ c.tomb = r.tomb
      BY <3>1, Zenon DEF Logged
    <3> QED BY <2>2, <3>2, Zenon
  <2>4. ASSUME NEW d \in commits, d.key = k, d.ts <= ts PROVE d.ts <= c.ts
    <3>1. d.ts <= r.start \/ r.stop <= d.ts
      BY <2>2, <2>4, Zenon DEF SpillInv
    <3>2. r \in Row /\ d \in CommitRow
      BY <1>1, <2>2, Zenon
    <3>3. r.stop \in Nat /\ d.ts \in Nat /\ ts \in Nat
      BY <3>2, BoundAssumption DEF Row, CommitRow, Times, TsMax, Values
    <3> QED BY <2>2, <2>3, <2>4, <3>1, <3>3
  <2>5. Read(k, ts) = IF c.tomb THEN 0 ELSE c.ts
    BY <2>1, <2>3, Zenon DEF ValueOf
  <2>6. c.key = k /\ c.ts <= ts
    BY <2>2, <2>3, Zenon
  <2> QED BY <2>4, <2>5, <2>6, Zenon DEF Newest
<1> QED BY <1>3, <1>4, Zenon

\* A read at or below the frontier returns the newest logged write up to its
\* timestamp when what has left the chain was written by then.
LEMMA SnapshotRead ==
    ASSUME EnvelopeInv, LinkInv, FoldInv, NEW k \in Keys, NEW ts \in Values, ts <= published,
           HistoryRows(k, ts) = {},
           \A d \in commits : d.key = k => Stands(d) \/ d.ts <= ts
    PROVE  Newest(commits, k, ts, Read(k, ts))
<1>1. CASE Started(k, ts) = {}
  <2>1. chain[k] \in Seq(Version) /\ history \in SUBSET Row
    BY Zenon DEF EnvelopeInv, TypeInv
  <2>2. Answered(k, ts)
    BY <2>1, LookupSpec, Zenon
  <2>3. \A j \in DOMAIN chain[k] : ~VisibleTo(chain[k][j], ts, published)
    BY <1>1, Zenon DEF VisibleTo, Standing, Started
  <2>4. Read(k, ts) = base[k]
    BY <2>2, <2>3, Zenon DEF Answered
  <2>5. \A d \in commits : d.key = k => (Stands(d) <=> ~(d.ts <= ts))
    BY <1>1, Zenon DEF Stands, Started
  <2>6. BaseOf(k)
    BY Zenon DEF FoldInv
  <2> QED BY <2>4, <2>5, <2>6, Zenon DEF BaseOf, Newest
<1>2. CASE Started(k, ts) # {}
  BY <1>2, ChainRead, Zenon
<1> QED BY <1>1, <1>2, Zenon

\* Settling a slot moves the frontier over terminal slots only.
LEMMA SettleSpec ==
    ASSUME TypeInv, SlotInv, NEW ts \in Times, slot[ts] = "Pending",
           NEW state \in {"Ready", "Aborted"}, Settle(ts, state)
    PROVE  Settled(ts, state)
<1> DEFINE after == [slot EXCEPT ![ts] = state]
           passed == {t \in Times : \A u \in 1 .. t : after[u] \in {"Ready", "Aborted"}}
           S == {published} \cup {t \in passed : after[t] = "Ready"}
<1>1. slot' = after /\ published' = CHOOSE t \in S : \A u \in S : u <= t
  BY Zenon DEF Settle
<1>2. published \in Values /\ oracle \in Values /\ slot \in [Times -> {"Free", "Pending", "Ready", "Aborted"}]
  BY Zenon DEF TypeInv
<1>3. /\ after \in [Times -> {"Free", "Pending", "Ready", "Aborted"}]
      /\ after[ts] = state
      /\ \A t \in Times : t # ts => after[t] = slot[t]
  BY <1>2, Zenon
<1> HIDE DEF after
<1>4. S \in SUBSET (0 .. MaxTs) /\ MaxTs \in Nat /\ published \in S
  BY <1>2, BoundAssumption DEF Times, Values
<1>5. published' \in S /\ \A m \in S : m <= published'
  <2> HIDE DEF S
  <2> QED BY <1>1, <1>4, GreatestNatural, Zenon
<1>6. published' \in Values /\ published <= published'
  BY <1>1, <1>4, <1>5, Zenon DEF Values
<1>7. \A t \in Times : slot[t] = "Free" <=> t > oracle
  BY Zenon DEF SlotInv
<1>8. \A t \in Times : after[t] = "Free" <=> t > oracle
  BY <1>3, <1>7, Zenon
<1>9. ASSUME NEW t \in Times, t <= published' PROVE after[t] \in {"Ready", "Aborted"}
  <2>1. published' = published \/ published' \in passed
    BY <1>1, <1>5, Zenon
  <2>2. CASE published' = published
    <3>1. slot[t] \in {"Ready", "Aborted"}
      BY <1>9, <2>2, Zenon DEF SlotInv
    <3> QED BY <3>1, <1>3, Zenon
  <2>3. CASE published' \in passed
    <3>1. t \in 1 .. published'
      BY <1>6, <1>9, BoundAssumption DEF Times, Values
    <3> QED BY <2>3, <3>1, Zenon
  <2> QED BY <2>1, <2>2, <2>3, Zenon
<1>10. published' <= oracle
  <2>1. published' = 0 \/ published' \in Times
    BY <1>6, BoundAssumption DEF Times, Values
  <2>2. published' \in Times => after[published'] # "Free"
    <3>1. published' \in Times => published' <= published'
      BY BoundAssumption DEF Times
    <3> QED BY <3>1, <1>9, Zenon
  <2>3. published' \in Times => ~(published' > oracle)
    BY <2>2, <1>8, Zenon
  <2> QED BY <2>1, <2>3, <1>2, BoundAssumption DEF Values, Times
<1> QED BY <1>1, <1>3, <1>6, <1>8, <1>9, <1>10, ZenonT(60) DEF Settled

\* Settling the slot of a transaction in flight.
LEMMA SettleMoves ==
    ASSUME EnvelopeInv, NEW w \in Writers, pc[w] \in Owning
    PROVE  \A state \in {"Ready", "Aborted"} : Settle(txn[w].ts, state) => Settled(txn[w].ts, state)
<1>1. TypeInv /\ SlotInv /\ txn[w].ts \in Times /\ slot[txn[w].ts] = "Pending"
  BY Zenon DEF EnvelopeInv, OwnerInv
<1> QED BY <1>1, SettleSpec, Zenon

-----------------------------------------------------------------------------
(* The steps that preserve LinkInv. *)

\* A step that installs nothing and allocates no timestamp.
LEMMA LinkQuiet ==
    ASSUME EnvelopeInv, LinkInv, UNCHANGED <<chain, oracle>>,
           \A v \in Writers :
             \/ txn'[v] = txn[v] /\ (pc'[v] = "registered" => pc[v] = "registered")
             \/ /\ pc'[v] # "registered"
                /\ \A k \in Keys : txn'[v].read[k] <= oracle /\ txn'[v].expected[k] <= oracle
    PROVE  LinkInv'
<1>1. ExpectInv'
  <2> SUFFICES ASSUME NEW v \in Writers
               PROVE  /\ \A k \in Keys : txn'[v].read[k] <= oracle /\ txn'[v].expected[k] <= oracle
                      /\ pc'[v] = "registered" => \A k \in Keys : txn'[v].expected[k] < txn'[v].ts
                      /\ pc'[v] = "registered" /\ "delete" \in Ops => txn'[v].ts = oracle
    BY Zenon DEF ExpectInv
  <2> QED BY Zenon DEF LinkInv, ExpectInv
<1>2. \A k \in Keys : GoodChain(chain'[k])
  BY Zenon DEF LinkInv
<1> QED BY <1>1, <1>2, Zenon DEF LinkInv, TombsInOrder

\* The operation returns to its caller.
LEMMA LinkLeave ==
    ASSUME EnvelopeInv, LinkInv, NEW w \in Writers, Leave(w), UNCHANGED <<chain, oracle>>
    PROVE  LinkInv'
<1>1. TypeInv /\ txn \in [Writers -> Txn] /\ pc \in [Procs -> Labels] /\ w \in Procs /\ oracle \in Values
  BY Zenon DEF EnvelopeInv, TypeInv, Procs
<1>2. /\ txn'[w] = NoTxn /\ pc'[w] = "idle"
      /\ \A v \in Writers : v # w => txn'[v] = txn[v] /\ pc'[v] = pc[v]
  BY <1>1, Zenon DEF Leave, Goto, Procs
<1>3. \A k \in Keys : txn'[w].read[k] <= oracle /\ txn'[w].expected[k] <= oracle
  BY <1>1, <1>2, BoundAssumption DEF NoTxn, NoHead, Values
<1> QED BY <1>2, <1>3, LinkQuiet, Zenon

\* The writer goes on with the transaction it has.
LEMMA LinkGoto ==
    ASSUME EnvelopeInv, LinkInv, NEW p \in Procs, NEW label \in Labels, label # "registered",
           Goto(p, label), UNCHANGED <<chain, oracle, txn>>
    PROVE  LinkInv'
<1>1. pc \in [Procs -> Labels]
  BY Zenon DEF EnvelopeInv, TypeInv
<1>2. \A v \in Writers : txn'[v] = txn[v] /\ (pc'[v] = "registered" => pc[v] = "registered")
  BY <1>1, Zenon DEF Goto, Procs
<1> QED BY <1>2, LinkQuiet, Zenon

\* Choosing the documents.
LEMMA LinkSelect ==
    ASSUME EnvelopeInv, LinkInv, NEW w \in Writers, Select(w),
           \A k \in Keys : Read(k, view[w]) <= oracle
    PROVE  LinkInv'
<1> USE DEF storage, publishing
<1>0. /\ TypeInv /\ txn \in [Writers -> Txn] /\ pc \in [Procs -> Labels] /\ w \in Procs /\ oracle \in Values
      /\ 0 <= oracle /\ ExpectInv
  BY BoundAssumption DEF EnvelopeInv, TypeInv, Procs, LinkInv, Values
<1>1. ASSUME NEW op \in Ops, NEW ks \in SUBSET Keys, SelectDocs(w, op, ks) PROVE LinkInv'
  <2>1. /\ txn' = [txn EXCEPT ![w] = [NoTxn EXCEPT !.op = op, !.keys = ks,
                    !.read = [k \in Keys |-> IF k \in ks THEN Read(k, view[w]) ELSE 0]]]
        /\ Goto(w, "selected") /\ UNCHANGED <<chain, oracle>>
    BY <1>1, Zenon DEF SelectDocs
  <2>3. \A k \in Keys : txn'[w].read[k] <= oracle /\ txn'[w].expected[k] <= oracle
    BY <1>0, <2>1, Zenon DEF NoTxn, NoHead
  <2>4. /\ pc'[w] # "registered"
        /\ \A v \in Writers : v # w => txn'[v] = txn[v] /\ pc'[v] = pc[v]
    BY <1>0, <2>1, Zenon DEF Goto, Procs
  <2> QED BY <2>1, <2>3, <2>4, LinkQuiet, ZenonT(60)
<1>2. CASE SelectNothing(w)
  BY <1>2, LinkLeave, Zenon DEF SelectNothing
<1>3. CASE AttachExpectedHeads(w)
  <2>1. /\ txn' = [txn EXCEPT ![w].expected =
                    [k \in Keys |-> IF k \in txn[w].keys /\ LiveHead(chain[k]) # 0
                                    THEN txn[w].read[k] ELSE NoHead]]
        /\ Goto(w, "begin") /\ UNCHANGED <<chain, oracle>>
    BY <1>3, Zenon DEF AttachExpectedHeads
  <2>2. \A k \in Keys : txn[w].read[k] <= oracle
    BY <1>0, Zenon DEF ExpectInv
  <2>3. \A k \in Keys : txn'[w].read[k] <= oracle /\ txn'[w].expected[k] <= oracle
    BY <1>0, <2>1, <2>2, Zenon DEF NoHead, Txn
  <2>4. /\ pc'[w] # "registered"
        /\ \A v \in Writers : v # w => txn'[v] = txn[v] /\ pc'[v] = pc[v]
    BY <1>0, <2>1, Zenon DEF Goto, Procs
  <2> QED BY <2>1, <2>3, <2>4, LinkQuiet, ZenonT(60)
<1>4. CASE SelectionStale(w)
  BY <1>4, LinkLeave, Zenon DEF SelectionStale
<1> QED BY <1>1, <1>2, <1>3, <1>4, ZenonT(60) DEF Select

\* Entering the envelope.
LEMMA LinkEnter ==
    ASSUME EnvelopeInv, LinkInv, NEW w \in Writers, Enter(w)
    PROVE  LinkInv'
<1> USE DEF storage, publishing
<1>0. /\ txn \in [Writers -> Txn] /\ pc \in [Procs -> Labels] /\ w \in Procs /\ oracle \in Values /\ 0 <= oracle
  BY BoundAssumption DEF EnvelopeInv, TypeInv, Procs, Values
<1>1. ASSUME NEW ks \in (SUBSET Keys) \ {{}}, BeginInsert(w, ks) PROVE LinkInv'
  <2>1. /\ txn' = [txn EXCEPT ![w] = [NoTxn EXCEPT !.op = "insert", !.keys = ks]]
        /\ Goto(w, "begin") /\ UNCHANGED <<chain, oracle>>
    BY <1>1, Zenon DEF BeginInsert
  <2>2. \A k \in Keys : txn'[w].read[k] <= oracle /\ txn'[w].expected[k] <= oracle
    BY <1>0, <2>1, Zenon DEF NoTxn, NoHead
  <2>3. /\ pc'[w] # "registered"
        /\ \A v \in Writers : v # w => txn'[v] = txn[v] /\ pc'[v] = pc[v]
    BY <1>0, <2>1, Zenon DEF Goto, Procs
  <2> QED BY <2>1, <2>2, <2>3, LinkQuiet, ZenonT(60)
<1>2. CASE Admit(w) \/ LoadVisibility(w) \/ RegisterVisibility(w) \/ StageInsert(w)
  <2>1. \E label \in {"admitted", "staged", "loaded", "visible"} :
          Goto(w, label) /\ UNCHANGED <<chain, oracle, txn>>
    BY <1>2, Zenon DEF Admit, LoadVisibility, RegisterVisibility, StageInsert
  <2> QED BY <1>0, <2>1, LinkGoto, Zenon DEF Labels
<1>3. CASE Refused(w) \/ InsertDuplicate(w)
  BY <1>3, LinkLeave, Zenon DEF Refused, InsertDuplicate
<1> QED BY <1>1, <1>2, <1>3, ZenonT(60) DEF Enter

\* The slot of a transaction is newer than all it may replace.
LEMMA LinkRegister ==
    ASSUME EnvelopeInv, LinkInv, NEW w \in Writers, RegisterSlot(w)
    PROVE  LinkInv'
<1>1. /\ txn \in [Writers -> Txn] /\ pc \in [Procs -> Labels] /\ w \in Procs /\ oracle \in Values
      /\ ExpectInv /\ TombsInOrder /\ \A k \in Keys : GoodChain(chain[k])
  BY Zenon DEF EnvelopeInv, TypeInv, Procs, LinkInv
<1>2. /\ oracle' = oracle + 1 /\ chain' = chain
      /\ txn' = [txn EXCEPT ![w].ts = oracle + 1] /\ pc' = [pc EXCEPT ![w] = "registered"]
  BY Zenon DEF RegisterSlot, Goto, storage
<1>3. /\ txn'[w].ts = oracle + 1 /\ txn'[w].read = txn[w].read /\ txn'[w].expected = txn[w].expected
      /\ \A v \in Writers : v # w => txn'[v] = txn[v] /\ pc'[v] = pc[v]
  BY <1>1, <1>2, Zenon DEF Txn, Procs
<1>4. \A v \in Writers : txn[v].read \in [Keys -> Values] /\ txn[v].expected \in [Keys -> Values]
  BY <1>1, Zenon DEF Txn
<1>5. oracle \in Nat /\ \A x \in Values : x \in Nat
  BY <1>1, BoundAssumption DEF Values
<1>6. ASSUME NEW v \in Writers
      PROVE  /\ \A k \in Keys : txn'[v].read[k] <= oracle + 1 /\ txn'[v].expected[k] <= oracle + 1
             /\ pc'[v] = "registered" => \A k \in Keys : txn'[v].expected[k] < txn'[v].ts
             /\ pc'[v] = "registered" /\ "delete" \in Ops => txn'[v].ts = oracle + 1
  <2>1. \A k \in Keys : txn[v].read[k] <= oracle /\ txn[v].expected[k] <= oracle
    BY <1>1, Zenon DEF ExpectInv
  <2>2. \A k \in Keys : /\ txn[v].read[k] <= oracle + 1 /\ txn[v].expected[k] <= oracle + 1
                        /\ txn[v].expected[k] < oracle + 1
    <3>1. \A x \in Values : x <= oracle => x <= oracle + 1 /\ x < oracle + 1
      BY <1>5
    <3> QED BY <1>4, <2>1, <3>1, Zenon
  <2>3. CASE v = w
    BY <1>3, <2>2, <2>3, Zenon
  <2>4. CASE v # w
    <3>1. "delete" \notin Ops
      BY <1>1, <2>4, Zenon DEF TombsInOrder
    <3> QED BY <1>1, <1>3, <2>2, <2>4, <3>1, ZenonT(60) DEF ExpectInv
  <2> QED BY <2>3, <2>4, Zenon
<1>7. ExpectInv'
  BY <1>2, <1>6, Zenon DEF ExpectInv
<1> QED BY <1>1, <1>2, <1>7, ZenonT(60) DEF LinkInv, TombsInOrder

\* The version a write may replace is committed and older than the write.
LEMMA HeadIsOlder ==
    ASSUME EnvelopeInv, LinkInv, NEW w \in Writers, pc[w] = "registered", NEW k \in txn[w].keys,
           Proceeds(k, txn[w].expected[k]), HeadFirst(chain[k]), LiveHead(chain[k]) # 0
    PROVE  /\ chain[k][LiveHead(chain[k])].state = "Committed"
           /\ chain[k][LiveHead(chain[k])].start < txn[w].ts
<1> DEFINE ts == txn[w].ts
           e == chain[k][LiveHead(chain[k])]
<1>0. /\ ChainInv /\ SlotInv /\ ExpectInv /\ oracle \in Values
      /\ k \in Keys /\ chain[k] \in Seq(Version)
  BY Zenon DEF EnvelopeInv, TypeInv, LinkInv, Txn
<1>1. ts \in Times /\ "registered" \in Owning
  BY Zenon DEF EnvelopeInv, OwnerInv, Owning
<1>2. /\ e.state = "Committed"
      /\ IF txn[w].expected[k] = NoHead THEN e.tomb ELSE e.start = txn[w].expected[k]
  BY Zenon DEF Proceeds
<1>3. LiveHead(chain[k]) \in DOMAIN chain[k]
  BY Zenon DEF HeadFirst, Standing
<1>4. e \in Version /\ EntryOf(k, e, slot, commits, pc, txn)
  BY <1>0, <1>3 DEF ChainInv, EntryInv
<1>5. e.start \in Times
  BY <1>4, ZenonT(60) DEF Version
<1>6. e.start <= oracle /\ e.start # ts
  <2>1. slot[e.start] # "Free" /\ e.start # ts
    BY <1>1, <1>4, Zenon DEF EntryOf
  <2>2. ~(e.start > oracle)
    BY <1>0, <1>5, <2>1, Zenon DEF SlotInv
  <2> QED BY <1>0, <1>5, <2>1, <2>2, BoundAssumption DEF Times, Values
<1>7. CASE txn[w].expected[k] = NoHead
  <2>1. "delete" \in Ops
    BY <1>2, <1>4, <1>7, Zenon DEF EntryOf
  <2>2. ts = oracle
    BY <1>0, <2>1, ZenonT(60) DEF ExpectInv
  <2>3. e.start < ts
    BY <1>0, <1>5, <1>6, <2>2, BoundAssumption DEF Times, Values
  <2> QED BY <1>2, <2>3, Zenon
<1>8. CASE txn[w].expected[k] # NoHead
  <2>1. txn[w].expected[k] < ts
    BY <1>0, Zenon DEF ExpectInv
  <2> QED BY <1>2, <1>8, <2>1, Zenon
<1> QED BY <1>7, <1>8, Zenon

\* A write is installed over an older committed version or over none.
LEMMA LinkInstall ==
    ASSUME EnvelopeInv, LinkInv, NEW w \in Writers, pc[w] = "registered",
           NEW ks \in SUBSET txn[w].keys, NEW label \in {"installed", "cleanup"},
           \A k \in ks : Proceeds(k, txn[w].expected[k]),
           \A k \in ks : /\ Pushed(chain[k], chain'[k], txn[w].ts, txn[w].op = "delete")
                         /\ HeadFirst(chain[k]),
           InstallOn(w, ks), txn' = [txn EXCEPT ![w].todo = ks], Goto(w, label), oracle' = oracle
    PROVE  LinkInv'
<1> DEFINE ts == txn[w].ts
<1>1. /\ TypeInv /\ ChainInv /\ SlotInv
      /\ txn \in [Writers -> Txn] /\ pc \in [Procs -> Labels] /\ w \in Procs /\ oracle \in Values
      /\ ExpectInv /\ TombsInOrder /\ \A k \in Keys : GoodChain(chain[k])
  BY Zenon DEF EnvelopeInv, TypeInv, Procs, LinkInv
<1>2. ts \in Times /\ "registered" \in Owning
  BY <1>1, ZenonT(60) DEF EnvelopeInv, OwnerInv, Owning
<1>3. \A k \in ks : k \in Keys /\ Pushed(chain[k], chain'[k], ts, txn[w].op = "delete")
  BY <1>1, Zenon DEF Txn
<1>4. \A k \in ks : LiveHead(chain[k]) # 0 =>
        /\ chain[k][LiveHead(chain[k])].state = "Committed"
        /\ chain[k][LiveHead(chain[k])].start < ts
  BY HeadIsOlder, Zenon
<1>5. ASSUME NEW k \in Keys PROVE GoodChain(chain'[k])
  <2>1. CASE k \in ks
    <3>1. chain[k] \in Seq(Version) /\ GoodChain(chain[k])
      BY <1>1, Zenon DEF TypeInv
    <3> HIDE DEF ts
    <3> QED BY <1>2, <1>3, <1>4, <2>1, <3>1, PushGood, ZenonT(60)
  <2>2. CASE k \notin ks
    BY <1>1, <2>2, Zenon DEF InstallOn
  <2> QED BY <2>1, <2>2, Zenon
<1>6. /\ pc'[w] # "registered" /\ txn'[w].read = txn[w].read /\ txn'[w].expected = txn[w].expected
      /\ \A v \in Writers : v # w => txn'[v] = txn[v] /\ pc'[v] = pc[v]
  BY <1>1, Zenon DEF Goto, Txn, Procs
<1>7. ExpectInv'
  BY <1>1, <1>6, ZenonT(60) DEF ExpectInv
<1> QED BY <1>1, <1>5, <1>7, ZenonT(60) DEF LinkInv, TombsInOrder

\* The flip of one page.
LEMMA LinkFlip ==
    ASSUME EnvelopeInv, LinkInv, NEW w \in Writers, NEW k \in Keys,
           NEW state \in {"Committed", "Aborted"}, NEW label, Flip(w, k, label, state),
           Flipped(chain[k], chain'[k], txn[w].ts, state)
    PROVE  LinkInv'
<1>1. /\ chain \in [Keys -> Seq(Version)] /\ txn \in [Writers -> Txn]
      /\ ExpectInv /\ TombsInOrder /\ \A x \in Keys : GoodChain(chain[x])
  BY Zenon DEF EnvelopeInv, TypeInv, LinkInv
<1>2. /\ chain' = [chain EXCEPT ![k] = FlipPending(chain[k], txn[w].ts, state)]
      /\ txn' = [txn EXCEPT ![w].todo = @ \ {k}] /\ oracle' = oracle /\ pc' = pc
  BY Zenon DEF Flip, publishing
<1>3. chain[k] \in Seq(Version) /\ GoodChain(chain'[k])
  BY <1>1, <1>2, CommitGood, AbortGood
<1>4. \A x \in Keys : GoodChain(chain'[x])
  BY <1>1, <1>2, <1>3, Zenon
<1>5. /\ \A v \in Writers : /\ txn'[v].ts = txn[v].ts /\ txn'[v].read = txn[v].read
                            /\ txn'[v].expected = txn[v].expected
  BY <1>1, <1>2 DEF Txn
<1>6. ExpectInv'
  BY <1>1, <1>2, <1>5, ZenonT(60) DEF ExpectInv
<1> QED BY <1>1, <1>4, <1>6, ZenonT(60) DEF LinkInv, TombsInOrder

\* Every step of the envelope proper.
LEMMA LinkCommit ==
    ASSUME EnvelopeInv, LinkInv, NEW w \in Writers, Commit(w)
    PROVE  LinkInv'
<1> USE DEF storage, publishing
<1>0. /\ w \in Procs /\ {"cleanup", "durable", "publishing"} \in SUBSET (Labels \ {"registered"})
      /\ \A k \in txn[w].keys : HeadFirst(chain[k])
  <2>1. \A k \in txn[w].keys : k \in Keys
    BY Zenon DEF EnvelopeInv, TypeInv, Txn
  <2>2. \A k \in Keys : HeadFirst(chain[k])
    BY HeadIsFirst, Zenon DEF EnvelopeInv, TypeInv, LinkInv, GoodChain
  <2> QED BY <2>1, <2>2, Zenon DEF Procs, Labels, Owning
<1>1. CASE RegisterSlot(w)
  BY <1>1, LinkRegister, Zenon
<1>2. CASE InstallPending(w)
  <2>1. pc[w] = "registered" /\ InstallOn(w, txn[w].keys) /\ txn[w].keys \in SUBSET txn[w].keys
    BY <1>2, Zenon DEF InstallPending
  <2> QED BY <1>0, <1>2, <2>1, InstallPushes, LinkInstall, ZenonT(60) DEF InstallPending
<1>3. ASSUME NEW ks \in SUBSET Keys, InstallConflicts(w, ks) PROVE LinkInv'
  <2>1. pc[w] = "registered" /\ InstallOn(w, ks) /\ ks \in SUBSET txn[w].keys
    BY <1>3, Zenon DEF InstallConflicts
  <2> QED BY <1>0, <1>3, <2>1, InstallPushes, LinkInstall, ZenonT(60) DEF InstallConflicts
<1>4. CASE FailBeforeLog(w) \/ AppendToLog(w) \/ MarkReady(w)
  <2>1. \E label \in {"cleanup", "durable", "publishing"} :
          Goto(w, label) /\ UNCHANGED <<chain, oracle, txn>>
    BY <1>4, Zenon DEF FailBeforeLog, AppendToLog, MarkReady
  <2> QED BY <1>0, <2>1, LinkGoto, Zenon
<1>5. ASSUME NEW k \in Keys, FlipToCommitted(w, k) \/ FlipToAborted(w, k) PROVE LinkInv'
  BY <1>5, FlipFlips, LinkFlip, Zenon DEF FlipToCommitted, FlipToAborted
<1>6. CASE AppendFails(w) \/ FlipFails(w) \/ MarkAborted(w) \/ PublishFails(w) \/ Acknowledge(w)
  <2>1. Leave(w) /\ UNCHANGED <<chain, oracle>>
    BY <1>6, Zenon DEF AppendFails, FlipFails, MarkAborted, PublishFails, Acknowledge, Poison
  <2> QED BY <2>1, LinkLeave, Zenon
<1> QED BY <1>1, <1>2, <1>3, <1>4, <1>5, <1>6, Zenon DEF Commit

\* A fold or an eviction leaves the newest part of a chain.
LEMMA LinkMaintenance ==
    ASSUME EnvelopeInv, LinkInv, Checkpoint \/ \E k \in Evictable : SampleOrt(k) \/ Evict(k)
    PROVE  LinkInv'
<1> USE DEF storage, publishing
<1>0. /\ chain \in [Keys -> Seq(Version)] /\ ckpt.ts \in Values
      /\ ExpectInv /\ TombsInOrder /\ \A x \in Keys : GoodChain(chain[x])
  BY Zenon DEF EnvelopeInv, TypeInv, LinkInv, CkptType
<1>1. UNCHANGED <<oracle, pc, txn>>
  BY Zenon DEF Checkpoint, CloseGate, PlanFold, SpillHistory, GcAndReopen, InstallFold,
               CheckpointGivesUp, CheckpointFails, SampleOrt, Evict
<1>2. \/ chain' = chain
      \/ \E k \in Keys : chain' = [chain EXCEPT ![k] = Retained(chain[k], ckpt.ts)]
      \/ \E k \in Keys : /\ LiveHead(chain[k]) = 0
                         /\ chain' = [chain EXCEPT ![k] = Needed(chain[k], victim.ort)]
  <2>1. CASE Checkpoint
    BY <2>1, ZenonT(60) DEF Checkpoint, CloseGate, PlanFold, SpillHistory, GcAndReopen, InstallFold,
                       CheckpointGivesUp, CheckpointFails
  <2>2. ASSUME NEW k \in Evictable, SampleOrt(k) \/ Evict(k)
        PROVE  \/ chain' = chain
               \/ /\ k \in Keys /\ LiveHead(chain[k]) = 0
                  /\ chain' = [chain EXCEPT ![k] = Needed(chain[k], victim.ort)]
    BY <1>0, <2>2, PressureAssumption DEF SampleOrt, Evict
  <2> QED BY <2>1, <2>2, Zenon
<1>3. ASSUME NEW k \in Keys PROVE GoodChain(Retained(chain[k], ckpt.ts))
  <2> DEFINE c == chain[k]
             I == {i \in DOMAIN c : \/ c[i].state = "Committed" /\ c[i].start > ckpt.ts
                                    \/ c[i].state = "Pending"}
  <2>1. c \in Seq(Version) /\ GoodChain(c)
    BY <1>0, Zenon
  <2>2. I \in SUBSET DOMAIN c /\ Retained(c, ckpt.ts) = Keep(c, I)
    BY Zenon DEF Retained
  <2>3. Kept(Retained(c, ckpt.ts), c, I)
    <3> HIDE DEF I, c
    <3> QED BY <2>1, <2>2, KeepSpec, Zenon
  <2> QED BY <1>0, <2>1, <2>3, RetainedGood, ZenonT(60)
<1>4. ASSUME NEW k \in Keys, LiveHead(chain[k]) = 0 PROVE GoodChain(Needed(chain[k], victim.ort))
  <2> DEFINE c == chain[k]
             I == {i \in DOMAIN c : /\ c[i].state # "Aborted"
                                    /\ c[i].stop = TsMax \/ c[i].stop > victim.ort}
  <2>1. c \in Seq(Version) /\ GoodChain(c) /\ HeadFirst(c)
    BY <1>0, HeadIsFirst, Zenon DEF GoodChain
  <2>2. I \in SUBSET DOMAIN c /\ Needed(c, victim.ort) = Keep(c, I)
    BY Zenon DEF Needed
  <2>3. Kept(Needed(c, victim.ort), c, I)
    <3> HIDE DEF I, c
    <3> QED BY <2>1, <2>2, KeepSpec, Zenon
  <2> QED BY <1>4, <2>1, <2>3, NeededGood, Zenon
<1>5. \A x \in Keys : GoodChain(chain'[x])
  BY <1>0, <1>2, <1>3, <1>4, ZenonT(60)
<1>6. ExpectInv'
  BY <1>0, <1>1, Zenon DEF ExpectInv
<1> QED BY <1>0, <1>5, <1>6, ZenonT(60) DEF LinkInv, TombsInOrder
=============================================================================
