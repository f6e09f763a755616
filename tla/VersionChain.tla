---------------------------- MODULE VersionChain ----------------------------
(***************************************************************************)
(* What each operation on a version chain does to it, said of the chain    *)
(* before (c) and after (d), and which chains are in order.  That the      *)
(* operations of CommitEnvelope do this is shown in EnvelopeOrder.         *)
(***************************************************************************)
EXTENDS CommitEnvelope

\* Push: the pending version is first, the live head is superseded and the
\* other versions are as they were.
Pushed(c, d, ts, tomb) ==
    /\ d \in Seq(Version)
    /\ Len(d) = Len(c) + 1
    /\ d[1] = [start |-> ts, stop |-> TsMax, state |-> "Pending", tomb |-> tomb]
    /\ \A i \in DOMAIN c :
         /\ d[i + 1].start = c[i].start
         /\ d[i + 1].state = c[i].state
         /\ d[i + 1].tomb = c[i].tomb
         /\ d[i + 1].stop = IF i = LiveHead(c) THEN ts ELSE c[i].stop

\* FlipPending: the transaction's pending version takes its final state and
\* nothing else changes but, after an abort, the stop of the version it had
\* superseded.
Flipped(c, d, ts, state) ==
    /\ d \in Seq(Version)
    /\ DOMAIN d = DOMAIN c
    /\ \A i \in DOMAIN c :
         /\ d[i].start = c[i].start
         /\ d[i].tomb = c[i].tomb
         /\ d[i].state = IF c[i].state = "Pending" /\ c[i].start = ts THEN state ELSE c[i].state
    /\ state = "Committed" => \A i \in DOMAIN c : d[i].stop = c[i].stop
    /\ \A i \in DOMAIN c : d[i].stop # c[i].stop => d[i].stop = TsMax /\ c[i].stop = ts
    /\ (\A i \in DOMAIN c : ~(c[i].state = "Pending" /\ c[i].start = ts)) => d = c
    /\ state = "Aborted" =>
         \A i, j \in DOMAIN c :
           (/\ c[i].state = "Pending" /\ c[i].start = ts
            /\ i < j /\ c[j].state # "Aborted" /\ c[j].stop = ts
            /\ \A m \in DOMAIN c : i < m /\ m < j => c[m].state = "Aborted" \/ c[m].stop # ts)
             => d[j].stop = TsMax

\* Retained and Needed: some of the versions, in the order they had.
PartOf(d, c) ==
    /\ d \in Seq(Version)
    /\ \E h \in [DOMAIN d -> DOMAIN c] :
         /\ \A n \in DOMAIN d : d[n] = c[h[n]]
         /\ \A n, m \in DOMAIN d : n < m => h[n] < h[m]

\* Keep: the versions of c at the positions in I, in the order they had.
Kept(d, c, I) ==
    /\ d \in Seq(Version)
    /\ \E h \in [DOMAIN d -> I] :
         /\ \A n \in DOMAIN d : d[n] = c[h[n]]
         /\ \A n, m \in DOMAIN d : n < m => h[n] < h[m]
         /\ \A i \in I : \E n \in DOMAIN d : h[n] = i

\* Newer versions are in front, and only the front one may be pending.
SortedChain(c) ==
    \A i, j \in Standing(c) : i < j => c[j].start < c[i].start /\ c[j].state = "Committed"

GoodChain(c) == LinkedChain(c) /\ SortedChain(c)

\* The live head is the first version that stands.
HeadFirst(c) ==
    /\ LiveHead(c) = 0 => Standing(c) = {}
    /\ LiveHead(c) # 0 => LiveHead(c) \in Standing(c) /\ \A i \in Standing(c) : LiveHead(c) <= i

\* get_mvcc answers from the first visible version of the chain, else from a
\* history row, else from the base cell.
Answered(k, ts) ==
    \/ \E i \in DOMAIN chain[k] :
         /\ VisibleTo(chain[k][i], ts, published)
         /\ \A j \in DOMAIN chain[k] : VisibleTo(chain[k][j], ts, published) => i <= j
         /\ Read(k, ts) = ValueOf(chain[k][i])
    \/ /\ \A i \in DOMAIN chain[k] : ~VisibleTo(chain[k][i], ts, published)
       /\ \/ /\ HistoryIsCandidate(chain[k], ts)
             /\ \E r \in HistoryRows(k, ts) : Read(k, ts) = ValueOf(r)
          \/ Lookup(k, ts).from = "base" /\ Read(k, ts) = base[k]
=============================================================================
