------------------------ MODULE CommitEnvelopeProofs ------------------------
(***************************************************************************)
(* What the commit envelope guarantees for any set of keys, writers and    *)
(* readers and any bounds: the variables keep their types, no view reads a *)
(* value that was not logged and published, the versions of a chain hand   *)
(* the key over without a gap, a read at the frontier returns the newest   *)
(* published write across checkpoints, what a held view has resolved stays *)
(* as it is and, until the first checkpoint, snapshots are exact and no    *)
(* update is lost.                                                         *)
(***************************************************************************)
EXTENDS EnvelopeSteps, EnvelopeOrder

\* The time the SMT solver may take for a leaf that names no prover.
USE SMTT(60)

\* Choosing the documents.
LEMMA SelectKeeps ==
    ASSUME EnvelopeInv, NEW w \in Writers, Select(w),
           \A k \in Keys : Read(k, view[w]) \in Values
    PROVE  EnvelopeInv'
<1> USE DEF gate
<1>0. TypeInv /\ txn \in [Writers -> Txn] /\ poisoned \in BOOLEAN /\ admitted \in SUBSET Writers
  BY Zenon DEF EnvelopeInv, TypeInv
<1>1. ASSUME NEW op \in Ops, NEW ks \in SUBSET Keys, SelectDocs(w, op, ks) PROVE EnvelopeInv'
  <2> DEFINE read == [k \in Keys |-> IF k \in ks THEN Read(k, view[w]) ELSE 0]
             t == [NoTxn EXCEPT !.op = op, !.keys = ks, !.read = read]
  <2>1. 0 \in Values /\ \A k \in Keys : Read(k, view[w]) \in Values
    BY BoundAssumption DEF Values
  <2>2. read \in [Keys -> Values]
    BY <2>1, Zenon
  <2> HIDE DEF read
  <2>3. t \in Txn
    BY <2>1, <2>2, Zenon DEF NoTxn, Txn, NoHead
  <2>4. txn' = [txn EXCEPT ![w] = t]
    BY <1>1, Zenon DEF SelectDocs, read
  <2> HIDE DEF t
  <2>5. txn' \in [Writers -> Txn] /\ \A v \in Writers : v # w => txn'[v] = txn[v]
    BY <1>0, <2>3, <2>4, Zenon
  <2>6. "selected" \in Labels \ Owning
    BY Zenon DEF Labels, Owning
  <2> QED BY <1>0, <1>1, <2>5, <2>6, PrepareKeeps, Zenon DEF SelectDocs
<1>2. CASE SelectNothing(w)
  BY <1>0, <1>2, LeaveKeeps, Zenon DEF SelectNothing
<1>3. CASE AttachExpectedHeads(w)
  <2> DEFINE expected == [k \in Keys |-> IF k \in txn[w].keys /\ LiveHead(chain[k]) # 0
                                         THEN txn[w].read[k] ELSE NoHead]
  <2>1. txn[w] \in Txn /\ txn[w].read \in [Keys -> Values] /\ NoHead \in Values
    BY <1>0, BoundAssumption DEF Txn, NoHead, Values
  <2>2. expected \in [Keys -> Values]
    BY <2>1, Zenon
  <2>3. txn' = [txn EXCEPT ![w].expected = expected]
    BY <1>3, Zenon DEF AttachExpectedHeads
  <2> HIDE DEF expected
  <2>4. txn' = [txn EXCEPT ![w] = [txn[w] EXCEPT !.expected = expected]]
    BY <2>3, Zenon
  <2>5. [txn[w] EXCEPT !.expected = expected] \in Txn
    BY <2>1, <2>2, Zenon DEF Txn
  <2>6. txn' \in [Writers -> Txn] /\ \A v \in Writers : v # w => txn'[v] = txn[v]
    BY <1>0, <2>4, <2>5, Zenon
  <2>7. "begin" \in Labels \ Owning
    BY Zenon DEF Labels, Owning
  <2> QED BY <1>0, <1>3, <2>6, <2>7, PrepareKeeps, Zenon DEF AttachExpectedHeads
<1>4. CASE SelectionStale(w)
  BY <1>0, <1>4, LeaveKeeps, Zenon DEF SelectionStale
<1> QED BY <1>1, <1>2, <1>3, <1>4, Zenon DEF Select

\* The cleanup's and the publish stage's last step.
LEMMA MarkKeeps ==
    ASSUME EnvelopeInv, NEW w \in Writers, MarkAborted(w) \/ MarkReady(w),
           \A state \in {"Ready", "Aborted"} : Settle(txn[w].ts, state) => Settled(txn[w].ts, state)
    PROVE  EnvelopeInv'
<1> USE DEF storage, publishing, gate, maintenance
<1>0. TypeInv /\ SlotInv /\ OwnerInv /\ w \in Procs /\ poisoned \in BOOLEAN
  BY Zenon DEF EnvelopeInv, Procs, TypeInv
<1>1. pc[w] \in {"cleanup", "durable"} /\ txn[w].todo = {} /\ txn[w].ts \in Times /\ slot[txn[w].ts] = "Pending"
  BY <1>0, Zenon DEF MarkAborted, MarkReady, OwnerInv, Owning
<1>2. CASE MarkAborted(w) /\ poisoned
  BY <1>0, <1>2, LeaveKeeps, Zenon DEF MarkAborted
<1>3. CASE MarkAborted(w) /\ ~poisoned
  <2>1. pc[w] = "cleanup" /\ Leave(w) /\ Settle(txn[w].ts, "Aborted")
    BY <1>3, Zenon DEF MarkAborted
  <2>2. Settled(txn[w].ts, "Aborted")
    BY <2>1, Zenon
  <2>3. UNCHANGED <<chain, base, history, oracle, poisoned, closed, ckpt, checkpoints, commits>>
    BY <1>3, Zenon DEF MarkAborted
  <2>4. TypeInv'
    BY <1>0, <2>1, <2>2, <2>3, LeaveSpec, ZenonT(60) DEF TypeInv, Settled
  <2>5. /\ pc'[w] \notin Owning
        /\ \A v \in Writers : v # w => pc'[v] = pc[v] /\ txn'[v] = txn[v]
        /\ \A p \in Procs : view'[p] \in {0, view[p]}
    BY <1>0, <2>1, LeaveSpec, Zenon DEF Owning
  <2> QED BY <1>1, <2>1, <2>2, <2>3, <2>4, <2>5, SettleKeeps, ZenonT(60)
<1>4. CASE MarkReady(w)
  <2>1. pc[w] = "durable" /\ Settle(txn[w].ts, "Ready")
    BY <1>4, Zenon DEF MarkReady
  <2>2. Settled(txn[w].ts, "Ready")
    BY <2>1, Zenon
  <2>3. UNCHANGED <<chain, base, history, oracle, poisoned, registry, view, txn, closed, admitted,
                    ckpt, checkpoints, commits>>
    BY <1>4, Zenon DEF MarkReady
  <2>4. /\ pc' \in [Procs -> Labels] /\ pc'[w] \notin Owning
        /\ \A v \in Writers : v # w => pc'[v] = pc[v]
    BY <1>0, <1>4, Zenon DEF MarkReady, Goto, TypeInv, Labels, Owning, Procs
  <2>5. TypeInv'
    BY <1>0, <2>2, <2>3, <2>4, ZenonT(60) DEF TypeInv, Settled
  <2> QED BY <1>1, <2>1, <2>2, <2>3, <2>4, <2>5, SettleKeeps
<1> QED BY <1>2, <1>3, <1>4, Zenon

\* Every step of the envelope proper.
LEMMA CommitKeeps ==
    ASSUME EnvelopeInv, NEW w \in Writers, Commit(w)
    PROVE  EnvelopeInv'
<1> USE DEF gate, publishing
<1>0. TypeInv /\ SlotInv /\ TRUE \in BOOLEAN /\ poisoned \in BOOLEAN
  BY Zenon DEF EnvelopeInv, TypeInv
<1>1. CASE RegisterSlot(w)
  BY <1>1, RegisterKeeps, Zenon
<1>2. CASE InstallPending(w)
  <2>1. pc[w] = "registered" /\ InstallOn(w, txn[w].keys) /\ txn[w].keys \in SUBSET txn[w].keys
    BY <1>2, Zenon DEF InstallPending
  <2> QED BY <1>2, <2>1, InstallPushes, InstallKeeps, Zenon DEF InstallPending
<1>3. CASE FailBeforeLog(w)
  <2>1. /\ pc \in [Procs -> Labels] /\ w \in Procs
        /\ pc[w] \in {"registered", "installed"} /\ pc' = [pc EXCEPT ![w] = "cleanup"]
        /\ UNCHANGED <<chain, base, history, slot, oracle, published, poisoned, registry, view, txn,
                       closed, admitted, ckpt, checkpoints, commits>>
    BY <1>0, <1>3, Zenon DEF FailBeforeLog, Goto, TypeInv, Procs, storage, maintenance
  <2>2. /\ pc' \in [Procs -> Labels] /\ pc'[w] = "cleanup"
        /\ \A v \in Writers : v # w => pc'[v] = pc[v]
    BY <2>1, Zenon DEF Labels, Owning, Procs
  <2>3. TypeInv'
    BY <1>0, <2>1, <2>2, Zenon DEF TypeInv
  <2>4. Outside
    BY <1>0, <2>1, <2>2, Zenon DEF Outside, SlotInv, Owning
  <2> QED BY <2>3, <2>4, OutsideKeeps, Zenon
<1>4. ASSUME NEW ks \in SUBSET Keys, InstallConflicts(w, ks) PROVE EnvelopeInv'
  <2>1. pc[w] = "registered" /\ InstallOn(w, ks) /\ ks \in SUBSET txn[w].keys
    BY <1>4, Zenon DEF InstallConflicts
  <2> QED BY <1>4, <2>1, InstallPushes, InstallKeeps, Zenon DEF InstallConflicts
<1>5. CASE AppendToLog(w)
  BY <1>5, AppendKeeps, Zenon
<1>6. CASE AppendFails(w)
  BY <1>0, <1>6, LeaveKeeps, Zenon DEF AppendFails, Poison
<1>7. ASSUME NEW k \in Keys, FlipToCommitted(w, k) \/ FlipToAborted(w, k) PROVE EnvelopeInv'
  <2>1. \/ Flip(w, k, "durable", "Committed") /\ Flipped(chain[k], chain'[k], txn[w].ts, "Committed")
        \/ Flip(w, k, "cleanup", "Aborted") /\ Flipped(chain[k], chain'[k], txn[w].ts, "Aborted")
    BY <1>7, FlipFlips, Zenon DEF FlipToCommitted, FlipToAborted
  <2> QED BY <2>1, FlipKeeps, Zenon
<1>8. CASE FlipFails(w)
  BY <1>0, <1>8, LeaveKeeps, Zenon DEF FlipFails, Poison
<1>9. CASE MarkAborted(w) \/ MarkReady(w)
  BY <1>9, SettleMoves, MarkKeeps, Zenon DEF MarkAborted, MarkReady, Owning
<1>10. CASE PublishFails(w)
  BY <1>0, <1>10, LeaveKeeps, Zenon DEF PublishFails, Poison
<1>11. CASE Acknowledge(w)
  BY <1>0, <1>11, LeaveKeeps, Zenon DEF Acknowledge
<1> QED BY <1>1, <1>2, <1>3, <1>4, <1>5, <1>6, <1>7, <1>8, <1>9, <1>10, <1>11 DEF Commit

\* Every step of a checkpoint.
LEMMA CheckpointKeeps ==
    ASSUME EnvelopeInv, Checkpoint
    PROVE  EnvelopeInv'
<1>1. OldestRequiredTs \in 0 .. TsMax
  <2> DEFINE S == {registry[p] : p \in {q \in Procs : registry[q] # None}} \cup {TsMax}
  <2>1. TsMax \in Nat /\ \A p \in Procs : registry[p] # None => registry[p] \in 0 .. TsMax
    BY BoundAssumption DEF EnvelopeInv, TypeInv, Values, TsMax
  <2>2. S # {} /\ \A x \in S : x \in 0 .. TsMax
    BY <2>1
  <2>3. S \in SUBSET Nat
    BY <2>1, <2>2
  <2>4. OldestRequiredTs = CHOOSE t \in S : \A u \in S : t <= u
    BY Zenon DEF OldestRequiredTs
  <2> HIDE DEF S
  <2> QED BY <2>2, <2>3, <2>4, LeastNatural, Zenon
<1>2. CASE CloseGate \/ PlanFold \/ CheckpointGivesUp \/ CheckpointFails
  BY <1>1, <1>2, CkptStepKeeps, Zenon
<1>3. ASSUME NEW k \in Keys, InstallFold(k) PROVE EnvelopeInv'
  <2> DEFINE c == chain[k]
             I == {i \in DOMAIN c : \/ c[i].state = "Committed" /\ c[i].start > ckpt.ts
                                    \/ c[i].state = "Pending"}
             n == Winner(c, ckpt.ts)
  <2>1. c \in Seq(Version) /\ ckpt.ts \in Values
    BY Zenon DEF EnvelopeInv, TypeInv, CkptType
  <2>2. PartOf(Retained(c, ckpt.ts), c)
    <3>1. I \in SUBSET DOMAIN c /\ Retained(c, ckpt.ts) = Keep(c, I)
      BY Zenon DEF Retained
    <3> HIDE DEF I, c
    <3> QED BY <2>1, <3>1, KeepPart, Zenon
  <2>3. n # 0 => n \in DOMAIN c /\ c[n].state = "Committed" /\ c[n].start <= ckpt.ts
    <3> HIDE DEF c
    <3> QED BY <2>1, WinnerSpec, Zenon
  <2> QED BY <1>3, <2>2, <2>3, FoldKeeps, Zenon
<1> QED BY <1>2, <1>3, SpillKeeps, ReopenKeeps, Zenon DEF Checkpoint

\* An eviction prunes the chain of the frame it takes.
LEMMA EvictionKeeps ==
    ASSUME EnvelopeInv, NEW k \in Keys, SampleOrt(k) \/ Evict(k)
    PROVE  EnvelopeInv'
<1> DEFINE c == chain[k]
           I == {i \in DOMAIN c : /\ c[i].state # "Aborted"
                                  /\ c[i].stop = TsMax \/ c[i].stop > victim.ort}
<1>1. c \in Seq(Version)
  BY Zenon DEF EnvelopeInv, TypeInv
<1>2. I \in SUBSET DOMAIN c /\ Needed(c, victim.ort) = Keep(c, I)
  BY Zenon DEF Needed
<1>3. PartOf(Needed(c, victim.ort), c)
  <2> HIDE DEF I, c
  <2> QED BY <1>1, <1>2, KeepPart, Zenon
<1> QED BY <1>3, EvictKeeps, Zenon

\* EnvelopeInv holds in every reachable state.
THEOREM EnvelopeInvariance == Spec => []EnvelopeInv
<1>1. Init => EnvelopeInv
  BY EnvelopeInit, Zenon
<1>2. EnvelopeInv /\ [Next]_vars => EnvelopeInv'
  <2> SUFFICES ASSUME EnvelopeInv, [Next]_vars PROVE EnvelopeInv'
    BY Zenon
  <2>1. ASSUME NEW p \in Procs, PinView(p) \/ RefineView(p) PROVE EnvelopeInv'
    BY <2>1, ViewKeeps, Zenon
  <2>2. ASSUME NEW r \in Readers, CloseView(r) PROVE EnvelopeInv'
    BY <2>2, ViewKeeps, Zenon DEF Procs
  <2>3. ASSUME NEW w \in Writers, Select(w) PROVE EnvelopeInv'
    BY <2>3, ViewReads, SelectKeeps, Zenon DEF Procs
  <2>4. ASSUME NEW w \in Writers, Enter(w) PROVE EnvelopeInv'
    BY <2>4, EnterKeeps, Zenon
  <2>5. ASSUME NEW w \in Writers, Commit(w) PROVE EnvelopeInv'
    BY <2>5, CommitKeeps, Zenon
  <2>6. CASE Checkpoint
    BY <2>6, CheckpointKeeps, Zenon
  <2>7. ASSUME NEW k \in Evictable, SampleOrt(k) \/ Evict(k) PROVE EnvelopeInv'
    BY <2>7, EvictionKeeps, PressureAssumption, Zenon
  <2>8. CASE UNCHANGED vars
    <3>1. TypeInv'
      BY <2>8, Zenon DEF vars, EnvelopeInv, TypeInv
    <3>2. Outside
      BY <2>8, Zenon DEF vars, EnvelopeInv, SlotInv, Outside
    <3> QED BY <3>1, <3>2, OutsideKeeps, Zenon
  <2> QED BY <2>1, <2>2, <2>3, <2>4, <2>5, <2>6, <2>7, <2>8 DEF Next
<1> QED BY <1>1, <1>2, PTL DEF Spec

\* The envelope's variables keep their types: chains hold well-formed versions,
\* and no timestamp, pin or frontier leaves its range.
THEOREM TypesKept == Spec => []TypeOK
<1>1. EnvelopeInv => TypeOK
  <2> SUFFICES ASSUME EnvelopeInv PROVE TypeOK
    BY Zenon
  <2>1. \A k \in Keys : \A i \in DOMAIN chain[k] : chain[k][i] \in Version
    BY DEF EnvelopeInv, TypeInv
  <2>2. published \in 0 .. oracle
    BY BoundAssumption DEF EnvelopeInv, TypeInv, SlotInv, Values
  <2>3. ckpt.pc \in {"idle", "draining", "spill", "install"}
    BY Zenon DEF EnvelopeInv, TypeInv, CkptType
  <2>4. TypeInv
    BY Zenon DEF EnvelopeInv
  <2> QED BY <2>1, <2>2, <2>3, <2>4, Zenon DEF TypeInv, TypeOK
<1> QED BY <1>1, EnvelopeInvariance, PTL

\* No snapshot read returns a value whose record was not appended to the log or
\* whose slot the publish frontier has not passed, whatever the interleaving of
\* writers, failed commits, checkpoints, evictions and poisoning.
THEOREM ReadsAreClean == Spec => []NoDirtyRead
<1>1. EnvelopeInv => NoDirtyRead
  <2> SUFFICES ASSUME EnvelopeInv, NEW p \in Viewing, NEW k \in Keys, Read(k, view[p]) # 0
               PROVE  LET v == Read(k, view[p])
                      IN /\ \E c \in commits : c.key = k /\ c.ts = v
                         /\ slot[v] = "Ready" /\ v <= published
    BY Zenon DEF NoDirtyRead
  <2>1. p \in Procs /\ view[p] \in Values /\ view[p] <= published
    BY Zenon DEF Viewing, EnvelopeInv, TypeInv, SlotInv
  <2> QED BY <2>1, ViewReads, CleanRead, Zenon
<1> QED BY <1>1, EnvelopeInvariance, PTL

\* LinkInv holds in every reachable state when tombstones come in order.
LEMMA LinkInvariance == TombsInOrder /\ Spec => []LinkInv
<1>1. TombsInOrder /\ Init => LinkInv
  <2> SUFFICES ASSUME TombsInOrder, Init PROVE LinkInv
    BY Zenon
  <2>1. \A k \in Keys : GoodChain(chain[k])
    <3>1. Standing(<<>>) = {}
      BY DEF Standing
    <3>2. GoodChain(<<>>)
      BY <3>1, Zenon DEF GoodChain, LinkedChain, SortedChain
    <3> QED BY <3>2, Zenon DEF Init
  <2>2. ExpectInv
    <3>1. \A w \in Writers : pc[w] = "idle" /\ txn[w] = NoTxn
      BY Zenon DEF Init, Procs
    <3>2. oracle = 0 /\ \A k \in Keys : NoTxn.read[k] = 0 /\ NoTxn.expected[k] = 0
      BY Zenon DEF Init, NoTxn, NoHead
    <3>3. 0 <= 0 /\ "idle" # "registered"
      OBVIOUS
    <3> QED BY <3>1, <3>2, <3>3, Zenon DEF ExpectInv
  <2> QED BY <2>1, <2>2, Zenon DEF LinkInv
<1>2. EnvelopeInv /\ LinkInv /\ [Next]_vars => LinkInv'
  <2> SUFFICES ASSUME EnvelopeInv, LinkInv, [Next]_vars PROVE LinkInv'
    BY Zenon
  <2> USE DEF storage, publishing
  <2>1. ASSUME NEW p \in Procs, PinView(p) \/ RefineView(p) \/ CloseView(p) PROVE LinkInv'
    <3>1. \E label \in {"pinned", "viewing", "idle"} : Goto(p, label) /\ UNCHANGED <<chain, oracle, txn>>
      BY <2>1, Zenon DEF PinView, RefineView, CloseView
    <3>2. {"pinned", "viewing", "idle"} \in SUBSET (Labels \ {"registered"})
      BY Zenon DEF Labels, Owning
    <3> QED BY <2>1, <3>1, <3>2, LinkGoto, Zenon
  <2>2. ASSUME NEW w \in Writers, Select(w) \/ Enter(w) \/ Commit(w) PROVE LinkInv'
    BY <2>2, ViewReads, LinkSelect, LinkEnter, LinkCommit, ZenonT(60) DEF Procs
  <2>3. CASE Checkpoint \/ \E k \in Evictable : SampleOrt(k) \/ Evict(k)
    BY <2>3, LinkMaintenance, Zenon
  <2>4. CASE UNCHANGED vars
    BY <2>4, LinkQuiet, Zenon DEF vars
  <2> QED BY <2>1, <2>2, <2>3, <2>4, Zenon DEF Next, Procs
<1> QED BY <1>1, <1>2, EnvelopeInvariance, PTL DEF Spec

\* The versions of a chain that no abort voided hand the key over without a
\* gap, through installs, failed installs, commits, aborts, checkpoint folds
\* and evictions, if no deletes are run or only one thread writes.
THEOREM ChainsStayLinked == TombsInOrder /\ Spec => []ChainLinked
<1>1. LinkInv => ChainLinked
  BY Zenon DEF LinkInv, GoodChain, ChainLinked
<1> QED BY <1>1, LinkInvariance, PTL

-----------------------------------------------------------------------------
(* Across checkpoints: what has left the chains is in the base cells. *)

\* The steps of the envelope that write chains.
ChainStep(w) ==
    \/ InstallPending(w)
    \/ \E ks \in SUBSET Keys : InstallConflicts(w, ks)
    \/ \E k \in Keys : FlipToCommitted(w, k) \/ FlipToAborted(w, k)

\* They leave the logged and the pending versions in their chains.
LEMMA ChainStepStays ==
    ASSUME EnvelopeInv, FoldInv, NEW w \in Writers, ChainStep(w)
    PROVE  Stays
<1>1. ASSUME NEW ks \in SUBSET txn[w].keys, NEW label \in {"installed", "cleanup"},
             label = "installed" => ks = txn[w].keys, pc[w] = "registered", InstallOn(w, ks),
             txn' = [txn EXCEPT ![w].todo = ks], Goto(w, label)
      PROVE  Stays
  <2>1. \A k \in ks : Pushed(chain[k], chain'[k], txn[w].ts, txn[w].op = "delete")
    BY <1>1, InstallPushes, Zenon
  <2> QED BY <1>1, <2>1, InstallStays, Zenon
<1>2. CASE InstallPending(w)
  BY <1>1, <1>2, Zenon DEF InstallPending
<1>3. ASSUME NEW ks \in SUBSET Keys, InstallConflicts(w, ks) PROVE Stays
  BY <1>1, <1>3, Zenon DEF InstallConflicts
<1>4. ASSUME NEW k \in Keys, FlipToCommitted(w, k) \/ FlipToAborted(w, k) PROVE Stays
  BY <1>4, FlipFlips, FlipStays, Zenon DEF FlipToCommitted, FlipToAborted
<1> QED BY <1>2, <1>3, <1>4, Zenon DEF ChainStep

\* An eviction does, too.
LEMMA EvictionStays ==
    ASSUME EnvelopeInv, LinkInv, FoldInv, NEW k \in Keys, Evict(k)
    PROVE  Stays
<1> DEFINE c == chain[k]
           I == {i \in DOMAIN c : /\ c[i].state # "Aborted"
                                  /\ c[i].stop = TsMax \/ c[i].stop > victim.ort}
<1>1. c \in Seq(Version) /\ GoodChain(c)
  BY Zenon DEF EnvelopeInv, TypeInv, LinkInv
<1>2. I \in SUBSET DOMAIN c /\ Needed(c, victim.ort) = Keep(c, I)
  BY Zenon DEF Needed
<1>3. PartOf(Needed(c, victim.ort), c) /\ HeadFirst(c)
  <2> HIDE DEF I, c
  <2> QED BY <1>1, <1>2, KeepPart, HeadIsFirst, Zenon DEF GoodChain
<1> QED BY <1>3, EvictStays, ZenonT(60)

\* A process moves on, and no chain, base cell or log record is written.
LEMMA FoldMove ==
    ASSUME EnvelopeInv, EnvelopeInv', FoldInv, NEW p \in Procs, NEW label, Goto(p, label),
           label # "installed", \A v \in Writers : v # p => txn'[v] = txn[v],
           UNCHANGED <<chain, base, history, commits>>, published <= published'
    PROVE  FoldInv'
<1>1. pc \in [Procs -> Labels] /\ pc' = [pc EXCEPT ![p] = label] /\ published' \in Values
  BY Zenon DEF Goto, EnvelopeInv, TypeInv
<1>2. \A v \in Writers : pc'[v] = "installed" =>
        pc[v] = "installed" /\ txn'[v].keys = txn[v].keys /\ txn'[v].ts = txn[v].ts
  BY <1>1, Zenon DEF Procs
<1> QED BY <1>1, <1>2, FoldQuiet, ZenonT(60)

\* The operation returns.
LEMMA FoldLeave ==
    ASSUME EnvelopeInv, EnvelopeInv', FoldInv, NEW w \in Writers, Leave(w),
           UNCHANGED <<chain, base, history, commits>>, published <= published'
    PROVE  FoldInv'
<1>1. Goto(w, "idle") /\ w \in Procs /\ \A v \in Writers : v # w => txn'[v] = txn[v]
  BY Zenon DEF Leave, Procs, EnvelopeInv, TypeInv
<1> QED BY <1>1, FoldMove, Zenon

\* The views, the selection and the admission.
LEMMA FoldEnter ==
    ASSUME EnvelopeInv, EnvelopeInv', FoldInv, NEW p \in Procs,
           \/ PinView(p) \/ RefineView(p) \/ CloseView(p)
           \/ p \in Writers /\ (Select(p) \/ Enter(p))
    PROVE  FoldInv'
<1> USE DEF storage, publishing
<1>1. published <= published
  BY BoundAssumption DEF EnvelopeInv, TypeInv, Values
<1>2. ASSUME NEW label, Goto(p, label), label # "installed", \A v \in Writers : v # p => txn'[v] = txn[v],
             UNCHANGED <<chain, base, history, commits, published>>
      PROVE  FoldInv'
  BY <1>1, <1>2, FoldMove, Zenon
<1>3. ASSUME p \in Writers, Leave(p), UNCHANGED <<chain, base, history, commits, published>>
      PROVE  FoldInv'
  BY <1>1, <1>3, FoldLeave, Zenon
<1>4. CASE PinView(p) \/ RefineView(p) \/ CloseView(p)
  BY <1>2, <1>4, Zenon DEF PinView, RefineView, CloseView
<1>5. txn \in [Writers -> Txn]
  BY Zenon DEF EnvelopeInv, TypeInv
<1>6. CASE p \in Writers /\ Select(p)
  <2>1. ASSUME NEW op, NEW ks, SelectDocs(p, op, ks) PROVE FoldInv'
    BY <1>2, <1>5, <2>1, Zenon DEF SelectDocs
  <2>2. CASE SelectNothing(p) \/ SelectionStale(p)
    BY <1>3, <1>6, <2>2, Zenon DEF SelectNothing, SelectionStale
  <2>3. CASE AttachExpectedHeads(p)
    BY <1>2, <1>5, <2>3, Zenon DEF AttachExpectedHeads
  <2> QED BY <1>6, <2>1, <2>2, <2>3, Zenon DEF Select
<1>7. CASE p \in Writers /\ Enter(p)
  <2>1. ASSUME NEW ks, BeginInsert(p, ks) PROVE FoldInv'
    BY <1>2, <1>5, <2>1, Zenon DEF BeginInsert
  <2>2. CASE Admit(p) \/ LoadVisibility(p) \/ RegisterVisibility(p) \/ StageInsert(p)
    BY <1>2, <2>2, Zenon DEF Admit, LoadVisibility, RegisterVisibility, StageInsert
  <2>3. CASE Refused(p) \/ InsertDuplicate(p)
    BY <1>3, <1>7, <2>3, Zenon DEF Refused, InsertDuplicate
  <2> QED BY <1>7, <2>1, <2>2, <2>3, Zenon DEF Enter
<1> QED BY <1>4, <1>6, <1>7, Zenon

\* Every step of the envelope proper.
LEMMA FoldCommit ==
    ASSUME EnvelopeInv, EnvelopeInv', LinkInv, FoldInv, NEW w \in Writers, Commit(w)
    PROVE  FoldInv'
<1> USE DEF storage, publishing
<1>0. /\ w \in Procs /\ txn \in [Writers -> Txn] /\ published \in Values /\ published' \in Values
      /\ chain' \in [Keys -> Seq(Version)]
  BY Zenon DEF EnvelopeInv, TypeInv, Procs
<1>1. published <= published
  BY <1>0, BoundAssumption DEF Values
<1>2. CASE RegisterSlot(w)
  <2>1. /\ Goto(w, "registered") /\ UNCHANGED <<chain, base, history, commits, published>>
        /\ \A v \in Writers : v # w => txn'[v] = txn[v]
    BY <1>0, <1>2, Zenon DEF RegisterSlot
  <2> QED BY <1>0, <1>1, <2>1, FoldMove, Zenon
<1>3. CASE ChainStep(w)
  <2>1. UNCHANGED <<base, history, commits, published>>
    BY <1>3, Zenon DEF ChainStep, InstallPending, InstallConflicts, FlipToCommitted, FlipToAborted, Flip
  <2>2. history' \in SUBSET history
    BY <2>1, Zenon
  <2> QED BY <1>0, <1>1, <1>3, <2>1, <2>2, ChainStepStays, FoldStays, ZenonT(60)
<1>4. CASE FailBeforeLog(w)
  <2>1. Goto(w, "cleanup") /\ UNCHANGED <<chain, base, history, commits, published, txn>>
    BY <1>4, Zenon DEF FailBeforeLog
  <2> QED BY <1>0, <1>1, <2>1, FoldMove, Zenon
<1>5. CASE AppendToLog(w)
  BY <1>5, AppendFolds, Zenon
<1>6. CASE AppendFails(w) \/ FlipFails(w) \/ PublishFails(w) \/ Acknowledge(w)
  <2>1. Leave(w) /\ UNCHANGED <<chain, base, history, commits, published>>
    BY <1>6, Zenon DEF AppendFails, FlipFails, PublishFails, Acknowledge, Poison
  <2> QED BY <1>1, <2>1, FoldLeave, Zenon
<1>7. CASE MarkAborted(w) \/ MarkReady(w)
  <2>1. published <= published'
    BY <1>1, <1>7, SettleMoves, Zenon DEF MarkAborted, MarkReady, Owning, Settled
  <2>2. \/ Leave(w) /\ UNCHANGED <<chain, base, history, commits>>
        \/ Goto(w, "publishing") /\ UNCHANGED <<chain, base, history, commits, txn>>
    BY <1>7, Zenon DEF MarkAborted, MarkReady
  <2> QED BY <1>0, <2>1, <2>2, FoldMove, FoldLeave, ZenonT(60)
<1> QED BY <1>2, <1>3, <1>4, <1>5, <1>6, <1>7, ZenonT(60) DEF Commit, ChainStep

\* The checkpoint and the eviction.
LEMMA FoldMaintenance ==
    ASSUME EnvelopeInv, EnvelopeInv', LinkInv, FoldInv,
           Checkpoint \/ \E k \in Evictable : SampleOrt(k) \/ Evict(k)
    PROVE  FoldInv'
<1> USE DEF storage, publishing
<1>0. /\ published \in Values /\ published' \in Values /\ ckpt.ts \in Values
      /\ chain' \in [Keys -> Seq(Version)] /\ ckpt.ts <= published /\ history \in SUBSET Row
  BY Zenon DEF EnvelopeInv, TypeInv, SlotInv, CkptType
<1>1. published <= published
  BY <1>0, BoundAssumption DEF Values
<1>2. ASSUME UNCHANGED <<chain, base, commits, published, pc, txn>>, history' \in SUBSET history
      PROVE  FoldInv'
  BY <1>0, <1>1, <1>2, FoldQuiet, ZenonT(60)
<1>3. CASE CloseGate \/ PlanFold \/ CheckpointGivesUp \/ CheckpointFails \/ GcAndReopen
  BY <1>2, <1>3, Zenon DEF CloseGate, PlanFold, CheckpointGivesUp, CheckpointFails, GcAndReopen
<1>4. CASE SpillHistory
  <2>1. ASSUME NEW k \in Keys, NEW r \in SpillOf(k, ckpt.ts, ckpt.ort) PROVE r.stop <= published
    <3>0. \E i \in Standing(chain[k]) : /\ chain[k][i].start = r.start /\ chain[k][i].stop = r.stop
                                          /\ r.key = k
      BY ONLY <1>0, SpillStops, EnvelopeInv, LinkInv, r \in SpillOf(k, ckpt.ts, ckpt.ort), k \in Keys, SMT
    <3>1. PICK i \in Standing(chain[k]) : chain[k][i].stop = r.stop
      BY <3>0, Zenon
    <3>2. r.stop <= ckpt.ts
      BY <1>0, SpillStops, Zenon
    <3>3. r.stop \in Nat
      <4>1. i \in DOMAIN chain[k] /\ chain[k] \in Seq(Version)
        BY Zenon DEF Standing, EnvelopeInv, TypeInv
      <4>2. chain[k][i] \in Version
        BY <4>1
      <4> QED BY <3>1, <4>2, BoundAssumption DEF Version, Times, TsMax
    <3> QED BY <1>0, <3>2, <3>3, BoundAssumption DEF Values
  <2> QED BY <1>4, <2>1, SpillFolds, Zenon
<1>5. ASSUME NEW k \in Keys, InstallFold(k) PROVE FoldInv'
  <2> DEFINE c == chain[k]
  <2>1. c \in Seq(Version) /\ ckpt.ts \in Values
    BY <1>0, Zenon DEF EnvelopeInv, TypeInv
  <2>2. Kept(Retained(c, ckpt.ts), c, Resident(c, ckpt.ts))
    <3>1. Resident(c, ckpt.ts) \in SUBSET DOMAIN c /\ Retained(c, ckpt.ts) = Keep(c, Resident(c, ckpt.ts))
      BY Zenon DEF Retained, Resident
    <3> HIDE DEF c
    <3> QED BY <2>1, <3>1, KeepSpec, Zenon
  <2>3. /\ Winner(c, ckpt.ts) = 0 => \A i \in DOMAIN c : ~(c[i].state = "Committed" /\ c[i].start <= ckpt.ts)
        /\ Winner(c, ckpt.ts) # 0 =>
             /\ Winner(c, ckpt.ts) \in DOMAIN c
             /\ c[Winner(c, ckpt.ts)].state = "Committed" /\ c[Winner(c, ckpt.ts)].start <= ckpt.ts
             /\ \A j \in DOMAIN c : c[j].state = "Committed" /\ c[j].start <= ckpt.ts
                                       => c[j].start <= c[Winner(c, ckpt.ts)].start
    <3> HIDE DEF c
    <3> QED BY <2>1, WinnerSpec, Zenon
  <2> QED BY <1>5, <2>2, <2>3, FoldFolds, ZenonT(60)
<1>6. ASSUME NEW k \in Evictable, SampleOrt(k) \/ Evict(k) PROVE FoldInv'
  <2>1. CASE SampleOrt(k)
    BY <1>2, <2>1, Zenon DEF SampleOrt
  <2>2. CASE Evict(k)
    <3>1. UNCHANGED <<base, commits, published>> /\ history' \in SUBSET history /\ k \in Keys
      BY <2>2, PressureAssumption, Zenon DEF Evict
    <3> QED BY <1>0, <1>1, <2>2, <3>1, EvictionStays, FoldStays, ZenonT(60)
  <2> QED BY <1>6, <2>1, <2>2, ZenonT(60)
<1> QED BY <1>3, <1>4, <1>5, <1>6, ZenonT(60) DEF Checkpoint

\* FoldInv holds in every reachable state when tombstones come in order.
LEMMA FoldInvariance == TombsInOrder /\ Spec => []FoldInv
<1>1. Init => FoldInv
  <2> SUFFICES ASSUME Init PROVE FoldInv
    BY Zenon
  <2>1. commits = {} /\ history = {} /\ \A k \in Keys : base[k] = 0
    BY Zenon DEF Init
  <2>2. \A w \in Writers : pc[w] # "installed"
    BY Zenon DEF Init, Procs
  <2> QED BY <2>1, <2>2, Zenon DEF FoldInv, BaseOf
<1>2. EnvelopeInv /\ EnvelopeInv' /\ LinkInv /\ FoldInv /\ [Next]_vars => FoldInv'
  <2> SUFFICES ASSUME EnvelopeInv, EnvelopeInv', LinkInv, FoldInv, [Next]_vars PROVE FoldInv'
    BY Zenon
  <2>1. CASE UNCHANGED vars
    <3>1. published' \in Values /\ published <= published'
      BY <2>1, BoundAssumption DEF vars, EnvelopeInv, TypeInv, Values
    <3>2. UNCHANGED <<chain, base, commits, history, pc, txn>>
      BY <2>1, Zenon DEF vars
    <3> QED BY <3>1, <3>2, FoldQuiet, ZenonT(60)
  <2> QED BY <2>1, FoldEnter, FoldCommit, FoldMaintenance, Zenon DEF Next, Procs
<1> QED BY <1>1, <1>2, EnvelopeInvariance, LinkInvariance, PTL DEF Spec

\* The operations that start now read the newest published write of every key,
\* whatever checkpoints have folded, spilled and collected and evictions have
\* pruned, if no deletes are run or only one thread writes.
THEOREM NewestWritesAreRead == TombsInOrder /\ Spec => []LatestReads
<1>1. EnvelopeInv /\ LinkInv /\ FoldInv => LatestReads
  <2> SUFFICES ASSUME EnvelopeInv, LinkInv, FoldInv, NEW k \in Keys
               PROVE  Read(k, published) = Reference(k, published)
    BY Zenon DEF LatestReads
  <2>1. published \in Values /\ history \in SUBSET Row
    BY Zenon DEF EnvelopeInv, TypeInv
  <2>2. published <= published
    BY <2>1, BoundAssumption DEF Values
  <2>3. HistoryRows(k, published) = {}
    <3>1. \A r \in history : r.stop <= published /\ r.stop \in Nat
      BY <2>1, BoundAssumption DEF FoldInv, Row, Times, TsMax
    <3>2. \A r \in history : ~(published < r.stop)
      BY <2>1, <3>1, BoundAssumption DEF Values
    <3> QED BY <3>2, Zenon DEF HistoryRows
  <2>4. \A d \in commits : Stands(d) \/ d.ts <= published
    BY Zenon DEF FoldInv
  <2> QED BY <2>1, <2>2, <2>3, <2>4, SnapshotRead, NewestIsReference, ZenonT(60)
<1> QED BY <1>1, EnvelopeInvariance, LinkInvariance, FoldInvariance, PTL

-----------------------------------------------------------------------------
(* The views held across a checkpoint. *)

\* ViewInv and SpillInv hold in every reachable state when tombstones come in
\* order.
LEMMA ViewInvariance == TombsInOrder /\ Spec => [](ViewInv /\ SpillInv)
<1>1. Init => ViewInv /\ SpillInv
  <2> SUFFICES ASSUME Init PROVE ViewInv /\ SpillInv
    BY Zenon
  <2>1. \A p \in Procs : registry[p] = None /\ pc[p] = "idle"
    BY Zenon DEF Init
  <2>2. ckpt.pc = "idle" /\ history = {}
    BY DEF Init, NoCkpt
  <2>3. \A p \in Procs : ViewOf(p)
    BY <2>1, Zenon DEF ViewOf, Viewing, Inside, Owning
  <2> QED BY <2>2, <2>3, Zenon DEF ViewInv, SpillInv
<1>2. EnvelopeInv /\ EnvelopeInv' /\ LinkInv /\ FoldInv /\ ViewInv /\ SpillInv /\ [Next]_vars
        => (ViewInv /\ SpillInv)'
  BY OldestRequired, ViewStep, SpillStep, Zenon
<1> QED BY <1>1, <1>2, EnvelopeInvariance, LinkInvariance, FoldInvariance, PTL DEF Spec

\* What a held view reads from a version chain or from the history store does
\* not change under it, whatever writers, checkpoints and evictions do, if no
\* deletes are run or only one thread writes.
THEOREM ResolvedReadsStay == TombsInOrder /\ Spec => ResolvedReadsStable
<1>1. EnvelopeInv /\ LinkInv /\ FoldInv /\ SpillInv => ResolvedInv
  <2> SUFFICES ASSUME EnvelopeInv, LinkInv, FoldInv, SpillInv, NEW p \in Procs, NEW k \in Keys,
                      Lookup(k, view[p]).from # "base"
               PROVE  Newest(commits, k, view[p], Read(k, view[p]))
    BY Zenon DEF ResolvedInv
  <2>1. view[p] \in Values /\ view[p] <= published
    BY Zenon DEF EnvelopeInv, TypeInv, SlotInv
  <2> QED BY <2>1, ResolvedRead, Zenon
<1>2. ASSUME EnvelopeInv, EnvelopeInv', LinkInv, FoldInv, ViewInv, SpillInv, ResolvedInv, ResolvedInv', Next,
             NEW p \in Viewing, NEW k \in Keys, registry'[p] = registry[p], Lookup(k, view[p]).from # "base"
      PROVE  Read(k, view[p])' = Read(k, view[p])
  <2>1. /\ view'[p] = view[p]
        /\ Lookup(k, view[p])'.from # "base" \/ Read(k, view[p])' = Read(k, view[p])
    BY <1>2, StaysResolved, Zenon
  <2>2. CASE Lookup(k, view[p])'.from # "base"
    <3>1. p \in Procs
      BY Zenon DEF Viewing
    <3>2. Newest(commits, k, view[p], Read(k, view[p]))
      BY <1>2, <3>1, Zenon DEF ResolvedInv
    <3>3. Newest(commits, k, view[p], Read(k, view[p]))'
      BY <1>2, <2>2, <3>1, Zenon DEF ResolvedInv
    <3>4. Newest(commits', k, view[p], Read(k, view[p])')
      BY <2>1, <3>3 DEF Newest
    <3>5. /\ commits \in SUBSET commits'
          /\ \A c \in commits' : c.key = k /\ c.ts <= view[p] => c \in commits
      BY <1>2, <3>1, LogGrows, ZenonT(60)
    <3>6. /\ \A c \in commits' : c.ts \in Nat
          /\ \A c, d \in commits' : c.key = d.key /\ c.ts = d.ts => c = d
      <4>1. commits' \in SUBSET CommitRow
        BY <1>2, Zenon DEF EnvelopeInv, TypeInv
      <4>2. \A c \in commits' : c.ts \in Nat
        BY <4>1 DEF CommitRow, Times
      <4> QED BY <1>2, <4>2, ZenonT(60) DEF EnvelopeInv, OwnerInv
    <3> QED BY ONLY <3>2, <3>4, <3>5, <3>6, NewestAgrees, SMT
  <2> QED BY <2>1, <2>2, Zenon
<1>3. EnvelopeInv /\ EnvelopeInv' /\ LinkInv /\ FoldInv /\ ViewInv /\ SpillInv /\ ResolvedInv /\ ResolvedInv'
        /\ [Next]_vars
      => [\A p \in Viewing, k \in Keys :
            (registry'[p] = registry[p] /\ Lookup(k, view[p]).from # "base")
                => Read(k, view[p])' = Read(k, view[p])]_vars
  BY <1>2, Zenon
<1> QED BY <1>1, <1>3, EnvelopeInvariance, LinkInvariance, FoldInvariance, ViewInvariance, PTL
        DEF Spec, ResolvedReadsStable

-----------------------------------------------------------------------------
(* Until the first checkpoint. *)

\* Every step of the envelope proper.
LEMMA LogCommit ==
    ASSUME EnvelopeInv, LinkInv, FoldInv, LogInv, NEW w \in Writers, Commit(w),
           \A k \in Keys : HeadFirst(chain[k])
    PROVE  LogInv'
<1> USE DEF storage, maintenance
<1>0. w \in Procs /\ \A k \in txn[w].keys : HeadFirst(chain[k])
  BY Zenon DEF EnvelopeInv, TypeInv, Txn, Procs
<1>1. CASE RegisterSlot(w)
  BY <1>1, LogRegister, Zenon
<1>2. ASSUME NEW ks \in SUBSET txn[w].keys, NEW label \in {"installed", "cleanup"},
             label = "installed" => ks = txn[w].keys, pc[w] = "registered", Stays,
             \A k \in ks : Proceeds(k, txn[w].expected[k]), InstallOn(w, ks),
             txn' = [txn EXCEPT ![w].todo = ks], Goto(w, label),
             UNCHANGED <<history, checkpoints, ckpt, commits>>
      PROVE  LogInv'
  <2>1. \A k \in ks : LiveHead(chain[k]) # 0 => chain[k][LiveHead(chain[k])].start < txn[w].ts
    BY <1>0, <1>2, HeadIsOlder, Zenon
  <2> QED BY <1>0, <1>2, <2>1, LogInstall, Zenon
<1>3. CASE ChainStep(w)
  <2>1. Stays
    BY <1>3, ChainStepStays, Zenon
  <2>2. CASE InstallPending(w)
    BY <1>2, <2>1, <2>2, Zenon DEF InstallPending
  <2>3. ASSUME NEW ks \in SUBSET Keys, InstallConflicts(w, ks) PROVE LogInv'
    BY <1>2, <2>1, <2>3, Zenon DEF InstallConflicts
  <2>4. ASSUME NEW k \in Keys, FlipToCommitted(w, k) \/ FlipToAborted(w, k) PROVE LogInv'
    BY <2>1, <2>4, LogFlip, Zenon DEF FlipToCommitted, FlipToAborted
  <2> QED BY <1>3, <2>2, <2>3, <2>4, Zenon DEF ChainStep
<1>4. CASE FailBeforeLog(w) \/ MarkReady(w)
  <2>1. \E label \in {"cleanup", "publishing"} :
          Goto(w, label) /\ UNCHANGED <<chain, history, checkpoints, ckpt, commits, txn>>
    BY <1>4, Zenon DEF FailBeforeLog, MarkReady
  <2> QED BY <1>0, <2>1, LogGoto, Zenon DEF Preparing
<1>5. CASE AppendToLog(w)
  BY <1>5, LogAppend, Zenon
<1>6. CASE AppendFails(w) \/ FlipFails(w) \/ MarkAborted(w) \/ PublishFails(w) \/ Acknowledge(w)
  <2>1. Leave(w) /\ UNCHANGED <<chain, history, checkpoints, ckpt, commits>>
    BY <1>6, Zenon DEF AppendFails, FlipFails, MarkAborted, PublishFails, Acknowledge, Poison
  <2> QED BY <2>1, LogLeave, Zenon
<1> QED BY <1>1, <1>3, <1>4, <1>5, <1>6, ZenonT(60) DEF Commit, ChainStep

\* LogInv holds in every reachable state before the first checkpoint.
LEMMA LogInvariance == TombsInOrder /\ MaxCheckpoints = 0 /\ Spec => []LogInv
<1>1. MaxCheckpoints = 0 /\ Init => LogInv
  <2> SUFFICES ASSUME MaxCheckpoints = 0, Init PROVE LogInv
    BY Zenon
  <2>1. ReadInv
    <3>1. \A w \in Writers : pc[w] = "idle" /\ txn[w] = NoTxn
      BY Zenon DEF Init, Procs
    <3>2. \A k \in Keys : NoTxn.read[k] = 0
      BY Zenon DEF NoTxn
    <3> QED BY <3>1, <3>2, Zenon DEF ReadInv, Preparing
  <2> QED BY <2>1, Zenon DEF LogInv, Init, NoCkpt
<1>2. EnvelopeInv /\ LinkInv /\ FoldInv /\ LogInv /\ [Next]_vars => LogInv'
  <2> SUFFICES ASSUME EnvelopeInv, LinkInv, FoldInv, LogInv, [Next]_vars PROVE LogInv'
    BY Zenon
  <2> USE DEF storage, maintenance
  <2>0. \A k \in Keys : HeadFirst(chain[k])
    BY HeadIsFirst, Zenon DEF EnvelopeInv, TypeInv, LinkInv, GoodChain
  <2>1. ASSUME NEW p \in Procs, PinView(p) \/ RefineView(p) \/ CloseView(p) PROVE LogInv'
    <3>1. \E label \in {"pinned", "viewing", "idle"} :
            Goto(p, label) /\ UNCHANGED <<chain, history, checkpoints, ckpt, commits, txn>>
      BY <2>1, Zenon DEF PinView, RefineView, CloseView
    <3> QED BY <2>1, <3>1, LogGoto, Zenon DEF Preparing
  <2>2. ASSUME NEW w \in Writers, Select(w) PROVE LogInv'
    <3>1. w \in Procs /\ view[w] \in Values /\ view[w] <= published
      BY Zenon DEF Procs, EnvelopeInv, TypeInv, SlotInv
    <3>2. \A k \in Keys : Read(k, view[w]) # 0 =>
            \E c \in commits : c.key = k /\ c.ts = Read(k, view[w])
      BY <3>1, ViewReads, CleanRead, Zenon
    <3> QED BY <2>0, <2>2, <3>2, LogSelect, ZenonT(60)
  <2>3. ASSUME NEW w \in Writers, Enter(w) \/ Commit(w) PROVE LogInv'
    BY <2>0, <2>3, LogEnter, LogCommit, Zenon
  <2>4. CASE Checkpoint \/ \E k \in Evictable : SampleOrt(k) \/ Evict(k)
    BY <2>4, EvictionStays, LogMaintenance, Zenon
  <2>5. CASE UNCHANGED vars
    <3>1. \A v \in Writers : Carries(v)
      BY <2>5, Zenon DEF vars, Carries
    <3> QED BY <2>5, <3>1, LogQuiet, Zenon DEF vars
  <2> QED BY <2>1, <2>2, <2>3, <2>4, <2>5, Zenon DEF Next, Procs
<1> QED BY <1>1, <1>2, EnvelopeInvariance, LinkInvariance, FoldInvariance, PTL DEF Spec

\* Until the first checkpoint a held view reads the point-in-time state of its
\* timestamp, whatever commits, aborts, evictions and poisonings have happened
\* since it was opened, if no deletes are run or only one thread writes.
THEOREM SnapshotsHold == TombsInOrder /\ MaxCheckpoints = 0 /\ Spec => []SnapshotReads
<1>1. EnvelopeInv /\ LinkInv /\ FoldInv /\ LogInv => SnapshotReads
  <2> SUFFICES ASSUME EnvelopeInv, LinkInv, FoldInv, LogInv, NEW p \in Viewing, NEW k \in Keys
               PROVE  Read(k, view[p]) = Reference(k, view[p])
    BY Zenon DEF SnapshotReads
  <2>1. view[p] \in Values /\ view[p] <= published
    BY Zenon DEF Viewing, EnvelopeInv, TypeInv, SlotInv
  <2>2. HistoryRows(k, view[p]) = {} /\ \A d \in commits : Stands(d)
    BY Zenon DEF LogInv, HistoryRows
  <2> QED BY <2>1, <2>2, SnapshotRead, NewestIsReference, Zenon
<1> QED BY <1>1, EnvelopeInvariance, LinkInvariance, FoldInvariance, LogInvariance, PTL

\* Until the first checkpoint a logged update or delete replaces exactly the
\* document its writer read and a logged insert replaces none, under the same
\* condition: of two transactions that read the same version only one commits.
THEOREM NoLostUpdates == TombsInOrder /\ MaxCheckpoints = 0 /\ Spec => []FirstCommitterWins
<1>1. EnvelopeInv /\ LogInv => FirstCommitterWins
  <2> SUFFICES ASSUME EnvelopeInv, LogInv, NEW c \in commits
               PROVE  Reference(c.key, c.ts - 1) = c.over
    BY Zenon DEF FirstCommitterWins
  <2>1. Newest(commits, c.key, c.ts - 1, c.over)
    BY Zenon DEF LogInv
  <2> QED BY <2>1, NewestIsReference, Zenon
<1> QED BY <1>1, EnvelopeInvariance, LogInvariance, PTL
=============================================================================
