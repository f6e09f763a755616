--------------------------- MODULE EnvelopeSteps ----------------------------
(***************************************************************************)
(* The steps that preserve EnvelopeInv, FoldInv, ViewInv and LogInv.  They *)
(* take what an operation does to a chain as the hypotheses Pushed,        *)
(* Flipped and PartOf, and what settling a slot does as Settled;           *)
(* CommitEnvelopeProofs discharges them.                                   *)
(***************************************************************************)
EXTENDS EnvelopeInvariant, TLAPS

\* The time the SMT solver may take for a leaf that names no prover.
USE SMTT(60)

-----------------------------------------------------------------------------
(* The views a checkpoint must not fold past. *)

\* What a step leaves of the view of q.
SameView(q) ==
    /\ registry'[q] = registry[q] /\ view'[q] = view[q] /\ pc'[q] = pc[q]
    /\ q \in Writers => txn'[q] = txn[q] /\ (q \in admitted => q \in admitted')

\* Every step preserves ViewInv: PlanFold takes as its boundary a timestamp no
\* registered view is below.
LEMMA ViewStep ==
    ASSUME EnvelopeInv, ViewInv, [Next]_vars,
           \A p \in Procs : registry[p] # None => OldestRequiredTs <= registry[p]
    PROVE  ViewInv'
<1> USE DEF storage, publishing, gate, maintenance
<1>0. /\ registry \in [Procs -> Values \cup {None}] /\ view \in [Procs -> Values]
      /\ pc \in [Procs -> Labels] /\ txn \in [Writers -> Txn] /\ ckpt.ts <= published
      /\ published \in Values /\ published # None
      /\ \A w \in Writers : w \in Procs
  <2>1. published \in Values => published # None
    BY BoundAssumption DEF Values, None, TsMax
  <2> QED BY <2>1, Zenon DEF EnvelopeInv, TypeInv, SlotInv, Procs
<1>1. ASSUME NEW q \in Procs, SameView(q),
             ckpt'.pc \in {"spill", "install"} =>
               ckpt.pc \in {"spill", "install"} /\ ckpt'.ts = ckpt.ts /\ ckpt'.ort = ckpt.ort
      PROVE  ViewOf(q)'
  <2>1. ViewOf(q) /\ (q \in Viewing' <=> q \in Viewing)
    BY <1>1, Zenon DEF ViewInv, SameView, Viewing
  <2> QED BY <1>1, <2>1, Zenon DEF ViewOf, SameView
\* One process moves and the checkpoint does not.
<1>2. ASSUME NEW p \in Procs, ViewOf(p)', \A q \in Procs : q # p => SameView(q),
             UNCHANGED <<closed, ckpt>>, admitted' \in SUBSET admitted
      PROVE  ViewInv'
  <2>1. \A q \in Procs : ViewOf(q)'
    BY <1>1, <1>2, Zenon
  <2> QED BY <1>2, <2>1, Zenon DEF ViewInv
<1>3. ASSUME NEW w \in Writers, Leave(w), UNCHANGED <<closed, ckpt>>
      PROVE  ViewInv'
  <2>1. /\ registry'[w] = None /\ pc'[w] = "idle" /\ w \in Procs
        /\ \A q \in Procs : q # w => SameView(q)
        /\ admitted' \in SUBSET admitted
    BY <1>0, <1>3, Zenon DEF Leave, Goto, SameView
  <2>2. ViewOf(w)'
    BY <2>1, Zenon DEF ViewOf, Viewing, Inside, Owning
  <2> QED BY <1>2, <1>3, <2>1, <2>2, Zenon
\* A writer goes on with the view it has.
<1>4. ASSUME NEW w \in Writers, NEW l, Goto(w, l), UNCHANGED <<registry, view, closed, admitted, ckpt>>,
             \A v \in Writers : v # w => txn'[v] = txn[v],
             pc[w] # "pinned", l \notin {"idle", "admitted", "loaded"},
             l = "selected" => txn'[w].op # "insert",
             l = "begin" => txn'[w].op # "insert" \/ registry[w] = None,
             l \in Inside => pc[w] \in Inside
      PROVE  ViewInv'
  <2>1. /\ pc'[w] = l /\ w \in Procs /\ \A q \in Procs : q # w => SameView(q)
    BY <1>0, <1>4, Zenon DEF Goto, SameView
  <2>2. ViewOf(w) /\ (w \in Viewing' => w \in Viewing)
    BY <1>4, <2>1, Zenon DEF ViewInv, Viewing
  <2>3. ViewOf(w)'
    BY <1>4, <2>1, <2>2, Zenon DEF ViewOf
  <2> QED BY <1>2, <1>4, <2>1, <2>3, Zenon
<1>5. ASSUME NEW p \in Procs, PinView(p) \/ RefineView(p) \/ (p \in Readers /\ CloseView(p))
      PROVE  ViewInv'
  <2>1. /\ \A q \in Procs : q # p => SameView(q)
        /\ UNCHANGED <<closed, ckpt, admitted>>
    BY <1>0, <1>5, ZenonT(60) DEF PinView, RefineView, CloseView, Goto, SameView
  <2>2. \/ pc'[p] = "pinned"
        \/ pc'[p] = "viewing" /\ registry'[p] = published /\ view'[p] = published
        \/ pc'[p] = "idle" /\ registry'[p] = None
    BY <1>0, <1>5, Zenon DEF PinView, RefineView, CloseView, Goto
  <2>3. ViewOf(p)'
    BY <1>0, <2>1, <2>2, Zenon DEF ViewOf, Viewing, Inside, Owning
  <2> QED BY <1>2, <2>1, <2>3, Zenon
<1>6. ASSUME NEW w \in Writers, Select(w) PROVE ViewInv'
  <2>0. w \in Procs /\ ViewOf(w)
    BY <1>0, Zenon DEF ViewInv
  <2>1. ASSUME NEW op \in Ops, NEW ks \in SUBSET Keys, SelectDocs(w, op, ks) PROVE ViewInv'
    <3>1. /\ pc[w] = "viewing" /\ Goto(w, "selected") /\ op # "insert"
          /\ UNCHANGED <<registry, view, closed, admitted, ckpt>>
          /\ \A v \in Writers : v # w => txn'[v] = txn[v]
          /\ txn'[w] = [NoTxn EXCEPT !.op = op, !.keys = ks,
                            !.read = [k \in Keys |-> IF k \in ks THEN Read(k, view[w]) ELSE 0]]
      BY <1>0, <2>1, Zenon DEF SelectDocs
    <3>2. txn'[w].op = op
      BY <3>1 DEF NoTxn
    <3> QED BY <1>4, <3>1, <3>2, Zenon DEF Inside, Owning
  <2>2. CASE AttachExpectedHeads(w)
    <3>1. /\ pc[w] = "selected" /\ Goto(w, "begin")
          /\ UNCHANGED <<registry, view, closed, admitted, ckpt>>
          /\ \A v \in Writers : v # w => txn'[v] = txn[v]
      BY <1>0, <2>2, Zenon DEF AttachExpectedHeads
    <3>2. txn'[w].op = txn[w].op
      BY <1>0, <2>2 DEF AttachExpectedHeads, Txn
    <3>3. txn'[w].op # "insert"
      BY <2>0, <3>1, <3>2, Zenon DEF ViewOf
    <3> QED BY <1>4, <3>1, <3>3, Zenon DEF Inside, Owning
  <2>3. CASE SelectNothing(w) \/ SelectionStale(w)
    BY <1>3, <2>3, Zenon DEF SelectNothing, SelectionStale
  <2> QED BY <1>6, <2>1, <2>2, <2>3, Zenon DEF Select
<1>7. ASSUME NEW w \in Writers, Enter(w) PROVE ViewInv'
  <2>0. w \in Procs /\ ViewOf(w)
    BY <1>0, Zenon DEF ViewInv
  <2>1. ASSUME NEW ks \in SUBSET Keys, BeginInsert(w, ks) PROVE ViewInv'
    <3>1. /\ pc[w] = "idle" /\ Goto(w, "begin")
          /\ UNCHANGED <<registry, view, closed, admitted, ckpt>>
          /\ \A v \in Writers : v # w => txn'[v] = txn[v]
      BY <1>0, <2>1, Zenon DEF BeginInsert
    <3>2. registry[w] = None
      BY <2>0, <3>1, Zenon DEF ViewOf
    <3> QED BY <1>4, <3>1, <3>2, Zenon DEF Inside, Owning
  <2>2. CASE Admit(w)
    <3>1. /\ pc[w] = "begin" /\ ~closed /\ admitted' = admitted \cup {w}
          /\ UNCHANGED <<registry, view, txn, closed, ckpt>>
          /\ pc'[w] = IF txn[w].op = "insert" THEN "admitted" ELSE "staged"
          /\ \A q \in Procs : q # w => SameView(q)
      BY <1>0, <2>0, <2>2, Zenon DEF Admit, Goto, SameView
    <3>2. ckpt.pc = "idle"
      BY <3>1, Zenon DEF ViewInv
    <3>3. ViewOf(w)'
      <4>1. txn[w].op = "insert" => registry[w] = None
        BY <2>0, <3>1, Zenon DEF ViewOf
      <4>2. w \in Viewing' => w \in Viewing
        BY <3>1, Zenon DEF Viewing
      <4> QED BY <2>0, <3>1, <3>2, <4>1, <4>2, Zenon DEF ViewOf
    <3>4. \A q \in Procs : ViewOf(q)'
      BY <1>1, <3>1, <3>3, Zenon
    <3> QED BY <3>1, <3>2, <3>4, Zenon DEF ViewInv
  <2>3. CASE Refused(w) \/ InsertDuplicate(w)
    BY <1>3, <2>3, Zenon DEF Refused, InsertDuplicate
  <2>4. CASE LoadVisibility(w) \/ RegisterVisibility(w)
    <3>1. /\ UNCHANGED <<closed, admitted, ckpt>>
          /\ \A q \in Procs : q # w => SameView(q)
          /\ pc[w] \in {"admitted", "loaded"} /\ pc'[w] \in {"loaded", "visible"}
          /\ pc'[w] = "loaded" => registry'[w] = registry[w]
          /\ pc'[w] = "visible" => registry'[w] = view'[w]
      BY <1>0, <2>0, <2>4, Zenon DEF LoadVisibility, RegisterVisibility, Goto, SameView
    <3>2. registry[w] = None /\ w \in admitted
      BY <2>0, <3>1, Zenon DEF ViewOf, Inside
    <3>3. ckpt.pc \notin {"spill", "install"}
      BY <3>2, Zenon DEF ViewInv
    <3>4. ViewOf(w)'
      BY <3>1, <3>2, <3>3, Zenon DEF ViewOf, Viewing
    <3> QED BY <1>2, <2>0, <3>1, <3>4, Zenon
  <2>5. CASE StageInsert(w)
    BY <1>4, <2>5, Zenon DEF StageInsert, Inside, Owning
  <2> QED BY <1>7, <2>1, <2>2, <2>3, <2>4, <2>5, Zenon DEF Enter
<1>8. ASSUME NEW w \in Writers, Commit(w) PROVE ViewInv'
  <2>1. ASSUME NEW l \in Owning \cup {"publishing"}, Goto(w, l), pc[w] \in Owning \cup {"staged"},
               UNCHANGED <<registry, view, closed, admitted, ckpt>>,
               \A v \in Writers : v # w => txn'[v] = txn[v]
        PROVE  ViewInv'
    BY <1>4, <2>1, Zenon DEF Inside, Owning
  <2>2. CASE RegisterSlot(w) \/ InstallPending(w) \/ FailBeforeLog(w) \/ AppendToLog(w) \/ MarkReady(w)
    BY <1>0, <2>1, <2>2, Zenon
       DEF RegisterSlot, InstallPending, FailBeforeLog, AppendToLog, MarkReady, Owning
  <2>3. ASSUME NEW ks \in SUBSET Keys, InstallConflicts(w, ks) PROVE ViewInv'
    BY <1>0, <2>1, <2>3, Zenon DEF InstallConflicts, Owning
  <2>4. ASSUME NEW k \in Keys, FlipToCommitted(w, k) \/ FlipToAborted(w, k) PROVE ViewInv'
    <3>1. /\ pc[w] \in {"durable", "cleanup"} /\ pc' = pc
          /\ UNCHANGED <<registry, view, closed, admitted, ckpt>>
          /\ \A v \in Writers : v # w => txn'[v] = txn[v]
      BY <1>0, <2>4, Zenon DEF FlipToCommitted, FlipToAborted, Flip
    <3>2. Goto(w, pc[w])
      BY <1>0, <3>1, Zenon DEF Goto
    <3> QED BY <2>1, <3>1, <3>2, Zenon DEF Owning
  <2>5. CASE AppendFails(w) \/ FlipFails(w) \/ MarkAborted(w) \/ PublishFails(w) \/ Acknowledge(w)
    BY <1>3, <2>5, Zenon DEF AppendFails, FlipFails, MarkAborted, PublishFails, Acknowledge, Poison
  <2> QED BY <1>8, <2>2, <2>3, <2>4, <2>5, Zenon DEF Commit
<1>9. CASE Checkpoint
  <2>0. UNCHANGED <<registry, view, pc, txn, admitted>> /\ \A q \in Procs : SameView(q)
    BY <1>9, Zenon DEF Checkpoint, CloseGate, PlanFold, SpillHistory, GcAndReopen, InstallFold,
                       CheckpointGivesUp, CheckpointFails, SameView
  <2>1. ASSUME ckpt'.pc \in {"spill", "install"} =>
                 ckpt.pc \in {"spill", "install"} /\ ckpt'.ts = ckpt.ts /\ ckpt'.ort = ckpt.ort,
               ckpt'.pc = "idle" \/ closed'
        PROVE  ViewInv'
    BY <1>1, <2>0, <2>1, Zenon DEF ViewInv
  <2>2. CASE CloseGate \/ GcAndReopen \/ CheckpointGivesUp \/ CheckpointFails
    <3>1. ckpt'.pc = "idle" \/ (ckpt'.pc = "draining" /\ closed')
      BY <2>2 DEF CloseGate, GcAndReopen, CheckpointGivesUp, CheckpointFails, NoCkpt, EnvelopeInv,
                  TypeInv, CkptType
    <3> QED BY <2>1, <3>1, Zenon
  <2>3. CASE SpillHistory \/ \E k \in Keys : InstallFold(k)
    <3>1. /\ ckpt'.pc \in {"spill", "install"} /\ ckpt.pc \in {"spill", "install"}
          /\ ckpt'.ts = ckpt.ts /\ ckpt'.ort = ckpt.ort /\ closed' = closed
      BY <2>3 DEF SpillHistory, InstallFold, EnvelopeInv, TypeInv, CkptType
    <3> QED BY <2>1, <3>1, Zenon DEF ViewInv
  <2>4. CASE PlanFold
    <3>1. /\ ckpt'.pc = "spill" /\ ckpt'.ort = OldestRequiredTs /\ closed' = closed
          /\ ckpt.pc = "draining" /\ admitted = {}
      BY <2>4 DEF PlanFold
    <3>2. ASSUME NEW q \in Procs PROVE ViewOf(q)'
      <4>1. ViewOf(q) /\ (q \in Viewing' <=> q \in Viewing)
        BY <2>0, Zenon DEF ViewInv, Viewing
      <4>2. q \in Viewing => OldestRequiredTs <= view[q]
        BY <4>1, Zenon DEF ViewOf, Viewing
      <4> QED BY <2>0, <3>1, <4>1, <4>2, Zenon DEF ViewOf
    <3> QED BY <2>0, <3>1, <3>2, Zenon DEF ViewInv
  <2> QED BY <1>9, <2>2, <2>3, <2>4, Zenon DEF Checkpoint
<1>10. ASSUME NEW k \in Evictable, SampleOrt(k) \/ Evict(k) PROVE ViewInv'
  <2>1. UNCHANGED <<registry, view, pc, txn, admitted, ckpt, closed>> /\ \A q \in Procs : SameView(q)
    BY <1>10, Zenon DEF SampleOrt, Evict, SameView
  <2> QED BY <1>1, <2>1, Zenon DEF ViewInv
<1> QED
  <2>1. \A r \in Readers : r \in Procs
    BY Zenon DEF Procs
  <2>2. CASE UNCHANGED vars
    <3>1. UNCHANGED <<registry, view, pc, txn, admitted, ckpt, closed>> /\ \A q \in Procs : SameView(q)
      BY <2>2, Zenon DEF vars, SameView
    <3> QED BY <1>1, <3>1, Zenon DEF ViewInv
  <2> QED BY <1>5, <1>6, <1>7, <1>8, <1>9, <1>10, <2>1, <2>2, Zenon DEF Next

\* A step logs writes past the frontier only.
LEMMA LogGrows ==
    ASSUME EnvelopeInv, Next, NEW p \in Procs
    PROVE  /\ commits \in SUBSET commits'
           /\ \A c \in commits' : c.ts <= view[p] => c \in commits
<1>1. commits' = commits \/ \E w \in Writers : AppendToLog(w)
  <2>1. ASSUME NEW q \in Procs, PinView(q) \/ RefineView(q) \/ CloseView(q) PROVE commits' = commits
    BY <2>1, Zenon DEF PinView, RefineView, CloseView
  <2>2. ASSUME NEW w \in Writers, Select(w) \/ Enter(w) PROVE commits' = commits
    BY <2>2, Zenon DEF Select, SelectDocs, SelectNothing, AttachExpectedHeads, SelectionStale, Enter,
         BeginInsert, Admit, Refused, LoadVisibility, RegisterVisibility, StageInsert, InsertDuplicate
  <2>3. ASSUME NEW w \in Writers, Commit(w) PROVE AppendToLog(w) \/ commits' = commits
    BY <2>3, Zenon DEF Commit, RegisterSlot, InstallPending, FailBeforeLog, InstallConflicts,
         AppendFails, FlipToCommitted, FlipToAborted, Flip, FlipFails, MarkAborted, MarkReady,
         PublishFails, Acknowledge
  <2>4. CASE Checkpoint
    BY <2>4, Zenon DEF Checkpoint, CloseGate, PlanFold, SpillHistory, GcAndReopen, InstallFold,
                       CheckpointGivesUp, CheckpointFails
  <2>5. ASSUME NEW k \in Evictable, SampleOrt(k) \/ Evict(k) PROVE commits' = commits
    BY <2>5, Zenon DEF SampleOrt, Evict
  <2>6. \A r \in Readers : r \in Procs
    BY Zenon DEF Procs
  <2> QED BY <2>1, <2>2, <2>3, <2>4, <2>5, <2>6, Zenon DEF Next
<1>2. ASSUME NEW w \in Writers, AppendToLog(w), NEW c \in commits', c \notin commits PROVE ~(c.ts <= view[p])
  <2>1. c.ts = txn[w].ts /\ pc[w] = "installed"
    BY <1>2 DEF AppendToLog
  <2>2. txn[w].ts \in Times /\ ~(txn[w].ts <= published)
    BY <2>1, Zenon DEF EnvelopeInv, OwnerInv, SlotInv, Owning
  <2>3. view[p] <= published /\ view[p] \in Values /\ published \in Values
    BY Zenon DEF EnvelopeInv, TypeInv, SlotInv
  <2> QED BY <2>1, <2>2, <2>3, BoundAssumption DEF Times, Values
<1>3. commits \in SUBSET commits'
  BY <1>1, Zenon DEF AppendToLog
<1> QED BY <1>1, <1>2, <1>3, Zenon

\* Two logs that agree up to ts have the same newest write.
LEMMA NewestAgrees ==
    ASSUME NEW log, NEW more, NEW k, NEW ts, NEW v, NEW u,
           Newest(log, k, ts, v), Newest(more, k, ts, u), log \in SUBSET more,
           \A c \in more : c.key = k /\ c.ts <= ts => c \in log,
           \A c \in more : c.ts \in Nat,
           \A c, d \in more : c.key = d.key /\ c.ts = d.ts => c = d
    PROVE  v = u
<1>1. CASE \A c \in log : c.key = k => ~(c.ts <= ts)
  BY <1>1, Zenon DEF Newest
<1>2. ASSUME NEW c \in log, c.key = k, c.ts <= ts PROVE v = u
  <2>1. PICK a \in log : /\ a.key = k /\ a.ts <= ts
                         /\ \A d \in log : d.key = k /\ d.ts <= ts => d.ts <= a.ts
                         /\ v = IF a.tomb THEN 0 ELSE a.ts
    BY <1>2, Zenon DEF Newest
  <2>2. PICK b \in more : /\ b.key = k /\ b.ts <= ts
                          /\ \A d \in more : d.key = k /\ d.ts <= ts => d.ts <= b.ts
                          /\ u = IF b.tomb THEN 0 ELSE b.ts
    BY <1>2, Zenon DEF Newest
  <2>3. a.ts <= b.ts /\ b.ts <= a.ts /\ a \in more
    BY <2>1, <2>2, Zenon
  <2>4. a.ts = b.ts
    BY ONLY <2>3, a.ts \in Nat, b.ts \in Nat
  <2>5. a = b
    BY <2>1, <2>2, <2>3, <2>4, Zenon
  <2> QED BY <2>1, <2>2, <2>5, Zenon
<1> QED BY <1>1, <1>2, Zenon

-----------------------------------------------------------------------------
(* EnvelopeInv is inductive. *)

\* It holds in an empty file.
LEMMA EnvelopeInit ==
    ASSUME Init
    PROVE  EnvelopeInv
<1> USE BoundAssumption DEF Init, Values, Times, TsMax, None, NoHead
<1>1. TypeInv
  <2>1. txn \in [Writers -> Txn]
    BY DEF NoTxn, Txn
  <2>2. pc \in [Procs -> Labels]
    BY Zenon DEF Labels
  <2>3. ckpt \in CkptType
    BY DEF NoCkpt, CkptType
  <2>4. chain \in [Keys -> Seq(Version)]
    OBVIOUS
  <2>5. /\ base \in [Keys -> Values]
        /\ slot \in [Times -> {"Free", "Pending", "Ready", "Aborted"}]
        /\ registry \in [Procs -> Values \cup {None}]
        /\ view \in [Procs -> Values]
    OBVIOUS
  <2>6. /\ history \in SUBSET Row /\ commits \in SUBSET CommitRow /\ admitted \in SUBSET Writers
        /\ poisoned \in BOOLEAN /\ closed \in BOOLEAN
    BY Zenon
  <2>7. oracle \in Values /\ published \in Values /\ checkpoints \in 0 .. MaxCheckpoints
    OBVIOUS
  <2> QED BY ONLY <2>1, <2>2, <2>3, <2>4, <2>5, <2>6, <2>7, Zenon DEF TypeInv
<1>2. SlotInv
  BY DEF SlotInv, NoCkpt
<1>3. \A w \in Writers : pc[w] = "idle"
  BY Zenon DEF Procs
<1>4. OwnerInv
  BY <1>3, Zenon DEF OwnerInv, Owning
<1>5. ChainInv /\ StoreInv
  BY DEF ChainInv, StoreInv
<1> QED BY <1>1, <1>2, <1>4, <1>5, Zenon DEF EnvelopeInv

\* A version keeps its place when its slot does, and its transaction, while it
\* owns the slot, stays what it was.
LEMMA EntryStays ==
    ASSUME NEW k, NEW e, EntryOf(k, e, slot, commits, pc, txn),
           slot'[e.start] # "Free", e.state = "Pending" => slot'[e.start] = "Pending",
           \A c \in commits : c \in commits',
           \A w \in Writers : (pc'[w] \in Owning /\ txn'[w].ts = e.start) =>
              pc[w] \in Owning /\ txn'[w] = txn[w] /\ (pc'[w] = "registered" => pc[w] = "registered")
    PROVE  EntryOf(k, e, slot', commits', pc', txn')
<1>1. e.state = "Committed" => \E c \in commits' : c.key = k /\ c.ts = e.start /\ c.tomb = e.tomb
  BY Zenon DEF EntryOf
<1>2. ASSUME NEW w \in Writers, pc'[w] \in Owning, txn'[w].ts = e.start
      PROVE  /\ pc'[w] # "registered" /\ e.tomb = (txn'[w].op = "delete") /\ k \in txn'[w].keys
             /\ e.state = "Pending" => k \in txn'[w].todo
  <2>1. pc[w] \in Owning /\ txn'[w] = txn[w] /\ (pc'[w] = "registered" => pc[w] = "registered")
    BY <1>2, Zenon
  <2> QED BY <1>2, <2>1 DEF EntryOf
<1> QED BY <1>1, <1>2, Zenon DEF EntryOf

\* A step outside the storage and the publish slots, in which no transaction
\* gets past its slot registration or its append.
Outside ==
    /\ UNCHANGED <<chain, base, history, slot, oracle, published, commits>>
    /\ \A p \in Procs : view'[p] <= published
    /\ ckpt'.ts <= published
    /\ \A w \in Writers : pc'[w] \in Owning =>
          /\ pc[w] \in Owning /\ txn'[w] = txn[w]
          /\ pc'[w] = "registered" => pc[w] = "registered"
          /\ pc'[w] = "durable" <=> pc[w] = "durable"

\* Such a step keeps the invariant when it keeps the types.
LEMMA OutsideKeeps ==
    ASSUME EnvelopeInv, Outside, TypeInv'
    PROVE  EnvelopeInv'
<1>1. SlotInv'
  BY Zenon DEF EnvelopeInv, SlotInv, Outside
<1>2. OwnerInv'
  <2>1. ASSUME NEW w \in Writers, pc'[w] \in Owning
        PROVE  /\ txn'[w].ts \in Times
               /\ slot'[txn'[w].ts] = "Pending"
               /\ pc'[w] # "durable" => \A c \in commits' : c.ts # txn'[w].ts
    BY <2>1 DEF EnvelopeInv, OwnerInv, Outside
  <2>2. ASSUME NEW w \in Writers, pc'[w] = "durable"
        PROVE  \A k \in txn'[w].keys :
                  [key |-> k, ts |-> txn'[w].ts, tomb |-> txn'[w].op = "delete",
                   over |-> txn'[w].read[k]] \in commits'
    <3>1. pc'[w] \in Owning
      BY <2>2, Zenon DEF Owning
    <3> QED BY <2>2, <3>1, ZenonT(60) DEF EnvelopeInv, OwnerInv, Outside
  <2>3. \A v, w \in Writers : (pc'[v] \in Owning /\ pc'[w] \in Owning /\ txn'[v].ts = txn'[w].ts) => v = w
    BY DEF EnvelopeInv, OwnerInv, Outside
  <2>4. /\ \A c \in commits' : slot'[c.ts] \in {"Pending", "Ready"}
        /\ \A c, d \in commits' : (c.key = d.key /\ c.ts = d.ts) => c = d
    BY Zenon DEF EnvelopeInv, OwnerInv, Outside
  <2> QED BY <2>1, <2>2, <2>3, <2>4, Zenon DEF OwnerInv
<1>3. ChainInv'
  <2>1. ASSUME NEW k \in Keys, NEW i \in DOMAIN chain[k] PROVE EntryInv(k, chain[k][i])'
    <3>1. EntryInv(k, chain[k][i])
      BY Zenon DEF EnvelopeInv, ChainInv
    <3> QED BY <3>1 DEF EntryInv, EntryOf, Outside
  <2> QED BY <2>1, ZenonT(60) DEF EnvelopeInv, ChainInv, Outside
<1>4. StoreInv'
  BY DEF EnvelopeInv, StoreInv, Logged, Outside
<1> QED BY <1>1, <1>2, <1>3, <1>4, Zenon DEF EnvelopeInv

\* Opening and closing a view.
LEMMA ViewKeeps ==
    ASSUME EnvelopeInv, NEW p \in Procs, PinView(p) \/ RefineView(p) \/ CloseView(p)
    PROVE  EnvelopeInv'
<1> USE DEF storage, publishing, gate, maintenance
<1>0. TypeInv /\ published \in Values /\ 0 \in Values /\ None \in {None}
  BY BoundAssumption DEF EnvelopeInv, TypeInv, Values
<1>1. /\ UNCHANGED <<chain, base, history, slot, oracle, published, poisoned, txn, closed,
                     admitted, ckpt, checkpoints, commits>>
      /\ \E label \in {"pinned", "viewing", "idle"} : pc' = [pc EXCEPT ![p] = label]
      /\ \E v \in Values \cup {None} : registry' = [registry EXCEPT ![p] = v]
      /\ view' = view \/ view' = [view EXCEPT ![p] = published] \/ view' = [view EXCEPT ![p] = 0]
  BY <1>0, Zenon DEF PinView, RefineView, CloseView, Goto
<1>2. TypeInv'
  <2>1. pc' \in [Procs -> Labels]
    BY <1>0, <1>1, Zenon DEF TypeInv, Labels
  <2>2. registry' \in [Procs -> Values \cup {None}]
    BY <1>0, <1>1, Zenon DEF TypeInv
  <2>3. view' \in [Procs -> Values]
    BY <1>0, <1>1, ZenonT(60) DEF TypeInv
  <2> QED BY <1>0, <1>1, <2>1, <2>2, <2>3, ZenonT(60) DEF TypeInv
<1>3. Outside
  <2>1. \A q \in Procs : view'[q] <= published
    <3>1. view \in [Procs -> Values] /\ \A q \in Procs : view[q] <= published
      BY Zenon DEF EnvelopeInv, TypeInv, SlotInv
    <3> QED BY <1>0, <1>1, <3>1 DEF Values
  <2>2. \A w \in Writers : pc'[w] \in Owning => pc'[w] = pc[w]
    BY <1>0, <1>1, Zenon DEF TypeInv, Owning, Procs
  <2>3. ckpt'.ts <= published
    BY <1>1, Zenon DEF EnvelopeInv, SlotInv
  <2> QED BY <1>1, <2>1, <2>2, <2>3, Zenon DEF Outside
<1> QED BY <1>2, <1>3, OutsideKeeps, Zenon

\* Returning to the caller.
LEMMA LeaveSpec ==
    ASSUME TypeInv, NEW w \in Writers, Leave(w)
    PROVE  /\ registry' \in [Procs -> Values \cup {None}]
           /\ view' \in [Procs -> Values]
           /\ \A p \in Procs : view'[p] \in {0, view[p]}
           /\ txn' \in [Writers -> Txn]
           /\ admitted' \in SUBSET Writers
           /\ pc' \in [Procs -> Labels]
           /\ pc'[w] = "idle"
           /\ \A v \in Writers : v # w => pc'[v] = pc[v] /\ txn'[v] = txn[v]
<1>0. w \in Procs /\ 0 \in Values /\ "idle" \in Labels
  BY BoundAssumption DEF Procs, Values, Labels
<1>1. NoTxn \in Txn
  BY <1>0, Zenon DEF NoTxn, Txn, NoHead
<1>2. registry' \in [Procs -> Values \cup {None}]
  BY <1>0, Zenon DEF TypeInv, Leave
<1>3. view' \in [Procs -> Values] /\ \A p \in Procs : view'[p] \in {0, view[p]}
  BY <1>0, Zenon DEF TypeInv, Leave
<1>4. txn' \in [Writers -> Txn] /\ \A v \in Writers : v # w => txn'[v] = txn[v]
  BY <1>1, Zenon DEF TypeInv, Leave
<1>5. /\ pc' \in [Procs -> Labels] /\ pc'[w] = "idle"
      /\ \A v \in Writers : v # w => pc'[v] = pc[v]
  BY <1>0, Zenon DEF TypeInv, Leave, Goto, Procs
<1>6. admitted' \in SUBSET Writers
  BY Zenon DEF TypeInv, Leave
<1> QED BY <1>2, <1>3, <1>4, <1>5, <1>6, Zenon

\* A transaction that returns without touching a chain or a slot: it chose
\* nothing, was refused, failed, poisoned the engine or was acknowledged.
LEMMA LeaveKeeps ==
    ASSUME EnvelopeInv, NEW w \in Writers, Leave(w), poisoned' \in BOOLEAN,
           UNCHANGED <<storage, publishing, closed, maintenance, commits>>
    PROVE  EnvelopeInv'
<1> USE DEF storage, publishing, maintenance
<1>0. TypeInv
  BY Zenon DEF EnvelopeInv
<1>1. TypeInv'
  BY <1>0, LeaveSpec, Zenon DEF TypeInv
<1>2. Outside
  <2>1. \A p \in Procs : view'[p] <= published
    <3>1. published \in Nat /\ \A p \in Procs : view[p] <= published
      BY BoundAssumption DEF EnvelopeInv, TypeInv, SlotInv, Values
    <3> QED BY <1>0, <3>1, LeaveSpec
  <2>2. \A v \in Writers : pc'[v] \in Owning => pc'[v] = pc[v] /\ txn'[v] = txn[v]
    BY <1>0, LeaveSpec, Zenon DEF Owning
  <2>3. ckpt'.ts <= published
    BY Zenon DEF EnvelopeInv, SlotInv
  <2> QED BY <2>1, <2>2, <2>3, Zenon DEF Outside
<1> QED BY <1>1, <1>2, OutsideKeeps, Zenon

\* A step of a transaction on its way to the slot registration.
LEMMA PrepareKeeps ==
    ASSUME EnvelopeInv, NEW w \in Writers, NEW label \in Labels \ Owning, Goto(w, label),
           txn' \in [Writers -> Txn], \A v \in Writers : v # w => txn'[v] = txn[v],
           view' = view \/ view' = [view EXCEPT ![w] = published],
           registry' = registry \/ registry' = [registry EXCEPT ![w] = view[w]],
           admitted' \in SUBSET Writers,
           UNCHANGED <<storage, publishing, poisoned, closed, maintenance, commits>>
    PROVE  EnvelopeInv'
<1> USE DEF storage, publishing, maintenance
<1>0. TypeInv /\ w \in Procs
  BY Zenon DEF EnvelopeInv, Procs
<1>1. pc' \in [Procs -> Labels] /\ pc'[w] = label /\ \A v \in Writers : v # w => pc'[v] = pc[v]
  BY <1>0, Zenon DEF TypeInv, Goto, Procs
<1>2. view' \in [Procs -> Values] /\ registry' \in [Procs -> Values \cup {None}]
  BY <1>0, ZenonT(60) DEF TypeInv
<1>3. TypeInv'
  BY <1>0, <1>1, <1>2, Zenon DEF TypeInv
<1>4. Outside
  <2>1. \A p \in Procs : view'[p] <= published
    <3>1. /\ published \in Nat /\ view \in [Procs -> Values]
          /\ \A p \in Procs : view[p] <= published
      BY BoundAssumption DEF EnvelopeInv, TypeInv, SlotInv, Values
    <3> QED BY <1>0, <3>1
  <2>2. \A v \in Writers : pc'[v] \in Owning => pc'[v] = pc[v] /\ txn'[v] = txn[v]
    BY <1>1, Zenon
  <2>3. ckpt'.ts <= published
    BY Zenon DEF EnvelopeInv, SlotInv
  <2> QED BY <2>1, <2>2, <2>3, Zenon DEF Outside
<1> QED BY <1>3, <1>4, OutsideKeeps, Zenon

\* Admission, and staging an insert.
LEMMA EnterKeeps ==
    ASSUME EnvelopeInv, NEW w \in Writers, Enter(w)
    PROVE  EnvelopeInv'
<1> USE DEF gate
<1>0. TypeInv /\ txn \in [Writers -> Txn] /\ poisoned \in BOOLEAN /\ admitted \in SUBSET Writers
  BY Zenon DEF EnvelopeInv, TypeInv
<1>1. {"begin", "admitted", "staged", "loaded", "visible"} \subseteq Labels \ Owning
  BY Zenon DEF Labels, Owning
<1>2. ASSUME NEW ks \in (SUBSET Keys) \ {{}}, BeginInsert(w, ks) PROVE EnvelopeInv'
  <2> DEFINE t == [NoTxn EXCEPT !.op = "insert", !.keys = ks]
  <2>0. "insert" \in Ops /\ ks \in SUBSET Keys /\ 0 \in Values
    BY <1>2, BoundAssumption DEF BeginInsert, Values
  <2>1. t \in Txn
    BY <2>0, Zenon DEF NoTxn, Txn, NoHead
  <2>2. txn' = [txn EXCEPT ![w] = t]
    BY <1>2, Zenon DEF BeginInsert
  <2> HIDE DEF t
  <2>3. txn' \in [Writers -> Txn] /\ \A v \in Writers : v # w => txn'[v] = txn[v]
    BY <1>0, <2>1, <2>2, Zenon
  <2> QED BY <1>0, <1>1, <1>2, <2>3, PrepareKeeps, Zenon DEF BeginInsert
<1>3. CASE Admit(w)
  <2> DEFINE label == IF txn[w].op = "insert" THEN "admitted" ELSE "staged"
  <2>1. label \in Labels \ Owning /\ Goto(w, label)
    BY <1>1, <1>3, Zenon DEF Admit
  <2>2. admitted' \in SUBSET Writers
    BY <1>0, <1>3, Zenon DEF Admit
  <2> HIDE DEF label
  <2> QED BY <1>0, <1>3, <2>1, <2>2, PrepareKeeps, ZenonT(60) DEF Admit
<1>4. CASE Refused(w)
  BY <1>0, <1>4, LeaveKeeps, Zenon DEF Refused
<1>5. CASE LoadVisibility(w)
  BY <1>0, <1>1, <1>5, PrepareKeeps, Zenon DEF LoadVisibility
<1>6. CASE RegisterVisibility(w)
  BY <1>0, <1>1, <1>6, PrepareKeeps, Zenon DEF RegisterVisibility
<1>7. CASE StageInsert(w)
  BY <1>0, <1>1, <1>7, PrepareKeeps, Zenon DEF StageInsert
<1>8. CASE InsertDuplicate(w)
  BY <1>0, <1>8, LeaveKeeps, Zenon DEF InsertDuplicate
<1> QED BY <1>2, <1>3, <1>4, <1>5, <1>6, <1>7, <1>8, Zenon DEF Enter

\* S4: the new slot is nobody else's.
LEMMA RegisterKeeps ==
    ASSUME EnvelopeInv, NEW w \in Writers, RegisterSlot(w)
    PROVE  EnvelopeInv'
<1> USE DEF storage, gate, maintenance
<1> DEFINE ts == oracle + 1
<1>0. TypeInv /\ SlotInv /\ OwnerInv /\ ChainInv /\ StoreInv /\ w \in Procs
  BY Zenon DEF EnvelopeInv, Procs
<1>1. oracle \in Nat /\ ts \in Times /\ ts \in Values /\ slot[ts] = "Free" /\ oracle' = ts
  BY <1>0, BoundAssumption DEF RegisterSlot, TypeInv, SlotInv, Times, Values
<1>2. /\ slot' \in [Times -> {"Free", "Pending", "Ready", "Aborted"}]
      /\ slot'[ts] = "Pending"
      /\ \A t \in Times : t # ts => slot'[t] = slot[t]
  BY <1>0, <1>1, Zenon DEF RegisterSlot, TypeInv
<1>3. /\ txn' \in [Writers -> Txn]
      /\ txn'[w] = [txn[w] EXCEPT !.ts = ts]
      /\ \A v \in Writers : v # w => txn'[v] = txn[v]
  <2>1. txn \in [Writers -> Txn] /\ txn[w] \in Txn
    BY <1>0, Zenon DEF TypeInv
  <2>2. [txn[w] EXCEPT !.ts = ts] \in Txn
    <3>1. ts \in Values
      BY <1>1, BoundAssumption, Zenon DEF Times, Values
    <3> QED BY ONLY <2>1, <3>1, Zenon DEF Txn
  <2>3. txn' = [txn EXCEPT ![w] = [txn[w] EXCEPT !.ts = ts]]
    BY Zenon DEF RegisterSlot
  <2> QED BY <2>1, <2>2, <2>3, Zenon
<1>4. txn'[w].ts = ts
  BY <1>3, <1>0 DEF TypeInv, Txn
<1>5. pc[w] = "staged" /\ pc' = [pc EXCEPT ![w] = "registered"] /\ pc \in [Procs -> Labels]
  BY <1>0, Zenon DEF RegisterSlot, Goto, TypeInv
<1>6. pc' \in [Procs -> Labels] /\ pc'[w] = "registered" /\ \A v \in Writers : v # w => pc'[v] = pc[v]
  BY <1>0, <1>5, Zenon DEF Labels, Owning, Procs
<1>7. UNCHANGED <<chain, base, history, published, poisoned, registry, view, closed, admitted,
                  ckpt, checkpoints, commits>>
  BY Zenon DEF RegisterSlot
<1> HIDE DEF ts
<1>8. TypeInv'
  BY <1>0, <1>1, <1>2, <1>3, <1>6, <1>7, Zenon DEF TypeInv
<1>9. SlotInv'
  <2>1. \A t \in Times : slot'[t] = "Free" <=> t > oracle'
    <3>1. \A t \in Times : slot[t] = "Free" <=> t > oracle
      BY <1>0, Zenon DEF SlotInv
    <3> QED BY <1>1, <1>2, <3>1 DEF ts, Times
  <2>2. \A t \in Times : t <= published => slot'[t] \in {"Ready", "Aborted"}
    BY <1>0, <1>1, <1>2, Zenon DEF SlotInv
  <2>3. published <= oracle'
    BY <1>0, <1>1 DEF SlotInv, TypeInv, ts, Values
  <2> QED BY <1>0, <1>7, <2>1, <2>2, <2>3, Zenon DEF SlotInv
<1>10. \A v \in Writers : v # w /\ pc'[v] \in Owning => txn[v].ts \in Times /\ txn[v].ts # ts
  BY <1>0, <1>1, <1>6, Zenon DEF OwnerInv
<1>11. \A c \in commits : c.ts \in Times /\ c.ts # ts
  <2>1. \A c \in commits : c.ts \in Times
    BY <1>0, Zenon DEF TypeInv, CommitRow
  <2> QED BY <2>1, <1>0, <1>1, Zenon DEF OwnerInv
<1>12. OwnerInv'
  <2>1. ASSUME NEW v \in Writers, pc'[v] \in Owning
        PROVE  /\ txn'[v].ts \in Times
               /\ slot'[txn'[v].ts] = "Pending"
               /\ pc'[v] # "durable" => \A c \in commits' : c.ts # txn'[v].ts
    <3>1. CASE v = w
      BY <3>1, <1>1, <1>2, <1>4, <1>7, <1>11, ZenonT(60)
    <3>2. CASE v # w
      BY <2>1, <3>2, <1>0, <1>2, <1>3, <1>6, <1>7, <1>10 DEF OwnerInv
    <3> QED BY <3>1, <3>2, Zenon
  <2>2. ASSUME NEW v \in Writers, pc'[v] = "durable"
        PROVE  \A k \in txn'[v].keys :
                  [key |-> k, ts |-> txn'[v].ts, tomb |-> txn'[v].op = "delete",
                   over |-> txn'[v].read[k]] \in commits'
    <3>1. v # w /\ pc[v] = "durable" /\ txn'[v] = txn[v]
      BY <2>2, <1>3, <1>6, Zenon
    <3> QED BY <3>1, <1>0, <1>7, Zenon DEF OwnerInv
  <2>3. \A u, v \in Writers : (pc'[u] \in Owning /\ pc'[v] \in Owning /\ txn'[u].ts = txn'[v].ts) => u = v
    <3>1. \A u, v \in Writers : (pc[u] \in Owning /\ pc[v] \in Owning /\ txn[u].ts = txn[v].ts) => u = v
      BY <1>0, Zenon DEF OwnerInv
    <3>2. \A v \in Writers : v # w => pc'[v] = pc[v] /\ txn'[v].ts = txn[v].ts
      BY <1>3, <1>6, Zenon
    <3> QED BY ONLY <3>1, <3>2, <1>4, <1>10, ZenonT(60)
  <2>4. \A c \in commits' : slot'[c.ts] \in {"Pending", "Ready"}
    BY <1>0, <1>2, <1>7, <1>11, Zenon DEF OwnerInv
  <2>5. \A c, d \in commits' : (c.key = d.key /\ c.ts = d.ts) => c = d
    BY <1>0, <1>7, Zenon DEF OwnerInv
  <2> QED BY <2>1, <2>2, <2>3, <2>4, <2>5, Zenon DEF OwnerInv
<1>13. ChainInv'
  <2>1. ASSUME NEW k \in Keys, NEW i \in DOMAIN chain[k]
        PROVE  EntryOf(k, chain[k][i], slot', commits', pc', txn')
    <3> DEFINE e == chain[k][i]
    <3>1. e \in Version /\ EntryOf(k, e, slot, commits, pc, txn)
      BY <1>0 DEF TypeInv, ChainInv, EntryInv
    <3> HIDE DEF e
    <3>2. e.start \in Times /\ slot[e.start] # "Free" /\ (e.state = "Pending" => slot[e.start] = "Pending")
      BY ONLY <3>1, Zenon DEF Version, EntryOf
    <3>3. e.start # ts /\ slot'[e.start] = slot[e.start]
      BY <3>2, <1>1, <1>2, Zenon
    <3>4. \A v \in Writers : (pc'[v] \in Owning /\ txn'[v].ts = e.start) => v # w
      BY <3>3, <1>4, Zenon
    <3>5. EntryOf(k, e, slot', commits', pc', txn')
      BY <3>1, <3>2, <3>3, <3>4, <1>3, <1>6, <1>7, EntryStays, ZenonT(60)
    <3> QED BY <3>5, ZenonT(60) DEF e
  <2> QED BY <2>1, <1>0, <1>7, Zenon DEF ChainInv, EntryInv
<1>14. StoreInv'
  BY <1>0, <1>7 DEF StoreInv, Logged
<1> QED BY <1>8, <1>9, <1>12, <1>13, <1>14, Zenon DEF EnvelopeInv

\* S7, whole or cut short by a conflict: the pending versions put in front of
\* the chains are the transaction's own.
LEMMA InstallKeeps ==
    ASSUME EnvelopeInv, NEW w \in Writers, pc[w] = "registered",
           NEW ks \in SUBSET txn[w].keys, NEW label \in {"installed", "cleanup"},
           InstallOn(w, ks),
           \A k \in ks : Pushed(chain[k], chain'[k], txn[w].ts, txn[w].op = "delete"),
           txn' = [txn EXCEPT ![w].todo = ks], Goto(w, label),
           UNCHANGED <<base, history, publishing, poisoned, registry, view, gate, maintenance, commits>>
    PROVE  EnvelopeInv'
<1> USE DEF publishing, gate, maintenance
<1> DEFINE ts == txn[w].ts
           tomb == txn[w].op = "delete"
<1>0. TypeInv /\ SlotInv /\ OwnerInv /\ ChainInv /\ StoreInv /\ w \in Procs
  BY Zenon DEF EnvelopeInv, Procs
<1>1. txn[w] \in Txn /\ txn \in [Writers -> Txn] /\ pc \in [Procs -> Labels]
  BY <1>0, Zenon DEF TypeInv
<1>2. txn[w].keys \in SUBSET Keys /\ ks \in SUBSET Keys
  BY <1>1, Zenon DEF Txn
<1>3. /\ txn' \in [Writers -> Txn]
      /\ txn'[w].ts = ts /\ txn'[w].keys = txn[w].keys /\ txn'[w].op = txn[w].op
      /\ txn'[w].read = txn[w].read /\ txn'[w].todo = ks
      /\ \A v \in Writers : v # w => txn'[v] = txn[v]
  <2>1. txn' = [txn EXCEPT ![w] = [txn[w] EXCEPT !.todo = ks]]
    BY Zenon
  <2>2. [txn[w] EXCEPT !.todo = ks] \in Txn
    BY <1>1, <1>2, Zenon DEF Txn
  <2>3. txn' \in [Writers -> Txn] /\ txn'[w] = [txn[w] EXCEPT !.todo = ks]
    BY <1>1, <2>1, <2>2, Zenon
  <2>4. /\ [txn[w] EXCEPT !.todo = ks].ts = ts /\ [txn[w] EXCEPT !.todo = ks].keys = txn[w].keys
        /\ [txn[w] EXCEPT !.todo = ks].op = txn[w].op /\ [txn[w] EXCEPT !.todo = ks].read = txn[w].read
        /\ [txn[w] EXCEPT !.todo = ks].todo = ks
    BY ONLY <1>1, Zenon DEF Txn
  <2>5. \A v \in Writers : v # w => txn'[v] = txn[v]
    BY ONLY <1>1, <2>1, Zenon
  <2> QED BY ONLY <2>3, <2>4, <2>5, Zenon
<1>4. pc' \in [Procs -> Labels] /\ pc'[w] = label /\ \A v \in Writers : v # w => pc'[v] = pc[v]
  BY <1>0, <1>1, Zenon DEF Goto, Labels, Owning, Procs
<1>5. /\ ts \in Times /\ slot[ts] = "Pending" /\ tomb \in BOOLEAN
      /\ tomb => "delete" \in Ops
      /\ \A v \in Writers : pc[v] \in Owning /\ txn[v].ts = ts => v = w
      /\ \A c \in commits : c.ts # ts
  <2>1. pc[w] \in Owning
    BY Zenon DEF Owning
  <2>2. tomb => "delete" \in Ops
    BY <1>1, Zenon DEF Txn
  <2> QED BY <1>0, <2>1, <2>2, Zenon DEF OwnerInv
<1> HIDE DEF ts, tomb
<1>6. ASSUME NEW k \in ks
      PROVE  /\ chain'[k] \in Seq(Version)
             /\ Len(chain'[k]) = Len(chain[k]) + 1
             /\ chain'[k][1] = [start |-> ts, stop |-> TsMax, state |-> "Pending", tomb |-> tomb]
             /\ \A i \in DOMAIN chain[k] :
                  /\ chain'[k][i + 1].start = chain[k][i].start
                  /\ chain'[k][i + 1].state = chain[k][i].state
                  /\ chain'[k][i + 1].tomb = chain[k][i].tomb
  BY Zenon DEF Pushed, ts, tomb
<1>7. \A k \in Keys : k \notin ks => chain'[k] = chain[k]
  BY Zenon DEF InstallOn
<1>8. chain' \in [Keys -> Seq(Version)]
  <2>1. \A k \in Keys : chain'[k] \in Seq(Version)
    BY <1>0, <1>6, <1>7, Zenon DEF TypeInv
  <2>2. chain' = [k \in Keys |-> chain'[k]]
    BY Zenon DEF InstallOn
  <2> QED BY <2>1, <2>2, Zenon
<1>9. TypeInv'
  BY <1>0, <1>3, <1>4, <1>8, Zenon DEF TypeInv
<1>10. SlotInv'
  BY <1>0, Zenon DEF SlotInv
<1>11. OwnerInv'
  <2>0. \A v \in Writers : /\ pc'[v] \in Owning => pc[v] \in Owning
                           /\ pc'[v] = "durable" => pc[v] = "durable" /\ v # w
                           /\ pc[v] = "durable" => pc'[v] = "durable"
                           /\ txn'[v].ts = txn[v].ts
    BY <1>3, <1>4, ZenonT(60) DEF Owning, ts
  <2>1. ASSUME NEW v \in Writers, pc'[v] \in Owning
        PROVE  /\ txn'[v].ts \in Times
               /\ slot'[txn'[v].ts] = "Pending"
               /\ pc'[v] # "durable" => \A c \in commits' : c.ts # txn'[v].ts
    BY <1>0, <2>0, <2>1 DEF OwnerInv
  <2>2. ASSUME NEW v \in Writers, pc'[v] = "durable"
        PROVE  \A k \in txn'[v].keys :
                  [key |-> k, ts |-> txn'[v].ts, tomb |-> txn'[v].op = "delete",
                   over |-> txn'[v].read[k]] \in commits'
    <3>1. txn'[v] = txn[v] /\ pc[v] = "durable"
      BY <1>3, <2>0, <2>2, Zenon
    <3>2. \A k \in txn[v].keys : [key |-> k, ts |-> txn[v].ts, tomb |-> txn[v].op = "delete",
                                  over |-> txn[v].read[k]] \in commits
      BY <3>1, <1>0, Zenon DEF OwnerInv
    <3>3. commits' = commits
      BY Zenon
    <3> QED BY ONLY <3>1, <3>2, <3>3, Zenon
  <2>3. \A u, v \in Writers : (pc'[u] \in Owning /\ pc'[v] \in Owning /\ txn'[u].ts = txn'[v].ts) => u = v
    <3>1. \A u, v \in Writers : (pc[u] \in Owning /\ pc[v] \in Owning /\ txn[u].ts = txn[v].ts) => u = v
      BY <1>0, Zenon DEF OwnerInv
    <3> QED BY ONLY <2>0, <3>1, Zenon
  <2>4. /\ \A c \in commits' : slot'[c.ts] \in {"Pending", "Ready"}
        /\ \A c, d \in commits' : (c.key = d.key /\ c.ts = d.ts) => c = d
    BY <1>0, ZenonT(60) DEF OwnerInv
  <2> QED BY <2>1, <2>2, <2>3, <2>4, Zenon DEF OwnerInv
<1>12. \A k \in Keys : \A i \in DOMAIN chain[k] : chain[k][i].start # ts
  \* A transaction that has just registered has no version yet.
  BY <1>0 DEF ChainInv, EntryInv, EntryOf, Owning, ts
<1>13. ASSUME NEW k \in Keys, NEW e, NEW f, EntryInv(k, e), e.start # ts,
              f.start = e.start, f.state = e.state, f.tomb = e.tomb
       PROVE  EntryOf(k, f, slot', commits', pc', txn')
  <2>1. \A v \in Writers : pc'[v] \in Owning /\ txn'[v].ts = f.start => v # w
    BY <1>3, <1>13, Zenon
  <2> QED BY <2>1, <1>3, <1>4, <1>13 DEF EntryInv, EntryOf
<1>14. ASSUME NEW k \in ks, NEW f,
              f.start = ts, f.state = "Pending", f.tomb = tomb
       PROVE  EntryOf(k, f, slot', commits', pc', txn')
  <2>1. ASSUME NEW v \in Writers, pc'[v] \in Owning, txn'[v].ts = ts
        PROVE  v = w
    BY <2>1, <1>3, <1>4, <1>5, Zenon
  <2>2. ASSUME NEW v \in Writers, pc'[v] \in Owning, txn'[v].ts = ts
        PROVE  /\ pc'[v] # "registered"
               /\ f.tomb = (txn'[v].op = "delete")
               /\ k \in txn'[v].keys /\ k \in txn'[v].todo
    BY <2>1, <2>2, <1>3, <1>4, <1>14, Zenon DEF tomb
  <2>3. slot'[f.start] = "Pending" /\ (f.tomb => "delete" \in Ops)
    BY <1>5, <1>14, Zenon
  <2> QED BY <2>2, <2>3, <1>14, Zenon DEF EntryOf
<1>15. ChainInv'
  <2>1. ASSUME NEW k \in Keys
        PROVE  /\ \A i \in DOMAIN chain'[k] : EntryOf(k, chain'[k][i], slot', commits', pc', txn')
               /\ \A i, j \in DOMAIN chain'[k] : chain'[k][i].start = chain'[k][j].start => i = j
    <3>0. /\ chain[k] \in Seq(Version)
          /\ \A i \in DOMAIN chain[k] : EntryInv(k, chain[k][i]) /\ chain[k][i].start # ts
          /\ \A i, j \in DOMAIN chain[k] : chain[k][i].start = chain[k][j].start => i = j
      BY <1>0, <1>12, Zenon DEF TypeInv, ChainInv
    <3>1. CASE k \notin ks
      <4>1. chain'[k] = chain[k]
        BY <1>7, <3>1, Zenon
      <4>2. \A i \in DOMAIN chain[k] : EntryOf(k, chain[k][i], slot', commits', pc', txn')
        BY <1>13, <3>0, Zenon
      <4> QED BY <3>0, <4>1, <4>2, Zenon
    <3>2. CASE k \in ks
      <4>1. /\ chain'[k] \in Seq(Version) /\ Len(chain[k]) \in Nat
            /\ DOMAIN chain'[k] = 1 .. (Len(chain[k]) + 1) /\ DOMAIN chain[k] = 1 .. Len(chain[k])
        BY <1>6, <3>0, <3>2
      <4>2. \A i \in DOMAIN chain'[k] : i = 1 \/ (i - 1 \in DOMAIN chain[k] /\ (i - 1) + 1 = i)
        BY <4>1
      <4>3. chain'[k][1].start = ts /\ chain'[k][1].state = "Pending" /\ chain'[k][1].tomb = tomb
        BY <1>6, <3>2
      <4>4. \A i \in DOMAIN chain[k] :
              /\ chain'[k][i + 1].start = chain[k][i].start
              /\ chain'[k][i + 1].state = chain[k][i].state
              /\ chain'[k][i + 1].tomb = chain[k][i].tomb
        BY <1>6, <3>2, Zenon
      <4>5. ASSUME NEW i \in DOMAIN chain'[k] PROVE EntryOf(k, chain'[k][i], slot', commits', pc', txn')
        <5>1. CASE i = 1
          BY <5>1, <4>3, <1>14, <3>2, Zenon
        <5>2. CASE i - 1 \in DOMAIN chain[k] /\ (i - 1) + 1 = i
          <6>1. /\ chain'[k][i].start = chain[k][i - 1].start
                /\ chain'[k][i].state = chain[k][i - 1].state
                /\ chain'[k][i].tomb = chain[k][i - 1].tomb
            BY <5>2, <4>4, Zenon
          <6> QED BY <6>1, <5>2, <3>0, <1>13, Zenon
        <5> QED BY <5>1, <5>2, <4>2, Zenon
      <4>6. ASSUME NEW i \in DOMAIN chain'[k], NEW j \in DOMAIN chain'[k],
                   chain'[k][i].start = chain'[k][j].start
            PROVE  i = j
        <5>1. i # 1 => i - 1 \in DOMAIN chain[k] /\ chain'[k][i].start = chain[k][i - 1].start
          BY <4>2, <4>4, ZenonT(60)
        <5>2. j # 1 => j - 1 \in DOMAIN chain[k] /\ chain'[k][j].start = chain[k][j - 1].start
          BY <4>2, <4>4, ZenonT(60)
        <5>3. i # 1 /\ j # 1 => i - 1 = j - 1
          BY <5>1, <5>2, <3>0, <4>6, Zenon
        <5>4. i = 1 <=> j = 1
          BY <5>1, <5>2, <3>0, <4>3, <4>6, Zenon
        <5> QED BY <5>3, <5>4, <4>1
      <4> QED BY <4>5, <4>6, Zenon
    <3> QED BY <3>1, <3>2, Zenon
  <2> QED BY <2>1, Zenon DEF ChainInv, EntryInv
<1>16. StoreInv'
  BY <1>0, ZenonT(60) DEF StoreInv, Logged
<1> QED BY <1>9, <1>10, <1>11, <1>15, <1>16, Zenon DEF EnvelopeInv

\* S8 and S9: the records appended are the transaction's, and nobody logged at
\* its timestamp before.
LEMMA AppendKeeps ==
    ASSUME EnvelopeInv, NEW w \in Writers, AppendToLog(w)
    PROVE  EnvelopeInv'
<1> USE DEF storage, publishing, gate, maintenance
<1> DEFINE row(k) == [key |-> k, ts |-> txn[w].ts, tomb |-> txn[w].op = "delete",
                      over |-> txn[w].read[k]]
           rows == {row(k) : k \in txn[w].keys}
<1>0. TypeInv /\ SlotInv /\ OwnerInv /\ ChainInv /\ StoreInv /\ w \in Procs
  BY Zenon DEF EnvelopeInv, Procs
<1>1. UNCHANGED <<chain, base, history, slot, oracle, published, poisoned, registry, view, txn,
                  closed, admitted, ckpt, checkpoints>>
  BY Zenon DEF AppendToLog
<1>2. /\ pc[w] = "installed" /\ pc' \in [Procs -> Labels] /\ pc'[w] = "durable"
      /\ \A v \in Writers : v # w => pc'[v] = pc[v]
  BY <1>0, Zenon DEF AppendToLog, Goto, TypeInv, Labels, Owning, Procs
<1>3. commits' = commits \cup rows
  BY Zenon DEF AppendToLog
<1>4. /\ txn[w].ts \in Times /\ slot[txn[w].ts] = "Pending"
      /\ \A c \in commits : c.ts # txn[w].ts
      /\ \A v \in Writers : pc[v] \in Owning /\ txn[v].ts = txn[w].ts => v = w
  BY <1>0, <1>2 DEF OwnerInv, Owning
<1>5. \A k \in txn[w].keys :
        /\ row(k) \in CommitRow
        /\ row(k).key = k /\ row(k).ts = txn[w].ts /\ row(k).tomb = (txn[w].op = "delete")
  <2>1. txn[w] \in Txn
    BY <1>0, Zenon DEF TypeInv
  <2>2. \A k \in txn[w].keys : k \in Keys /\ txn[w].read[k] \in Values
    BY <2>1, Zenon DEF Txn
  <2> QED BY <1>4, <2>2, Zenon DEF CommitRow
<1>6. commits \in SUBSET commits' /\ \A k \in txn[w].keys : row(k) \in commits'
  BY <1>3, Zenon
<1>7. \A c \in commits' : c \in commits \/ (c \in rows /\ \E k \in txn[w].keys : c = row(k))
  BY <1>3, ZenonT(60)
<1>8. commits' \in SUBSET CommitRow
  BY <1>0, <1>5, <1>7 DEF TypeInv
<1> HIDE DEF row, rows
<1>9. TypeInv'
  BY <1>0, <1>1, <1>2, <1>8, Zenon DEF TypeInv
<1>10. SlotInv'
  BY <1>0, <1>1, Zenon DEF SlotInv
<1>11. OwnerInv'
  <2>1. ASSUME NEW v \in Writers, pc'[v] \in Owning
        PROVE  /\ txn'[v].ts \in Times
               /\ slot'[txn'[v].ts] = "Pending"
               /\ pc'[v] # "durable" => \A c \in commits' : c.ts # txn'[v].ts
    <3>1. CASE v = w
      BY <3>1, <1>1, <1>2, <1>4, ZenonT(60)
    <3>2. CASE v # w
      <4>1. /\ txn[v].ts \in Times /\ slot[txn[v].ts] = "Pending" /\ txn[v].ts # txn[w].ts
            /\ pc[v] # "durable" => \A c \in commits : c.ts # txn[v].ts
        BY <2>1, <3>2, <1>0, <1>2, <1>4, Zenon DEF OwnerInv
      <4> QED BY <4>1, <3>2, <1>1, <1>2, <1>5, <1>7
    <3> QED BY <3>1, <3>2, Zenon
  <2>2. ASSUME NEW v \in Writers, pc'[v] = "durable", NEW k \in txn'[v].keys
        PROVE  [key |-> k, ts |-> txn'[v].ts, tomb |-> txn'[v].op = "delete",
                over |-> txn'[v].read[k]] \in commits'
    <3>1. CASE v = w
      BY <2>2, <3>1, <1>1, <1>6, Zenon DEF row
    <3>2. CASE v # w
      <4>1. pc[v] = "durable" /\ txn' = txn /\ k \in txn[v].keys
        BY <2>2, <3>2, <1>1, <1>2, Zenon
      <4>2. [key |-> k, ts |-> txn[v].ts, tomb |-> txn[v].op = "delete",
             over |-> txn[v].read[k]] \in commits
        BY <4>1, <1>0, Zenon DEF OwnerInv
      <4> QED BY ONLY <4>1, <4>2, <1>6, Zenon
    <3> QED BY <3>1, <3>2, Zenon
  <2>3. \A u, v \in Writers : (pc'[u] \in Owning /\ pc'[v] \in Owning /\ txn'[u].ts = txn'[v].ts) => u = v
    <3>1. \A u, v \in Writers : (pc[u] \in Owning /\ pc[v] \in Owning /\ txn[u].ts = txn[v].ts) => u = v
      BY <1>0, Zenon DEF OwnerInv
    <3>2. \A v \in Writers : pc'[v] \in Owning => pc[v] \in Owning
      BY <1>2, ZenonT(60) DEF Owning
    <3> QED BY <3>1, <3>2, <1>1, ZenonT(60)
  <2>4. \A c \in commits' : slot'[c.ts] \in {"Pending", "Ready"}
    BY <1>0, <1>1, <1>4, <1>5, <1>7 DEF OwnerInv
  <2>5. \A c, d \in commits' : (c.key = d.key /\ c.ts = d.ts) => c = d
    <3>1. \A c, d \in commits : (c.key = d.key /\ c.ts = d.ts) => c = d
      BY <1>0, Zenon DEF OwnerInv
    <3> QED BY <3>1, <1>4, <1>5, <1>7
  <2> QED BY <2>1, <2>2, <2>3, <2>4, <2>5, Zenon DEF OwnerInv
<1>12. ChainInv'
  <2>1. ASSUME NEW k \in Keys, NEW i \in DOMAIN chain[k]
        PROVE  EntryOf(k, chain[k][i], slot', commits', pc', txn')
    <3>1. EntryInv(k, chain[k][i])
      BY <1>0, Zenon DEF ChainInv
    <3>2. \A v \in Writers : (pc'[v] \in Owning => pc[v] \in Owning)
                             /\ (pc'[v] = "registered" => pc[v] = "registered")
      BY <1>2, Zenon DEF Owning
    <3> QED BY <3>1, <3>2, <1>1, <1>6, Zenon DEF EntryInv, EntryOf
  <2> QED BY <2>1, <1>0, <1>1, Zenon DEF ChainInv, EntryInv
<1>13. StoreInv'
  BY <1>0, <1>1, <1>6 DEF StoreInv, Logged
<1> QED BY <1>9, <1>10, <1>11, <1>12, <1>13, Zenon DEF EnvelopeInv

\* A slot is settled after its transaction's versions are: ready when they are
\* logged, aborted when they are not.
LEMMA SettleKeeps ==
    ASSUME EnvelopeInv, TypeInv', NEW w \in Writers, pc[w] \in {"cleanup", "durable"},
           txn[w].todo = {}, NEW state \in {"Ready", "Aborted"},
           pc[w] = "cleanup" <=> state = "Aborted",
           Settled(txn[w].ts, state), pc'[w] \notin Owning,
           \A v \in Writers : v # w => pc'[v] = pc[v] /\ txn'[v] = txn[v],
           \A p \in Procs : view'[p] \in {0, view[p]},
           UNCHANGED <<chain, base, history, oracle, ckpt, commits>>
    PROVE  EnvelopeInv'
<1> DEFINE ts == txn[w].ts
<1>0. TypeInv /\ SlotInv /\ OwnerInv /\ ChainInv /\ StoreInv
  BY ZenonT(60) DEF EnvelopeInv
<1>1. /\ ts \in Times /\ slot[ts] = "Pending"
      /\ \A v \in Writers : pc[v] \in Owning /\ txn[v].ts = ts => v = w
      /\ state = "Aborted" => \A c \in commits : c.ts # ts
  BY <1>0 DEF OwnerInv, Owning
<1>2. /\ slot'[ts] = state
      /\ \A t \in Times : t # ts => slot'[t] = slot[t]
      /\ published' \in Values /\ published <= published' /\ published' <= oracle
      /\ \A t \in Times : t <= published' => slot'[t] \in {"Ready", "Aborted"}
      /\ \A t \in Times : slot'[t] = "Free" <=> t > oracle
  BY ZenonT(60) DEF Settled
<1>3. published \in Nat /\ published' \in Nat
  BY <1>0, <1>2 DEF TypeInv, Values
<1>4. SlotInv'
  <2>1. \A p \in Procs : view'[p] <= published'
    <3>1. \A p \in Procs : view[p] \in Nat /\ view[p] <= published
      BY <1>0 DEF TypeInv, SlotInv, Values
    <3> QED BY <3>1, <1>2, <1>3
  <2>2. ckpt'.ts <= published'
    <3>1. ckpt \in CkptType /\ ckpt.ts <= published
      BY <1>0, Zenon DEF TypeInv, SlotInv
    <3>2. ckpt.ts \in Nat
      BY ONLY <3>1, BoundAssumption DEF CkptType, Values
    <3> QED BY <3>1, <3>2, <1>2, <1>3
  <2> QED BY <2>1, <2>2, <1>2, ZenonT(60) DEF SlotInv
<1> HIDE DEF ts
<1>5. \A v \in Writers : pc'[v] \in Owning =>
        /\ v # w /\ pc'[v] = pc[v] /\ txn'[v] = txn[v]
        /\ txn[v].ts \in Times /\ txn[v].ts # ts
  BY <1>0, <1>1, Zenon DEF OwnerInv
<1>6. OwnerInv'
  <2>1. ASSUME NEW v \in Writers, pc'[v] \in Owning
        PROVE  /\ txn'[v].ts \in Times
               /\ slot'[txn'[v].ts] = "Pending"
               /\ pc'[v] # "durable" => \A c \in commits' : c.ts # txn'[v].ts
    BY <2>1, <1>0, <1>2, <1>5 DEF OwnerInv
  <2>2. ASSUME NEW v \in Writers, pc'[v] = "durable", NEW k \in txn'[v].keys
        PROVE  [key |-> k, ts |-> txn'[v].ts, tomb |-> txn'[v].op = "delete",
                over |-> txn'[v].read[k]] \in commits'
    <3>1. pc[v] = "durable" /\ txn'[v] = txn[v] /\ k \in txn[v].keys /\ commits' = commits
      BY <2>2, <1>5, Zenon DEF Owning
    <3>2. [key |-> k, ts |-> txn[v].ts, tomb |-> txn[v].op = "delete",
           over |-> txn[v].read[k]] \in commits
      BY <3>1, <1>0, Zenon DEF OwnerInv
    <3> QED BY ONLY <3>1, <3>2, Zenon
  <2>3. \A u, v \in Writers : (pc'[u] \in Owning /\ pc'[v] \in Owning /\ txn'[u].ts = txn'[v].ts) => u = v
    <3>1. \A u, v \in Writers : (pc[u] \in Owning /\ pc[v] \in Owning /\ txn[u].ts = txn[v].ts) => u = v
      BY <1>0, Zenon DEF OwnerInv
    <3> QED BY ONLY <3>1, <1>5, Zenon
  <2>4. \A c \in commits' : slot'[c.ts] \in {"Pending", "Ready"}
    <3>1. \A c \in commits : c.ts \in Times /\ slot[c.ts] \in {"Pending", "Ready"}
      BY <1>0, ZenonT(60) DEF OwnerInv, TypeInv, CommitRow
    <3>2. \A c \in commits : state = "Aborted" => c.ts # ts
      BY <1>1, Zenon
    <3> QED BY ONLY <3>1, <3>2, <1>2, state \in {"Ready", "Aborted"}, commits' = commits, ZenonT(60)
  <2>5. \A c, d \in commits' : (c.key = d.key /\ c.ts = d.ts) => c = d
    BY <1>0, ZenonT(60) DEF OwnerInv
  <2> QED BY <2>1, <2>2, <2>3, <2>4, <2>5, ZenonT(60) DEF OwnerInv
<1>7. ChainInv'
  <2>1. ASSUME NEW k \in Keys, NEW i \in DOMAIN chain[k]
        PROVE  EntryOf(k, chain[k][i], slot', commits', pc', txn')
    <3> DEFINE e == chain[k][i]
    <3>1. EntryOf(k, e, slot, commits, pc, txn)
      BY <1>0, Zenon DEF ChainInv, EntryInv
    <3>2. e.start \in Times
      <4>1. e \in Version
        BY <1>0 DEF TypeInv
      <4> QED BY <4>1, ZenonT(60) DEF Version
    <3> HIDE DEF e
    <3>3. e.state = "Pending" => e.start # ts
      BY <3>1, Zenon DEF EntryOf, ts, Owning
    <3>4. slot'[e.start] # "Free" /\ (e.state = "Pending" => slot'[e.start] = "Pending")
      BY <3>1, <3>2, <3>3, <1>2, Zenon DEF EntryOf
    <3>5. EntryOf(k, e, slot', commits', pc', txn')
      BY <3>1, <3>4, <1>5, EntryStays, Zenon
    <3> QED BY <3>5, Zenon DEF e
  <2> QED BY <2>1, <1>0 DEF ChainInv, EntryInv
<1>8. StoreInv'
  <2>1. \A k, t, tomb : t \in Times /\ Logged(k, t, tomb) => Logged(k, t, tomb)'
    BY <1>2, <1>3, BoundAssumption DEF Logged, Times
  <2>2. \A r \in history : r.start \in Times
    BY <1>0, ZenonT(60) DEF TypeInv, Row
  <2>3. \A k \in Keys : base[k] # 0 => base[k] \in Times
    BY <1>0, BoundAssumption DEF TypeInv, Values, Times
  <2>4. \A r \in history : r.start \in Times /\ Logged(r.key, r.start, r.tomb)
    BY <2>2, <1>0, Zenon DEF StoreInv
  <2>5. \A k \in Keys : base[k] # 0 => base[k] \in Times /\ Logged(k, base[k], FALSE)
    BY <2>3, <1>0, Zenon DEF StoreInv
  <2> QED BY ONLY <2>1, <2>4, <2>5, UNCHANGED <<base, history>>, ZenonT(60) DEF StoreInv
<1> QED BY <1>4, <1>6, <1>7, <1>8, ZenonT(60) DEF EnvelopeInv

\* Settling one page's pending version: committed only after the append.
LEMMA FlipKeeps ==
    ASSUME EnvelopeInv, NEW w \in Writers, NEW k \in Keys,
           NEW state \in {"Committed", "Aborted"}, NEW label \in {"durable", "cleanup"},
           state = "Committed" => label = "durable", Flip(w, k, label, state),
           Flipped(chain[k], chain'[k], txn[w].ts, state)
    PROVE  EnvelopeInv'
<1> USE DEF publishing, gate, maintenance
<1> DEFINE ts == txn[w].ts
<1>0. TypeInv /\ SlotInv /\ OwnerInv /\ ChainInv /\ StoreInv
  BY Zenon DEF EnvelopeInv
<1>1. /\ pc[w] \in {"durable", "cleanup"} /\ (state = "Committed" => pc[w] = "durable")
      /\ chain' = [chain EXCEPT ![k] = FlipPending(chain[k], ts, state)]
      /\ txn' = [txn EXCEPT ![w].todo = @ \ {k}]
      /\ UNCHANGED <<base, history, slot, oracle, published, poisoned, registry, view, pc, closed,
                     admitted, ckpt, checkpoints, commits>>
  BY Zenon DEF Flip
<1>2. /\ ts \in Times /\ chain \in [Keys -> Seq(Version)]
      /\ \A i, j \in DOMAIN chain[k] : chain[k][i].start = chain[k][j].start => i = j
  BY <1>0, <1>1, Zenon DEF TypeInv, OwnerInv, Owning, ChainInv
<1>3. txn[w] \in Txn /\ txn \in [Writers -> Txn]
  BY <1>0, Zenon DEF TypeInv
<1>4. /\ txn' \in [Writers -> Txn]
      /\ txn'[w].ts = ts /\ txn'[w].keys = txn[w].keys /\ txn'[w].op = txn[w].op
      /\ txn'[w].read = txn[w].read /\ txn'[w].todo = txn[w].todo \ {k}
      /\ \A v \in Writers : v # w => txn'[v] = txn[v]
  <2>1. txn' = [txn EXCEPT ![w] = [txn[w] EXCEPT !.todo = txn[w].todo \ {k}]]
    BY <1>1, Zenon
  <2>2. [txn[w] EXCEPT !.todo = txn[w].todo \ {k}] \in Txn
    BY <1>3, Zenon DEF Txn
  <2>3. txn' \in [Writers -> Txn] /\ txn'[w] = [txn[w] EXCEPT !.todo = txn[w].todo \ {k}]
    BY <1>3, <2>1, <2>2, Zenon
  <2> QED BY <1>3, <2>1, <2>3, Zenon DEF Txn
<1> HIDE DEF ts
<1>5. \A q \in Keys : q # k => chain'[q] = chain[q]
  BY <1>1, <1>2, Zenon
<1>6. /\ chain'[k] \in Seq(Version) /\ DOMAIN chain'[k] = DOMAIN chain[k]
      /\ \A i \in DOMAIN chain[k] :
           /\ chain'[k][i].start = chain[k][i].start
           /\ chain'[k][i].tomb = chain[k][i].tomb
           /\ chain'[k][i].state = IF chain[k][i].state = "Pending" /\ chain[k][i].start = ts
                                   THEN state ELSE chain[k][i].state
  BY Zenon DEF Flipped, ts
<1>7. TypeInv'
  <2>1. chain' \in [Keys -> Seq(Version)]
    BY <1>1, <1>2, <1>5, <1>6, Zenon
  <2> QED BY <2>1, <1>0, <1>1, <1>4, Zenon DEF TypeInv
<1>8. SlotInv'
  BY <1>0, <1>1, Zenon DEF SlotInv
<1>9. OwnerInv'
  <2>0. \A v \in Writers : /\ txn'[v].ts = txn[v].ts /\ txn'[v].keys = txn[v].keys
                           /\ txn'[v].op = txn[v].op /\ txn'[v].read = txn[v].read
    BY <1>4, Zenon DEF ts
  <2>1. ASSUME NEW v \in Writers, pc'[v] \in Owning
        PROVE  /\ txn'[v].ts \in Times
               /\ slot'[txn'[v].ts] = "Pending"
               /\ pc'[v] # "durable" => \A c \in commits' : c.ts # txn'[v].ts
    BY <2>0, <2>1, <1>0, <1>1 DEF OwnerInv
  <2>2. ASSUME NEW v \in Writers, pc'[v] = "durable", NEW q \in txn'[v].keys
        PROVE  [key |-> q, ts |-> txn'[v].ts, tomb |-> txn'[v].op = "delete",
                over |-> txn'[v].read[q]] \in commits'
    <3>1. pc[v] = "durable" /\ q \in txn[v].keys /\ commits' = commits
      BY <2>0, <2>2, <1>1, Zenon
    <3>2. [key |-> q, ts |-> txn[v].ts, tomb |-> txn[v].op = "delete",
           over |-> txn[v].read[q]] \in commits
      BY <3>1, <1>0, Zenon DEF OwnerInv
    <3> QED BY ONLY <2>0, <3>1, <3>2, v \in Writers, Zenon
  <2>3. \A u, v \in Writers : (pc'[u] \in Owning /\ pc'[v] \in Owning /\ txn'[u].ts = txn'[v].ts) => u = v
    <3>1. \A u, v \in Writers : (pc[u] \in Owning /\ pc[v] \in Owning /\ txn[u].ts = txn[v].ts) => u = v
      BY <1>0, Zenon DEF OwnerInv
    <3> QED BY <2>0, <3>1, <1>1, Zenon
  <2>4. /\ \A c \in commits' : slot'[c.ts] \in {"Pending", "Ready"}
        /\ \A c, d \in commits' : (c.key = d.key /\ c.ts = d.ts) => c = d
    BY <1>0, <1>1, Zenon DEF OwnerInv
  <2> QED BY <2>1, <2>2, <2>3, <2>4, Zenon DEF OwnerInv
<1>10. ASSUME NEW q \in Keys, NEW e, NEW f, EntryOf(q, e, slot, commits, pc, txn),
              f.start = e.start, f.tomb = e.tomb,
              f.state = IF q = k /\ e.state = "Pending" /\ e.start = ts THEN state ELSE e.state
       PROVE  EntryOf(q, f, slot', commits', pc', txn')
  <2>1. f.state = "Pending" => e.state = "Pending" /\ (q # k \/ e.start # ts)
    BY <1>10, Zenon
  <2>2. f.state = "Committed" => \E c \in commits : c.key = q /\ c.ts = f.start /\ c.tomb = f.tomb
    <3>1. CASE e.state = "Committed"
      BY <3>1, <1>10, Zenon DEF EntryOf
    <3>2. CASE e.state # "Committed" /\ f.state = "Committed"
      <4>1. q = k /\ e.start = ts /\ state = "Committed" /\ pc[w] = "durable"
        BY <3>2, <1>1, <1>10, Zenon
      <4>2. k \in txn[w].keys /\ e.tomb = (txn[w].op = "delete")
        BY <4>1, <1>10, Zenon DEF EntryOf, Owning, ts
      <4>3. [key |-> k, ts |-> txn[w].ts, tomb |-> txn[w].op = "delete",
             over |-> txn[w].read[k]] \in commits
        BY <4>1, <4>2, <1>0, Zenon DEF OwnerInv
      <4> QED BY <4>1, <4>2, <4>3, <1>10, Zenon DEF ts
    <3> QED BY <3>1, <3>2, Zenon
  <2>3. ASSUME NEW v \in Writers, pc[v] \in Owning, txn'[v].ts = f.start
        PROVE  /\ pc[v] # "registered"
               /\ f.tomb = (txn'[v].op = "delete")
               /\ q \in txn'[v].keys
               /\ f.state = "Pending" => q \in txn'[v].todo
    <3>1. /\ txn[v].ts = e.start /\ txn'[v].op = txn[v].op /\ txn'[v].keys = txn[v].keys
          /\ v # w => txn'[v].todo = txn[v].todo
      BY <2>3, <1>4, <1>10, Zenon DEF ts
    <3>2. /\ pc[v] # "registered" /\ e.tomb = (txn[v].op = "delete") /\ q \in txn[v].keys
          /\ e.state = "Pending" => q \in txn[v].todo
      BY <2>3, <3>1, <1>10, Zenon DEF EntryOf
    <3>3. f.state = "Pending" => q \in txn'[v].todo
      BY <2>1, <3>1, <3>2, <1>4, Zenon DEF ts
    <3> QED BY <3>1, <3>2, <3>3, <1>10, Zenon
  <2>4. /\ slot[f.start] # "Free" /\ (f.state = "Pending" => slot[f.start] = "Pending")
        /\ f.tomb => "delete" \in Ops
    BY <2>1, <1>10, Zenon DEF EntryOf
  <2> QED BY <2>2, <2>3, <2>4, <1>1, Zenon DEF EntryOf
<1>11. ChainInv'
  <2>1. ASSUME NEW q \in Keys
        PROVE  /\ \A i \in DOMAIN chain'[q] : EntryOf(q, chain'[q][i], slot', commits', pc', txn')
               /\ \A i, j \in DOMAIN chain'[q] : chain'[q][i].start = chain'[q][j].start => i = j
    <3>0. /\ \A i \in DOMAIN chain[q] : EntryOf(q, chain[q][i], slot, commits, pc, txn)
          /\ \A i, j \in DOMAIN chain[q] : chain[q][i].start = chain[q][j].start => i = j
      BY <1>0, Zenon DEF ChainInv, EntryInv
    <3>1. /\ DOMAIN chain'[q] = DOMAIN chain[q]
          /\ \A i \in DOMAIN chain[q] :
               /\ chain'[q][i].start = chain[q][i].start
               /\ chain'[q][i].tomb = chain[q][i].tomb
               /\ chain'[q][i].state = IF q = k /\ chain[q][i].state = "Pending" /\ chain[q][i].start = ts
                                       THEN state ELSE chain[q][i].state
      BY <1>5, <1>6
    <3> QED BY <3>0, <3>1, <1>10, Zenon
  <2> QED BY <2>1, Zenon DEF ChainInv, EntryInv
<1>12. StoreInv'
  BY <1>0, <1>1, Zenon DEF StoreInv, Logged
<1> QED BY <1>7, <1>8, <1>9, <1>11, <1>12, ZenonT(60) DEF EnvelopeInv

\* What a checkpoint or an eviction leaves of a chain is part of what it was.
LEMMA KeptChain ==
    ASSUME EnvelopeInv, NEW k \in Keys, NEW d, PartOf(d, chain[k]),
           chain' = [chain EXCEPT ![k] = d],
           UNCHANGED <<slot, commits, pc, txn>>
    PROVE  chain' \in [Keys -> Seq(Version)] /\ ChainInv'
<1>1. ChainInv /\ chain \in [Keys -> Seq(Version)]
  BY Zenon DEF EnvelopeInv, TypeInv
<1>2. chain[k] \in Seq(Version)
  BY <1>1, Zenon
<1>3. chain'[k] = d /\ \A q \in Keys : q # k => chain'[q] = chain[q]
  BY <1>1, Zenon
<1>4. chain'[k] \in Seq(Version)
  BY <1>3, Zenon DEF PartOf
<1>5. chain' \in [Keys -> Seq(Version)]
  BY <1>1, <1>3, <1>4, Zenon
<1>6. PICK h \in [DOMAIN chain'[k] -> DOMAIN chain[k]] :
        /\ \A n \in DOMAIN chain'[k] : chain'[k][n] = chain[k][h[n]]
        /\ \A n, m \in DOMAIN chain'[k] : n < m => h[n] < h[m]
  BY <1>3 DEF PartOf
<1>7. ASSUME NEW q \in Keys
      PROVE  /\ \A i \in DOMAIN chain'[q] : EntryOf(q, chain'[q][i], slot', commits', pc', txn')
             /\ \A i, j \in DOMAIN chain'[q] : chain'[q][i].start = chain'[q][j].start => i = j
  <2>0. /\ \A i \in DOMAIN chain[q] : EntryOf(q, chain[q][i], slot', commits', pc', txn')
        /\ \A i, j \in DOMAIN chain[q] : chain[q][i].start = chain[q][j].start => i = j
    BY <1>1, Zenon DEF ChainInv, EntryInv
  <2>1. CASE q # k
    BY <2>0, <2>1, <1>3
  <2>2. CASE q = k
    <3>1. \A n \in DOMAIN chain'[k] : h[n] \in DOMAIN chain[k] /\ h[n] \in Int /\ n \in Int
      BY <1>2, <1>4, <1>6
    <3>2. \A i \in DOMAIN chain'[k] : EntryOf(k, chain'[k][i], slot', commits', pc', txn')
      BY <2>0, <2>2, <3>1, <1>6, Zenon
    <3>3. ASSUME NEW i \in DOMAIN chain'[k], NEW j \in DOMAIN chain'[k],
                 chain'[k][i].start = chain'[k][j].start
          PROVE  i = j
      <4>1. h[i] = h[j]
        BY <2>0, <2>2, <3>1, <3>3, <1>6
      <4>2. ~(i < j) /\ ~(j < i)
        BY <4>1, <3>1, <1>6
      <4> QED BY <4>2, <3>1
    <3> QED BY <2>2, <3>2, <3>3
  <2> QED BY <2>1, <2>2, Zenon
<1>8. ChainInv'
  BY <1>7, Zenon DEF ChainInv, EntryInv
<1> QED BY <1>5, <1>8, Zenon

\* The invariant after a step that changes the chains or the store only.
LEMMA StoreStepKeeps ==
    ASSUME EnvelopeInv, chain' \in [Keys -> Seq(Version)], ChainInv',
           base' \in [Keys -> Values], history' \in SUBSET Row, StoreInv',
           ckpt' \in CkptType,
           ckpt'.ts <= published, closed' \in BOOLEAN,
           UNCHANGED <<publishing, poisoned, registry, view, pc, txn, admitted, checkpoints, commits>>
    PROVE  EnvelopeInv'
<1> USE DEF publishing
<1>0. TypeInv /\ SlotInv /\ OwnerInv
  BY Zenon DEF EnvelopeInv
<1>1. TypeInv'
  BY <1>0, Zenon DEF TypeInv
<1>2. SlotInv'
  BY <1>0, Zenon DEF SlotInv
<1>3. OwnerInv'
  BY <1>0, Zenon DEF OwnerInv
<1> QED BY <1>1, <1>2, <1>3, Zenon DEF EnvelopeInv

\* A step that leaves the storage and the log alone.
LEMMA StorageKept ==
    ASSUME EnvelopeInv, UNCHANGED <<chain, base, history, slot, published, pc, txn, commits>>
    PROVE  ChainInv' /\ StoreInv'
<1>1. ChainInv /\ StoreInv
  BY Zenon DEF EnvelopeInv
<1>2. ChainInv'
  BY <1>1, Zenon DEF ChainInv, EntryInv
<1>3. StoreInv'
  BY <1>1, ZenonT(60) DEF StoreInv, Logged
<1> QED BY <1>2, <1>3, ZenonT(60)

\* A committed version of the checkpoint's boundary was logged and published.
LEMMA BoundaryLogged ==
    ASSUME EnvelopeInv, NEW k \in Keys, NEW i \in DOMAIN chain[k],
           chain[k][i].state = "Committed", chain[k][i].start <= ckpt.ts
    PROVE  Logged(k, chain[k][i].start, chain[k][i].tomb) /\ chain[k][i] \in Version
<1>1. TypeInv /\ ckpt.ts <= published /\ EntryOf(k, chain[k][i], slot, commits, pc, txn)
  BY Zenon DEF EnvelopeInv, SlotInv, ChainInv, EntryInv
<1>2. chain[k][i] \in Version
  BY <1>1 DEF TypeInv
<1>3. chain[k][i].start \in Nat /\ ckpt.ts \in Nat /\ published \in Nat
  BY <1>1, <1>2, BoundAssumption DEF TypeInv, CkptType, Version, Times, Values
<1>4. chain[k][i].start <= published
  BY <1>1, <1>3
<1>5. \E c \in commits : c.key = k /\ c.ts = chain[k][i].start /\ c.tomb = chain[k][i].tomb
  BY <1>1, Zenon DEF EntryOf
<1> QED BY <1>2, <1>4, <1>5, Zenon DEF Logged

\* The checkpoint's admission gate, its plan and its ends.
LEMMA CkptStepKeeps ==
    ASSUME EnvelopeInv, OldestRequiredTs \in 0 .. TsMax,
           CloseGate \/ PlanFold \/ CheckpointGivesUp \/ CheckpointFails
    PROVE  EnvelopeInv'
<1> USE DEF storage, publishing, gate, maintenance
<1>0. /\ TypeInv /\ SlotInv /\ ckpt \in CkptType /\ ckpt.ts <= published /\ published \in Values
      /\ closed \in BOOLEAN /\ poisoned \in BOOLEAN /\ checkpoints \in 0 .. MaxCheckpoints
  BY Zenon DEF EnvelopeInv, TypeInv, SlotInv
<1>1. NoCkpt \in CkptType /\ NoCkpt.ts <= published
  BY ONLY <1>0, BoundAssumption DEF CkptType, NoCkpt, Values, TsMax
<1>2. UNCHANGED <<chain, base, history, slot, oracle, published, registry, view, pc, txn, admitted, commits>>
  BY Zenon DEF CloseGate, PlanFold, CheckpointGivesUp, CheckpointFails
<1>3. poisoned' \in BOOLEAN /\ closed' \in BOOLEAN
  BY <1>0, Zenon DEF CloseGate, PlanFold, CheckpointGivesUp, CheckpointFails
<1>4. checkpoints' \in 0 .. MaxCheckpoints
  BY <1>0, BoundAssumption DEF CloseGate, PlanFold, CheckpointGivesUp, CheckpointFails
<1>5. ckpt' \in CkptType /\ ckpt'.ts <= published
  <2>1. CASE CloseGate
    <3>1. ckpt' = [ckpt EXCEPT !.pc = "draining"]
      BY <2>1, Zenon DEF CloseGate
    <3> QED BY ONLY <3>1, <1>0, Zenon DEF CkptType
  <2>2. CASE PlanFold
    <3> DEFINE todo == {k \in Keys : \E i \in DOMAIN chain[k] :
                            /\ chain[k][i].state = "Committed"
                            /\ chain[k][i].start <= published}
    <3>1. ckpt' = [pc |-> "spill", ts |-> published, ort |-> OldestRequiredTs, todo |-> todo]
      BY <2>2, Zenon DEF PlanFold
    <3>2. todo \in SUBSET Keys /\ published <= published
      BY <1>0, BoundAssumption DEF Values
    <3> HIDE DEF todo
    <3> QED BY ONLY <3>1, <3>2, <1>0, OldestRequiredTs \in 0 .. TsMax, Zenon DEF CkptType
  <2>3. CASE CheckpointGivesUp \/ CheckpointFails
    BY <1>1, <2>3, Zenon DEF CheckpointGivesUp, CheckpointFails
  <2> QED BY <2>1, <2>2, <2>3, Zenon
<1>6. TypeInv'
  BY <1>0, <1>2, <1>3, <1>4, <1>5, ZenonT(60) DEF TypeInv
<1>7. Outside
  <2>1. \A p \in Procs : view[p] <= published
    BY <1>0, Zenon DEF SlotInv
  <2> QED BY ONLY <2>1, <1>2, <1>5, Zenon DEF Outside
<1> QED BY <1>6, <1>7, OutsideKeeps, Zenon

\* The spill: what it copies to the history store was committed at or below the
\* frontier.
LEMMA SpillKeeps ==
    ASSUME EnvelopeInv, SpillHistory
    PROVE  EnvelopeInv'
<1> DEFINE spilled == UNION {SpillOf(k, ckpt.ts, ckpt.ort) : k \in ckpt.todo}
<1>0. /\ history \in SUBSET Row /\ base \in [Keys -> Values] /\ chain \in [Keys -> Seq(Version)]
      /\ ckpt \in CkptType /\ ckpt.ts <= published /\ closed \in BOOLEAN /\ StoreInv /\ ChainInv
  BY Zenon DEF EnvelopeInv, TypeInv, SlotInv
<1>1. /\ history' = history \cup spilled
      /\ ckpt' = [ckpt EXCEPT !.pc = "install"]
      /\ UNCHANGED <<chain, base, slot, oracle, published, poisoned, registry, view, pc, txn, closed,
                     admitted, checkpoints, commits>>
  BY Zenon DEF SpillHistory, publishing, gate
<1>2. ASSUME NEW r \in spilled PROVE r \in Row /\ Logged(r.key, r.start, r.tomb)
  <2>1. PICK k \in ckpt.todo : r \in SpillOf(k, ckpt.ts, ckpt.ort)
    BY Zenon
  <2>2. PICK i \in DOMAIN chain[k] :
          /\ chain[k][i].state = "Committed" /\ chain[k][i].start <= ckpt.ts
          /\ r = [key |-> k, start |-> chain[k][i].start, stop |-> chain[k][i].stop, tomb |-> chain[k][i].tomb]
    BY <2>1, Zenon DEF SpillOf
  <2>3. k \in Keys
    BY <1>0, Zenon DEF CkptType
  <2>4. Logged(k, chain[k][i].start, chain[k][i].tomb) /\ chain[k][i] \in Version
    BY <2>2, <2>3, BoundaryLogged, Zenon
  <2> QED BY ONLY <2>2, <2>3, <2>4, Zenon DEF Row, Version
<1> HIDE DEF spilled
<1>3. StoreInv'
  <2>1. \A r \in history' : Logged(r.key, r.start, r.tomb)
    BY <1>0, <1>1, <1>2, Zenon DEF StoreInv
  <2>2. \A k \in Keys : base[k] # 0 => Logged(k, base[k], FALSE)
    BY <1>0, Zenon DEF StoreInv
  <2> QED BY ONLY <1>1, <2>1, <2>2, ZenonT(60) DEF StoreInv, Logged
<1>4. ChainInv'
  BY ONLY <1>0, <1>1, ZenonT(60) DEF ChainInv, EntryInv
<1>5. ckpt' \in CkptType /\ ckpt'.ts <= published
  BY ONLY <1>0, <1>1, Zenon DEF CkptType
<1>6. history' \in SUBSET Row
  BY <1>0, <1>1, <1>2, Zenon
<1> QED BY <1>0, <1>1, <1>3, <1>4, <1>5, <1>6, StoreStepKeeps, Zenon DEF publishing

\* The end of a checkpoint that succeeds: history rows are dropped, none added.
LEMMA ReopenKeeps ==
    ASSUME EnvelopeInv, GcAndReopen
    PROVE  EnvelopeInv'
<1>0. /\ history \in SUBSET Row /\ base \in [Keys -> Values] /\ chain \in [Keys -> Seq(Version)]
      /\ StoreInv /\ ChainInv /\ published \in Values
  BY Zenon DEF EnvelopeInv, TypeInv
<1>1. /\ \A r \in history' : r \in history
      /\ ckpt' = NoCkpt /\ closed' = FALSE
      /\ UNCHANGED <<chain, base, slot, oracle, published, poisoned, registry, view, pc, txn, admitted,
                     checkpoints, commits>>
  BY Zenon DEF GcAndReopen, publishing
<1>2. NoCkpt \in CkptType /\ NoCkpt.ts <= published
  BY ONLY <1>0, <1>1, BoundAssumption DEF CkptType, NoCkpt, Values, TsMax
<1>3. StoreInv'
  BY ONLY <1>0, <1>1, ZenonT(60) DEF StoreInv, Logged
<1>4. ChainInv'
  BY ONLY <1>0, <1>1, ZenonT(60) DEF ChainInv, EntryInv
<1> QED BY <1>0, <1>1, <1>2, <1>3, <1>4, StoreStepKeeps, Zenon DEF publishing

\* One leaf's fold: the base cell takes a value that was committed at or below
\* the frontier, and the chain keeps versions it had.
LEMMA FoldKeeps ==
    ASSUME EnvelopeInv, NEW k \in Keys, InstallFold(k),
           PartOf(Retained(chain[k], ckpt.ts), chain[k]), NEW n, n = Winner(chain[k], ckpt.ts),
           n # 0 => /\ n \in DOMAIN chain[k]
                    /\ chain[k][n].state = "Committed" /\ chain[k][n].start <= ckpt.ts
    PROVE  EnvelopeInv'
<1> DEFINE folded == FoldedBase(k, ckpt.ts)
<1>0. /\ history \in SUBSET Row /\ base \in [Keys -> Values]
      /\ ckpt \in CkptType /\ ckpt.ts <= published /\ closed \in BOOLEAN /\ StoreInv
  BY Zenon DEF EnvelopeInv, TypeInv, SlotInv
<1>1. /\ base' = [base EXCEPT ![k] = folded]
      /\ chain' = [chain EXCEPT ![k] = Retained(chain[k], ckpt.ts)]
      /\ ckpt' = [ckpt EXCEPT !.todo = ckpt.todo \ {k}]
      /\ UNCHANGED <<history, slot, oracle, published, poisoned, registry, view, pc, txn, closed,
                     admitted, checkpoints, commits>>
  BY Zenon DEF InstallFold, publishing, gate
<1>2. chain' \in [Keys -> Seq(Version)] /\ ChainInv'
  BY <1>1, KeptChain, Zenon
<1>3. folded \in Values /\ (folded # 0 => Logged(k, folded, FALSE))
  <2>1. CASE n = 0
    <3>1. folded = base[k]
      BY <2>1, Zenon DEF FoldedBase
    <3> QED BY <3>1, <1>0, Zenon DEF StoreInv
  <2>2. CASE n # 0
    <3>1. Logged(k, chain[k][n].start, chain[k][n].tomb) /\ chain[k][n] \in Version
      BY <2>2, BoundaryLogged, Zenon
    <3>2. folded = ValueOf(chain[k][n])
      BY <2>2, Zenon DEF FoldedBase
    <3>3. chain[k][n].start \in Values /\ chain[k][n].tomb \in BOOLEAN /\ 0 \in Values
      BY ONLY <3>1, BoundAssumption DEF Version, Times, Values
    <3> QED BY ONLY <3>1, <3>2, <3>3, Zenon DEF ValueOf
  <2> QED BY <2>1, <2>2, Zenon
<1> HIDE DEF folded
<1>4. base' \in [Keys -> Values] /\ \A q \in Keys : base'[q] # 0 => Logged(q, base'[q], FALSE)
  BY <1>0, <1>1, <1>3, Zenon DEF StoreInv
<1>5. StoreInv'
  <2>1. \A r \in history : Logged(r.key, r.start, r.tomb)
    BY <1>0, Zenon DEF StoreInv
  <2> QED BY ONLY <1>1, <1>4, <2>1 DEF StoreInv, Logged
<1>6. ckpt' \in CkptType /\ ckpt'.ts <= published
  <2>1. ckpt.todo \ {k} \in SUBSET Keys
    BY <1>0, Zenon DEF CkptType
  <2> QED BY ONLY <1>0, <1>1, <2>1, Zenon DEF CkptType
<1> QED BY <1>0, <1>1, <1>2, <1>4, <1>5, <1>6, StoreStepKeeps, Zenon DEF publishing

\* Eviction takes versions away and adds none.
LEMMA EvictKeeps ==
    ASSUME EnvelopeInv, NEW k \in Keys, SampleOrt(k) \/ Evict(k),
           PartOf(Needed(chain[k], victim.ort), chain[k])
    PROVE  EnvelopeInv'
<1> USE DEF storage, publishing, gate
<1>0. /\ TypeInv /\ SlotInv /\ OwnerInv /\ ChainInv /\ StoreInv
      /\ chain \in [Keys -> Seq(Version)] /\ base \in [Keys -> Values] /\ history \in SUBSET Row
      /\ closed \in BOOLEAN
  BY Zenon DEF EnvelopeInv, TypeInv
<1>1. UNCHANGED <<base, history, slot, oracle, published, poisoned, registry, view, pc, txn, closed,
                  admitted, ckpt, checkpoints, commits>>
  BY Zenon DEF SampleOrt, Evict
<1>2. StoreInv'
  BY <1>0, <1>1, Zenon DEF StoreInv, Logged
<1>3. chain' \in [Keys -> Seq(Version)] /\ ChainInv'
  <2>1. CASE chain' = chain
    BY <1>0, <1>1, <2>1, ZenonT(60) DEF ChainInv, EntryInv
  <2>2. CASE chain' # chain
    <3>1. Evict(k)
      BY <2>2, Zenon DEF SampleOrt
    <3>2. chain' = [chain EXCEPT ![k] = IF LiveHead(chain[k]) # 0 THEN chain[k]
                                        ELSE Needed(chain[k], victim.ort)]
      BY <3>1, Zenon DEF Evict
    <3>3. chain' = [chain EXCEPT ![k] = Needed(chain[k], victim.ort)]
      BY <1>0, <2>2, <3>2, Zenon
    <3> QED BY <1>1, <3>3, KeptChain, Zenon
  <2> QED BY <2>1, <2>2, Zenon
<1> QED BY <1>0, <1>1, <1>2, <1>3, StoreStepKeeps, Zenon DEF TypeInv, SlotInv

-----------------------------------------------------------------------------
(* What the steps do to the logged and the pending versions. *)

\* The install pushes versions whose slots the frontier has not passed.
LEMMA InstallStays ==
    ASSUME EnvelopeInv, FoldInv, NEW w \in Writers, pc[w] = "registered",
           NEW ks \in SUBSET txn[w].keys, NEW label \in {"installed", "cleanup"},
           label = "installed" => ks = txn[w].keys,
           \A k \in ks : Pushed(chain[k], chain'[k], txn[w].ts, txn[w].op = "delete"),
           InstallOn(w, ks), txn' = [txn EXCEPT ![w].todo = ks], Goto(w, label)
    PROVE  Stays
<1>1. /\ TypeInv /\ SlotInv /\ OwnerInv /\ txn \in [Writers -> Txn] /\ pc \in [Procs -> Labels]
      /\ w \in Procs /\ chain \in [Keys -> Seq(Version)] /\ ks \in SUBSET Keys /\ txn[w].ts \in Times
      /\ slot[txn[w].ts] = "Pending"
  BY Zenon DEF EnvelopeInv, TypeInv, OwnerInv, Owning, Procs, Txn
<1>2. /\ \A v \in Writers : txn'[v].keys = txn[v].keys /\ txn'[v].ts = txn[v].ts
      /\ pc'[w] = label /\ \A v \in Writers : v # w => pc'[v] = pc[v]
  BY <1>1, ZenonT(60) DEF Txn, Goto, Procs
<1>3. \A k \in Keys : k \notin ks => chain'[k] = chain[k]
  BY <1>1, Zenon DEF InstallOn
<1>4. ASSUME NEW k \in Keys, NEW i \in DOMAIN chain[k]
      PROVE  \E j \in DOMAIN chain'[k] : /\ chain'[k][j].start = chain[k][i].start
                                         /\ chain'[k][j].state = chain[k][i].state
                                         /\ chain'[k][j].tomb = chain[k][i].tomb
  <2>1. CASE k \in ks
    <3> DEFINE d == chain'[k]
    <3>1. Pushed(chain[k], d, txn[w].ts, txn[w].op = "delete") /\ chain[k] \in Seq(Version)
      BY <1>1, <2>1, Zenon
    <3> HIDE DEF d
    <3>2. /\ d \in Seq(Version) /\ Len(d) = Len(chain[k]) + 1
          /\ d[i + 1].start = chain[k][i].start
          /\ d[i + 1].state = chain[k][i].state /\ d[i + 1].tomb = chain[k][i].tomb
      BY <3>1, Zenon DEF Pushed
    <3>3. i + 1 \in DOMAIN d
      BY <3>1, <3>2
    <3> QED BY <3>2, <3>3, Zenon DEF d
  <2>2. CASE k \notin ks
    BY <1>3, <2>2, Zenon
  <2> QED BY <2>1, <2>2, Zenon
<1>5. ASSUME NEW c \in commits, Stands(c) PROVE Stands(c)'
  <2>1. c.key \in Keys
    BY <1>1, Zenon DEF TypeInv, CommitRow
  <2>2. PICK i \in DOMAIN chain[c.key] : /\ chain[c.key][i].state # "Aborted"
                                         /\ chain[c.key][i].start = c.ts /\ chain[c.key][i].tomb = c.tomb
    BY <1>5, Zenon DEF Stands, Standing
  <2>3. PICK j \in DOMAIN chain'[c.key] :
          /\ chain'[c.key][j].start = chain[c.key][i].start
          /\ chain'[c.key][j].state = chain[c.key][i].state
          /\ chain'[c.key][j].tomb = chain[c.key][i].tomb
    BY <1>4, <2>1, Zenon
  <2> QED BY <2>2, <2>3, Zenon DEF Stands, Standing
<1>6. ASSUME NEW k \in Keys, NEW i \in Standing(chain'[k])
      PROVE  \/ published < chain'[k][i].start
             \/ \E j \in Standing(chain[k]) : chain[k][j].start = chain'[k][i].start
  <2>1. CASE k \in ks
    <3> DEFINE d == chain'[k]
               c == chain[k]
    <3>1. /\ Pushed(c, d, txn[w].ts, txn[w].op = "delete") /\ c \in Seq(Version)
          /\ i \in DOMAIN d /\ d[i].state # "Aborted"
      BY <1>1, <2>1, Zenon DEF Standing
    <3>2. published < txn[w].ts
      <4>1. ~(txn[w].ts <= published) /\ published \in Values
        BY <1>1, Zenon DEF SlotInv, TypeInv
      <4> QED BY <1>1, <4>1, BoundAssumption DEF Values, Times
    <3> HIDE DEF c, d
    <3>3. /\ d \in Seq(Version) /\ Len(d) = Len(c) + 1
          /\ d[1] = [start |-> txn[w].ts, stop |-> TsMax, state |-> "Pending", tomb |-> txn[w].op = "delete"]
      BY <3>1, Zenon DEF Pushed
    <3>4. d[1].start = txn[w].ts
      BY <3>3
    <3>5. i = 1 \/ (i - 1 \in DOMAIN c /\ i = (i - 1) + 1)
      BY <3>1, <3>3
    <3>6. CASE i = 1
      BY <3>2, <3>4, <3>6, Zenon DEF d
    <3>7. ASSUME NEW j \in DOMAIN c, i = j + 1 PROVE j \in Standing(c) /\ c[j].start = d[i].start
      <4>1. d[i].start = c[j].start /\ d[i].state = c[j].state
        BY <3>1, <3>7, Zenon DEF Pushed
      <4> QED BY <3>1, <4>1, Zenon DEF Standing
    <3> QED BY <3>5, <3>6, <3>7, Zenon DEF c, d
  <2>2. CASE k \notin ks
    BY <1>3, <2>2, Zenon
  <2> QED BY <2>1, <2>2, Zenon
<1>7. ASSUME NEW v \in Writers, pc'[v] = "installed" PROVE HoldsPending(v)'
  <2> SUFFICES ASSUME NEW k \in txn[v].keys
               PROVE  \E i \in DOMAIN chain'[k] : /\ chain'[k][i].start = txn[v].ts
                                                  /\ chain'[k][i].state = "Pending"
    BY <1>2 DEF HoldsPending
  <2>0. k \in Keys
    BY <1>1, Zenon DEF Txn
  <2>1. CASE v # w
    <3>1. HoldsPending(v)
      BY <1>2, <1>7, <2>1, Zenon DEF FoldInv
    <3> QED BY <1>4, <2>0, <3>1, ZenonT(60) DEF HoldsPending
  <2>2. CASE v = w
    <3> DEFINE d == chain'[k]
    <3>1. Pushed(chain[k], d, txn[w].ts, txn[w].op = "delete") /\ chain[k] \in Seq(Version)
      BY <1>1, <1>2, <1>7, <2>0, <2>2, Zenon
    <3> HIDE DEF d
    <3>2. /\ d \in Seq(Version) /\ Len(d) = Len(chain[k]) + 1
          /\ d[1] = [start |-> txn[w].ts, stop |-> TsMax, state |-> "Pending", tomb |-> txn[w].op = "delete"]
      BY <3>1, Zenon DEF Pushed
    <3>3. 1 \in DOMAIN d
      BY <3>1, <3>2
    <3>4. d[1].start = txn[w].ts /\ d[1].state = "Pending"
      BY <3>2
    <3> QED BY <2>2, <3>3, <3>4, Zenon DEF d
  <2> QED BY <2>1, <2>2, Zenon
<1> QED BY <1>5, <1>6, <1>7, Zenon DEF Stays

\* The flip of one page voids no logged version and no other pending one.
LEMMA FlipStays ==
    ASSUME EnvelopeInv, FoldInv, NEW w \in Writers, NEW k \in Keys,
           NEW state \in {"Committed", "Aborted"}, NEW label \in {"durable", "cleanup"},
           state = "Aborted" => label = "cleanup",
           Flip(w, k, label, state), Flipped(chain[k], chain'[k], txn[w].ts, state)
    PROVE  Stays
<1>1. /\ TypeInv /\ OwnerInv /\ txn \in [Writers -> Txn] /\ chain \in [Keys -> Seq(Version)]
      /\ pc[w] = label /\ pc[w] \in Owning
  BY Zenon DEF EnvelopeInv, TypeInv, Flip, Owning
<1>2. /\ chain' = [chain EXCEPT ![k] = FlipPending(chain[k], txn[w].ts, state)]
      /\ txn' = [txn EXCEPT ![w].todo = @ \ {k}] /\ pc' = pc
  BY Zenon DEF Flip
<1>3. \A v \in Writers : txn'[v].keys = txn[v].keys /\ txn'[v].ts = txn[v].ts
  BY <1>1, <1>2, Zenon DEF Txn
<1>4. \A x \in Keys : x # k => chain'[x] = chain[x]
  BY <1>1, <1>2, Zenon
<1>5. /\ DOMAIN chain'[k] = DOMAIN chain[k]
      /\ \A i \in DOMAIN chain[k] :
           /\ chain'[k][i].start = chain[k][i].start
           /\ chain'[k][i].tomb = chain[k][i].tomb
           /\ chain[k][i].start # txn[w].ts => chain'[k][i].state = chain[k][i].state
           /\ chain'[k][i].state \in {state, chain[k][i].state}
           /\ chain[k][i].state = "Aborted" => chain'[k][i].state = "Aborted"
  BY ZenonT(60) DEF Flipped
<1>6. ASSUME NEW c \in commits, Stands(c) PROVE Stands(c)'
  <2>1. PICK i \in DOMAIN chain[c.key] : /\ chain[c.key][i].state # "Aborted"
                                         /\ chain[c.key][i].start = c.ts /\ chain[c.key][i].tomb = c.tomb
    BY <1>6, Zenon DEF Stands, Standing
  <2>2. c.key \in Keys
    BY <1>1, Zenon DEF TypeInv, CommitRow
  <2>3. CASE c.key # k
    BY <1>4, <2>1, <2>2, <2>3, ZenonT(60) DEF Stands, Standing
  <2>4. CASE c.key = k
    <3>1. state = "Aborted" => c.ts # txn[w].ts
      BY <1>1, Zenon DEF OwnerInv
    <3>2. i \in DOMAIN chain[k] /\ chain[k][i].start = c.ts /\ chain[k][i].state # "Aborted"
      BY <2>1, <2>4, Zenon
    <3>3. chain'[k][i].state # "Aborted"
      BY <1>5, <3>1, <3>2, Zenon
    <3> QED BY <1>5, <2>1, <2>4, <3>2, <3>3, ZenonT(60) DEF Stands, Standing
  <2> QED BY <2>3, <2>4, ZenonT(60)
<1>7. ASSUME NEW x \in Keys, NEW i \in Standing(chain'[x])
      PROVE  \E j \in Standing(chain[x]) : chain[x][j].start = chain'[x][i].start
  BY <1>4, <1>5, <1>7, ZenonT(60) DEF Standing
<1>8. ASSUME NEW v \in Writers, pc'[v] = "installed" PROVE HoldsPending(v)'
  <2> SUFFICES ASSUME NEW x \in txn[v].keys
               PROVE  \E i \in DOMAIN chain'[x] : /\ chain'[x][i].start = txn[v].ts
                                                  /\ chain'[x][i].state = "Pending"
    BY <1>3, Zenon DEF HoldsPending
  <2>1. pc[v] = "installed" /\ "installed" \in Owning /\ x \in Keys
    BY <1>1, <1>2, <1>8, Zenon DEF Owning, Txn
  <2>2. txn[v].ts # txn[w].ts
    BY <1>1, <2>1, Zenon DEF OwnerInv
  <2>3. PICK i \in DOMAIN chain[x] : chain[x][i].start = txn[v].ts /\ chain[x][i].state = "Pending"
    BY <2>1, Zenon DEF FoldInv, HoldsPending
  <2>4. CASE x = k
    <3>1. /\ i \in DOMAIN chain'[k] /\ chain'[k][i].start = txn[v].ts
          /\ chain'[k][i].state = "Pending"
      BY <1>5, <2>2, <2>3, <2>4, Zenon
    <3> QED BY <2>4, <3>1, Zenon
  <2>5. CASE x # k
    BY <1>4, <2>1, <2>3, <2>5, Zenon
  <2> QED BY <2>4, <2>5, Zenon
<1> QED BY <1>6, <1>7, <1>8, Zenon DEF Stays

\* An eviction prunes only a chain no version of which stands.
LEMMA EvictStays ==
    ASSUME EnvelopeInv, FoldInv, NEW k \in Keys, Evict(k), HeadFirst(chain[k]),
           PartOf(Needed(chain[k], victim.ort), chain[k])
    PROVE  Stays
<1>1. chain \in [Keys -> Seq(Version)] /\ UNCHANGED <<pc, txn>> /\ txn \in [Writers -> Txn]
  BY Zenon DEF EnvelopeInv, TypeInv, Evict
<1>2. /\ \A x \in Keys : x # k => chain'[x] = chain[x]
      /\ chain'[k] = IF LiveHead(chain[k]) # 0 THEN chain[k] ELSE Needed(chain[k], victim.ort)
  BY <1>1, Zenon DEF Evict
<1>3. \A x \in Keys : \/ chain'[x] = chain[x]
                      \/ Standing(chain[x]) = {} /\ PartOf(chain'[x], chain[x])
  BY <1>2, Zenon DEF HeadFirst
<1>4. ASSUME NEW x \in Keys, NEW i \in Standing(chain'[x])
      PROVE  \E j \in Standing(chain[x]) : chain[x][j].start = chain'[x][i].start
  <2>1. CASE chain'[x] = chain[x]
    BY <2>1, <1>4, Zenon
  <2>2. CASE PartOf(chain'[x], chain[x])
    <3>1. i \in DOMAIN chain'[x] /\ chain'[x][i].state # "Aborted"
      BY <1>4, Zenon DEF Standing
    <3>2. PICK h \in [DOMAIN chain'[x] -> DOMAIN chain[x]] :
            \A n \in DOMAIN chain'[x] : chain'[x][n] = chain[x][h[n]]
      BY <2>2, Zenon DEF PartOf
    <3>3. h[i] \in DOMAIN chain[x] /\ chain'[x][i] = chain[x][h[i]]
      BY <3>1, <3>2, Zenon
    <3> QED BY <3>1, <3>3, Zenon DEF Standing
  <2> QED BY <1>3, <2>1, <2>2, Zenon
<1>5. ASSUME NEW c \in commits, Stands(c) PROVE Stands(c)'
  <2>1. c.key \in Keys
    BY Zenon DEF EnvelopeInv, TypeInv, CommitRow
  <2>2. chain'[c.key] = chain[c.key]
    BY <1>3, <1>5, <2>1, Zenon DEF Stands
  <2> QED BY <1>5, <2>2, Zenon DEF Stands, Standing
<1>6. ASSUME NEW v \in Writers, pc'[v] = "installed" PROVE HoldsPending(v)'
  <2> SUFFICES ASSUME NEW x \in txn[v].keys
               PROVE  \E i \in DOMAIN chain'[x] : /\ chain'[x][i].start = txn[v].ts
                                                  /\ chain'[x][i].state = "Pending"
    BY <1>1, Zenon DEF HoldsPending
  <2>1. PICK i \in DOMAIN chain[x] : chain[x][i].start = txn[v].ts /\ chain[x][i].state = "Pending"
    BY <1>1, <1>6, Zenon DEF FoldInv, HoldsPending
  <2>2. i \in Standing(chain[x]) /\ x \in Keys
    BY <1>1, <2>1, Zenon DEF Standing, Txn
  <2>3. chain'[x] = chain[x]
    BY <1>3, <2>2, Zenon
  <2> QED BY <2>1, <2>3, Zenon
<1> QED BY <1>4, <1>5, <1>6, Zenon DEF Stays

-----------------------------------------------------------------------------
(* The steps that preserve FoldInv. *)

\* A write that left its chain does not come back.
LEMMA FoldStays ==
    ASSUME EnvelopeInv, FoldInv, Stays, UNCHANGED <<base, commits>>, history' \in SUBSET history,
           published' \in Values, published <= published', chain' \in [Keys -> Seq(Version)]
    PROVE  FoldInv'
<1>1. /\ commits \in SUBSET CommitRow /\ history \in SUBSET Row /\ published \in Values
      /\ \A k \in Keys : BaseOf(k)
  BY Zenon DEF EnvelopeInv, TypeInv, FoldInv
<1>2. ASSUME NEW c \in commits, ~Stands(c)
      PROVE  /\ c.ts <= published'
             /\ \A i \in Standing(chain'[c.key]) : c.ts < chain'[c.key][i].start
             /\ ~Stands(c)'
  <2>1. c.ts <= published /\ \A i \in Standing(chain[c.key]) : c.ts < chain[c.key][i].start
    BY <1>2, Zenon DEF FoldInv
  <2>2. c.key \in Keys /\ c.ts \in Times
    BY <1>1, Zenon DEF CommitRow
  <2>3. /\ ~(c.ts < c.ts) /\ c.ts <= published'
        /\ \A t \in Times : published < t => c.ts < t
    BY <1>1, <2>1, <2>2, BoundAssumption DEF Times, Values
  <2>4. \A i \in Standing(chain'[c.key]) : chain'[c.key][i].start \in Times
    <3>1. chain'[c.key] \in Seq(Version)
      BY <2>2, Zenon
    <3>2. \A i \in Standing(chain'[c.key]) : chain'[c.key][i] \in Version
      BY <3>1 DEF Standing
    <3> QED BY <3>2, Zenon DEF Version
  <2>5. \A i \in Standing(chain'[c.key]) : c.ts < chain'[c.key][i].start
    BY <2>1, <2>2, <2>3, <2>4, Zenon DEF Stays
  <2> QED BY <2>3, <2>5, Zenon DEF Stands, Standing
<1>3. \A c \in commits : Stands(c)' <=> Stands(c)
  BY <1>2, Zenon DEF Stays
<1>4. \A r \in history : r.stop <= published'
  <2>1. \A r \in history : r.stop \in Nat /\ r.stop <= published
    BY <1>1, BoundAssumption DEF Row, Times, TsMax, FoldInv
  <2> QED BY <1>1, <2>1, BoundAssumption DEF Values
<1>5. ASSUME NEW k \in Keys PROVE BaseOf(k)'
  BY <1>1, <1>3, Zenon DEF BaseOf
<1>6. \A c \in commits :
        Stands(c)' \/ (c.ts <= published' /\ \A i \in Standing(chain'[c.key]) : c.ts < chain'[c.key][i].start)
  BY <1>2, <1>3, Zenon
<1> QED BY <1>4, <1>5, <1>6, Zenon DEF FoldInv, Stays, Standing

\* A step of p that leaves the storage alone and installs nothing.
LEMMA FoldQuiet ==
    ASSUME EnvelopeInv, FoldInv, UNCHANGED <<chain, base, commits>>, history' \in SUBSET history,
           published' \in Values, published <= published',
           \A v \in Writers : pc'[v] = "installed" =>
               pc[v] = "installed" /\ txn'[v].keys = txn[v].keys /\ txn'[v].ts = txn[v].ts
    PROVE  FoldInv'
<1>1. \A c \in commits : Stands(c) => Stands(c)'
  BY Zenon DEF Stands, Standing
<1>2. ASSUME NEW v \in Writers, pc'[v] = "installed" PROVE HoldsPending(v)'
  <2>1. HoldsPending(v) /\ txn'[v].keys = txn[v].keys /\ txn'[v].ts = txn[v].ts
    BY <1>2, Zenon DEF FoldInv
  <2> QED BY <2>1 DEF HoldsPending
<1>3. Stays
  BY <1>1, <1>2, Zenon DEF Stays
<1>4. chain' \in [Keys -> Seq(Version)]
  BY Zenon DEF EnvelopeInv, TypeInv
<1> QED BY <1>3, <1>4, FoldStays, Zenon

\* A pending version is the newest of its chain, so that nobody else has one
\* there and every logged write of the key is older.
LEMMA PendingIsNewest ==
    ASSUME EnvelopeInv, LinkInv, FoldInv, NEW w \in Writers, pc[w] = "installed",
           NEW k \in txn[w].keys
    PROVE  /\ k \in Keys
           /\ \E i \in Standing(chain[k]) : /\ chain[k][i].start = txn[w].ts
                                            /\ chain[k][i].tomb = (txn[w].op = "delete")
           /\ \A c \in commits : c.key = k => c.ts < txn[w].ts
           /\ \A v \in Writers : pc[v] = "installed" /\ k \in txn[v].keys => v = w
<1>1. /\ TypeInv /\ OwnerInv /\ ChainInv /\ k \in Keys /\ chain[k] \in Seq(Version)
      /\ "installed" \in Owning /\ SortedChain(chain[k])
  BY Zenon DEF EnvelopeInv, TypeInv, Txn, Owning, LinkInv, GoodChain
<1>2. PICK i \in DOMAIN chain[k] : chain[k][i].start = txn[w].ts /\ chain[k][i].state = "Pending"
  BY Zenon DEF FoldInv, HoldsPending
<1>3. i \in Standing(chain[k]) /\ chain[k][i].tomb = (txn[w].op = "delete")
  <2>1. EntryOf(k, chain[k][i], slot, commits, pc, txn)
    BY <1>1, Zenon DEF ChainInv, EntryInv
  <2> QED BY <1>1, <1>2, <2>1, Zenon DEF EntryOf, Standing
<1>4. \A j \in Standing(chain[k]) : j = i \/ i < j \/ j < i
  BY <1>1, <1>3 DEF Standing
<1>5. \A j \in Standing(chain[k]) : j < i => FALSE
  BY <1>1, <1>2, <1>3, Zenon DEF SortedChain
<1>6. ASSUME NEW c \in commits, c.key = k PROVE c.ts < txn[w].ts
  <2>1. CASE Stands(c)
    <3>1. PICK j \in Standing(chain[k]) : chain[k][j].start = c.ts
      BY <1>6, <2>1, Zenon DEF Stands
    <3>2. c.ts # txn[w].ts
      BY <1>1, ZenonT(60) DEF OwnerInv
    <3>3. i < j
      BY <1>2, <1>4, <1>5, <3>1, <3>2, Zenon
    <3> QED BY <1>1, <1>2, <1>3, <3>1, <3>3, Zenon DEF SortedChain
  <2>2. CASE ~Stands(c)
    BY <1>2, <1>3, <1>6, <2>2, Zenon DEF FoldInv
  <2> QED BY <2>1, <2>2, Zenon
<1>7. ASSUME NEW v \in Writers, pc[v] = "installed", k \in txn[v].keys PROVE v = w
  <2>1. PICK j \in DOMAIN chain[k] : chain[k][j].start = txn[v].ts /\ chain[k][j].state = "Pending"
    BY <1>7, Zenon DEF FoldInv, HoldsPending
  <2>2. j \in Standing(chain[k])
    BY <2>1, Zenon DEF Standing
  <2>3. ~(i < j)
    BY <1>1, <1>3, <2>1, <2>2, Zenon DEF SortedChain
  <2>4. j = i
    BY <1>4, <1>5, <2>2, <2>3, Zenon
  <2>5. txn[v].ts = txn[w].ts
    BY <1>2, <2>1, <2>4, Zenon
  <2> QED BY <1>1, <1>7, <2>5, ZenonT(60) DEF OwnerInv
<1> QED BY <1>1, <1>2, <1>3, <1>6, <1>7, ZenonT(60)

\* What is appended to the log stands in its chain.
LEMMA AppendFolds ==
    ASSUME EnvelopeInv, LinkInv, FoldInv, NEW w \in Writers, AppendToLog(w)
    PROVE  FoldInv'
<1> DEFINE new == {[key |-> k, ts |-> txn[w].ts, tomb |-> txn[w].op = "delete",
                    over |-> txn[w].read[k]] : k \in txn[w].keys}
<1>1. pc \in [Procs -> Labels] /\ w \in Procs /\ pc[w] = "installed"
  BY Zenon DEF AppendToLog, EnvelopeInv, TypeInv, Procs
<1>2. /\ commits' = commits \cup new /\ pc' = [pc EXCEPT ![w] = "durable"]
      /\ UNCHANGED <<chain, base, history, txn, published>>
  BY Zenon DEF AppendToLog, Goto, storage, publishing
<1>3. \A c \in new : /\ c.key \in txn[w].keys /\ c.ts = txn[w].ts
                     /\ c.tomb = (txn[w].op = "delete")
  OBVIOUS
<1> HIDE DEF new
<1>4. \A c : Stands(c)' <=> Stands(c)
  BY <1>2, Zenon DEF Stands, Standing
<1>5. \A c \in new : Stands(c)
  <2> SUFFICES ASSUME NEW c \in new PROVE Stands(c)
    BY Zenon
  <2>1. \E i \in Standing(chain[c.key]) : /\ chain[c.key][i].start = txn[w].ts
                                          /\ chain[c.key][i].tomb = (txn[w].op = "delete")
    BY <1>1, <1>3, PendingIsNewest, Zenon
  <2> QED BY <1>3, <2>1, Zenon DEF Stands
<1>6. ASSUME NEW k \in Keys PROVE BaseOf(k)'
  <2>1. BaseOf(k)
    BY Zenon DEF FoldInv
  <2> QED BY <1>2, <1>4, <1>5, <2>1, Zenon DEF BaseOf
<1>7. \A c \in commits' :
        Stands(c)' \/ (c.ts <= published' /\ \A i \in Standing(chain'[c.key]) : c.ts < chain'[c.key][i].start)
  BY <1>2, <1>4, <1>5, Zenon DEF FoldInv
<1>8. \A v \in Writers : pc'[v] = "installed" => HoldsPending(v)'
  <2>1. \A v \in Writers : pc'[v] = "installed" => pc[v] = "installed"
    BY <1>1, <1>2, Zenon DEF Procs
  <2> QED BY <1>2, <2>1, Zenon DEF FoldInv, HoldsPending
<1> QED BY <1>2, <1>6, <1>7, <1>8, Zenon DEF FoldInv, Standing

\* The spill adds rows that stop at or below the frontier.
LEMMA SpillFolds ==
    ASSUME EnvelopeInv, FoldInv, SpillHistory,
           \A k \in Keys : \A r \in SpillOf(k, ckpt.ts, ckpt.ort) : r.stop <= published
    PROVE  FoldInv'
<1>1. /\ history' = history \cup UNION {SpillOf(k, ckpt.ts, ckpt.ort) : k \in ckpt.todo}
      /\ UNCHANGED <<chain, base, published, pc, txn, commits>>
  BY Zenon DEF SpillHistory, publishing
<1>2. ckpt.todo \in SUBSET Keys
  BY Zenon DEF EnvelopeInv, TypeInv, CkptType
<1>3. \A r \in history' : r.stop <= published
  BY <1>1, <1>2, Zenon DEF FoldInv
<1>4. \A c : Stands(c)' <=> Stands(c)
  BY <1>1, Zenon DEF Stands, Standing
<1>5. \A k \in Keys : BaseOf(k)'
  BY <1>1, <1>4, ZenonT(60) DEF BaseOf, FoldInv
<1>6. \A w \in Writers : pc'[w] = "installed" => HoldsPending(w)'
  BY <1>1, Zenon DEF HoldsPending, FoldInv
<1>7. \A c \in commits :
        Stands(c)' \/ (c.ts <= published /\ \A i \in Standing(chain'[c.key]) : c.ts < chain'[c.key][i].start)
  BY <1>1, <1>4, Zenon DEF FoldInv
<1> QED BY <1>1, <1>3, <1>5, <1>6, <1>7, Zenon DEF FoldInv, Standing

\* The versions of c that the fold leaves resident.
Resident(c, ts) == {i \in DOMAIN c : \/ c[i].state = "Committed" /\ c[i].start > ts
                                     \/ c[i].state = "Pending"}

\* What the fold takes out of a chain is published and older than what it
\* leaves there.
LEMMA FoldedIsOld ==
    ASSUME EnvelopeInv, NEW k \in Keys, NEW i \in Standing(chain[k]), i \notin Resident(chain[k], ckpt.ts)
    PROVE  /\ chain[k][i].state = "Committed" /\ chain[k][i].start <= ckpt.ts
           /\ chain[k][i].start <= published
           /\ \A j \in Resident(chain[k], ckpt.ts) : chain[k][i].start < chain[k][j].start
<1> DEFINE c == chain[k]
<1>1. /\ c \in Seq(Version) /\ ckpt.ts \in Values /\ published \in Values /\ ckpt.ts <= published
      /\ \A t \in Times : t <= published => slot[t] \in {"Ready", "Aborted"}
      /\ \A j \in DOMAIN c : EntryOf(k, c[j], slot, commits, pc, txn)
  BY Zenon DEF EnvelopeInv, TypeInv, SlotInv, CkptType, ChainInv, EntryInv
<1>2. \A j \in DOMAIN c : c[j] \in Version /\ c[j].start \in Times
  <2> HIDE DEF c
  <2>1. \A j \in DOMAIN c : c[j] \in Version
    BY <1>1
  <2> QED BY <2>1, Zenon DEF Version
<1>3. i \in DOMAIN c /\ c[i].state = "Committed" /\ ~(c[i].start > ckpt.ts)
  BY <1>2, Zenon DEF Standing, Resident, Version
<1>4. c[i].start \in Nat /\ c[i].start <= ckpt.ts /\ c[i].start <= published /\ published \in Nat /\ ckpt.ts \in Nat
  <2>1. c[i].start \in Times
    BY <1>2, <1>3, Zenon
  <2> HIDE DEF c
  <2> QED BY <1>1, <1>3, <2>1, BoundAssumption DEF Times, Values
<1>5. ASSUME NEW j \in Resident(c, ckpt.ts) PROVE c[i].start < c[j].start
  <2>1. j \in DOMAIN c /\ c[j].start \in Times
    BY <1>2, Zenon DEF Resident
  <2>2. c[j].start > ckpt.ts \/ ~(c[j].start <= published)
    <3>1. c[j].state = "Pending" => slot[c[j].start] = "Pending"
      BY <1>1, <2>1, Zenon DEF EntryOf
    <3>2. c[j].state = "Pending" => ~(c[j].start <= published)
      BY <1>1, <2>1, <3>1, Zenon
    <3> QED BY <3>2, Zenon DEF Resident
  <2> HIDE DEF c
  <2> QED BY <1>4, <2>1, <2>2, BoundAssumption DEF Times
<1> QED BY <1>3, <1>4, <1>5, Zenon

\* One leaf's fold: what leaves the chain is older than what stays, and the
\* base cell takes the newest of it.
LEMMA FoldFolds ==
    ASSUME EnvelopeInv, FoldInv, NEW k \in Keys, InstallFold(k),
           Kept(Retained(chain[k], ckpt.ts), chain[k], Resident(chain[k], ckpt.ts)),
           NEW n, n = Winner(chain[k], ckpt.ts),
           n = 0 => \A i \in DOMAIN chain[k] : ~(chain[k][i].state = "Committed" /\ chain[k][i].start <= ckpt.ts),
           n # 0 => /\ n \in DOMAIN chain[k]
                    /\ chain[k][n].state = "Committed" /\ chain[k][n].start <= ckpt.ts
                    /\ \A j \in DOMAIN chain[k] : chain[k][j].state = "Committed" /\ chain[k][j].start <= ckpt.ts
                                                     => chain[k][j].start <= chain[k][n].start
    PROVE  FoldInv'
<1> DEFINE c == chain[k]
           d == Retained(chain[k], ckpt.ts)
           I == Resident(chain[k], ckpt.ts)
<1>1. /\ base' = [base EXCEPT ![k] = FoldedBase(k, ckpt.ts)] /\ chain' = [chain EXCEPT ![k] = d]
      /\ UNCHANGED <<history, published, pc, txn, commits>>
  BY Zenon DEF InstallFold, publishing
<1>2. /\ chain \in [Keys -> Seq(Version)] /\ base \in [Keys -> Values] /\ c \in Seq(Version)
      /\ commits \in SUBSET CommitRow /\ \A q \in commits : q.key \in Keys
  BY Zenon DEF EnvelopeInv, TypeInv, CommitRow
<1>3. /\ chain'[k] = d /\ base'[k] = FoldedBase(k, ckpt.ts)
      /\ \A q \in Keys : q # k => chain'[q] = chain[q] /\ base'[q] = base[q]
  BY <1>1, <1>2, Zenon
<1>4. PICK h \in [DOMAIN d -> I] :
         /\ \A m \in DOMAIN d : d[m] = c[h[m]]
         /\ \A i \in I : \E m \in DOMAIN d : h[m] = i
  BY Zenon DEF Kept
<1>5. /\ \A m \in Standing(d) : h[m] \in I /\ d[m] = c[h[m]]
      /\ \A i \in I : \E m \in Standing(d) : d[m] = c[i]
      /\ I \in SUBSET Standing(c)
  <2>1. I \in SUBSET Standing(c)
    BY Zenon DEF Resident, Standing
  <2>2. \A m \in DOMAIN d : m \in Standing(d) /\ h[m] \in I
    <3> HIDE DEF c, d, I
    <3>1. \A m \in DOMAIN d : h[m] \in I
      BY <1>4, Zenon
    <3>2. \A m \in DOMAIN d : c[h[m]].state # "Aborted"
      BY <2>1, <3>1, Zenon DEF Standing
    <3>3. \A m \in DOMAIN d : d[m].state # "Aborted"
      BY <1>4, <3>2, Zenon
    <3> QED BY <3>1, <3>3, Zenon DEF Standing
  <2>3. \A m \in Standing(d) : m \in DOMAIN d
    BY Zenon DEF Standing
  <2> HIDE DEF c, d, I
  <2>4. \A i \in I : \E m \in DOMAIN d : d[m] = c[i]
    BY <1>4
  <2> QED BY <1>4, <2>1, <2>2, <2>3, <2>4, Zenon
<1>6. \A i \in Standing(c) : i \notin I =>
        /\ c[i].state = "Committed" /\ c[i].start <= ckpt.ts /\ c[i].start <= published
        /\ \A j \in I : c[i].start < c[j].start
  BY FoldedIsOld, ZenonT(60)
<1>7. FoldedBase(k, ckpt.ts) = IF n = 0 THEN base[k] ELSE ValueOf(c[n])
  BY Zenon DEF FoldedBase
<1> HIDE DEF d, I
<1>8. ASSUME NEW e \in commits, e.key # k PROVE Stands(e)' <=> Stands(e)
  BY <1>2, <1>3, <1>8, ZenonT(60) DEF Stands, Standing
<1>9. ASSUME NEW e \in commits, e.key = k
      PROVE  Stands(e)' <=> \E i \in I : c[i].start = e.ts /\ c[i].tomb = e.tomb
  <2>1. Stands(e)' <=> \E m \in Standing(d) : d[m].start = e.ts /\ d[m].tomb = e.tomb
    BY <1>3, <1>9, Zenon DEF Stands, Standing
  <2>2. ASSUME NEW m \in Standing(d), d[m].start = e.ts, d[m].tomb = e.tomb
        PROVE  \E i \in I : c[i].start = e.ts /\ c[i].tomb = e.tomb
    <3>1. h[m] \in I /\ c[h[m]].start = e.ts /\ c[h[m]].tomb = e.tomb
      <4> HIDE DEF c
      <4> QED BY <1>5, <2>2, Zenon
    <3> QED BY <3>1, Zenon
  <2>3. ASSUME NEW i \in I, c[i].start = e.ts, c[i].tomb = e.tomb
        PROVE  \E m \in Standing(d) : d[m].start = e.ts /\ d[m].tomb = e.tomb
    <3>1. PICK m \in Standing(d) : d[m] = c[i]
      BY <1>5, Zenon
    <3> HIDE DEF c
    <3> QED BY <2>3, <3>1, Zenon
  <2> QED BY <2>1, <2>2, <2>3, Zenon
<1>10. ASSUME NEW e \in commits, e.key = k, ~Stands(e)'
       PROVE  /\ e.ts <= published /\ \A j \in I : e.ts < c[j].start
              /\ n # 0 => e.ts <= c[n].start
              /\ n = 0 => ~Stands(e)
  <2>1. CASE Stands(e)
    <3>1. PICK i \in Standing(c) : c[i].start = e.ts /\ c[i].tomb = e.tomb
      BY <1>10, <2>1, Zenon DEF Stands
    <3>2. i \notin I /\ i \in DOMAIN c
      BY <1>9, <1>10, <3>1, Zenon DEF Standing
    <3> QED BY <1>6, <3>1, <3>2, Zenon
  <2>2. CASE ~Stands(e)
    <3>1. e.ts <= published /\ \A j \in Standing(c) : e.ts < c[j].start
      BY <1>10, <2>2, Zenon DEF FoldInv
    <3>2. n # 0 => e.ts < c[n].start
      BY <3>1, Zenon DEF Standing
    <3>3. n # 0 => c[n].start \in Times
      <4>1. n # 0 => c[n] \in Version
        BY <1>2
      <4> QED BY <4>1, Zenon DEF Version
    <3>4. e.ts \in Times
      BY <1>2, ZenonT(60) DEF CommitRow
    <3>5. n # 0 => e.ts <= c[n].start
      <4> HIDE DEF c
      <4> QED BY <3>2, <3>3, <3>4, BoundAssumption DEF Times
    <3> QED BY <1>5, <2>2, <3>1, <3>5, Zenon
  <2> QED BY <2>1, <2>2, Zenon
<1>11. \A e \in commits :
         Stands(e)' \/ (e.ts <= published' /\ \A i \in Standing(chain'[e.key]) : e.ts < chain'[e.key][i].start)
  <2> SUFFICES ASSUME NEW e \in commits, ~Stands(e)'
               PROVE  e.ts <= published' /\ \A i \in Standing(chain'[e.key]) : e.ts < chain'[e.key][i].start
    BY Zenon
  <2>1. CASE e.key = k
    <3>1. e.ts <= published /\ \A i \in Standing(d) : e.ts < d[i].start
      BY <1>5, <1>10, <2>1, Zenon
    <3> QED BY <1>1, <1>3, <2>1, <3>1, Zenon
  <2>2. CASE e.key # k
    <3>1. e.ts <= published /\ \A i \in Standing(chain[e.key]) : e.ts < chain[e.key][i].start
      BY <1>8, <2>2, Zenon DEF FoldInv
    <3>2. chain'[e.key] = chain[e.key]
      BY <1>2, <1>3, <2>2, Zenon
    <3> QED BY <1>1, <3>1, <3>2, Zenon
  <2> QED BY <2>1, <2>2, Zenon
<1>12. ASSUME NEW q \in Keys PROVE BaseOf(q)'
  <2>1. CASE q # k
    <3>1. BaseOf(q) /\ base'[q] = base[q] /\ commits' = commits
      BY <1>1, <1>3, <2>1, Zenon DEF FoldInv
    <3> QED BY <1>8, <2>1, <3>1, Zenon DEF BaseOf
  <2>2. CASE q = k /\ n = 0
    <3>1. BaseOf(k) /\ base'[k] = base[k] /\ commits' = commits
      BY <1>1, <1>3, <1>7, <2>2, Zenon DEF FoldInv
    <3>2. \A e \in commits : e.key = k => (Stands(e)' <=> Stands(e))
      <4>1. ASSUME NEW e \in commits, e.key = k, Stands(e)' PROVE Stands(e)
        <5>1. PICK i \in I : c[i].start = e.ts /\ c[i].tomb = e.tomb
          BY <1>9, <4>1, Zenon
        <5>2. i \in Standing(chain[e.key]) /\ chain[e.key] = c
          BY <1>5, <4>1, Zenon
        <5> QED BY <5>1, <5>2, Zenon DEF Stands
      <4> QED BY <1>10, <2>2, <4>1, Zenon
    <3> QED BY <2>2, <3>1, <3>2, Zenon DEF BaseOf
  <2>3. CASE q = k /\ n # 0
    <3>1. PICK e \in commits : e.key = k /\ e.ts = c[n].start /\ e.tomb = c[n].tomb
      <4>1. n \in DOMAIN c /\ c[n].state = "Committed"
        BY <2>3, Zenon
      <4>2. EntryOf(k, c[n], slot, commits, pc, txn)
        BY <4>1, Zenon DEF EnvelopeInv, ChainInv, EntryInv
      <4> HIDE DEF c
      <4> QED BY <4>1, <4>2, Zenon DEF EntryOf
    <3>2. ~Stands(e)'
      <4> SUFFICES ASSUME NEW i \in I, c[i].start = e.ts PROVE FALSE
        BY <1>9, <3>1, Zenon
      <4>1. i \in DOMAIN c /\ n \in DOMAIN c /\ c[i].start = c[n].start
        BY <1>5, <2>3, <3>1, Zenon DEF Standing
      <4>2. i = n
        BY <4>1, Zenon DEF EnvelopeInv, ChainInv
      <4>3. c[n].start \in Times /\ ckpt.ts \in Values
        <5>1. c[n] \in Version
          BY <1>2, <4>1
        <5> QED BY <5>1, ZenonT(60) DEF Version, EnvelopeInv, TypeInv, CkptType
      <4>4. ~(c[n].start > ckpt.ts)
        <5> HIDE DEF c
        <5>1. c[n].start <= ckpt.ts
          BY <2>3, Zenon DEF c
        <5> QED BY <4>3, <5>1, BoundAssumption DEF Times, Values
      <4> QED BY <2>3, <4>2, <4>4, Zenon DEF I, Resident
    <3>3. \A f \in commits : f.key = k /\ ~Stands(f)' => f.ts <= e.ts
      BY <1>10, <2>3, <3>1, Zenon
    <3>4. base'[k] = IF e.tomb THEN 0 ELSE e.ts
      BY <1>3, <1>7, <2>3, <3>1, Zenon DEF ValueOf
    <3> QED BY <1>1, <2>3, <3>1, <3>2, <3>3, <3>4, ZenonT(60) DEF BaseOf
  <2> QED BY <2>1, <2>2, <2>3, Zenon
<1>13. ASSUME NEW w \in Writers, pc'[w] = "installed" PROVE HoldsPending(w)'
  <2>1. HoldsPending(w) /\ txn' = txn /\ txn[w].keys \in SUBSET Keys
    BY <1>1, <1>13, ZenonT(60) DEF FoldInv, EnvelopeInv, TypeInv, Txn
  <2>2. ASSUME NEW q \in txn[w].keys
        PROVE  \E i \in DOMAIN chain'[q] : chain'[q][i].start = txn[w].ts /\ chain'[q][i].state = "Pending"
    <3>1. PICK i \in DOMAIN chain[q] : chain[q][i].start = txn[w].ts /\ chain[q][i].state = "Pending"
      BY <2>1, Zenon DEF HoldsPending
    <3>2. CASE q = k
      <4>1. i \in I
        BY <3>1, <3>2, Zenon DEF I, Resident
      <4>2. PICK m \in Standing(d) : d[m] = c[i]
        BY <1>5, <4>1, Zenon
      <4>3. m \in DOMAIN d
        BY <4>2, Zenon DEF Standing
      <4> QED BY <1>3, <3>1, <3>2, <4>2, <4>3, ZenonT(60)
    <3>3. CASE q # k
      <4>1. chain'[q] = chain[q]
        BY <1>3, <2>1, <3>3, ZenonT(60)
      <4> QED BY <3>1, <4>1, Zenon
    <3> QED BY <3>2, <3>3, Zenon
  <2> QED BY <2>1, <2>2, Zenon DEF HoldsPending
<1> QED BY <1>1, <1>11, <1>12, <1>13, Zenon DEF FoldInv, Standing

-----------------------------------------------------------------------------
(* The steps that preserve LogInv. *)

\* v goes on with what it read, has read anew, or has installed its versions
\* over what it read.
Carries(v) ==
    /\ txn'[v].keys = txn[v].keys /\ txn'[v].read = txn[v].read
    /\ txn'[v].expected = txn[v].expected
    /\ pc'[v] \in Preparing => pc[v] \in Preparing
    /\ pc'[v] = "installed" => pc[v] = "installed" /\ txn'[v].ts = txn[v].ts

Rereads(v) ==
    /\ pc'[v] # "installed"
    /\ \A k \in Keys :
          /\ txn'[v].read[k] # 0 => \E c \in commits : c.key = k /\ c.ts = txn'[v].read[k]
          /\ k \notin txn'[v].keys => txn'[v].read[k] = 0
          /\ pc'[v] \in Preparing => txn'[v].expected[k] = txn'[v].read[k]

Installs(v) ==
    /\ pc'[v] \notin Preparing
    /\ txn'[v].keys = txn[v].keys /\ txn'[v].read = txn[v].read /\ txn'[v].ts = txn[v].ts
    /\ pc'[v] = "installed" =>
         \A k \in txn[v].keys : Newest(commits, k, txn[v].ts - 1, txn[v].read[k])

\* A step that does not write the log.
LEMMA LogStep ==
    ASSUME LogInv, UNCHANGED <<history, checkpoints, ckpt, commits>>,
           \A c \in commits : Stands(c) => Stands(c)',
           \A v \in Writers : Carries(v) \/ Rereads(v) \/ Installs(v)
    PROVE  LogInv'
<1>1. ASSUME NEW v \in Writers, NEW k \in Keys
      PROVE  /\ txn'[v].read[k] # 0 => \E c \in commits : c.key = k /\ c.ts = txn'[v].read[k]
             /\ k \notin txn'[v].keys => txn'[v].read[k] = 0
             /\ pc'[v] \in Preparing => txn'[v].expected[k] = txn'[v].read[k]
             /\ pc'[v] = "installed" /\ k \in txn'[v].keys =>
                   Newest(commits, k, txn'[v].ts - 1, txn'[v].read[k])
  <2>1. CASE Carries(v)
    BY <2>1 DEF LogInv, ReadInv, Carries
  <2>2. CASE Rereads(v)
    BY <2>2, ZenonT(60) DEF Rereads
  <2>3. CASE Installs(v)
    BY <2>3 DEF LogInv, ReadInv, Installs
  <2> QED BY <2>1, <2>2, <2>3, Zenon
<1>2. ReadInv'
  BY <1>1 DEF ReadInv
<1> QED BY <1>2, ZenonT(60) DEF LogInv, Newest

\* A step that writes neither the log nor a chain.
LEMMA LogQuiet ==
    ASSUME LogInv, UNCHANGED <<chain, history, checkpoints, ckpt, commits>>,
           \A v \in Writers : Carries(v) \/ Rereads(v)
    PROVE  LogInv'
<1>1. \A c \in commits : Stands(c) => Stands(c)'
  BY Zenon DEF Stands, Standing
<1> QED BY <1>1, LogStep, Zenon

\* The operation returns.
LEMMA LogLeave ==
    ASSUME EnvelopeInv, LogInv, NEW w \in Writers, Leave(w),
           UNCHANGED <<chain, history, checkpoints, ckpt, commits>>
    PROVE  LogInv'
<1>1. /\ txn' = [txn EXCEPT ![w] = NoTxn] /\ pc' = [pc EXCEPT ![w] = "idle"]
      /\ txn \in [Writers -> Txn] /\ pc \in [Procs -> Labels] /\ w \in Procs
  BY Zenon DEF Leave, Goto, EnvelopeInv, TypeInv, Procs
<1>2. \A k \in Keys : NoTxn.read[k] = 0 /\ NoTxn.expected[k] = 0
  BY Zenon DEF NoTxn, NoHead
<1>3. Rereads(w)
  BY <1>1, <1>2, Zenon DEF Rereads, Preparing
<1>4. \A v \in Writers : v # w => Carries(v)
  BY <1>1, Zenon DEF Carries, Procs
<1> QED BY <1>3, <1>4, LogQuiet, ZenonT(60)

\* A process moves on and keeps what it read.
LEMMA LogGoto ==
    ASSUME EnvelopeInv, LogInv, NEW p \in Procs, NEW label, Goto(p, label), label # "installed",
           label \in Preparing => pc[p] \in Preparing,
           UNCHANGED <<chain, history, checkpoints, ckpt, commits, txn>>
    PROVE  LogInv'
<1>1. pc' = [pc EXCEPT ![p] = label] /\ pc \in [Procs -> Labels]
  BY Zenon DEF Goto, EnvelopeInv, TypeInv
<1>2. \A v \in Writers : Carries(v)
  BY <1>1, Zenon DEF Carries, Procs
<1> QED BY <1>2, LogQuiet, ZenonT(60)

\* Choosing the documents: what is read is logged, and a document that was
\* read has a live head.
LEMMA LogSelect ==
    ASSUME EnvelopeInv, LogInv, NEW w \in Writers, Select(w),
           \A k \in Keys : HeadFirst(chain[k]),
           \A k \in Keys : Read(k, view[w]) # 0 =>
               \E c \in commits : c.key = k /\ c.ts = Read(k, view[w])
    PROVE  LogInv'
<1> USE DEF storage, maintenance
<1>0. txn \in [Writers -> Txn] /\ pc \in [Procs -> Labels] /\ w \in Procs
  BY Zenon DEF EnvelopeInv, TypeInv, Procs
<1>1. ASSUME NEW op \in Ops, NEW ks \in SUBSET Keys, SelectDocs(w, op, ks) PROVE LogInv'
  <2>1. /\ txn' = [txn EXCEPT ![w] = [NoTxn EXCEPT !.op = op, !.keys = ks,
                    !.read = [k \in Keys |-> IF k \in ks THEN Read(k, view[w]) ELSE 0]]]
        /\ Goto(w, "selected") /\ UNCHANGED <<chain, history, checkpoints, ckpt, commits>>
    BY <1>1, Zenon DEF SelectDocs
  <2>2. /\ txn'[w].keys = ks
        /\ \A k \in Keys : txn'[w].read[k] = IF k \in ks THEN Read(k, view[w]) ELSE 0
    BY <1>0, <2>1, Zenon DEF NoTxn
  <2>3. /\ pc'[w] = "selected"
        /\ \A v \in Writers : v # w => txn'[v] = txn[v] /\ pc'[v] = pc[v]
    BY <1>0, <2>1, Zenon DEF Goto, Procs
  <2>4. Rereads(w)
    BY <2>2, <2>3 DEF Rereads, Preparing
  <2>5. \A v \in Writers : v # w => Carries(v)
    BY <2>3, Zenon DEF Carries
  <2> QED BY <2>1, <2>4, <2>5, LogQuiet, ZenonT(60)
<1>2. CASE SelectNothing(w)
  BY <1>2, LogLeave, Zenon DEF SelectNothing
<1>3. CASE AttachExpectedHeads(w)
  <2>1. /\ txn' = [txn EXCEPT ![w].expected =
                    [k \in Keys |-> IF k \in txn[w].keys /\ LiveHead(chain[k]) # 0
                                    THEN txn[w].read[k] ELSE NoHead]]
        /\ Goto(w, "begin") /\ UNCHANGED <<chain, history, checkpoints, ckpt, commits>>
    BY <1>3, Zenon DEF AttachExpectedHeads
  <2>2. /\ txn'[w].keys = txn[w].keys /\ txn'[w].read = txn[w].read
        /\ \A k \in Keys : txn'[w].expected[k] = IF k \in txn[w].keys /\ LiveHead(chain[k]) # 0
                                                 THEN txn[w].read[k] ELSE 0
    BY <1>0, <2>1, ZenonT(60) DEF NoHead, Txn
  <2>3. /\ pc'[w] = "begin"
        /\ \A v \in Writers : v # w => txn'[v] = txn[v] /\ pc'[v] = pc[v]
    BY <1>0, <2>1, Zenon DEF Goto, Procs
  <2>4. \A k \in Keys : LiveHead(chain[k]) = 0 => txn[w].read[k] = 0
    BY DEF LogInv, ReadInv, HeadFirst, Stands
  <2>5. Rereads(w)
    BY <2>2, <2>3, <2>4 DEF Rereads, LogInv, ReadInv
  <2>6. \A v \in Writers : v # w => Carries(v)
    BY <2>3, Zenon DEF Carries
  <2> QED BY <2>1, <2>5, <2>6, LogQuiet, ZenonT(60)
<1>4. CASE SelectionStale(w)
  BY <1>4, LogLeave, Zenon DEF SelectionStale
<1> QED BY <1>1, <1>2, <1>3, <1>4, ZenonT(60) DEF Select

\* Entering the envelope: an insert has read nothing.
LEMMA LogEnter ==
    ASSUME EnvelopeInv, LogInv, NEW w \in Writers, Enter(w)
    PROVE  LogInv'
<1> USE DEF storage, maintenance
<1>0. txn \in [Writers -> Txn] /\ pc \in [Procs -> Labels] /\ w \in Procs
  BY Zenon DEF EnvelopeInv, TypeInv, Procs
<1>1. ASSUME NEW ks \in SUBSET Keys, BeginInsert(w, ks) PROVE LogInv'
  <2>1. /\ txn' = [txn EXCEPT ![w] = [NoTxn EXCEPT !.op = "insert", !.keys = ks]]
        /\ Goto(w, "begin") /\ UNCHANGED <<chain, history, checkpoints, ckpt, commits>>
    BY <1>1, Zenon DEF BeginInsert
  <2>2. \A k \in Keys : txn'[w].read[k] = 0 /\ txn'[w].expected[k] = 0
    BY <1>0, <2>1, Zenon DEF NoTxn, NoHead
  <2>3. /\ pc'[w] = "begin"
        /\ \A v \in Writers : v # w => txn'[v] = txn[v] /\ pc'[v] = pc[v]
    BY <1>0, <2>1, Zenon DEF Goto, Procs
  <2>4. Rereads(w)
    BY <2>2, <2>3, Zenon DEF Rereads
  <2>5. \A v \in Writers : v # w => Carries(v)
    BY <2>3, Zenon DEF Carries
  <2> QED BY <2>1, <2>4, <2>5, LogQuiet, Zenon
<1>2. CASE Admit(w) \/ LoadVisibility(w) \/ RegisterVisibility(w) \/ StageInsert(w)
  <2>1. /\ pc[w] \in Preparing
        /\ \E label \in Preparing \ {"registered"} : Goto(w, label)
        /\ UNCHANGED <<chain, history, checkpoints, ckpt, commits, txn>>
    BY <1>2, Zenon DEF Admit, LoadVisibility, RegisterVisibility, StageInsert, Preparing
  <2>2. "installed" \notin Preparing
    BY Zenon DEF Preparing
  <2> QED BY <1>0, <2>1, <2>2, LogGoto, Zenon
<1>3. CASE Refused(w) \/ InsertDuplicate(w)
  BY <1>3, LogLeave, Zenon DEF Refused, InsertDuplicate
<1> QED BY <1>1, <1>2, <1>3, ZenonT(60) DEF Enter

\* Registering the slot gives the transaction its timestamp.
LEMMA LogRegister ==
    ASSUME EnvelopeInv, LogInv, NEW w \in Writers, RegisterSlot(w)
    PROVE  LogInv'
<1>0. txn \in [Writers -> Txn] /\ pc \in [Procs -> Labels] /\ w \in Procs
  BY Zenon DEF EnvelopeInv, TypeInv, Procs
<1>1. /\ txn' = [txn EXCEPT ![w].ts = oracle + 1] /\ Goto(w, "registered") /\ pc[w] = "staged"
      /\ UNCHANGED <<chain, history, checkpoints, ckpt, commits>>
  BY Zenon DEF RegisterSlot, storage, maintenance
<1>2. /\ txn'[w].keys = txn[w].keys /\ txn'[w].read = txn[w].read
      /\ txn'[w].expected = txn[w].expected /\ pc'[w] = "registered"
      /\ \A v \in Writers : v # w => txn'[v] = txn[v] /\ pc'[v] = pc[v]
  BY <1>0, <1>1, ZenonT(60) DEF Goto, Txn, Procs
<1>3. \A v \in Writers : Carries(v)
  BY <1>1, <1>2, Zenon DEF Carries, Preparing
<1> QED BY <1>1, <1>3, LogQuiet, ZenonT(60)

\* A log that grows by newer writes of a key leaves its older value alone.
LEMMA NewestGrows ==
    ASSUME NEW log, NEW more, NEW k, NEW ts, NEW v, Newest(log, k, ts, v),
           \A c \in more : c.key = k => ~(c.ts <= ts)
    PROVE  Newest(log \cup more, k, ts, v)
BY Zenon DEF Newest

\* Newest is what Reference computes.
LEMMA NewestIsReference ==
    ASSUME EnvelopeInv, NEW k, NEW ts, NEW v, Newest(commits, k, ts, v)
    PROVE  Reference(k, ts) = v
<1> DEFINE at == {c \in commits : c.key = k /\ c.ts <= ts}
           last == CHOOSE c \in at : \A d \in at : d.ts <= c.ts
<1>1. Reference(k, ts) = IF at = {} \/ last.tomb THEN 0 ELSE last.ts
  BY Zenon DEF Reference
<1>2. CASE v = 0 /\ \A c \in commits : c.key = k => ~(c.ts <= ts)
  BY <1>1, <1>2, Zenon
<1>3. ASSUME NEW c \in commits, c.key = k, c.ts <= ts,
             \A d \in commits : d.key = k /\ d.ts <= ts => d.ts <= c.ts,
             v = IF c.tomb THEN 0 ELSE c.ts
      PROVE  Reference(k, ts) = v
  <2>1. c \in at /\ \A d \in at : d.ts <= c.ts
    BY <1>3, Zenon
  <2>2. last \in at /\ \A d \in at : d.ts <= last.ts
    <3> HIDE DEF at
    <3> QED BY <2>1, Zenon
  <2>3. last \in commits /\ last.key = k
    BY <2>2, Zenon
  <2> HIDE DEF last
  <2>4. c.ts \in Nat /\ last.ts \in Nat
    BY <2>3, BoundAssumption DEF EnvelopeInv, TypeInv, CommitRow, Times
  <2>5. c.ts <= last.ts /\ last.ts <= c.ts
    BY <2>1, <2>2, Zenon
  <2>6. c.ts = last.ts
    BY <2>4, <2>5
  <2>7. c = last
    BY <1>3, <2>3, <2>6, ZenonT(60) DEF EnvelopeInv, OwnerInv
  <2> QED BY <1>1, <1>3, <2>1, <2>7, ZenonT(60)
<1> QED BY <1>2, <1>3, Zenon DEF Newest

\* The install puts the pending version over the one that was read.
LEMMA LogInstall ==
    ASSUME EnvelopeInv, LinkInv, LogInv, Stays, NEW w \in Writers, pc[w] = "registered",
           NEW ks \in SUBSET txn[w].keys, NEW label \in {"installed", "cleanup"},
           label = "installed" => ks = txn[w].keys,
           \A k \in ks : /\ HeadFirst(chain[k]) /\ Proceeds(k, txn[w].expected[k])
                         /\ LiveHead(chain[k]) # 0 => chain[k][LiveHead(chain[k])].start < txn[w].ts,
           txn' = [txn EXCEPT ![w].todo = ks], Goto(w, label),
           UNCHANGED <<history, checkpoints, ckpt, commits>>
    PROVE  LogInv'
<1>1. /\ TypeInv /\ ChainInv /\ txn \in [Writers -> Txn] /\ pc \in [Procs -> Labels] /\ w \in Procs
      /\ chain \in [Keys -> Seq(Version)] /\ ks \in SUBSET Keys /\ txn[w].ts \in Times
  BY Zenon DEF EnvelopeInv, TypeInv, OwnerInv, Owning, Procs, Txn
<1>2. /\ \A v \in Writers : /\ txn'[v].keys = txn[v].keys /\ txn'[v].read = txn[v].read
                             /\ txn'[v].expected = txn[v].expected /\ txn'[v].ts = txn[v].ts
      /\ pc'[w] = label /\ \A v \in Writers : v # w => pc'[v] = pc[v]
  BY <1>1, ZenonT(60) DEF Txn, Goto, Procs
<1>3. ASSUME NEW k \in ks PROVE Newest(commits, k, txn[w].ts - 1, txn[w].read[k])
  <2> DEFINE h == LiveHead(chain[k])
             e == chain[k][h]
             t == txn[w].ts
  <2>0. k \in Keys /\ HeadFirst(chain[k]) /\ chain[k] \in Seq(Version)
    BY <1>1, Zenon
  <2>1. ASSUME NEW c \in commits, c.key = k PROVE h # 0 /\ c.ts <= e.start
    <3>1. PICK i \in Standing(chain[k]) : chain[k][i].start = c.ts
      BY <2>1, Zenon DEF LogInv, Stands
    <3>2. h # 0 /\ h \in Standing(chain[k]) /\ h <= i
      BY <2>0, <3>1, Zenon DEF HeadFirst
    <3>3. i = h \/ h < i
      BY <2>0, <3>2 DEF Standing
    <3>4. c.ts \in Nat
      BY <1>1, BoundAssumption DEF TypeInv, CommitRow, Times
    <3>5. h < i => c.ts < e.start
      BY <2>0, <3>1, <3>2, Zenon DEF LinkInv, GoodChain, SortedChain
    <3>6. e \in Version
      BY <2>0, <3>2 DEF Standing
    <3>7. e.start \in Nat
      BY <3>6, BoundAssumption DEF Version, Times
    <3>8. i = h => c.ts = e.start
      BY <3>1, Zenon
    <3> QED BY ONLY <3>2, <3>3, <3>4, <3>5, <3>7, <3>8
  <2>2. CASE h = 0
    <3>1. \A c \in commits : c.key # k
      BY <2>1, <2>2, Zenon
    <3>2. txn[w].read[k] = 0
      BY <2>0, <3>1, ZenonT(60) DEF LogInv, ReadInv
    <3> QED BY <3>1, <3>2, ZenonT(60) DEF Newest
  <2>3. CASE h # 0
    <3>1. /\ h \in DOMAIN chain[k] /\ e.state = "Committed" /\ e.start < t
          /\ IF txn[w].expected[k] = NoHead THEN e.tomb
             ELSE e.start = txn[w].expected[k] /\ ~e.tomb
      <4>1. Proceeds(k, txn[w].expected[k]) /\ e.start < t
        BY <2>3, Zenon
      <4>2. h \in DOMAIN chain[k]
        BY <2>0, <2>3, Zenon DEF HeadFirst, Standing
      <4> QED BY <2>3, <4>1, <4>2, Zenon DEF Proceeds
    <3>2. EntryOf(k, e, slot, commits, pc, txn)
      BY <1>1, <2>0, <3>1, Zenon DEF ChainInv, EntryInv
    <3>3. PICK c \in commits : c.key = k /\ c.ts = e.start /\ c.tomb = e.tomb
      BY <3>1, <3>2, Zenon DEF EntryOf
    <3>4. txn[w].expected[k] = txn[w].read[k]
      BY <2>0, Zenon DEF LogInv, ReadInv, Preparing
    <3>5. txn[w].read[k] = IF c.tomb THEN 0 ELSE c.ts
      BY <3>1, <3>3, <3>4, ZenonT(60) DEF NoHead
    <3>6. c.ts <= t - 1
      <4>1. c.ts \in Nat /\ t \in Nat
        BY <1>1, BoundAssumption DEF TypeInv, CommitRow, Times
      <4> QED BY <3>1, <3>3, <4>1
    <3>7. \A b \in commits : b.key = k => b.ts <= c.ts
      BY <2>1, <3>3, Zenon
    <3> QED BY <3>3, <3>5, <3>6, <3>7, Zenon DEF Newest
  <2> QED BY <2>2, <2>3, Zenon
<1>4. Installs(w)
  <2>1. label \notin Preparing
    BY Zenon DEF Preparing
  <2> QED BY <1>2, <1>3, <2>1, Zenon DEF Installs
<1>5. \A v \in Writers : v # w => Carries(v)
  BY <1>2, Zenon DEF Carries
<1> QED BY <1>4, <1>5, LogStep, ZenonT(60) DEF Stays

\* The flip of one page.
LEMMA LogFlip ==
    ASSUME EnvelopeInv, LogInv, Stays, NEW w \in Writers, NEW k, NEW label, NEW state,
           Flip(w, k, label, state)
    PROVE  LogInv'
<1>1. /\ txn' = [txn EXCEPT ![w].todo = @ \ {k}] /\ pc' = pc /\ txn \in [Writers -> Txn]
      /\ UNCHANGED <<history, checkpoints, ckpt, commits>>
  BY Zenon DEF Flip, maintenance, EnvelopeInv, TypeInv
<1>2. \A v \in Writers : /\ txn'[v].keys = txn[v].keys /\ txn'[v].read = txn[v].read
                         /\ txn'[v].expected = txn[v].expected /\ txn'[v].ts = txn[v].ts
  BY <1>1 DEF Txn
<1>3. \A v \in Writers : Carries(v)
  BY <1>1, <1>2, Zenon DEF Carries
<1> QED BY <1>1, <1>3, LogStep, Zenon DEF Stays

\* Without checkpoints maintenance is the eviction of frames.
LEMMA LogMaintenance ==
    ASSUME LogInv, Checkpoint \/ \E k \in Evictable : SampleOrt(k) \/ Evict(k),
           \A k \in Keys : Evict(k) => Stays
    PROVE  LogInv'
<1> USE DEF storage
<1>1. ~Checkpoint
  <2>1. ~(checkpoints < MaxCheckpoints) /\ ckpt.pc = "idle"
    BY DEF LogInv
  <2>2. ~CloseGate
    BY <2>1, Zenon DEF CloseGate
  <2>3. ckpt.pc \notin {"draining", "spill", "install"}
    BY <2>1, Zenon
  <2>4. ~(PlanFold \/ SpillHistory \/ GcAndReopen \/ CheckpointGivesUp \/ CheckpointFails)
    BY <2>1, <2>3, Zenon DEF PlanFold, SpillHistory, GcAndReopen, CheckpointGivesUp, CheckpointFails
  <2>5. \A k \in Keys : ~InstallFold(k)
    BY <2>3, Zenon DEF InstallFold
  <2> QED BY <2>2, <2>4, <2>5, Zenon DEF Checkpoint
<1>2. PICK k \in Evictable : SampleOrt(k) \/ Evict(k)
  BY <1>1, Zenon
<1>3. UNCHANGED <<history, checkpoints, ckpt, commits, pc, txn>>
  BY <1>2, Zenon DEF SampleOrt, Evict
<1>4. \A v \in Writers : Carries(v)
  BY <1>3, Zenon DEF Carries
<1>5. CASE Evict(k)
  BY <1>3, <1>4, <1>5, LogStep, PressureAssumption, Zenon DEF Stays
<1>6. CASE SampleOrt(k)
  <2>1. chain' = chain
    BY <1>6, Zenon DEF SampleOrt
  <2> QED BY <1>3, <1>4, <2>1, LogQuiet, Zenon
<1> QED BY <1>2, <1>5, <1>6, Zenon

\* The append: each write is newer than every logged write of its key, and
\* replaces the one that was read.
LEMMA LogAppend ==
    ASSUME EnvelopeInv, LinkInv, FoldInv, LogInv, NEW w \in Writers, AppendToLog(w)
    PROVE  LogInv'
<1> DEFINE t == txn[w].ts
           new == {[key |-> k, ts |-> t, tomb |-> txn[w].op = "delete",
                    over |-> txn[w].read[k]] : k \in txn[w].keys}
<1>1. /\ TypeInv /\ ReadInv /\ pc \in [Procs -> Labels] /\ w \in Procs /\ pc[w] = "installed"
      /\ txn[w].ts \in Times /\ "installed" \in Owning
  BY Zenon DEF AppendToLog, EnvelopeInv, TypeInv, LogInv, Procs, OwnerInv, Owning
<1>2. /\ commits' = commits \cup new /\ pc' = [pc EXCEPT ![w] = "durable"]
      /\ UNCHANGED <<chain, base, history, checkpoints, ckpt, txn>>
  BY Zenon DEF AppendToLog, Goto, storage, maintenance
<1>3. \A c \in new : /\ c.key \in txn[w].keys /\ c.ts = t /\ c.over = txn[w].read[c.key]
                     /\ c.tomb = (txn[w].op = "delete")
  OBVIOUS
<1>4. /\ t \in Nat /\ ~(t <= t - 1)
      /\ \A c \in commits : c.ts \in Nat /\ (c.ts < t => ~(t <= c.ts - 1))
  BY <1>1, BoundAssumption DEF TypeInv, CommitRow, Times
<1> HIDE DEF new, t
<1>5. \A c \in commits \cup new : Stands(c)
  <2>1. \A c \in commits : Stands(c)
    BY Zenon DEF LogInv
  <2>2. ASSUME NEW c \in new PROVE Stands(c)
    <3>1. \E i \in Standing(chain[c.key]) : /\ chain[c.key][i].start = txn[w].ts
                                            /\ chain[c.key][i].tomb = (txn[w].op = "delete")
      BY <1>1, <1>3, PendingIsNewest, Zenon
    <3> QED BY <1>3, <3>1, Zenon DEF t, Stands
  <2> QED BY <2>1, <2>2, Zenon
<1>6. ASSUME NEW c \in commits \cup new PROVE Newest(commits \cup new, c.key, c.ts - 1, c.over)
  <2>1. CASE c \in commits
    <3>1. Newest(commits, c.key, c.ts - 1, c.over)
      BY <2>1, Zenon DEF LogInv
    <3>2. ASSUME NEW d \in new, d.key = c.key PROVE ~(d.ts <= c.ts - 1)
      <4>1. c.ts < t
        BY <1>1, <1>3, <2>1, <3>2, PendingIsNewest, Zenon DEF t
      <4> QED BY <1>3, <1>4, <2>1, <4>1, Zenon
    <3> QED BY <3>1, <3>2, NewestGrows, Zenon
  <2>2. CASE c \in new
    <3>1. /\ c.key \in txn[w].keys /\ c.ts = t /\ c.over = txn[w].read[c.key] /\ c.key \in Keys
      BY <1>1, <1>3, <2>2, PendingIsNewest, Zenon
    <3>2. Newest(commits, c.key, t - 1, c.over)
      BY <1>1, <3>1, Zenon DEF ReadInv, t
    <3>3. \A d \in new : d.key = c.key => ~(d.ts <= t - 1)
      BY <1>3, <1>4, Zenon
    <3>4. Newest(commits \cup new, c.key, t - 1, c.over)
      BY <3>2, <3>3, NewestGrows, Zenon
    <3> QED BY <3>1, <3>4, Zenon
  <2> QED BY <2>1, <2>2, Zenon
<1>7. ASSUME NEW v \in Writers, NEW k \in Keys
      PROVE  /\ txn'[v].read[k] # 0 => \E c \in commits' : c.key = k /\ c.ts = txn'[v].read[k]
             /\ k \notin txn'[v].keys => txn'[v].read[k] = 0
             /\ pc'[v] \in Preparing => txn'[v].expected[k] = txn'[v].read[k]
             /\ pc'[v] = "installed" /\ k \in txn'[v].keys =>
                   Newest(commits', k, txn'[v].ts - 1, txn'[v].read[k])
  <2>1. pc'[v] \in Preparing \cup {"installed"} => v # w /\ pc'[v] = pc[v]
    BY <1>1, <1>2, ZenonT(60) DEF Preparing, Procs
  <2>2. /\ txn[v].read[k] # 0 => \E c \in commits : c.key = k /\ c.ts = txn[v].read[k]
        /\ k \notin txn[v].keys => txn[v].read[k] = 0
        /\ pc[v] \in Preparing => txn[v].expected[k] = txn[v].read[k]
    BY <1>1 DEF ReadInv
  <2>3. ASSUME pc'[v] = "installed", k \in txn[v].keys
        PROVE  Newest(commits', k, txn[v].ts - 1, txn[v].read[k])
    <3>1. v # w /\ pc[v] = "installed"
      BY <2>1, <2>3, Zenon
    <3>2. Newest(commits, k, txn[v].ts - 1, txn[v].read[k])
      BY <1>1, <2>3, <3>1, Zenon DEF ReadInv
    <3>3. k \notin txn[w].keys
      BY <1>1, <2>3, <3>1, PendingIsNewest, Zenon
    <3>4. \A d \in new : d.key # k
      BY <1>3, <3>3, Zenon
    <3>5. Newest(commits \cup new, k, txn[v].ts - 1, txn[v].read[k])
      BY <3>2, <3>4, NewestGrows, Zenon
    <3> QED BY <1>2, <3>5, Zenon
  <2>4. txn' = txn /\ \A c \in commits : c \in commits'
    BY <1>2, Zenon
  <2> QED BY <2>1, <2>2, <2>3, <2>4, Zenon
<1>8. ReadInv'
  BY <1>7, Zenon DEF ReadInv, Newest
<1>9. (\A c \in commits : Stands(c) /\ Newest(commits, c.key, c.ts - 1, c.over))'
  BY <1>2, <1>5, <1>6, ZenonT(60) DEF Newest, Stands, Standing
<1> QED BY <1>2, <1>8, <1>9, ZenonT(60) DEF LogInv
=============================================================================
