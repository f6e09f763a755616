----------------------- MODULE PublishSequencerProofs -----------------------
(***************************************************************************)
(* Proofs about PublishSequencer for every number of writers and readers   *)
(* and every bound.                                                        *)
(*                                                                         *)
(* The window invariant ties the mutex to the advancing writer, keeps the  *)
(* unpublished slots above the window in timestamp order, and says that    *)
(* between the two stores of a publish the front slot is gone.  It gives   *)
(* the order and frontier properties without any fact about slot guards.   *)
(* That mark_ready's Ok means published needs the second invariant: what   *)
(* has become of the slot a guard stands for.                              *)
(***************************************************************************)
EXTENDS PublishSequencer, TLAPS

\* The time the SMT solver may take for a leaf that names no prover.
USE SMTT(60)

Holding == {"advanceReady", "storedReady", "advanceAbort", "storedAbort"}
Stored == {"storedReady", "storedAbort"}
Storing == \E w \in Writers : pc[w] \in Stored

\* The mutex is held across a call to advance_window_locked, and only there.
LockInv == \A w \in Writers : mutex = w <=> pc[w] \in Holding

\* Between the epoch store and the frontier store the front slot has left the
\* map, and it was allocated.
StoringInv == Storing => Front \notin DOMAIN pending /\ Front < next_seq

\* Nothing has been published or allocated beyond the oracle.
OracleInv ==
  /\ last_published < next_seq
  /\ published_frontier <= visible_ts /\ visible_ts <= oracle
  /\ \A s \in DOMAIN pending : pending[s].commit_ts <= oracle

WindowInv == /\ TypeOK /\ LockInv /\ StoringInv /\ OracleInv
             /\ SeqOrderIsTsOrder /\ FrontierPassesTerminal

Live == {"registered", "advanceReady", "storedReady", "waiting"}

\* A live guard's slot is in the map as its writer left it, ...
Owned(w) ==
  /\ guard[w].seq \in DOMAIN pending
  /\ pending[guard[w].seq].commit_ts = guard[w].commit_ts
  /\ pending[guard[w].seq].state =
       IF pc[w] = "registered" THEN "Pending" ELSE "Ready"

\* ... or is being published, or was taken out by a closure that failed, ...
Taken(w) ==
  /\ guard[w].seq = Front /\ Front \notin DOMAIN pending
  /\ Storing => visible_ts = guard[w].commit_ts

\* ... or has been published.
Passed(w) ==
  /\ guard[w].seq <= last_published
  /\ guard[w].commit_ts <= published_frontier

Tracked(w) == /\ guard[w].seq < next_seq
              /\ Owned(w) \/ (pc[w] # "registered" /\ (Taken(w) \/ Passed(w)))

GuardInv ==
  /\ \A w \in Writers : pc[w] \in Live => Tracked(w)
  /\ \A w, u \in Writers : w # u /\ pc[w] \in Live /\ pc[u] \in Live
                               => guard[w].seq # guard[u].seq
  /\ OkMeansPublished

USE SeqAssumption, TsAssumption, WriterAssumption, FailureAssumption

-----------------------------------------------------------------------------
\* The recovered state satisfies the window invariant.
LEMMA WindowInit == Init => WindowInv
<1> SUFFICES ASSUME Init PROVE WindowInv
  BY Zenon
<1>1. DOMAIN pending = {}
  BY Zenon DEF Init
<1>2. pending \in [DOMAIN pending -> [commit_ts : Ts, state : SlotStates]]
  BY <1>1, Zenon DEF Init
<1>3. TypeOK
  <2>1. InitialSeq \in Seq /\ InitialSeq - 1 \in Seq /\ InitialTs \in Ts
    BY DEF Seq, Ts
  <2>2. NoGuard \in [seq : Seq, commit_ts : Ts]
    BY <2>1, Zenon DEF NoGuard
  <2>3. pc \in [Writers -> PcStates] /\ guard \in [Writers -> [seq : Seq, commit_ts : Ts]]
    BY <2>2, Zenon DEF Init, PcStates
  <2>4. epoch \in [Readers -> Ts] /\ rpc \in [Readers -> {"idle", "loaded", "open"}]
    BY <2>1, Zenon DEF Init
  <2>5. /\ next_seq \in Seq /\ last_published \in Seq
        /\ published_frontier \in Ts /\ visible_ts \in Ts /\ oracle \in Ts
        /\ mutex \in Writers \cup {NoThread}
        /\ failures \in 0 .. MaxFailures
    BY <2>1 DEF Init
  <2>6. poisoned \in BOOLEAN /\ waiters \subseteq Writers
    BY Zenon DEF Init
  <2>7. DOMAIN pending \subseteq Seq
    BY <1>1, Zenon
  <2> QED
    BY <1>2, <2>3, <2>4, <2>5, <2>6, <2>7, Zenon DEF TypeOK
<1>4. LockInv /\ StoringInv
  BY Zenon DEF Init, LockInv, StoringInv, Storing, Holding, Stored
<1>5. OracleInv /\ SeqOrderIsTsOrder /\ FrontierPassesTerminal
  BY <1>1 DEF Init, OracleInv, SeqOrderIsTsOrder, FrontierPassesTerminal
<1> QED
  BY <1>3, <1>4, <1>5, Zenon DEF WindowInv

\* Every step keeps the types, given that the front slot of a publish in
\* progress was allocated.
LEMMA TypeNext == ASSUME TypeOK, StoringInv, [Next]_vars PROVE TypeOK'
<1>1. ASSUME NEW w \in Writers, Register(w) PROVE TypeOK'
  <2>1. PICK ts \in oracle + 1 .. MaxTs :
           /\ oracle' = ts
           /\ guard' = [guard EXCEPT ![w] = [seq |-> next_seq, commit_ts |-> ts]]
           /\ pending' = [s \in DOMAIN pending \cup {next_seq} |->
                            IF s = next_seq
                              THEN [commit_ts |-> ts, state |-> "Pending"]
                              ELSE pending[s]]
    BY <1>1, Zenon DEF Register
  <2>2. ts \in Ts /\ next_seq \in Seq /\ next_seq + 1 \in Seq
    BY <1>1, <2>1 DEF Register, TypeOK, Seq, Ts
  <2>3. DOMAIN pending' = DOMAIN pending \cup {next_seq}
    BY <2>1, Zenon
  <2>4. pending' \in [DOMAIN pending' -> [commit_ts : Ts, state : SlotStates]]
    BY <2>1, <2>2, <2>3, Zenon DEF TypeOK, SlotStates
  <2>5. guard' \in [Writers -> [seq : Seq, commit_ts : Ts]]
    BY <2>1, <2>2, Zenon DEF TypeOK
  <2> QED
    BY <1>1, <2>1, <2>2, <2>3, <2>4, <2>5, Zenon
    DEF Register, TypeOK, Locked, Goto, PcStates, pubVars, readerVars
<1>2. ASSUME NEW w \in Writers,
             RegisterFails(w) \/ MarkPoisoned(w) \/ Wake(w) \/ Poison(w)
      PROVE TypeOK'
  BY <1>2, ZenonT(60) DEF RegisterFails, MarkPoisoned, Wake, Poison, TypeOK, At, Goto,
              Locked, Acquire, NotifyAll, PcStates, seqVars, pubVars, readerVars
<1>3. ASSUME NEW w \in Writers, MarkReady(w) \/ MarkAborted(w) PROVE TypeOK'
  <2>1. PICK st \in {"Ready", "Aborted"} :
           pending' = [pending EXCEPT ![guard[w].seq].state = st]
    BY <1>3, Zenon DEF MarkReady, MarkAborted, SetState
  <2>2. DOMAIN pending' = DOMAIN pending
    BY <2>1, Zenon
  <2>3. pending' \in [DOMAIN pending' -> [commit_ts : Ts, state : SlotStates]]
    <3>1. ASSUME NEW s \in DOMAIN pending
          PROVE  pending'[s] \in [commit_ts : Ts, state : SlotStates]
      <4>1. pending[s] \in [commit_ts : Ts, state : SlotStates] /\ st \in SlotStates
        BY Zenon DEF TypeOK, SlotStates
      <4>2. [pending[s] EXCEPT !.state = st] \in [commit_ts : Ts, state : SlotStates]
        BY <4>1
      <4>3. pending'[s] = pending[s] \/ pending'[s] = [pending[s] EXCEPT !.state = st]
        BY <2>1
      <4> QED BY <4>1, <4>2, <4>3, Zenon
    <3>2. pending' = [s \in DOMAIN pending |-> pending'[s]]
      BY <2>1, Zenon
    <3> QED BY <2>2, <3>1, <3>2, Zenon
  <2> QED
    BY <1>3, <2>2, <2>3
    DEF MarkReady, MarkAborted, TypeOK, Acquire, Goto, PcStates, pubVars, readerVars
<1>4. ASSUME NEW w \in Writers, AdvancePoisoned(w) \/ AdvanceStops(w)
      PROVE TypeOK'
  BY <1>4 DEF AdvancePoisoned, AdvanceStops, Fail, TypeOK, Goto, NotifyAll,
              Release, PcStates, seqVars, pubVars, readerVars
<1>5. ASSUME NEW w \in Writers,
             SkipAborted(w) \/ StoreEpoch(w) \/ ClosureFails(w)
      PROVE TypeOK'
  <2>1. /\ Front \in DOMAIN pending
        /\ pending' = Without(pending, Front)
    BY <1>5, Zenon DEF SkipAborted, StoreEpoch, ClosureFails, FrontIs
  <2>2. DOMAIN pending' = DOMAIN pending \ {Front}
    BY <2>1, Zenon DEF Without
  <2>3. pending' \in [DOMAIN pending' -> [commit_ts : Ts, state : SlotStates]]
    BY <2>1, <2>2, Zenon DEF TypeOK, Without
  <2>4. Front \in Seq /\ pending[Front].commit_ts \in Ts
    BY <2>1, Zenon DEF TypeOK
  <2>5. CASE SkipAborted(w)
    BY <2>2, <2>3, <2>4, <2>5, Zenon DEF SkipAborted, TypeOK, pubVars, readerVars
  <2>6. CASE StoreEpoch(w)
    BY <2>2, <2>3, <2>4, <2>6, Zenon DEF StoreEpoch, TypeOK, Goto, PcStates, readerVars
  <2>7. CASE ClosureFails(w)
    BY <2>2, <2>3, <2>4, <2>7
    DEF ClosureFails, Fail, TypeOK, Goto, NotifyAll, Release, PcStates, pubVars,
        readerVars
  <2> QED
    BY <1>5, <2>5, <2>6, <2>7, Zenon
<1>6. ASSUME NEW w \in Writers, StoreFrontier(w) PROVE TypeOK'
  <2>1. Storing
    BY <1>6, Zenon DEF StoreFrontier, Storing, Stored
  <2>2. Front \in Seq
    BY <2>1 DEF StoringInv, TypeOK, Front, Seq
  <2> QED
    BY <1>6, <2>2, Zenon DEF StoreFrontier, TypeOK, Goto, PcStates, readerVars
<1>7. ASSUME NEW w \in Writers, Return(w) PROVE TypeOK'
  <2>1. NoGuard \in [seq : Seq, commit_ts : Ts]
    BY DEF NoGuard, Seq, Ts
  <2> QED
    BY <1>7, <2>1, Zenon DEF Return, TypeOK, Goto, PcStates, seqVars, pubVars, readerVars
<1>8. ASSUME NEW r \in Readers, Read(r) PROVE TypeOK'
  BY <1>8 DEF Read, LoadEpoch, CheckFrontier, CloseView, TypeOK, seqVars, pubVars
<1>9. CASE UNCHANGED vars
  BY <1>9, Zenon DEF vars, TypeOK, seqVars, pubVars, readerVars
<1> QED
  BY <1>1, <1>2, <1>3, <1>4, <1>5, <1>6, <1>7, <1>8, <1>9, Zenon
  DEF Next, Begin, Finish, Advance

-----------------------------------------------------------------------------
\* The mutex is taken where an advance begins and released where it ends.
LEMMA LockNext == ASSUME TypeOK, LockInv, [Next]_vars PROVE LockInv'
<1> USE DEF TypeOK, LockInv, Holding, Goto
<1>1. ASSUME NEW w \in Writers,
             Register(w) \/ RegisterFails(w) \/ MarkPoisoned(w) \/ Poison(w)
      PROVE LockInv'
  BY <1>1 DEF Register, RegisterFails, MarkPoisoned, Poison, At, Locked
<1>2. ASSUME NEW w \in Writers, MarkReady(w) \/ MarkAborted(w) \/ Wake(w)
      PROVE LockInv'
  BY <1>2 DEF MarkReady, MarkAborted, Wake, At, Acquire
<1>3. ASSUME NEW w \in Writers,
             AdvancePoisoned(w) \/ ClosureFails(w) \/ AdvanceStops(w)
      PROVE LockInv'
  BY <1>3 DEF AdvancePoisoned, ClosureFails, AdvanceStops, Advancing, Fail, Release
<1>4. ASSUME NEW w \in Writers,
             SkipAborted(w) \/ StoreEpoch(w) \/ StoreFrontier(w)
      PROVE LockInv'
  BY <1>4 DEF SkipAborted, StoreEpoch, StoreFrontier, Advancing
<1>5. ASSUME NEW w \in Writers, Return(w) PROVE LockInv'
  BY <1>5, Zenon DEF Return
<1>6. ASSUME NEW r \in Readers, Read(r) PROVE LockInv'
  BY <1>6, Zenon DEF Read, LoadEpoch, CheckFrontier, CloseView
<1>7. CASE UNCHANGED vars
  BY <1>7, Zenon DEF vars
<1> QED
  BY <1>1, <1>2, <1>3, <1>4, <1>5, <1>6, <1>7, Zenon DEF Next, Begin, Finish, Advance

\* At most one publish is between its two stores: its owner holds the mutex.
LEMMA OneStoring ==
  ASSUME LockInv, NEW w \in Writers, mutex = w, pc[w] \notin Stored
  PROVE ~Storing
BY Zenon DEF LockInv, Storing, Stored, Holding

\* A step that leaves the slots' timestamps, the window and the two stored
\* timestamps alone, and starts no publish, keeps the window invariant.
LEMMA WindowQuiet ==
  ASSUME WindowInv, TypeOK', LockInv',
         UNCHANGED <<next_seq, last_published, pubVars, oracle>>,
         DOMAIN pending' = DOMAIN pending,
         \A s \in DOMAIN pending : pending'[s].commit_ts = pending[s].commit_ts,
         Storing' => Storing
  PROVE WindowInv'
BY DEF WindowInv, StoringInv, OracleInv, SeqOrderIsTsOrder,
       FrontierPassesTerminal, Front, pubVars

\* Register allocates a slot above the window with the newest timestamp.
LEMMA WindowRegister ==
  ASSUME WindowInv, TypeOK', LockInv', NEW w \in Writers, Register(w)
  PROVE WindowInv'
<1>1. PICK ts \in oracle + 1 .. MaxTs :
         /\ oracle' = ts
         /\ pending' = [s \in DOMAIN pending \cup {next_seq} |->
                          IF s = next_seq
                            THEN [commit_ts |-> ts, state |-> "Pending"]
                            ELSE pending[s]]
  BY Zenon DEF Register
<1>2. /\ next_seq' = next_seq + 1
      /\ UNCHANGED <<last_published, published_frontier, visible_ts>>
  BY Zenon DEF Register, pubVars
<1>3. DOMAIN pending' = DOMAIN pending \cup {next_seq}
  BY <1>1, Zenon
<1>4. /\ pending'[next_seq].commit_ts = ts
      /\ \A s \in DOMAIN pending : s # next_seq /\ pending'[s] = pending[s]
  BY <1>1 DEF WindowInv, TypeOK, SeqOrderIsTsOrder, Seq
<1>5. ts > oracle /\ ts \in Int /\ oracle \in Int /\ next_seq \in Int
      /\ last_published \in Int /\ visible_ts \in Int /\ published_frontier \in Int
  BY DEF WindowInv, TypeOK, Ts, Seq
<1>6. ~Storing'
  <2>1. mutex = NoThread /\ pc'[w] \notin Stored
        /\ \A u \in Writers : u # w => pc'[u] = pc[u]
    BY Zenon DEF Register, Locked, Goto, Stored, WindowInv, TypeOK
  <2> QED
    BY <2>1, Zenon DEF WindowInv, LockInv, Storing, Stored, Holding
<1>7. \A s \in DOMAIN pending : pending[s].commit_ts \in Int /\ s \in Int
  BY DEF WindowInv, TypeOK, Ts, Seq
<1>8. OracleInv'
  BY <1>1, <1>2, <1>3, <1>4, <1>5, <1>7 DEF WindowInv, OracleInv
<1>9. SeqOrderIsTsOrder'
  BY <1>1, <1>2, <1>3, <1>4, <1>5, <1>7 DEF WindowInv, OracleInv, SeqOrderIsTsOrder
<1>10. FrontierPassesTerminal'
  BY <1>2, <1>3, <1>4, <1>5, <1>7 DEF WindowInv, OracleInv, FrontierPassesTerminal
<1> QED
  BY <1>6, <1>8, <1>9, <1>10, Zenon DEF WindowInv, StoringInv

\* Taking the front slot out leaves only later slots, with later timestamps.
LEMMA FrontLeaves ==
  ASSUME WindowInv, Front \in DOMAIN pending, pending' = Without(pending, Front)
  PROVE /\ DOMAIN pending' = DOMAIN pending \ {Front}
        /\ \A s \in DOMAIN pending' :
              /\ pending'[s] = pending[s] /\ Front < s
              /\ pending[Front].commit_ts < pending[s].commit_ts
        /\ Front < next_seq /\ pending[Front].commit_ts > visible_ts
        /\ pending[Front].commit_ts <= oracle
<1>1. /\ DOMAIN pending' = DOMAIN pending \ {Front}
      /\ \A s \in DOMAIN pending' : pending'[s] = pending[s]
  BY Zenon DEF Without
<1>2. \A s \in DOMAIN pending : s \in Int /\ last_published \in Int
  BY DEF WindowInv, TypeOK, Seq
<1>3. \A s \in DOMAIN pending' : Front < s
  BY <1>1, <1>2 DEF WindowInv, SeqOrderIsTsOrder, Front
<1> QED
  BY <1>1, <1>2, <1>3, Zenon
  DEF WindowInv, SeqOrderIsTsOrder, FrontierPassesTerminal, OracleInv

\* Publishing or skipping the front slot keeps the window invariant.
LEMMA WindowAdvance ==
  ASSUME WindowInv, TypeOK', LockInv', NEW w \in Writers,
         SkipAborted(w) \/ StoreEpoch(w) \/ ClosureFails(w)
  PROVE WindowInv'
<1>1. Front \in DOMAIN pending /\ pending' = Without(pending, Front)
      /\ mutex = w /\ pc[w] \notin Stored /\ UNCHANGED <<next_seq, oracle, published_frontier>>
  BY Zenon DEF SkipAborted, StoreEpoch, ClosureFails, FrontIs, Advancing, Stored, pubVars
<1>2. /\ DOMAIN pending' = DOMAIN pending \ {Front}
      /\ \A s \in DOMAIN pending' :
            /\ pending'[s] = pending[s] /\ Front < s
            /\ pending[Front].commit_ts < pending[s].commit_ts
      /\ Front < next_seq /\ pending[Front].commit_ts > visible_ts
      /\ pending[Front].commit_ts <= oracle
  BY <1>1, FrontLeaves, Zenon
<1>3. /\ last_published \in Int /\ next_seq \in Int /\ visible_ts \in Int
      /\ published_frontier \in Int /\ oracle \in Int
      /\ \A s \in DOMAIN pending : s \in Int /\ pending[s].commit_ts \in Int
  BY DEF WindowInv, TypeOK, Seq, Ts
<1>4. ~Storing /\ \A u \in Writers : u # w => pc[u] \notin Stored
  BY <1>1, OneStoring, Zenon DEF WindowInv, Storing
<1>5. CASE SkipAborted(w)
  <2>1. last_published' = Front /\ visible_ts' = visible_ts /\ pc' = pc
    BY <1>5, Zenon DEF SkipAborted, pubVars
  <2>2. ~Storing'
    BY <1>4, <2>1, Zenon DEF Storing
  <2> QED
    BY <1>1, <1>2, <1>3, <2>1, <2>2, Zenon
    DEF WindowInv, StoringInv, OracleInv, SeqOrderIsTsOrder, FrontierPassesTerminal, Front
<1>6. CASE StoreEpoch(w)
  <2>1. last_published' = last_published /\ visible_ts' = pending[Front].commit_ts
    BY <1>6, Zenon DEF StoreEpoch
  <2> QED
    BY <1>1, <1>2, <1>3, <2>1
    DEF WindowInv, StoringInv, OracleInv, SeqOrderIsTsOrder, FrontierPassesTerminal, Front
<1>7. CASE ClosureFails(w)
  <2>1. last_published' = last_published /\ visible_ts' = visible_ts
    BY <1>7, Zenon DEF ClosureFails, pubVars
  <2> QED
    BY <1>1, <1>2, <1>3, <2>1, Zenon
    DEF WindowInv, StoringInv, OracleInv, SeqOrderIsTsOrder, FrontierPassesTerminal, Front
<1> QED
  BY <1>5, <1>6, <1>7, Zenon

\* The frontier store closes the publish that removed the front slot.
LEMMA WindowFrontier ==
  ASSUME WindowInv, TypeOK', LockInv', NEW w \in Writers, StoreFrontier(w)
  PROVE WindowInv'
<1>1. /\ published_frontier' = visible_ts /\ last_published' = Front
      /\ UNCHANGED <<next_seq, pending, visible_ts, oracle>>
      /\ mutex' = w
  BY Zenon DEF StoreFrontier
<1>2. Front \notin DOMAIN pending /\ Front < next_seq
  BY Zenon DEF StoreFrontier, WindowInv, StoringInv, Storing, Stored
<1>3. pc'[w] \notin Stored
  BY Zenon DEF StoreFrontier, Goto, Stored, WindowInv, TypeOK
<1>4. ~Storing'
  BY <1>1, <1>3, Zenon DEF LockInv, Storing, Stored, Holding
<1>5. /\ last_published \in Int /\ next_seq \in Int /\ visible_ts \in Int
      /\ published_frontier \in Int /\ oracle \in Int
      /\ \A s \in DOMAIN pending : s \in Int /\ pending[s].commit_ts \in Int
  BY DEF WindowInv, TypeOK, Seq, Ts
<1> QED
  BY <1>1, <1>2, <1>4, <1>5
  DEF WindowInv, StoringInv, OracleInv, SeqOrderIsTsOrder, FrontierPassesTerminal, Front

\* Every step keeps the window invariant.
LEMMA WindowNext == ASSUME WindowInv, [Next]_vars PROVE WindowInv'
<1>1. TypeOK' /\ LockInv'
  BY TypeNext, LockNext, Zenon DEF WindowInv
<1>2. ASSUME NEW w \in Writers, Register(w) PROVE WindowInv'
  BY <1>1, <1>2, WindowRegister, Zenon
<1>3. ASSUME NEW w \in Writers,
             SkipAborted(w) \/ StoreEpoch(w) \/ ClosureFails(w)
      PROVE WindowInv'
  BY <1>1, <1>3, WindowAdvance, Zenon
<1>4. ASSUME NEW w \in Writers, StoreFrontier(w) PROVE WindowInv'
  BY <1>1, <1>4, WindowFrontier, Zenon
<1>5. ASSUME NEW w \in Writers, MarkReady(w) \/ MarkAborted(w) PROVE WindowInv'
  <2>1. /\ UNCHANGED <<next_seq, last_published, pubVars, oracle>>
        /\ DOMAIN pending' = DOMAIN pending
        /\ \A s \in DOMAIN pending : pending'[s].commit_ts = pending[s].commit_ts
    BY <1>5 DEF MarkReady, MarkAborted, SetState, WindowInv, TypeOK
  <2>2. Storing' => Storing
    BY <1>5, Zenon DEF MarkReady, MarkAborted, Goto, Storing, Stored, WindowInv, TypeOK
  <2> QED
    BY <1>1, <2>1, <2>2, WindowQuiet, Zenon
<1>6. ASSUME NEW w \in Writers,
             \/ RegisterFails(w) \/ MarkPoisoned(w) \/ Poison(w) \/ Wake(w)
             \/ AdvancePoisoned(w) \/ AdvanceStops(w) \/ Return(w)
      PROVE WindowInv'
  <2>1. UNCHANGED <<next_seq, last_published, pubVars, oracle, pending>>
    BY <1>6 DEF RegisterFails, MarkPoisoned, Poison, Wake, AdvancePoisoned,
                AdvanceStops, Return, seqVars
  <2>2. Storing' => Storing
    BY <1>6 DEF RegisterFails, MarkPoisoned, Poison, Wake, AdvancePoisoned,
                AdvanceStops, Return, Fail, Goto, Storing, Stored, WindowInv, TypeOK
  <2> QED
    BY <1>1, <2>1, <2>2, WindowQuiet, Zenon
<1>7. ASSUME NEW r \in Readers, Read(r) PROVE WindowInv'
  <2>1. UNCHANGED <<next_seq, last_published, pubVars, oracle, pending, pc>>
    BY <1>7, Zenon DEF Read, LoadEpoch, CheckFrontier, CloseView, seqVars
  <2> QED
    BY <1>1, <2>1, WindowQuiet, Zenon DEF Storing
<1>8. CASE UNCHANGED vars
  <2>1. UNCHANGED <<next_seq, last_published, pubVars, oracle, pending, pc>>
    BY <1>8, Zenon DEF vars, seqVars
  <2> QED
    BY <1>1, <2>1, WindowQuiet, Zenon DEF Storing
<1> QED
  BY <1>2, <1>3, <1>4, <1>5, <1>6, <1>7, <1>8, Zenon DEF Next, Begin, Finish, Advance

-----------------------------------------------------------------------------
\* One step of the window is monotone in all three of its frontiers.
LEMMA WindowForward ==
  ASSUME WindowInv, [Next]_vars
  PROVE /\ visible_ts' >= visible_ts
        /\ published_frontier' >= published_frontier
        /\ last_published' >= last_published
<1>1. /\ last_published \in Int /\ visible_ts \in Int /\ published_frontier \in Int
  BY DEF WindowInv, TypeOK, Seq, Ts
<1>2. ASSUME NEW w \in Writers, SkipAborted(w) PROVE last_published' >= last_published
  BY <1>1, <1>2 DEF SkipAborted, Front
<1>3. ASSUME NEW w \in Writers, StoreEpoch(w) PROVE visible_ts' >= visible_ts
  <2>1. pending[Front].commit_ts \in Int /\ pending[Front].commit_ts > visible_ts
    BY <1>3 DEF StoreEpoch, FrontIs, WindowInv, TypeOK, FrontierPassesTerminal, Ts
  <2> QED
    BY <1>1, <1>3, <2>1 DEF StoreEpoch
<1>4. ASSUME NEW w \in Writers, StoreFrontier(w)
      PROVE published_frontier' >= published_frontier /\ last_published' >= last_published
  BY <1>1, <1>4 DEF StoreFrontier, Front, WindowInv, OracleInv
<1>5. \/ \E w \in Writers : SkipAborted(w) \/ StoreEpoch(w) \/ StoreFrontier(w)
      \/ UNCHANGED <<visible_ts, published_frontier, last_published>>
  BY DEF Next, Begin, Finish, Advance, Read, Register, RegisterFails, MarkPoisoned,
         MarkReady, MarkAborted, Poison, AdvancePoisoned, ClosureFails, AdvanceStops,
         Wake, Return, LoadEpoch, CheckFrontier, CloseView, vars, seqVars, pubVars
<1>6. CASE UNCHANGED <<visible_ts, published_frontier, last_published>>
  BY <1>1, <1>6
<1>7. CASE \E w \in Writers : SkipAborted(w)
  BY <1>1, <1>2, <1>7 DEF SkipAborted, pubVars
<1>8. CASE \E w \in Writers : StoreEpoch(w)
  BY <1>1, <1>3, <1>8 DEF StoreEpoch
<1>9. CASE \E w \in Writers : StoreFrontier(w)
  BY <1>1, <1>4, <1>9 DEF StoreFrontier
<1> QED
  BY <1>5, <1>6, <1>7, <1>8, <1>9, Zenon

\* A view opens only behind the frontier, and the frontier never goes back.
LEMMA ViewNext ==
  ASSUME WindowInv, ViewBehindFrontier, [Next]_vars PROVE ViewBehindFrontier'
<1>1. published_frontier' >= published_frontier /\ published_frontier' \in Int
      /\ published_frontier \in Int /\ \A r \in Readers : epoch[r] \in Int
  BY WindowForward, WindowNext DEF WindowInv, TypeOK, Ts
<1>2. ASSUME NEW r \in Readers, Read(r) PROVE ViewBehindFrontier'
  BY <1>1, <1>2 DEF Read, LoadEpoch, CheckFrontier, CloseView, pubVars,
                    ViewBehindFrontier, WindowInv, TypeOK
<1>3. CASE UNCHANGED readerVars
  BY <1>1, <1>3 DEF readerVars, ViewBehindFrontier
<1>4. UNCHANGED readerVars \/ \E r \in Readers : Read(r)
  BY DEF Next, Begin, Finish, Advance, Register, RegisterFails, MarkPoisoned,
         MarkReady, MarkAborted, Poison, AdvancePoisoned, SkipAborted, StoreEpoch,
         StoreFrontier, ClosureFails, AdvanceStops, Wake, Return, vars
<1> QED
  BY <1>2, <1>3, <1>4, Zenon

-----------------------------------------------------------------------------
(* What becomes of the slot behind each live guard. *)

\* A step that leaves the map, the window and the guards alone, and moves a
\* writer only within or out of its own phase, keeps the guard invariant.
LEMMA GuardQuiet ==
  ASSUME GuardInv,
         UNCHANGED <<next_seq, last_published, pending, pubVars, guard>>,
         Storing' => Storing,
         \A w \in Writers :
            /\ pc'[w] \in Live => /\ pc[w] \in Live
                                  /\ (pc'[w] = "registered") <=> (pc[w] = "registered")
            /\ pc'[w] = "published" => pc[w] = "published" \/ Passed(w)
  PROVE GuardInv'
BY DEF GuardInv, Tracked, Owned, Taken, Passed, Front, OkMeansPublished, pubVars

\* A fresh slot is above every other, and no other guard stands for it.
LEMMA GuardRegister ==
  ASSUME WindowInv, GuardInv, NEW w \in Writers, Register(w) PROVE GuardInv'
<1>1. PICK ts \in oracle + 1 .. MaxTs :
         /\ guard' = [guard EXCEPT ![w] = [seq |-> next_seq, commit_ts |-> ts]]
         /\ pending' = [s \in DOMAIN pending \cup {next_seq} |->
                          IF s = next_seq
                            THEN [commit_ts |-> ts, state |-> "Pending"]
                            ELSE pending[s]]
  BY Zenon DEF Register
<1>2. /\ next_seq' = next_seq + 1
      /\ UNCHANGED <<last_published, published_frontier, visible_ts>>
  BY Zenon DEF Register, pubVars
<1>3. /\ pc'[w] = "registered"
      /\ \A u \in Writers : u # w => pc'[u] = pc[u] /\ guard'[u] = guard[u]
      /\ guard'[w] = [seq |-> next_seq, commit_ts |-> ts]
  BY <1>1, Zenon DEF Register, Goto, WindowInv, TypeOK
<1>4. /\ next_seq \in Int /\ last_published \in Int
      /\ \A u \in Writers : guard[u].seq \in Int
  BY DEF WindowInv, TypeOK, Seq
<1>5. DOMAIN pending' = DOMAIN pending \cup {next_seq}
      /\ pending'[next_seq] = [commit_ts |-> ts, state |-> "Pending"]
      /\ \A s \in DOMAIN pending : s # next_seq /\ pending'[s] = pending[s]
  BY <1>1, <1>4 DEF WindowInv, SeqOrderIsTsOrder, TypeOK, Seq
<1>6. Tracked(w)'
  BY <1>2, <1>3, <1>4, <1>5 DEF Tracked, Owned
<1>7. Storing' => Storing
  BY <1>3, Zenon DEF Storing, Stored
<1>8. ASSUME NEW u \in Writers, u # w, pc'[u] \in Live
      PROVE Tracked(u)' /\ guard'[u].seq # guard'[w].seq
  <2>1. Tracked(u) /\ guard'[u] = guard[u] /\ pc'[u] = pc[u]
    BY <1>3, <1>8, Zenon DEF GuardInv
  <2>2. CASE Owned(u)
    BY <1>2, <1>3, <1>4, <1>5, <2>1, <2>2 DEF Tracked, Owned
  <2>3. CASE pc[u] # "registered" /\ Taken(u)
    BY <1>2, <1>3, <1>4, <1>5, <1>7, <2>1, <2>3 DEF Tracked, Taken, Front
  <2>4. CASE pc[u] # "registered" /\ Passed(u)
    BY <1>2, <1>3, <1>4, <2>1, <2>4 DEF Tracked, Passed
  <2> QED
    BY <2>1, <2>2, <2>3, <2>4, Zenon DEF Tracked
<1>9. OkMeansPublished'
  BY <1>2, <1>3, Zenon DEF GuardInv, OkMeansPublished
<1>10. \A v, u \in Writers : v # u /\ pc'[v] \in Live /\ pc'[u] \in Live
                               => guard'[v].seq # guard'[u].seq
  BY <1>3, <1>8 DEF GuardInv
<1> QED
  BY <1>6, <1>8, <1>9, <1>10, Zenon DEF GuardInv

\* Marking a slot touches no other writer's slot.
LEMMA GuardMark ==
  ASSUME WindowInv, GuardInv, NEW w \in Writers, MarkReady(w) \/ MarkAborted(w)
  PROVE GuardInv'
<1> DEFINE to == IF MarkReady(w) THEN "Ready" ELSE "Aborted"
<1>1. /\ pending' = [pending EXCEPT ![guard[w].seq].state = to]
      /\ pc[w] = "registered"
      /\ UNCHANGED <<next_seq, last_published, published_frontier, visible_ts, guard>>
  BY Zenon DEF MarkReady, MarkAborted, SetState, At, pubVars
<1>2. /\ MarkReady(w) => pc'[w] = "advanceReady"
      /\ ~MarkReady(w) => pc'[w] = "advanceAbort"
      /\ \A u \in Writers : u # w => pc'[u] = pc[u]
  BY Zenon DEF MarkReady, MarkAborted, Goto, WindowInv, TypeOK
<1>3. Owned(w) /\ guard[w].seq < next_seq
  BY <1>1, Zenon DEF GuardInv, Live, Tracked
<1>4. /\ DOMAIN pending' = DOMAIN pending
      /\ \A s \in DOMAIN pending : s # guard[w].seq => pending'[s] = pending[s]
      /\ pending'[guard[w].seq].commit_ts = pending[guard[w].seq].commit_ts
      /\ pending'[guard[w].seq].state = to
  BY <1>1, <1>3 DEF Owned, WindowInv, TypeOK
<1>5. Storing' => Storing
  BY <1>2, Zenon DEF Storing, Stored
<1>6. ASSUME NEW u \in Writers, pc'[u] \in Live PROVE Tracked(u)'
  <2>1. CASE u = w
    BY <1>1, <1>2, <1>3, <1>4, <1>6, <2>1, Zenon DEF Tracked, Owned, Live
  <2>2. CASE u # w
    <3>1. Tracked(u) /\ pc'[u] = pc[u] /\ guard[u].seq # guard[w].seq
      BY <1>1, <1>2, <1>6, <2>2, Zenon DEF GuardInv, Live
    <3> QED
      BY <1>1, <1>4, <1>5, <3>1, Zenon DEF Tracked, Owned, Taken, Passed, Front
  <2> QED
    BY <2>1, <2>2, Zenon
<1>7. \A v, u \in Writers : v # u /\ pc'[v] \in Live /\ pc'[u] \in Live
                               => guard'[v].seq # guard'[u].seq
  BY <1>1, <1>2 DEF GuardInv, Live
<1>8. OkMeansPublished'
  BY <1>1, <1>2, Zenon DEF GuardInv, OkMeansPublished
<1> QED
  BY <1>6, <1>7, <1>8, Zenon DEF GuardInv

\* Taking out the front slot turns its owner's guard from owned to taken.
LEMMA GuardAdvance ==
  ASSUME WindowInv, GuardInv, NEW w \in Writers,
         SkipAborted(w) \/ StoreEpoch(w) \/ ClosureFails(w)
  PROVE GuardInv'
<1>1. /\ Front \in DOMAIN pending /\ pending' = Without(pending, Front)
      /\ mutex = w /\ pc[w] \in {"advanceReady", "advanceAbort"}
      /\ UNCHANGED <<next_seq, published_frontier, guard>>
  BY Zenon DEF SkipAborted, StoreEpoch, ClosureFails, FrontIs, Advancing, pubVars
<1>2. /\ DOMAIN pending' = DOMAIN pending \ {Front}
      /\ \A s \in DOMAIN pending' : pending'[s] = pending[s]
  BY <1>1, FrontLeaves, Zenon
<1>3. /\ last_published \in Int /\ \A u \in Writers : guard[u].seq \in Int
  BY DEF WindowInv, TypeOK, Seq
<1>4. ~Storing /\ \A u \in Writers : u # w => pc[u] \notin Stored
  BY <1>1, OneStoring, Zenon DEF WindowInv, Storing, Stored
<1>5. \A u \in Writers : /\ u # w => pc'[u] = pc[u]
                         /\ pc'[u] \in Live => pc[u] \in Live
                         /\ (pc'[u] = "registered") <=> (pc[u] = "registered")
                         /\ (pc'[u] = "published") <=> (pc[u] = "published")
  BY <1>1 DEF SkipAborted, StoreEpoch, ClosureFails, Fail, Goto, Live, WindowInv, TypeOK
<1>6. \A u \in Writers : pc[u] \in Live => Owned(u) \/ Passed(u)
  BY <1>1, Zenon DEF GuardInv, Tracked, Taken
<1>7. \A v, u \in Writers : v # u /\ pc'[v] \in Live /\ pc'[u] \in Live
                               => guard'[v].seq # guard'[u].seq
  BY <1>1, <1>5, Zenon DEF GuardInv
<1>8. CASE SkipAborted(w)
  <2>1. /\ last_published' = Front /\ pc' = pc
        /\ pending[Front].state = "Aborted"
    BY <1>8, Zenon DEF SkipAborted, FrontIs
  <2>2. ASSUME NEW u \in Writers, pc[u] \in Live PROVE Tracked(u)'
    <3>1. CASE Owned(u)
      BY <1>1, <1>2, <2>1, <2>2, <3>1, Zenon DEF GuardInv, Tracked, Owned
    <3>2. CASE Passed(u)
      <4>1. Passed(u)'
        BY <1>1, <1>3, <2>1, <3>2 DEF Passed, Front
      <4> QED
        BY <1>1, <1>2, <2>1, <2>2, <3>1, <4>1, Zenon DEF GuardInv, Tracked, Owned
    <3> QED
      BY <1>6, <2>2, <3>1, <3>2, Zenon
  <2>3. OkMeansPublished'
    BY <1>1, <1>3, <2>1 DEF GuardInv, OkMeansPublished, Front
  <2> QED
    BY <1>7, <2>1, <2>2, <2>3, Zenon DEF GuardInv
<1>9. CASE StoreEpoch(w) \/ ClosureFails(w)
  <2>1. /\ last_published' = last_published /\ pending[Front].state = "Ready"
        /\ StoreEpoch(w) => visible_ts' = pending[Front].commit_ts
        /\ ~StoreEpoch(w) => pc'[w] \notin Stored
    BY <1>9, Zenon DEF StoreEpoch, ClosureFails, FrontIs, Fail, Goto, Stored, WindowInv, TypeOK
  <2>2. Storing' => visible_ts' = pending[Front].commit_ts
    BY <1>4, <1>5, <2>1, Zenon DEF Storing
  <2>3. ASSUME NEW u \in Writers, pc'[u] \in Live PROVE Tracked(u)'
    <3>1. CASE Owned(u) /\ guard[u].seq = Front
      <4>1. pc[u] # "registered" /\ guard[u].commit_ts = pending[Front].commit_ts
        BY <2>1, <3>1, Zenon DEF Owned
      <4>2. Taken(u)'
        BY <1>1, <1>2, <2>1, <2>2, <3>1, <4>1, Zenon DEF Taken, Front
      <4> QED
        BY <1>1, <1>5, <2>3, <4>1, <4>2, Zenon DEF GuardInv, Tracked
    <3>2. CASE Owned(u) /\ guard[u].seq # Front
      BY <1>1, <1>2, <1>5, <2>3, <3>2 DEF GuardInv, Tracked, Owned
    <3>3. CASE Passed(u) /\ ~Owned(u)
      BY <1>1, <1>5, <2>1, <2>3, <3>3, Zenon DEF GuardInv, Tracked, Passed
    <3> QED
      BY <1>5, <1>6, <2>3, <3>1, <3>2, <3>3, Zenon
  <2>4. OkMeansPublished'
    BY <1>1, <1>5, <2>1, Zenon DEF GuardInv, OkMeansPublished
  <2> QED
    BY <1>7, <2>3, <2>4, Zenon DEF GuardInv
<1> QED
  BY <1>8, <1>9, Zenon

\* The frontier store turns a taken guard into a passed one.
LEMMA GuardFrontier ==
  ASSUME WindowInv, GuardInv, NEW w \in Writers, StoreFrontier(w) PROVE GuardInv'
<1>1. /\ published_frontier' = visible_ts /\ last_published' = Front
      /\ UNCHANGED <<next_seq, pending, visible_ts, guard>>
      /\ mutex' = w /\ Storing
  BY Zenon DEF StoreFrontier, Storing, Stored
<1>2. /\ last_published \in Int /\ visible_ts \in Int /\ published_frontier \in Int
      /\ published_frontier <= visible_ts
      /\ \A u \in Writers : guard[u].seq \in Int /\ guard[u].commit_ts \in Int
  BY DEF WindowInv, TypeOK, Seq, Ts, OracleInv
<1>3. \A u \in Writers : /\ pc'[u] \in Live => pc[u] \in Live
                         /\ (pc'[u] = "registered") <=> (pc[u] = "registered")
                         /\ (pc'[u] = "published") <=> (pc[u] = "published")
  <2>1. /\ pc \in [Writers -> PcStates]
        /\ \/ pc[w] = "storedReady" /\ pc' = [pc EXCEPT ![w] = "advanceReady"]
           \/ pc[w] = "storedAbort" /\ pc' = [pc EXCEPT ![w] = "advanceAbort"]
    BY Zenon DEF StoreFrontier, Goto, WindowInv, TypeOK
  <2> QED
    BY <2>1, Zenon DEF Live
<1>4. \A u \in Writers : Taken(u) \/ Passed(u) => Passed(u)'
  BY <1>1, <1>2 DEF Taken, Passed, Front
<1>5. \A u \in Writers : pc'[u] \in Live => Tracked(u)'
  BY <1>1, <1>3, <1>4, Zenon DEF GuardInv, Tracked, Owned
<1>6. OkMeansPublished'
  BY <1>1, <1>2, <1>3 DEF GuardInv, OkMeansPublished, Front
<1> QED
  BY <1>1, <1>3, <1>5, <1>6, Zenon DEF GuardInv

\* mark_ready returns Ok only when the window has passed the caller's slot.
LEMMA GuardStops ==
  ASSUME WindowInv, GuardInv, NEW w \in Writers, AdvanceStops(w) PROVE GuardInv'
<1>1. UNCHANGED <<next_seq, last_published, pending, pubVars, guard>>
  BY Zenon DEF AdvanceStops, seqVars
<1>2. \A u \in Writers : /\ u # w => pc'[u] = pc[u]
                         /\ pc'[u] \in Live => pc[u] \in Live
                         /\ (pc'[u] = "registered") <=> (pc[u] = "registered")
                         /\ pc'[u] \in Stored => pc[u] \in Stored
  <2>1. /\ pc \in [Writers -> PcStates]
        /\ \/ pc[w] = "advanceAbort" /\ pc' = [pc EXCEPT ![w] = "aborted"]
           \/ pc[w] = "advanceReady" /\ pc' = [pc EXCEPT ![w] = "published"]
           \/ pc[w] = "advanceReady" /\ pc' = [pc EXCEPT ![w] = "waiting"]
    BY Zenon DEF AdvanceStops, Goto, WindowInv, TypeOK
  <2> QED
    BY <2>1, Zenon DEF Live, Stored
<1>3. ASSUME pc'[w] = "published" PROVE Passed(w)
  <2>1. pc[w] = "advanceReady" /\ last_published >= guard[w].seq
    BY <1>3, Zenon DEF AdvanceStops, Goto, WindowInv, TypeOK
  <2>2. last_published \in Int /\ guard[w].seq \in Int
    BY DEF WindowInv, TypeOK, Seq
  <2>3. ~Owned(w) /\ ~Taken(w)
    BY <2>1, <2>2 DEF Owned, Taken, Front, WindowInv, SeqOrderIsTsOrder
  <2> QED
    BY <2>1, <2>3, Zenon DEF GuardInv, Live, Tracked
<1> QED
  BY <1>1, <1>2, <1>3, GuardQuiet, Zenon DEF Storing

\* Every step keeps the guard invariant.
LEMMA GuardNext == ASSUME WindowInv, GuardInv, [Next]_vars PROVE GuardInv'
<1>1. ASSUME NEW w \in Writers, Begin(w) \/ Finish(w) PROVE GuardInv'
  <2>1. CASE Register(w)
    BY <2>1, GuardRegister, Zenon
  <2>2. CASE MarkReady(w) \/ MarkAborted(w)
    BY <2>2, GuardMark, Zenon
  <2>3. CASE RegisterFails(w) \/ MarkPoisoned(w) \/ Poison(w)
    <3>1. UNCHANGED <<next_seq, last_published, pending, pubVars, guard>>
      BY <2>3, Zenon DEF RegisterFails, MarkPoisoned, Poison, seqVars
    <3>2. pc' = [pc EXCEPT ![w] = "fatal"] /\ pc \in [Writers -> PcStates]
      BY <2>3, Zenon DEF RegisterFails, MarkPoisoned, Poison, Goto, WindowInv, TypeOK
    <3> QED
      BY <3>1, <3>2, GuardQuiet, Zenon DEF Storing, Stored, Live
  <2> QED
    BY <1>1, <2>1, <2>2, <2>3, Zenon DEF Begin, Finish
<1>2. ASSUME NEW w \in Writers, Advance(w) PROVE GuardInv'
  <2>1. CASE SkipAborted(w) \/ StoreEpoch(w) \/ ClosureFails(w)
    BY <2>1, GuardAdvance, Zenon
  <2>2. CASE StoreFrontier(w)
    BY <2>2, GuardFrontier, Zenon
  <2>3. CASE AdvanceStops(w)
    BY <2>3, GuardStops, Zenon
  <2>4. CASE AdvancePoisoned(w)
    <3>1. UNCHANGED <<next_seq, last_published, pending, pubVars, guard>>
      BY <2>4, Zenon DEF AdvancePoisoned, seqVars
    <3>2. /\ pc \in [Writers -> PcStates]
          /\ \/ pc' = [pc EXCEPT ![w] = "aborted"] \/ pc' = [pc EXCEPT ![w] = "fatal"]
      BY <2>4, Zenon DEF AdvancePoisoned, Fail, Goto, WindowInv, TypeOK
    <3> QED
      BY <3>1, <3>2, GuardQuiet, Zenon DEF Storing, Stored, Live
  <2> QED
    BY <1>2, <2>1, <2>2, <2>3, <2>4, Zenon DEF Advance
<1>3. ASSUME NEW w \in Writers, Wake(w) PROVE GuardInv'
  <2>1. /\ UNCHANGED <<next_seq, last_published, pending, pubVars, guard>>
        /\ pc \in [Writers -> PcStates]
        /\ pc[w] = "waiting" /\ pc' = [pc EXCEPT ![w] = "advanceReady"]
    BY <1>3, Zenon DEF Wake, At, Goto, seqVars, WindowInv, TypeOK
  <2> QED
    BY <2>1, GuardQuiet, Zenon DEF Storing, Stored, Live
<1>4. ASSUME NEW w \in Writers, Return(w) PROVE GuardInv'
  <2>1. /\ UNCHANGED <<next_seq, last_published, pending, published_frontier, visible_ts>>
        /\ pc \in [Writers -> PcStates] /\ guard \in [Writers -> [seq : Seq, commit_ts : Ts]]
        /\ pc' = [pc EXCEPT ![w] = "idle"] /\ guard' = [guard EXCEPT ![w] = NoGuard]
    BY <1>4, Zenon DEF Return, seqVars, pubVars, Goto, WindowInv, TypeOK
  <2>2. /\ pc'[w] = "idle"
        /\ \A u \in Writers : u # w => pc'[u] = pc[u] /\ guard'[u] = guard[u]
    BY <2>1, Zenon
  <2>3. Storing' => Storing
    BY <2>2, Zenon DEF Storing, Stored
  <2> QED
    BY <2>1, <2>2, <2>3
    DEF GuardInv, Tracked, Owned, Taken, Passed, Front, OkMeansPublished, Live
<1>5. ASSUME NEW r \in Readers, Read(r) PROVE GuardInv'
  <2>1. UNCHANGED <<next_seq, last_published, pending, pubVars, guard, pc>>
    BY <1>5, Zenon DEF Read, LoadEpoch, CheckFrontier, CloseView, seqVars
  <2> QED
    BY <2>1, GuardQuiet, Zenon DEF Storing
<1>6. CASE UNCHANGED vars
  <2>1. UNCHANGED <<next_seq, last_published, pending, pubVars, guard, pc>>
    BY <1>6, Zenon DEF vars, seqVars
  <2> QED
    BY <2>1, GuardQuiet, Zenon DEF Storing
<1> QED
  BY <1>1, <1>2, <1>3, <1>4, <1>5, <1>6, Zenon DEF Next

-----------------------------------------------------------------------------
\* The window invariant holds in every reachable state.
LEMMA WindowAlways == Spec => []WindowInv
BY WindowInit, WindowNext, PTL DEF Spec

\* Every variable of the sequencer keeps its type: in particular no slot is
\* ever marked or published that register_with_oracle did not allocate.
THEOREM TypeCorrect == Spec => []TypeOK
<1>1. WindowInv => TypeOK
  BY Zenon DEF WindowInv
<1> QED
  BY <1>1, WindowAlways, PTL

\* register_with_oracle's one hold of the mutex makes publish_seq order and
\* commit_ts order the same order, for any number of writers.
THEOREM SeqOrder == Spec => []SeqOrderIsTsOrder
<1>1. WindowInv => SeqOrderIsTsOrder
  BY Zenon DEF WindowInv
<1> QED
  BY <1>1, WindowAlways, PTL

\* advance_window_locked never lets the epoch or the frontier reach the
\* timestamp of a slot whose writer has not finished: the fact that
\* version_visible_to relies on for foreign Pending entries.
THEOREM FrontierPasses == Spec => []FrontierPassesTerminal
<1>1. WindowInv => FrontierPassesTerminal
  BY Zenon DEF WindowInv
<1> QED
  BY <1>1, WindowAlways, PTL

\* The epoch, the frontier and the window only move forward, as the
\* debug_assert of publish_commit demands.
THEOREM Monotone == Spec => PublishMonotone
<1>1. WindowInv /\ [Next]_vars =>
        [/\ visible_ts' >= visible_ts
         /\ published_frontier' >= published_frontier
         /\ last_published' >= last_published]_vars
  BY WindowForward, Zenon
<1> QED
  BY <1>1, WindowAlways, PTL DEF Spec, PublishMonotone

\* load_published_coherent never hands out an epoch ahead of the frontier.
THEOREM ViewBehind == Spec => []ViewBehindFrontier
<1>1. Init => ViewBehindFrontier
  BY Zenon DEF Init, ViewBehindFrontier
<1>2. WindowInv /\ ViewBehindFrontier /\ [Next]_vars => ViewBehindFrontier'
  BY ViewNext, Zenon
<1> QED
  BY <1>1, <1>2, WindowAlways, PTL DEF Spec

\* A mark_ready that returns Ok has its own commit published, no matter which
\* thread ran the closure and which slots were aborted or failed meanwhile.
THEOREM OkPublished == Spec => []OkMeansPublished
<1>1. Init => GuardInv
  BY Zenon DEF Init, GuardInv, Live, OkMeansPublished
<1>2. WindowInv /\ GuardInv /\ [Next]_vars => GuardInv'
  BY GuardNext, Zenon
<1>3. GuardInv => OkMeansPublished
  BY Zenon DEF GuardInv
<1> QED
  BY <1>1, <1>2, <1>3, WindowAlways, PTL DEF Spec
=============================================================================
