-------------------------- MODULE LogManagerProofs --------------------------
(***************************************************************************)
(* Proofs about LogManager for any set of threads, any record lengths and  *)
(* any LSN bound.  Type correctness comes first; then two inductive        *)
(* invariants, one about the bytes behind the frontiers and one about the  *)
(* group-commit leader, from which the properties of LogManager follow.    *)
(***************************************************************************)
EXTENDS LogManager, TLAPS

\* The time the SMT solver may take for a leaf that names no prover.
USE SMTT(60)

\* A manager opened by LogManager::new is well typed.
LEMMA TypeInit == Init => TypeOK
<1> SUFFICES ASSUME Init PROVE TypeOK
    BY Zenon
<1>1. DOMAIN slots = {} /\ slots \in [DOMAIN slots -> [state : SlotStates, end : Lsn]]
  BY Zenon DEF Init
<1>2. InitialLsn \in Lsn
  BY LsnAssumption DEF Lsn
<1> QED BY <1>1, <1>2, Zenon DEF Init, TypeOK, PcStates

\* Every step of reserve, the append, the waits and the sync keeps the types.
LEMMA TypeNext == TypeOK /\ [Next]_vars => TypeOK'
<1> SUFFICES ASSUME TypeOK, [Next]_vars PROVE TypeOK'
    BY Zenon
<1> USE LsnAssumption, ThreadAssumption
<1> USE DEF TypeOK, Lsn, PcStates, SlotStates, Bytes, WriteFailure, SyncFailure
<1>1. CASE UNCHANGED vars
  BY <1>1, Zenon DEF vars, logVars, threadVars
<1>2. ASSUME NEW t \in Threads, Reserve(t) PROVE TypeOK'
  BY <1>2 DEF Reserve, At, Goto, Locked, PutSlot
<1>3. ASSUME NEW t \in Threads, CallSync(t) PROVE TypeOK'
  BY <1>3 DEF CallSync, At, Goto, logVars
<1>4. ASSUME NEW t \in Threads, Return(t) PROVE TypeOK'
  BY <1>4 DEF Return, Goto, logVars
<1>5. ASSUME NEW t \in Threads, Append(t) PROVE TypeOK'
  <2>1. CASE BeginWrite(t)
    BY <2>1 DEF BeginWrite, At, Goto, Locked, PutSlot, threadVars
  <2>0. ASSUME PoisonSlot(t)
        PROVE  /\ DOMAIN slots' \subseteq Lsn
               /\ slots' \in [DOMAIN slots' -> [state : SlotStates, end : Lsn]]
               /\ poisoned' \in {"none", WriteFailure, SyncFailure}
               /\ sync_in_progress' \in BOOLEAN /\ waiters' = {}
               /\ UNCHANGED <<next_lsn, ready_lsn, durable_lsn>>
    <3>1. slots' = [u \in DOMAIN slots \cup {rec[t].start} |->
                      IF u = rec[t].start THEN [state |-> "Poisoned", end |-> rec[t].end]
                                          ELSE slots[u]]
      BY <2>0, Zenon DEF PoisonSlot, PutSlot
    <3>2. rec[t].start \in Lsn /\ [state |-> "Poisoned", end |-> rec[t].end] \in [state : SlotStates, end : Lsn]
      BY Zenon
    <3>3. DOMAIN slots' \subseteq Lsn
      BY <3>1, <3>2, Zenon
    <3>4. slots' \in [DOMAIN slots' -> [state : SlotStates, end : Lsn]]
      BY <3>1, <3>2, Zenon
    <3> QED BY <2>0, <3>3, <3>4, Zenon DEF PoisonSlot, Poison, NotifyAll
  <2>2. CASE AbandonReservation(t)
    <3>1. PoisonSlot(t)
      BY <2>2, Zenon DEF AbandonReservation
    <3> QED BY <2>0, <2>2, <3>1, Zenon DEF AbandonReservation, At, Goto, Locked, threadVars
  <2>3. CASE WriteFile(t)
    BY <2>3 DEF WriteFile, At, Goto, threadVars, logVars
  <2>4. CASE WriteFileFails(t)
    <3>1. file' \subseteq Lsn
      BY <2>4 DEF WriteFileFails
    <3>2. PoisonSlot(t)
      BY <2>4, Zenon DEF WriteFileFails
    <3> QED BY <2>0, <2>4, <3>1, <3>2, Zenon DEF WriteFileFails, At, Goto, Locked, threadVars
  <2>5. CASE FinishWrite(t)
    BY <2>5 DEF FinishWrite, At, Goto, Locked, PutSlot, threadVars
  <2>6. CASE MarkWritten(t)
    BY <2>6 DEF MarkWritten, At, Goto, Locked, NotifyAll, threadVars
  <2>7. CASE AppendFails(t) \/ CallWaitReady(t) \/ CallWaitDurable(t)
    BY <2>7, ZenonT(60) DEF AppendFails, CallWaitReady, CallWaitDurable, At, Goto, Locked,
                logVars, threadVars
  <2> QED BY <1>5, <2>1, <2>2, <2>3, <2>4, <2>5, <2>6, <2>7, Zenon DEF Append
<1>6. ASSUME NEW t \in Threads, Await(t) PROVE TypeOK'
  BY <1>6 DEF Await, ReadyReached, ReadyPark, WaitFails, At, Goto, Locked,
              logVars, threadVars
<1>7. ASSUME NEW t \in Threads, Sync(t) PROVE TypeOK'
  <2>1. CASE SyncLoop(t) \/ SyncCheck(t) \/ Elect(t)
    BY <2>1, ZenonT(60) DEF SyncLoop, SyncCheck, Elect, At, Goto, Locked, logVars,
                threadVars
  <2>2. CASE CloseSyncTarget(t)
    BY <2>2, Zenon DEF CloseSyncTarget, At, Goto, Locked, logVars
  <2>3. CASE CloseFails(t)
    BY <2>3, Zenon DEF CloseFails, NotifyAll, At, Goto, Locked, threadVars
  <2>3a. CASE SyncDataFails(t)
    <3>1. poisoned' \in {"none", WriteFailure, SyncFailure}
      BY <2>3a, Zenon DEF SyncDataFails, Poison
    <3> QED
      BY <2>3a, <3>1, Zenon DEF SyncDataFails, Poison, NotifyAll, At, Goto, Locked,
                         threadVars
  <2>4. CASE SyncData(t)
    BY <2>4, Zenon DEF SyncData, At, Goto, logVars, threadVars
  <2>5. CASE StoreDurable(t)
    BY <2>5, Zenon DEF StoreDurable, Minimum, At, Goto, threadVars
  <2>6. CASE ClearLeader(t)
    BY <2>6, Zenon DEF ClearLeader, At, Goto, threadVars
  <2>7. CASE WakeFollowers(t)
    BY <2>7, Zenon DEF WakeFollowers, NotifyAll, At, Goto, logVars, threadVars
  <2>8. CASE FollowTest(t) \/ FollowPark(t)
    BY <2>8 DEF FollowTest, FollowPark, At, Goto, logVars, threadVars
  <2> QED BY <1>7, <2>1, <2>2, <2>3, <2>3a, <2>4, <2>5, <2>6, <2>7, <2>8, Zenon
          DEF Sync
<1> QED BY <1>1, <1>2, <1>3, <1>4, <1>5, <1>6, <1>7, Zenon DEF Next

\* Every reachable state of the log manager is well typed.
THEOREM TypeCorrect == Spec => []TypeOK
  BY TypeInit, TypeNext, PTL DEF Spec

-----------------------------------------------------------------------------
(* The bytes behind the frontiers. *)

\* A thread between reserve and mark_written owns a slot of the map.
Owning == {"reserved", "writing", "wrote", "complete"}
OwnedState(p) == IF p = "reserved" THEN "Reserved"
                 ELSE IF p = "complete" THEN "WriteComplete" ELSE "Writing"

OwnerInv ==
  /\ \A t \in Threads : pc[t] \in Owning =>
       /\ rec[t].start \in DOMAIN slots
       /\ slots[rec[t].start] = [state |-> OwnedState(pc[t]), end |-> rec[t].end]
       /\ pc[t] = "wrote" => Bytes(rec[t].start, rec[t].end) \subseteq file
  /\ \A t, u \in Threads : pc[t] \in Owning /\ pc[u] \in Owning /\ t # u
       => rec[t].start # rec[u].start

WrittenInv ==
  \A s \in DOMAIN slots : slots[s].state \in {"WriteComplete", "Written"}
                            => Bytes(s, slots[s].end) \subseteq file

LogInv == TypeOK /\ SlotsTile /\ OwnerInv /\ WrittenInv /\ ReadyPrefixWritten
          /\ ready_lsn <= next_lsn

\* A step that leaves the slot map, the file and the owners alone.
LEMMA QuietStep ==
  ASSUME LogInv, TypeOK', file' = file,
         UNCHANGED <<next_lsn, ready_lsn, slots>>,
         \A t \in Threads : pc'[t] \in Owning => pc'[t] = pc[t] /\ rec'[t] = rec[t]
  PROVE  LogInv'
<1>1. SlotsTile' /\ WrittenInv' /\ ReadyPrefixWritten' /\ ready_lsn' <= next_lsn'
  BY Zenon DEF LogInv, SlotsTile, WrittenInv, ReadyPrefixWritten
<1>2. OwnerInv'
  BY DEF LogInv, OwnerInv
<1> QED BY <1>1, <1>2, Zenon DEF LogInv

\* A step of the owner of a slot that only changes the state of that slot.
LEMMA SlotStep ==
  ASSUME LogInv, TypeOK', NEW t \in Threads, pc[t] \in Owning,
         NEW st \in SlotStates, PutSlot(rec[t].start, st, rec[t].end),
         UNCHANGED <<next_lsn, ready_lsn, rec>>, file \subseteq file',
         \A u \in Threads : u # t => pc'[u] = pc[u],
         pc'[t] \in Owning => pc'[t] # "wrote" /\ OwnedState(pc'[t]) = st,
         st \in {"WriteComplete", "Written"}
           => Bytes(rec[t].start, rec[t].end) \subseteq file
  PROVE  LogInv'
<1> DEFINE s0 == rec[t].start
<1>0. /\ s0 \in DOMAIN slots
      /\ slots[s0] = [state |-> OwnedState(pc[t]), end |-> rec[t].end]
  BY Zenon DEF LogInv, OwnerInv
<1>1. /\ s0 \in DOMAIN slots /\ slots[s0].end = rec[t].end
      /\ DOMAIN slots' = DOMAIN slots
      /\ slots'[s0] = [state |-> st, end |-> rec[t].end]
      /\ \A s \in DOMAIN slots : s # s0 => slots'[s] = slots[s]
  <2>1. slots' = [u \in DOMAIN slots \cup {s0} |->
                    IF u = s0 THEN [state |-> st, end |-> rec[t].end] ELSE slots[u]]
    BY Zenon DEF PutSlot
  <2>2. DOMAIN slots \cup {s0} = DOMAIN slots
    BY <1>0, Zenon
  <2> HIDE DEF s0
  <2> QED BY <1>0, <2>1, <2>2
<1>2. \A s \in DOMAIN slots : slots'[s].end = slots[s].end
  BY <1>1
<1>3. SlotsTile' /\ ReadyPrefixWritten' /\ ready_lsn' <= next_lsn'
  BY <1>1, <1>2 DEF LogInv, SlotsTile, ReadyPrefixWritten
<1>4. WrittenInv'
  BY <1>1 DEF LogInv, WrittenInv
<1>5. OwnerInv'
  <2>1. ASSUME NEW u \in Threads, pc'[u] \in Owning, u # t
        PROVE  /\ rec'[u].start \in DOMAIN slots'
               /\ slots'[rec'[u].start]
                    = [state |-> OwnedState(pc'[u]), end |-> rec'[u].end]
               /\ pc'[u] = "wrote" => Bytes(rec'[u].start, rec'[u].end) \subseteq file'
    BY <1>1, <2>1 DEF LogInv, OwnerInv
  <2>2. \A u, v \in Threads : pc'[u] \in Owning /\ pc'[v] \in Owning /\ u # v
           => rec'[u].start # rec'[v].start
    BY Zenon DEF LogInv, OwnerInv
  <2> QED BY <1>1, <2>1, <2>2, Zenon DEF OwnerInv
<1> QED BY <1>3, <1>4, <1>5, Zenon DEF LogInv

\* mark_written: the slot becomes Written and the frontier walks over it.
LEMMA MarkStep ==
  ASSUME LogInv, TypeOK', NEW t \in Threads, MarkWritten(t)
  PROVE  LogInv'
<1> DEFINE s0 == rec[t].start
           marked == [slots EXCEPT ![s0].state = "Written"]
<1>1. PICK r \in ready_lsn .. next_lsn :
        /\ WalkEnds(marked, ready_lsn, r) /\ ready_lsn' = r
        /\ slots' = [s \in {u \in DOMAIN marked : u >= r} |-> marked[s]]
  BY Zenon DEF MarkWritten
<1>2. /\ pc[t] = "complete" /\ pc' = [pc EXCEPT ![t] = "marked"]
      /\ file' = file /\ rec' = rec /\ next_lsn' = next_lsn
  BY Zenon DEF MarkWritten, At, Goto, threadVars
<1>3. /\ s0 \in DOMAIN slots
      /\ slots[s0] = [state |-> "WriteComplete", end |-> rec[t].end]
  BY <1>2, Zenon DEF LogInv, OwnerInv, Owning, OwnedState
<1>4. /\ DOMAIN marked = DOMAIN slots /\ marked[s0].state = "Written"
      /\ \A s \in DOMAIN slots : marked[s].end = slots[s].end
      /\ \A s \in DOMAIN slots : s # s0 => marked[s] = slots[s]
  BY <1>3, Zenon DEF LogInv, TypeOK
<1>5. \A s \in DOMAIN slots : marked[s].state \in {"WriteComplete", "Written"}
                                => Bytes(s, marked[s].end) \subseteq file
  BY <1>3, <1>4 DEF LogInv, WrittenInv
<1>6. /\ DOMAIN slots' \subseteq DOMAIN slots
      /\ \A s \in DOMAIN slots : s \in DOMAIN slots' <=> s >= r
      /\ \A s \in DOMAIN slots' : slots'[s] = marked[s]
  BY <1>1, <1>4, Zenon
<1> HIDE DEF marked
<1>7. ready_lsn' <= next_lsn' /\ r \in Nat /\ ready_lsn \in Nat /\ next_lsn \in Nat
      /\ r >= ready_lsn /\ \A s \in DOMAIN slots : s \in Nat /\ slots[s].end \in Nat
  BY <1>1, <1>2, LsnAssumption DEF LogInv, TypeOK, Lsn
<1>8. ReadyPrefixWritten'
  <2>1. ASSUME NEW b \in ready_lsn .. r - 1 PROVE b \in file
    <3>1. PICK s \in DOMAIN slots : s <= b /\ b < slots[s].end
      BY <1>1, <1>7 DEF LogInv, SlotsTile, Bytes
    <3>2. ready_lsn <= s /\ s < r
      BY <1>7, <3>1 DEF LogInv, SlotsTile
    <3>3. marked[s].state = "Written"
      BY <1>1, <1>4, <3>2, Zenon DEF WalkEnds, Written
    <3> QED BY <1>4, <1>5, <1>7, <3>1, <3>3 DEF Bytes
  <2>2. Bytes(InitialLsn, ready_lsn) \subseteq file
    BY Zenon DEF LogInv, ReadyPrefixWritten
  <2> QED BY <1>1, <1>2, <1>7, <2>1, <2>2, LsnAssumption
             DEF ReadyPrefixWritten, Bytes
<1>9. WrittenInv'
  BY <1>2, <1>5, <1>6, Zenon DEF WrittenInv
<1>10. SlotsTile'
  <2>1. \A s \in DOMAIN slots : s < r => slots[s].end <= r
    <3> SUFFICES ASSUME NEW s \in DOMAIN slots, s < r PROVE slots[s].end <= r
      BY Zenon
    <3>1. ready_lsn <= s
      BY Zenon DEF LogInv, SlotsTile
    <3>2. PICK u \in DOMAIN slots : u < r /\ slots[u].end = r
      BY <1>1, <1>4, <1>7, <3>1 DEF WalkEnds
    <3>3. s < u \/ s = u \/ u < s
      BY <1>7
    <3> QED BY <1>7, <3>2, <3>3 DEF LogInv, SlotsTile
  <2>2. ASSUME NEW b \in Bytes(ready_lsn', next_lsn')
        PROVE  \E s \in DOMAIN slots' : s <= b /\ b < slots'[s].end
    <3>1. PICK s \in DOMAIN slots : s <= b /\ b < slots[s].end
      BY <1>1, <1>2, <1>7 DEF LogInv, SlotsTile, Bytes
    <3>2. s >= r
      BY <1>1, <1>2, <1>7, <2>1, <3>1 DEF Bytes
    <3> QED BY <1>4, <1>6, <3>1, <3>2, Zenon
  <2>3. \A s \in DOMAIN slots' : ready_lsn' <= s /\ s < slots'[s].end
                                   /\ slots'[s].end <= next_lsn'
    BY <1>1, <1>2, <1>4, <1>6, Zenon DEF LogInv, SlotsTile
  <2>4. \A s, u \in DOMAIN slots' : s < u => slots'[s].end <= u
    BY <1>4, <1>6 DEF LogInv, SlotsTile
  <2> QED BY <2>2, <2>3, <2>4, Zenon DEF SlotsTile
<1>11. OwnerInv'
  <2>1. ASSUME NEW u \in Threads, pc'[u] \in Owning
        PROVE  /\ rec'[u].start \in DOMAIN slots'
               /\ slots'[rec'[u].start]
                    = [state |-> OwnedState(pc'[u]), end |-> rec'[u].end]
               /\ pc'[u] = "wrote" => Bytes(rec'[u].start, rec'[u].end) \subseteq file'
    <3>1. u # t /\ pc'[u] = pc[u]
      BY <1>2, <2>1, Zenon DEF LogInv, TypeOK, Owning
    <3>2. /\ rec[u].start \in DOMAIN slots /\ rec[u].start # s0
          /\ slots[rec[u].start] = [state |-> OwnedState(pc[u]), end |-> rec[u].end]
          /\ pc[u] = "wrote" => Bytes(rec[u].start, rec[u].end) \subseteq file
      BY <1>2, <2>1, <3>1, Zenon DEF LogInv, OwnerInv, Owning
    <3>3. marked[rec[u].start].state # "Written"
      BY <1>4, <2>1, <3>1, <3>2 DEF OwnedState, Owning
    <3>4. rec[u].start >= r
      BY <1>1, <1>4, <1>7, <3>2, <3>3 DEF WalkEnds, Written, LogInv, SlotsTile
    <3> QED BY <1>2, <1>4, <1>6, <3>1, <3>2, <3>4, Zenon
  <2>2. \A u, v \in Threads : pc'[u] \in Owning /\ pc'[v] \in Owning /\ u # v
           => rec'[u].start # rec'[v].start
    BY <1>2, Zenon DEF LogInv, OwnerInv, TypeOK, Owning
  <2> QED BY <2>1, <2>2, Zenon DEF OwnerInv
<1> QED BY <1>7, <1>8, <1>9, <1>10, <1>11, Zenon DEF LogInv

\* reserve: the new slot extends the tiling at the reservation frontier.
LEMMA ReserveStep ==
  ASSUME LogInv, TypeOK', NEW t \in Threads, Reserve(t)
  PROVE  LogInv'
<1>1. PICK n \in RecordLens :
        /\ next_lsn' = next_lsn + n
        /\ PutSlot(next_lsn, "Reserved", next_lsn + n)
        /\ rec' = [rec EXCEPT ![t] = [start |-> next_lsn, end |-> next_lsn + n]]
  BY Zenon DEF Reserve
<1>2. /\ n \in Nat /\ n > 0 /\ next_lsn \in Nat /\ ready_lsn \in Nat
      /\ ready_lsn <= next_lsn /\ ready_lsn' = ready_lsn /\ file' = file
      /\ \A s \in DOMAIN slots : s \in Nat /\ slots[s].end \in Nat
  BY LsnAssumption DEF LogInv, TypeOK, Lsn, Reserve
<1>3. /\ pc[t] \notin Owning /\ pc'[t] = "reserved"
      /\ \A u \in Threads : u # t => pc'[u] = pc[u] /\ rec'[u] = rec[u]
      /\ rec'[t] = [start |-> next_lsn, end |-> next_lsn + n]
  BY <1>1, Zenon DEF Reserve, At, Goto, LogInv, TypeOK, Owning
<1>4. next_lsn \notin DOMAIN slots
  BY <1>2 DEF LogInv, SlotsTile
<1>5. /\ DOMAIN slots' = DOMAIN slots \cup {next_lsn}
      /\ slots'[next_lsn] = [state |-> "Reserved", end |-> next_lsn + n]
      /\ \A s \in DOMAIN slots : slots'[s] = slots[s]
  BY <1>1, <1>4, Zenon DEF PutSlot
<1>6. SlotsTile'
  <2>1. ASSUME NEW b \in Bytes(ready_lsn', next_lsn')
        PROVE  \E s \in DOMAIN slots' : s <= b /\ b < slots'[s].end
    <3>1. CASE b < next_lsn
      <4>1. PICK s \in DOMAIN slots : s <= b /\ b < slots[s].end
        BY <1>2, <3>1 DEF LogInv, SlotsTile, Bytes
      <4> QED BY <1>5, <4>1, Zenon
    <3>2. CASE b >= next_lsn
      BY <1>1, <1>2, <1>5, <3>2 DEF Bytes
    <3> QED BY <1>1, <1>2, <3>1, <3>2 DEF Bytes
  <2>2. \A s \in DOMAIN slots' : ready_lsn' <= s /\ s < slots'[s].end
                                   /\ slots'[s].end <= next_lsn'
    BY <1>1, <1>2, <1>5 DEF LogInv, SlotsTile
  <2>3. \A s, u \in DOMAIN slots' : s < u => slots'[s].end <= u
    BY <1>2, <1>5 DEF LogInv, SlotsTile
  <2> QED BY <2>1, <2>2, <2>3, Zenon DEF SlotsTile
<1>7. OwnerInv'
  <2>1. ASSUME NEW u \in Threads, pc'[u] \in Owning, u # t
        PROVE  /\ rec'[u].start \in DOMAIN slots /\ rec'[u].start # next_lsn
               /\ slots'[rec'[u].start]
                    = [state |-> OwnedState(pc'[u]), end |-> rec'[u].end]
               /\ pc'[u] = "wrote" => Bytes(rec'[u].start, rec'[u].end) \subseteq file'
    BY <1>2, <1>3, <1>4, <1>5, <2>1 DEF LogInv, OwnerInv
  <2>2. \A u, v \in Threads : pc'[u] \in Owning /\ pc'[v] \in Owning /\ u # v
           => rec'[u].start # rec'[v].start
    <3>1. rec'[t].start = next_lsn
      BY <1>3
    <3>2. \A u, v \in Threads \ {t} : pc'[u] \in Owning /\ pc'[v] \in Owning
             /\ u # v => rec'[u].start # rec'[v].start
      BY <1>3 DEF LogInv, OwnerInv
    <3> QED BY <2>1, <3>1, <3>2, Zenon
  <2>3. /\ rec'[t].start \in DOMAIN slots'
        /\ slots'[rec'[t].start] = [state |-> OwnedState(pc'[t]), end |-> rec'[t].end]
    BY <1>3, <1>5 DEF OwnedState
  <2> QED BY <1>3, <1>5, <2>1, <2>2, <2>3, Zenon DEF OwnerInv
<1>8. WrittenInv'
  BY <1>2, <1>5 DEF LogInv, WrittenInv
<1>9. ReadyPrefixWritten' /\ ready_lsn' <= next_lsn'
  BY <1>1, <1>2 DEF LogInv, ReadyPrefixWritten
<1> QED BY <1>6, <1>7, <1>8, <1>9, Zenon DEF LogInv

\* The empty slot map of LogManager::new tiles the empty range of bytes.
LEMMA LogInit == Init => LogInv
<1> SUFFICES ASSUME Init PROVE LogInv
    BY Zenon
<1>1. DOMAIN slots = {} /\ Bytes(InitialLsn, InitialLsn) = {}
  BY LsnAssumption DEF Init, Bytes
<1>2. SlotsTile /\ WrittenInv /\ ReadyPrefixWritten /\ ready_lsn <= next_lsn
  BY <1>1, LsnAssumption DEF Init, SlotsTile, WrittenInv, ReadyPrefixWritten
<1>3. OwnerInv
  BY Zenon DEF Init, OwnerInv, Owning
<1> QED BY <1>2, <1>3, TypeInit, Zenon DEF LogInv

\* No step of any thread breaks the tiling, the ownership of slots or the
\* prefix below ready_lsn.
LEMMA LogNext == LogInv /\ [Next]_vars => LogInv'
<1> SUFFICES ASSUME LogInv, [Next]_vars PROVE LogInv'
    BY Zenon
<1>0. TypeOK /\ TypeOK'
  BY TypeNext, Zenon DEF LogInv
<1>1. CASE UNCHANGED vars
  BY <1>0, <1>1, QuietStep, Zenon DEF vars, logVars, threadVars
<1>2. ASSUME NEW t \in Threads, Reserve(t) PROVE LogInv'
  BY <1>0, <1>2, ReserveStep, Zenon
<1>3. ASSUME NEW t \in Threads, CallSync(t) \/ Return(t) PROVE LogInv'
  <2>1. UNCHANGED <<next_lsn, ready_lsn, slots>> /\ file' = file
    BY <1>3, Zenon DEF CallSync, Return, logVars
  <2>2. /\ pc'[t] \notin Owning
        /\ \A u \in Threads : u # t => pc'[u] = pc[u] /\ rec'[u] = rec[u]
    <3>1. CASE CallSync(t)
      BY <1>0, <3>1, Zenon DEF CallSync, Goto, TypeOK, Owning
    <3>2. CASE Return(t)
      BY <1>0, <3>2, Zenon DEF Return, Goto, TypeOK, Owning
    <3> QED BY <1>3, <3>1, <3>2, Zenon
  <2> QED BY <1>0, <2>1, <2>2, QuietStep, Zenon
<1>4. ASSUME NEW t \in Threads, Append(t) PROVE LogInv'
  <2>1. CASE BeginWrite(t)
    <3>1. /\ pc[t] \in Owning /\ PutSlot(rec[t].start, "Writing", rec[t].end)
          /\ UNCHANGED <<next_lsn, ready_lsn, rec>> /\ file' = file
          /\ \A u \in Threads : u # t => pc'[u] = pc[u]
          /\ pc'[t] = "writing"
      BY <1>0, <2>1, Zenon DEF BeginWrite, At, Goto, threadVars, TypeOK, Owning
    <3> QED BY <1>0, <3>1, SlotStep, Zenon DEF SlotStates, OwnedState
  <2>2. CASE AbandonReservation(t) \/ WriteFileFails(t)
    <3>1. /\ pc[t] \in Owning /\ PutSlot(rec[t].start, "Poisoned", rec[t].end)
          /\ UNCHANGED <<next_lsn, ready_lsn, rec>> /\ file \subseteq file'
          /\ \A u \in Threads : u # t => pc'[u] = pc[u]
          /\ pc'[t] \notin Owning
      BY <1>0, <2>2 DEF AbandonReservation, WriteFileFails, PoisonSlot, Poison,
                        At, Goto, threadVars, TypeOK, Owning
    <3> QED BY <1>0, <3>1, SlotStep, Zenon DEF SlotStates
  <2>3. CASE WriteFile(t)
    <3>1. /\ UNCHANGED <<next_lsn, ready_lsn, slots, rec>>
          /\ file' = file \cup Bytes(rec[t].start, rec[t].end)
          /\ \A u \in Threads : u # t => pc'[u] = pc[u]
          /\ pc[t] = "writing" /\ pc'[t] = "wrote"
      BY <1>0, <2>3, Zenon DEF WriteFile, At, Goto, logVars, threadVars, TypeOK
    <3>2. OwnerInv'
      BY <3>1 DEF LogInv, OwnerInv, Owning, OwnedState
    <3> QED BY <1>0, <3>1, <3>2 DEF LogInv, SlotsTile, WrittenInv,
                                    ReadyPrefixWritten
  <2>4. CASE FinishWrite(t)
    <3>1. /\ pc[t] = "wrote"
          /\ PutSlot(rec[t].start, "WriteComplete", rec[t].end)
          /\ UNCHANGED <<next_lsn, ready_lsn, rec>> /\ file' = file
          /\ \A u \in Threads : u # t => pc'[u] = pc[u]
          /\ pc'[t] = "complete"
      BY <1>0, <2>4, Zenon DEF FinishWrite, At, Goto, threadVars, TypeOK
    <3>2. pc[t] \in Owning /\ Bytes(rec[t].start, rec[t].end) \subseteq file
      BY <3>1, Zenon DEF LogInv, OwnerInv, Owning
    <3> QED BY <1>0, <3>1, <3>2, SlotStep, Zenon DEF SlotStates, OwnedState
  <2>5. CASE MarkWritten(t)
    BY <1>0, <2>5, MarkStep, Zenon
  <2>6. CASE AppendFails(t) \/ CallWaitReady(t) \/ CallWaitDurable(t)
    <3>1. /\ UNCHANGED <<next_lsn, ready_lsn, slots, rec>> /\ file' = file
          /\ \A u \in Threads : pc'[u] \in Owning => pc'[u] = pc[u]
      BY <1>0, <2>6 DEF AppendFails, CallWaitReady, CallWaitDurable, At, Goto,
                        logVars, threadVars, TypeOK, Owning
    <3> QED BY <1>0, <3>1, QuietStep, Zenon
  <2> QED BY <1>4, <2>1, <2>2, <2>3, <2>4, <2>5, <2>6, Zenon DEF Append
<1>5. ASSUME NEW t \in Threads, Await(t) PROVE LogInv'
  <2>1. /\ UNCHANGED <<next_lsn, ready_lsn, slots, rec>> /\ file' = file
        /\ \A u \in Threads : pc'[u] \in Owning => pc'[u] = pc[u]
    BY <1>0, <1>5 DEF Await, ReadyReached, ReadyPark, WaitFails, At, Goto,
                      logVars, threadVars, TypeOK, Owning
  <2> QED BY <1>0, <2>1, QuietStep, Zenon
<1>6. ASSUME NEW t \in Threads, Sync(t) PROVE LogInv'
  <2>1. /\ UNCHANGED <<next_lsn, ready_lsn, slots, rec>> /\ file' = file
        /\ \A u \in Threads : pc'[u] \in Owning => pc'[u] = pc[u]
    BY <1>0, <1>6 DEF Sync, SyncLoop, SyncCheck, Elect, CloseSyncTarget,
         CloseFails, SyncData, SyncDataFails, Poison, StoreDurable, ClearLeader,
         WakeFollowers, FollowTest, FollowPark, At, Goto, logVars, threadVars,
         TypeOK, Owning
  <2> QED BY <1>0, <2>1, QuietStep, Zenon
<1> QED BY <1>1, <1>2, <1>3, <1>4, <1>5, <1>6, Zenon DEF Next

\* The ready frontier never passes a hole: whatever order the writers finish
\* in and wherever one fails, every byte below ready_lsn has been written.
THEOREM ReadyPrefix == Spec => []ReadyPrefixWritten
<1>1. LogInv => ReadyPrefixWritten
  BY Zenon DEF LogInv
<1> QED BY <1>1, LogInit, LogNext, PTL DEF Spec

\* The slot map tiles the bytes from the ready to the reservation frontier.
THEOREM Tiling == Spec => []SlotsTile
<1>1. LogInv => SlotsTile
  BY Zenon DEF LogInv
<1> QED BY <1>1, LogInit, LogNext, PTL DEF Spec

-----------------------------------------------------------------------------
(* The group-commit leader. *)

Leading == {"closing", "syncing", "synced", "stored"}
Closed == {"syncing", "synced"}
PastReady == {"okReady", "syncLoop", "syncCheck", "elect", "closing", "syncing",
              "synced", "stored", "cleared", "follow", "parking", "okDurable"}

\* Before a poison there is one leader and the flag says so; a poison clears
\* the flag, but then no second thread can close a sync target.
LeaderInv ==
  /\ poisoned = "none" =>
       /\ \A t \in Threads : pc[t] \in Leading => sync_in_progress
       /\ \A t, u \in Threads : pc[t] \in Leading /\ pc[u] \in Leading => t = u
  /\ \A t, u \in Threads : pc[t] \in Closed /\ pc[u] \in Closed => t = u

\* What the leader's snapshot covers, and what the others may rely on.
DurableInv ==
  /\ durable_lsn <= ready_lsn
  /\ Bytes(InitialLsn, durable_lsn) \subseteq disk
  /\ \A t \in Threads : pc[t] \in Closed =>
       /\ durable_lsn <= sync_target[t] /\ sync_target[t] <= ready_lsn
       /\ Bytes(InitialLsn, sync_target[t]) \subseteq issued[t]
       /\ pc[t] = "synced" => Bytes(InitialLsn, sync_target[t]) \subseteq disk
  /\ \A t \in Threads : pc[t] \in PastReady => target[t] <= ready_lsn
  /\ \A t \in Threads : pc[t] = "okDurable" => target[t] <= durable_lsn

SyncInv == LogInv /\ LeaderInv /\ DurableInv

\* A new manager has no leader and nothing beyond its durable frontier.
LEMMA SyncInit == Init => SyncInv
<1> SUFFICES ASSUME Init PROVE SyncInv
    BY Zenon
<1>1. LogInv
  BY LogInit, Zenon
<1>2. LeaderInv
  BY Zenon DEF Init, LeaderInv, Leading, Closed
<1>3. DurableInv
  BY LsnAssumption DEF Init, DurableInv, Bytes, PastReady, Closed
<1> QED BY <1>1, <1>2, <1>3, Zenon DEF SyncInv

\* A step in which the poison, the flag and the leaders stay as they are, or
\* leaders only leave.
LEMMA LeaderQuiet ==
  ASSUME LeaderInv, poisoned' = poisoned, sync_in_progress' = sync_in_progress,
         \A t \in Threads : /\ pc'[t] \in Leading => pc[t] \in Leading
                            /\ pc'[t] \in Closed => pc[t] \in Closed
  PROVE  LeaderInv'
  BY Zenon DEF LeaderInv

\* A step that poisons the manager.
LEMMA LeaderPoison ==
  ASSUME LeaderInv, poisoned' # "none",
         \A t \in Threads : pc'[t] \in Closed => pc[t] \in Closed
  PROVE  LeaderInv'
  BY Zenon DEF LeaderInv

\* The compare_exchange keeps at most one unpoisoned leader in its section.
LEMMA LeaderNext == TypeOK /\ LeaderInv /\ [Next]_vars => LeaderInv'
<1> SUFFICES ASSUME TypeOK, LeaderInv, [Next]_vars PROVE LeaderInv'
    BY Zenon
<1> USE DEF Leading, Closed
<1>1. CASE UNCHANGED vars
  BY <1>1, LeaderQuiet, Zenon DEF vars, logVars, threadVars
<1>2. ASSUME NEW t \in Threads, Reserve(t) \/ CallSync(t) \/ Return(t)
      PROVE  LeaderInv'
  <2>1. /\ poisoned' = poisoned /\ sync_in_progress' = sync_in_progress
        /\ pc'[t] \notin Leading /\ \A u \in Threads : u # t => pc'[u] = pc[u]
    BY <1>2 DEF Reserve, CallSync, Return, Goto, logVars, TypeOK
  <2> QED BY <2>1, LeaderQuiet, Zenon
<1>3. ASSUME NEW t \in Threads, Append(t) PROVE LeaderInv'
  <2>1. CASE AbandonReservation(t) \/ WriteFileFails(t)
    <3>1. poisoned' # "none" /\ pc' = [pc EXCEPT ![t] = "failed"]
      BY <2>1 DEF AbandonReservation, WriteFileFails, PoisonSlot, Poison, Goto,
                  WriteFailure
    <3> QED BY <3>1, LeaderPoison, Zenon DEF TypeOK
  <2>2. ASSUME \/ BeginWrite(t) \/ WriteFile(t) \/ FinishWrite(t)
               \/ MarkWritten(t) \/ AppendFails(t) \/ CallWaitReady(t)
               \/ CallWaitDurable(t)
        PROVE LeaderInv'
    <3>1. /\ poisoned' = poisoned /\ sync_in_progress' = sync_in_progress
          /\ pc'[t] \notin Leading /\ \A u \in Threads : u # t => pc'[u] = pc[u]
      BY <2>2 DEF BeginWrite, WriteFile, FinishWrite, MarkWritten, AppendFails,
           CallWaitReady, CallWaitDurable, Goto, logVars, TypeOK
    <3> QED BY <3>1, LeaderQuiet, Zenon
  <2> QED BY <1>3, <2>1, <2>2, Zenon DEF Append
<1>4. ASSUME NEW t \in Threads, Await(t) PROVE LeaderInv'
  <2>1. /\ poisoned' = poisoned /\ sync_in_progress' = sync_in_progress
        /\ pc'[t] = pc[t] \/ pc'[t] \notin Leading
        /\ \A u \in Threads : u # t => pc'[u] = pc[u]
    BY <1>4, Zenon DEF Await, ReadyReached, ReadyPark, WaitFails, Goto, logVars, TypeOK
  <2> QED BY <2>1, LeaderQuiet, Zenon
<1>5. ASSUME NEW t \in Threads, Sync(t) PROVE LeaderInv'
  <2>1. CASE SyncLoop(t) \/ SyncCheck(t) \/ WakeFollowers(t) \/ FollowTest(t)
             \/ FollowPark(t)
    <3>1. /\ poisoned' = poisoned /\ sync_in_progress' = sync_in_progress
          /\ pc'[t] \notin Leading /\ \A u \in Threads : u # t => pc'[u] = pc[u]
      BY <2>1 DEF SyncLoop, SyncCheck, WakeFollowers, FollowTest, FollowPark,
                  Goto, logVars, TypeOK
    <3> QED BY <3>1, LeaderQuiet, Zenon
  <2>2. CASE Elect(t)
    <3>1. /\ poisoned' = poisoned /\ sync_in_progress' = TRUE
          /\ \A u \in Threads : u # t => pc'[u] = pc[u]
          /\ pc'[t] \notin Closed /\ (pc'[t] \in Leading => ~ sync_in_progress)
      BY <2>2, Zenon DEF Elect, Goto, TypeOK
    <3> QED BY <3>1, Zenon DEF LeaderInv
  <2>3. CASE CloseSyncTarget(t)
    <3>1. /\ poisoned = "none" /\ pc[t] = "closing" /\ pc'[t] = "syncing"
          /\ \A u \in Threads : u # t => pc'[u] = pc[u]
          /\ poisoned' = poisoned /\ sync_in_progress' = sync_in_progress
      BY <2>3, Zenon DEF CloseSyncTarget, At, Goto, logVars, TypeOK
    <3> QED BY <3>1 DEF LeaderInv
  <2>4. CASE CloseFails(t) \/ SyncDataFails(t)
    <3>1. poisoned' # "none" /\ pc' = [pc EXCEPT ![t] = "failed"]
      BY <2>4, Zenon DEF CloseFails, SyncDataFails, Poison, Goto, SyncFailure
    <3> QED BY <3>1, LeaderPoison, Zenon DEF TypeOK
  <2>5. CASE SyncData(t) \/ StoreDurable(t)
    <3>1. /\ poisoned' = poisoned /\ sync_in_progress' = sync_in_progress
          /\ pc[t] \in Closed /\ \A u \in Threads : u # t => pc'[u] = pc[u]
      BY <2>5, Zenon DEF SyncData, StoreDurable, At, Goto, logVars, TypeOK
    <3> QED BY <3>1, LeaderQuiet, Zenon
  <2>6. CASE ClearLeader(t)
    <3>1. /\ poisoned' = poisoned /\ pc[t] \in Leading /\ pc'[t] \notin Leading
          /\ \A u \in Threads : u # t => pc'[u] = pc[u]
      BY <2>6, Zenon DEF ClearLeader, At, Goto, TypeOK
    <3> QED BY <3>1, Zenon DEF LeaderInv
  <2> QED BY <1>5, <2>1, <2>2, <2>3, <2>4, <2>5, <2>6, Zenon DEF Sync
<1> QED BY <1>1, <1>2, <1>3, <1>4, <1>5, Zenon DEF Next

\* A step that leaves durable_lsn, the disk and the closed leaders alone.
LEMMA DurableQuiet ==
  ASSUME TypeOK, TypeOK', DurableInv, durable_lsn' = durable_lsn, disk' = disk,
         ready_lsn' >= ready_lsn,
         \A t \in Threads :
           /\ pc'[t] \in Closed => /\ pc'[t] = pc[t] /\ issued'[t] = issued[t]
                                   /\ sync_target'[t] = sync_target[t]
           /\ pc'[t] \in PastReady => pc[t] \in PastReady /\ target'[t] = target[t]
           /\ pc'[t] = "okDurable" => pc[t] = "okDurable"
  PROVE  DurableInv'
<1>1. /\ ready_lsn \in Nat /\ ready_lsn' \in Nat /\ durable_lsn \in Nat
      /\ \A t \in Threads : target[t] \in Nat /\ sync_target[t] \in Nat
  BY LsnAssumption DEF TypeOK, Lsn
<1>2. durable_lsn' <= ready_lsn' /\ Bytes(InitialLsn, durable_lsn') \subseteq disk'
  BY <1>1 DEF DurableInv
<1>3. \A t \in Threads : pc'[t] \in Closed =>
       /\ durable_lsn' <= sync_target'[t] /\ sync_target'[t] <= ready_lsn'
       /\ Bytes(InitialLsn, sync_target'[t]) \subseteq issued'[t]
       /\ pc'[t] = "synced" => Bytes(InitialLsn, sync_target'[t]) \subseteq disk'
  BY <1>1 DEF DurableInv
<1>4. \A t \in Threads : /\ pc'[t] \in PastReady => target'[t] <= ready_lsn'
                         /\ pc'[t] = "okDurable" => target'[t] <= durable_lsn'
  BY <1>1 DEF DurableInv, PastReady
<1> QED BY <1>2, <1>3, <1>4, Zenon DEF DurableInv

\* What a leader has closed, synced or stored stays covered by the disk, and
\* durable_lsn never passes it.
LEMMA DurableNext == SyncInv /\ [Next]_vars => DurableInv'
<1> SUFFICES ASSUME SyncInv, [Next]_vars PROVE DurableInv'
    BY Zenon
<1>0. TypeOK /\ TypeOK' /\ DurableInv /\ LeaderInv /\ ReadyPrefixWritten
  BY TypeNext, Zenon DEF SyncInv, LogInv
<1>n. /\ ready_lsn \in Nat /\ durable_lsn \in Nat /\ InitialLsn \in Nat
      /\ \A t \in Threads : target[t] \in Nat /\ sync_target[t] \in Nat
  BY <1>0, LsnAssumption DEF TypeOK, Lsn
<1> USE DEF Closed
<1>1. CASE UNCHANGED vars
  BY <1>0, <1>1, <1>n, DurableQuiet DEF vars, logVars, threadVars
<1>2. ASSUME NEW t \in Threads, Reserve(t) \/ CallSync(t) \/ Return(t)
      PROVE  DurableInv'
  <2>1. UNCHANGED <<durable_lsn, disk, ready_lsn>>
    BY <1>2, Zenon DEF Reserve, CallSync, Return, logVars
  <2>2. pc'[t] \notin Closed \cup PastReady
    BY <1>0, <1>2 DEF Reserve, CallSync, Return, Goto, TypeOK, PastReady
  <2>3. ASSUME NEW u \in Threads, u # t
        PROVE  /\ pc'[u] = pc[u] /\ target'[u] = target[u]
               /\ sync_target'[u] = sync_target[u] /\ issued'[u] = issued[u]
    <3>1. CASE Reserve(t)
      BY <1>0, <2>3, <3>1, Zenon DEF Reserve, Goto, TypeOK
    <3>2. CASE CallSync(t)
      BY <1>0, <2>3, <3>2, Zenon DEF CallSync, Goto, TypeOK
    <3>3. CASE Return(t)
      BY <1>0, <2>3, <3>3, Zenon DEF Return, Goto, TypeOK
    <3> QED BY <1>2, <3>1, <3>2, <3>3, Zenon
  <2> QED BY <1>0, <1>n, <2>1, <2>2, <2>3, DurableQuiet DEF PastReady
<1>3. ASSUME NEW t \in Threads, Append(t) PROVE DurableInv'
  <2>1. UNCHANGED <<durable_lsn, disk, target, sync_target, issued>>
    BY <1>3 DEF Append, BeginWrite, AbandonReservation, WriteFile,
         WriteFileFails, FinishWrite, MarkWritten, AppendFails, CallWaitReady,
         CallWaitDurable, PoisonSlot, Poison, logVars, threadVars
  <2>2. ready_lsn' >= ready_lsn
    <3>1. CASE MarkWritten(t)
      BY <1>n, <3>1, <1>0 DEF MarkWritten, TypeOK, Lsn
    <3>2. CASE ~ MarkWritten(t)
      BY <1>n, <1>3, <3>2 DEF Append, BeginWrite, AbandonReservation, WriteFile,
           WriteFileFails, FinishWrite, AppendFails, CallWaitReady,
           CallWaitDurable, PoisonSlot, Poison, logVars, threadVars
    <3> QED BY <3>1, <3>2, Zenon
  <2>3. /\ pc'[t] \notin Closed \cup PastReady
        /\ \A u \in Threads : u # t => pc'[u] = pc[u]
    BY <1>0, <1>3 DEF Append, BeginWrite, AbandonReservation, WriteFile,
         WriteFileFails, FinishWrite, MarkWritten, AppendFails, CallWaitReady,
         CallWaitDurable, Goto, TypeOK, PastReady
  <2> QED BY <1>0, <2>1, <2>2, <2>3, DurableQuiet, Zenon DEF PastReady
<1>4. ASSUME NEW t \in Threads, Await(t) PROVE DurableInv'
  <2>1. UNCHANGED <<logVars, disk, threadVars>>
    BY <1>4, Zenon DEF Await, ReadyReached, ReadyPark, WaitFails
  <2>2. CASE ReadyReached(t)
    <3>1. /\ pc'[t] \in {"okReady", "syncLoop"} /\ target[t] <= ready_lsn
          /\ \A u \in Threads : u # t => pc'[u] = pc[u]
      BY <1>0, <1>n, <2>2, Zenon DEF ReadyReached, Goto, TypeOK
    <3> QED BY <1>0, <2>1, <3>1, Zenon DEF DurableInv, logVars, threadVars, PastReady
  <2>3. CASE ReadyPark(t) \/ WaitFails(t)
    <3>1. /\ pc'[t] = pc[t] \/ pc'[t] = "failed"
          /\ \A u \in Threads : u # t => pc'[u] = pc[u]
      BY <1>0, <2>3, Zenon DEF ReadyPark, WaitFails, Goto, TypeOK
    <3>2. \A u \in Threads : pc'[u] = pc[u] \/ pc'[u] = "failed"
      BY <3>1, Zenon
    <3>3. ready_lsn' >= ready_lsn /\ durable_lsn' = durable_lsn /\ disk' = disk
          /\ UNCHANGED <<issued, sync_target, target>>
      BY <1>n, <2>1 DEF logVars, threadVars
    <3> QED BY <1>0, <3>2, <3>3, DurableQuiet, Zenon DEF PastReady, Closed
  <2> QED BY <1>4, <2>2, <2>3, Zenon DEF Await
<1>5. ASSUME NEW t \in Threads, Sync(t) PROVE DurableInv'
  <2>0. UNCHANGED <<ready_lsn, target>>
    BY <1>5 DEF Sync, SyncLoop, SyncCheck, Elect, CloseSyncTarget, CloseFails,
         SyncData, SyncDataFails, Poison, StoreDurable, ClearLeader,
         WakeFollowers, FollowTest, FollowPark, logVars, threadVars
  <2>1. CASE SyncLoop(t)
    <3>1. /\ UNCHANGED <<durable_lsn, disk, sync_target, issued>>
          /\ pc[t] = "syncLoop" /\ pc'[t] \in {"okDurable", "syncCheck"}
          /\ pc'[t] = "okDurable" => durable_lsn >= target[t]
          /\ \A u \in Threads : u # t => pc'[u] = pc[u]
      BY <1>0, <2>1, Zenon DEF SyncLoop, At, Goto, logVars, threadVars, TypeOK
    <3> QED BY <1>0, <1>n, <2>0, <3>1, Zenon DEF DurableInv, PastReady
  <2>2. CASE SyncCheck(t) \/ Elect(t) \/ CloseFails(t) \/ SyncDataFails(t)
             \/ ClearLeader(t) \/ WakeFollowers(t) \/ FollowTest(t)
             \/ FollowPark(t)
    <3>1. UNCHANGED <<durable_lsn, disk, sync_target, issued>>
      BY <2>2 DEF SyncCheck, Elect, CloseFails, SyncDataFails, Poison,
           ClearLeader, WakeFollowers, FollowTest, FollowPark, logVars,
           threadVars
    <3>2. /\ pc'[t] \in PastReady => pc[t] \in PastReady
          /\ pc'[t] \notin Closed \cup {"okDurable"}
          /\ \A u \in Threads : u # t => pc'[u] = pc[u]
      BY <1>0, <2>2 DEF SyncCheck, Elect, CloseFails, SyncDataFails,
           ClearLeader, WakeFollowers, FollowTest, FollowPark, At, Goto, TypeOK,
           PastReady
    <3> QED BY <1>0, <1>n, <2>0, <3>1, <3>2, DurableQuiet
  <2>3. CASE CloseSyncTarget(t)
    <3>1. /\ UNCHANGED <<durable_lsn, disk>>
          /\ pc[t] = "closing" /\ pc'[t] = "syncing"
          /\ sync_target'[t] = ready_lsn /\ issued'[t] = file
          /\ \A u \in Threads : u # t =>
               /\ pc'[u] = pc[u] /\ issued'[u] = issued[u]
               /\ sync_target'[u] = sync_target[u]
      BY <1>0, <2>3, Zenon DEF CloseSyncTarget, At, Goto, logVars, TypeOK
    <3>2. durable_lsn <= ready_lsn /\ Bytes(InitialLsn, durable_lsn) \subseteq disk
      BY <1>0, Zenon DEF DurableInv
    <3>3. /\ durable_lsn' <= sync_target'[t] /\ sync_target'[t] <= ready_lsn'
          /\ (Bytes(InitialLsn, sync_target[t]) \subseteq issued[t])'
          /\ pc'[t] # "synced"
      BY <1>0, <1>n, <2>0, <3>1, <3>2 DEF ReadyPrefixWritten
    <3>4. ASSUME NEW u \in Threads, u # t, pc'[u] \in Closed
          PROVE  /\ durable_lsn' <= sync_target'[u] /\ sync_target'[u] <= ready_lsn'
                 /\ (Bytes(InitialLsn, sync_target[u]) \subseteq issued[u])'
                 /\ pc'[u] = "synced" =>
                      (Bytes(InitialLsn, sync_target[u]) \subseteq disk)'
      BY <1>0, <2>0, <3>1, <3>4, Zenon DEF DurableInv
    <3>5. ASSUME NEW u \in Threads
          PROVE  /\ pc'[u] \in PastReady => target'[u] <= ready_lsn'
                 /\ pc'[u] = "okDurable" => target'[u] <= durable_lsn'
      BY <1>0, <2>0, <3>1, Zenon DEF DurableInv, PastReady
    <3> QED BY <2>0, <3>1, <3>2, <3>3, <3>4, <3>5, Zenon DEF DurableInv
  <2>4. CASE SyncData(t)
    <3>1. /\ UNCHANGED <<durable_lsn, sync_target, issued>>
          /\ disk' = disk \cup issued[t]
          /\ pc[t] = "syncing" /\ pc'[t] = "synced"
          /\ \A u \in Threads : u # t => pc'[u] = pc[u]
      BY <1>0, <2>4, Zenon DEF SyncData, At, Goto, logVars, threadVars, TypeOK
    <3> QED BY <1>0, <1>n, <2>0, <3>1, Zenon DEF DurableInv, PastReady
  <2>5. CASE StoreDurable(t)
    <3>1. /\ UNCHANGED <<disk, sync_target, issued>>
          /\ pc[t] = "synced" /\ pc'[t] = "stored"
          /\ durable_lsn' = Minimum(sync_target[t], ready_lsn)
          /\ \A u \in Threads : u # t => pc'[u] = pc[u]
      BY <1>0, <2>5, Zenon DEF StoreDurable, At, Goto, threadVars, TypeOK
    <3>2. durable_lsn' = sync_target[t] /\ durable_lsn <= durable_lsn'
      BY <1>0, <1>n, <3>1, Zenon DEF DurableInv, Minimum
    <3>3. \A u \in Threads : pc'[u] \notin Closed
      BY <1>0, <3>1, Zenon DEF LeaderInv
    <3>4. \A u \in Threads : pc'[u] \in PastReady => pc[u] \in PastReady
      BY <3>1, Zenon DEF PastReady
    <3>5. \A u \in Threads : pc'[u] = "okDurable" => target[u] <= durable_lsn
      BY <1>0, <3>1, Zenon DEF DurableInv
    <3> QED BY <1>0, <1>n, <2>0, <3>1, <3>2, <3>3, <3>4, <3>5 DEF DurableInv
  <2> QED BY <1>5, <2>1, <2>2, <2>3, <2>4, <2>5, Zenon DEF Sync
<1> QED BY <1>1, <1>2, <1>3, <1>4, <1>5, Zenon DEF Next

\* Both halves of the group-commit invariant are kept by every step.
LEMMA SyncNext == SyncInv /\ [Next]_vars => SyncInv'
  BY LogNext, LeaderNext, DurableNext, Zenon DEF SyncInv, LogInv

\* What ensure_sync promises its caller, with any number of leaders, followers
\* and failures: Ok means that every byte below the target is on stable
\* storage, and Ok from wait_ready that every such byte is in the file.
THEOREM AckedDurable == Spec => []AckedIsDurable
<1>1. SyncInv => AckedIsDurable
  <2> SUFFICES ASSUME SyncInv, NEW t \in Threads
               PROVE  /\ pc[t] = "okDurable" => Bytes(InitialLsn, target[t]) \subseteq disk
                      /\ pc[t] = "okReady" => Bytes(InitialLsn, target[t]) \subseteq file
    BY Zenon DEF AckedIsDurable
  <2>1. /\ ready_lsn \in Nat /\ durable_lsn \in Nat /\ InitialLsn \in Nat
        /\ target[t] \in Nat
    BY LsnAssumption DEF SyncInv, LogInv, TypeOK, Lsn
  <2> QED BY <2>1 DEF SyncInv, LogInv, DurableInv, ReadyPrefixWritten, Bytes,
                      PastReady
<1> QED BY <1>1, SyncInit, SyncNext, PTL DEF Spec

\* durable_lsn and ready_lsn never move back, although durable_lsn is stored
\* and not maximised and a poison lets a second thread win the election.
THEOREM Monotone == Spec => FrontiersMonotone
<1>1. SyncInv /\ [Next]_vars =>
        [ /\ durable_lsn' >= durable_lsn
          /\ ready_lsn' >= ready_lsn
          /\ poisoned # "none" => ready_lsn' = ready_lsn ]_vars
  <2> SUFFICES ASSUME SyncInv, Next
               PROVE  /\ durable_lsn' >= durable_lsn
                      /\ ready_lsn' >= ready_lsn
                      /\ poisoned # "none" => ready_lsn' = ready_lsn
    BY Zenon
  <2>1. /\ ready_lsn \in Nat /\ durable_lsn \in Nat /\ next_lsn \in Nat
        /\ \A t \in Threads : sync_target[t] \in Nat
    BY LsnAssumption DEF SyncInv, LogInv, TypeOK, Lsn
  <2>2. ASSUME NEW t \in Threads, MarkWritten(t)
        PROVE  durable_lsn' = durable_lsn /\ ready_lsn' >= ready_lsn
               /\ poisoned = "none"
    BY <2>1, <2>2 DEF MarkWritten
  <2>3. ASSUME NEW t \in Threads, StoreDurable(t)
        PROVE  durable_lsn' >= durable_lsn /\ ready_lsn' = ready_lsn
    <3>1. durable_lsn <= sync_target[t] /\ durable_lsn <= ready_lsn
      BY <2>3, Zenon DEF StoreDurable, At, SyncInv, DurableInv, Closed
    <3>2. durable_lsn' = Minimum(sync_target[t], ready_lsn) /\ ready_lsn' = ready_lsn
      BY ONLY StoreDurable(t), Zenon DEF StoreDurable
    <3> QED BY <2>1, <3>1, <3>2 DEF Minimum
  <2>4. ASSUME NEW t \in Threads, ~ MarkWritten(t), ~ StoreDurable(t),
               \/ Reserve(t) \/ CallSync(t) \/ Return(t)
               \/ Append(t) \/ Await(t) \/ Sync(t)
        PROVE  durable_lsn' = durable_lsn /\ ready_lsn' = ready_lsn
    <3>1. CASE Reserve(t) \/ CallSync(t) \/ Return(t) \/ Await(t)
      BY <3>1, Zenon DEF Reserve, CallSync, Return, Await, ReadyReached, ReadyPark,
           WaitFails, logVars, threadVars
    <3>2. CASE Append(t)
      BY <2>4, <3>2, Zenon DEF Append, BeginWrite, AbandonReservation, WriteFile,
           WriteFileFails, FinishWrite, AppendFails, CallWaitReady, CallWaitDurable,
           PoisonSlot, Poison, logVars, threadVars
    <3>3. CASE Sync(t)
      BY <2>4, <3>3, Zenon DEF Sync, SyncLoop, SyncCheck, Elect, CloseSyncTarget,
           CloseFails, SyncData, SyncDataFails, Poison, ClearLeader, WakeFollowers,
           FollowTest, FollowPark, logVars, threadVars
    <3> QED BY <2>4, <3>1, <3>2, <3>3, Zenon
  <2> QED BY <2>1, <2>2, <2>3, <2>4 DEF Next
<1> QED BY <1>1, SyncInit, SyncNext, PTL DEF Spec, FrontiersMonotone
=============================================================================
