----------------------------- MODULE LogManager -----------------------------
(***************************************************************************)
(* The byte-LSN journal of src/src/journal/log_manager.rs: reservation of  *)
(* disjoint byte ranges, positioned writes that complete in any order, the *)
(* contiguous ready frontier, and the leader-elected group-commit          *)
(* fdatasync, with the poison that any failure after a reservation leaves. *)
(*                                                                         *)
(* A thread runs one call at a time.  `mutex' is the parking_lot mutex     *)
(* around the slot map; every action that locks it is one step, except the *)
(* follower's wait loop, where the step between the test and the park      *)
(* matters because the leader publishes without the mutex.  `waiters' is   *)
(* the set of threads parked on sync_cv.                                   *)
(*                                                                         *)
(* `file' is the set of byte offsets written to the journal file (the page *)
(* cache) and `disk' the offsets an fdatasync has made stable.             *)
(***************************************************************************)
EXTENDS Integers

CONSTANTS Threads,      \* the threads that append to and sync the journal
          NoThread,     \* nobody holds the slots mutex
          RecordLens,   \* lengths, in bytes, of the records reserved
          InitialLsn,   \* the LSN the manager is seeded with
          MaxLsn        \* bound on next_lsn

ASSUME ThreadAssumption == NoThread \notin Threads
ASSUME LsnAssumption == /\ InitialLsn \in Nat /\ MaxLsn \in Nat
                        /\ InitialLsn <= MaxLsn
                        /\ RecordLens \subseteq Nat \ {0}

VARIABLES next_lsn,          \* reservation frontier
          ready_lsn,         \* contiguous written frontier
          durable_lsn,       \* synced frontier
          slots,             \* start LSN -> [state, end], the slot map
          poisoned,          \* the first poison reason, or "none"
          sync_in_progress,  \* a sync leader is elected
          mutex,             \* holder of the slots mutex
          waiters,           \* threads parked on sync_cv
          file, disk,        \* bytes in the page cache, bytes on stable storage
          pc,                \* where each thread stands
          rec,               \* the range [start, end) each thread reserved
          target,            \* the LSN each thread waits for
          sync_target,       \* a leader's snapshot of the ready frontier
          issued             \* the bytes a leader's fdatasync covers

logVars == <<next_lsn, ready_lsn, durable_lsn, slots, poisoned,
             sync_in_progress>>
threadVars == <<rec, target, sync_target, issued>>
vars == <<logVars, mutex, waiters, file, disk, pc, threadVars>>

WriteFailure == "PostReservationLogWriteFailure"
SyncFailure == "PostDurablePublishFailure"
SlotStates == {"Reserved", "Writing", "WriteComplete", "Written", "Poisoned"}
PcStates == {"idle", "reserved", "writing", "wrote", "complete", "marked",
             "waitReady", "syncReady", "syncLoop", "syncCheck", "elect",
             "closing", "syncing", "synced", "stored", "cleared", "follow",
             "parking", "okReady", "okDurable", "failed"}
Lsn == InitialLsn .. MaxLsn
Bytes(a, b) == a .. b - 1

TypeOK ==
  /\ next_lsn \in Lsn /\ ready_lsn \in Lsn /\ durable_lsn \in Lsn
  /\ DOMAIN slots \subseteq Lsn
  /\ slots \in [DOMAIN slots -> [state : SlotStates, end : Lsn]]
  /\ poisoned \in {"none", WriteFailure, SyncFailure}
  /\ sync_in_progress \in BOOLEAN
  /\ mutex \in Threads \cup {NoThread}
  /\ waiters \subseteq Threads
  /\ file \subseteq Lsn /\ disk \subseteq Lsn
  /\ pc \in [Threads -> PcStates]
  /\ rec \in [Threads -> [start : Lsn, end : Lsn]]
  /\ target \in [Threads -> Lsn]
  /\ sync_target \in [Threads -> Lsn]
  /\ issued \in [Threads -> SUBSET Lsn]

Init ==
  /\ next_lsn = InitialLsn /\ ready_lsn = InitialLsn
  /\ durable_lsn = InitialLsn
  /\ slots = [s \in {} |-> [state |-> "Reserved", end |-> InitialLsn]]
  /\ poisoned = "none"
  /\ sync_in_progress = FALSE
  /\ mutex = NoThread /\ waiters = {}
  /\ file = {} /\ disk = {}
  /\ pc = [t \in Threads |-> "idle"]
  /\ rec = [t \in Threads |-> [start |-> InitialLsn, end |-> InitialLsn]]
  /\ target = [t \in Threads |-> InitialLsn]
  /\ sync_target = [t \in Threads |-> InitialLsn]
  /\ issued = [t \in Threads |-> {}]

-----------------------------------------------------------------------------
\* Thread t is at `from', is not parked, and moves to `to'.
At(t, from) == pc[t] = from /\ t \notin waiters
Goto(t, to) == pc' = [pc EXCEPT ![t] = to]
Locked == mutex = NoThread /\ UNCHANGED mutex
NotifyAll == waiters' = {}

\* Faulty variant: the end LSN is taken for a length.
PutSlotByLength(s, st, e) ==
  slots' = [u \in DOMAIN slots \cup {s} |->
              IF u = s THEN [state |-> st, end |-> s + e] ELSE slots[u]]

PutSlot(s, st, e) ==
  slots' = [u \in DOMAIN slots \cup {s} |->
              IF u = s THEN [state |-> st, end |-> e] ELSE slots[u]]

\* Faulty variant: the waiters are left parked.
PoisonQuietly(reason) ==
  /\ poisoned' = IF poisoned = "none" THEN reason ELSE poisoned
  /\ sync_in_progress' = FALSE
  /\ UNCHANGED <<next_lsn, ready_lsn, durable_lsn, waiters>>

\* poison_locked: the first reason is kept, the slot is marked, the leader
\* flag is cleared and every waiter is woken.
Poison(reason) ==
  /\ poisoned' = IF poisoned = "none" THEN reason ELSE poisoned
  /\ sync_in_progress' = FALSE
  /\ NotifyAll
  /\ UNCHANGED <<next_lsn, ready_lsn, durable_lsn>>

PoisonSlot(t) == Poison(WriteFailure)
                 /\ PutSlot(rec[t].start, "Poisoned", rec[t].end)

-----------------------------------------------------------------------------
(* Appending a record: reserve, write_reserved, mark_written. *)

\* Faulty variant: the reservation frontier stops one byte short.
ReserveShort(t) ==
  /\ At(t, "idle") /\ Locked /\ poisoned = "none"
  /\ \E n \in RecordLens :
       /\ next_lsn + n <= MaxLsn
       /\ next_lsn' = next_lsn + n - 1
       /\ PutSlot(next_lsn, "Reserved", next_lsn + n)
       /\ rec' = [rec EXCEPT ![t] = [start |-> next_lsn, end |-> next_lsn + n]]
       /\ target' = [target EXCEPT ![t] = next_lsn + n]
  /\ Goto(t, "reserved")
  /\ UNCHANGED <<ready_lsn, durable_lsn, poisoned, sync_in_progress, waiters,
                 file, disk, sync_target, issued>>

Reserve(t) ==
  /\ At(t, "idle") /\ Locked /\ poisoned = "none"
  /\ \E n \in RecordLens :
       /\ next_lsn + n <= MaxLsn
       /\ next_lsn' = next_lsn + n
       /\ PutSlot(next_lsn, "Reserved", next_lsn + n)
       /\ rec' = [rec EXCEPT ![t] = [start |-> next_lsn, end |-> next_lsn + n]]
       /\ target' = [target EXCEPT ![t] = next_lsn + n]
  /\ Goto(t, "reserved")
  /\ UNCHANGED <<ready_lsn, durable_lsn, poisoned, sync_in_progress, waiters,
                 file, disk, sync_target, issued>>

\* The reservation is resolved by poison_slot, called by its owner after a
\* failure or by the Drop backstop of ReservedLogRecord.
AbandonReservation(t) ==
  /\ At(t, "reserved") /\ Locked
  /\ PoisonSlot(t)
  /\ Goto(t, "failed")
  /\ UNCHANGED <<file, disk, threadVars>>

BeginWrite(t) ==
  /\ At(t, "reserved") /\ Locked
  /\ slots[rec[t].start].state = "Reserved"
  /\ poisoned = "none"
  /\ PutSlot(rec[t].start, "Writing", rec[t].end)
  /\ Goto(t, "writing")
  /\ UNCHANGED <<next_lsn, ready_lsn, durable_lsn, poisoned, sync_in_progress,
                 waiters, file, disk, threadVars>>

\* write_all_at, without the mutex.
WriteFile(t) ==
  /\ At(t, "writing")
  /\ file' = file \cup Bytes(rec[t].start, rec[t].end)
  /\ Goto(t, "wrote")
  /\ UNCHANGED <<logVars, mutex, waiters, disk, threadVars>>

\* write_all_at fails after some of the bytes: poison_slot.
WriteFileFails(t) ==
  /\ At(t, "writing") /\ Locked
  /\ \E cut \in Bytes(rec[t].start, rec[t].end) :
        file' = file \cup Bytes(rec[t].start, cut)
  /\ PoisonSlot(t)
  /\ Goto(t, "failed")
  /\ UNCHANGED <<disk, threadVars>>

FinishWrite(t) ==
  /\ At(t, "wrote") /\ Locked /\ poisoned = "none"
  /\ PutSlot(rec[t].start, "WriteComplete", rec[t].end)
  /\ Goto(t, "complete")
  /\ UNCHANGED <<next_lsn, ready_lsn, durable_lsn, poisoned, sync_in_progress,
                 waiters, file, disk, threadVars>>

Written(sl, s) == s \in DOMAIN sl /\ sl[s].state = "Written"

\* Faulty variant: the frontier jumps to the end of any written slot.
WalkJumps(sl, from, r) ==
  \E s \in DOMAIN sl : Written(sl, s) /\ r = sl[s].end

\* The walk over consecutive Written slots of sl, starting at `from', halts
\* at r.
WalkEnds(sl, from, r) ==
  /\ \A s \in DOMAIN sl : from <= s /\ s < r => Written(sl, s)
  /\ r = from \/ \E s \in DOMAIN sl : from <= s /\ s < r /\ sl[s].end = r
  /\ ~ Written(sl, r)

MarkWritten(t) ==
  /\ At(t, "complete") /\ Locked /\ poisoned = "none"
  /\ LET marked == [slots EXCEPT ![rec[t].start].state = "Written"]
     IN \E r \in ready_lsn .. next_lsn :
          /\ WalkEnds(marked, ready_lsn, r)
          /\ ready_lsn' = r
          /\ slots' = [s \in {u \in DOMAIN marked : u >= r} |-> marked[s]]
  /\ NotifyAll
  /\ Goto(t, "marked")
  /\ UNCHANGED <<next_lsn, durable_lsn, poisoned, sync_in_progress, file, disk,
                 threadVars>>

\* reserve, write_reserved or mark_written finds the manager poisoned and
\* returns EngineFatal.  write_and_mark sets `resolved' before it calls
\* write_reserved, so the Drop backstop leaves the slot as it is.
AppendFails(t) ==
  /\ At(t, pc[t]) /\ pc[t] \in {"idle", "reserved", "wrote", "complete"}
  /\ Locked /\ poisoned # "none"
  /\ Goto(t, "failed")
  /\ UNCHANGED <<logVars, waiters, file, disk, threadVars>>

-----------------------------------------------------------------------------
(* wait_ready and ensure_sync. *)

\* A relaxed commit only waits for its record to be ready.
CallWaitReady(t) ==
  /\ At(t, "marked")
  /\ Goto(t, "waitReady")
  /\ UNCHANGED <<logVars, mutex, waiters, file, disk, threadVars>>

\* A FullSync commit calls wait_durable on its record's end.
CallWaitDurable(t) ==
  /\ At(t, "marked")
  /\ Goto(t, "syncReady")
  /\ UNCHANGED <<logVars, mutex, waiters, file, disk, threadVars>>

\* journal_sync targets next_lsn, sync_journal_ready_prefix targets ready_lsn.
CallSync(t) ==
  /\ At(t, "idle")
  /\ \E lsn \in {next_lsn, ready_lsn} : target' = [target EXCEPT ![t] = lsn]
  /\ Goto(t, "syncReady")
  /\ UNCHANGED <<logVars, mutex, waiters, file, disk, rec, sync_target, issued>>

\* wait_ready, alone or as the first statement of ensure_sync.
ReadyReached(t) ==
  /\ \/ At(t, "waitReady") /\ Goto(t, "okReady")
     \/ At(t, "syncReady") /\ Goto(t, "syncLoop")
  /\ Locked /\ poisoned = "none" /\ ready_lsn >= target[t]
  /\ UNCHANGED <<logVars, waiters, file, disk, threadVars>>

ReadyPark(t) ==
  /\ At(t, "waitReady") \/ At(t, "syncReady")
  /\ Locked /\ poisoned = "none" /\ ready_lsn < target[t]
  /\ waiters' = waiters \cup {t}
  /\ UNCHANGED <<logVars, file, disk, pc, threadVars>>

\* check_poisoned in wait_ready, in ensure_sync's loop and in the follower's.
WaitFails(t) ==
  /\ At(t, pc[t]) /\ pc[t] \in {"waitReady", "syncReady", "syncCheck"}
  /\ Locked /\ poisoned # "none"
  /\ Goto(t, "failed")
  /\ UNCHANGED <<logVars, waiters, file, disk, threadVars>>

SyncLoop(t) ==
  /\ At(t, "syncLoop")
  /\ Goto(t, IF durable_lsn >= target[t] THEN "okDurable" ELSE "syncCheck")
  /\ UNCHANGED <<logVars, mutex, waiters, file, disk, threadVars>>

SyncCheck(t) ==
  /\ At(t, "syncCheck") /\ Locked /\ poisoned = "none"
  /\ Goto(t, "elect")
  /\ UNCHANGED <<logVars, waiters, file, disk, threadVars>>

\* Faulty variant: the flag is set without testing it, so everybody leads.
ElectAlways(t) ==
  /\ At(t, "elect")
  /\ Goto(t, "closing")
  /\ sync_in_progress' = TRUE
  /\ UNCHANGED <<next_lsn, ready_lsn, durable_lsn, slots, poisoned, mutex,
                 waiters, file, disk, threadVars>>

\* The compare_exchange on sync_in_progress, without the mutex.
Elect(t) ==
  /\ At(t, "elect")
  /\ Goto(t, IF sync_in_progress THEN "follow" ELSE "closing")
  /\ sync_in_progress' = TRUE
  /\ UNCHANGED <<next_lsn, ready_lsn, durable_lsn, slots, poisoned, mutex,
                 waiters, file, disk, threadVars>>

\* close_sync_target_after_wait, at the end of its bounded cohort wait.  The
\* fdatasync that follows covers at least the bytes already written here.
CloseSyncTarget(t) ==
  /\ At(t, "closing") /\ Locked /\ poisoned = "none"
  /\ sync_target' = [sync_target EXCEPT ![t] = ready_lsn]
  /\ issued' = [issued EXCEPT ![t] = file]
  /\ Goto(t, "syncing")
  /\ UNCHANGED <<logVars, waiters, file, disk, rec, target>>

CloseFails(t) ==
  /\ At(t, "closing") /\ Locked /\ poisoned # "none"
  /\ sync_in_progress' = FALSE
  /\ NotifyAll
  /\ Goto(t, "failed")
  /\ UNCHANGED <<next_lsn, ready_lsn, durable_lsn, slots, poisoned, file, disk,
                 threadVars>>

SyncData(t) ==
  /\ At(t, "syncing")
  /\ disk' = disk \cup issued[t]
  /\ Goto(t, "synced")
  /\ UNCHANGED <<logVars, mutex, waiters, file, threadVars>>

SyncDataFails(t) ==
  /\ At(t, "syncing") /\ Locked
  /\ Poison(SyncFailure) /\ UNCHANGED slots
  /\ Goto(t, "failed")
  /\ UNCHANGED <<file, disk, threadVars>>

\* The leader publishes durable_lsn, clears the flag and notifies: three steps,
\* none of which holds the mutex.
Minimum(a, b) == IF a <= b THEN a ELSE b

\* Faulty variant: the ready frontier of now, not of the sync's target.
StoreReady(t) ==
  /\ At(t, "synced")
  /\ durable_lsn' = ready_lsn
  /\ Goto(t, "stored")
  /\ UNCHANGED <<next_lsn, ready_lsn, slots, poisoned, sync_in_progress, mutex,
                 waiters, file, disk, threadVars>>

StoreDurable(t) ==
  /\ At(t, "synced")
  /\ durable_lsn' = Minimum(sync_target[t], ready_lsn)
  /\ Goto(t, "stored")
  /\ UNCHANGED <<next_lsn, ready_lsn, slots, poisoned, sync_in_progress, mutex,
                 waiters, file, disk, threadVars>>

ClearLeader(t) ==
  /\ At(t, "stored")
  /\ sync_in_progress' = FALSE
  /\ Goto(t, "cleared")
  /\ UNCHANGED <<next_lsn, ready_lsn, durable_lsn, slots, poisoned, mutex,
                 waiters, file, disk, threadVars>>

WakeFollowers(t) ==
  /\ At(t, "cleared")
  /\ NotifyAll
  /\ Goto(t, "syncLoop")
  /\ UNCHANGED <<logVars, mutex, file, disk, threadVars>>

\* The follower tests its wait condition with the mutex held ...
FollowTest(t) ==
  /\ At(t, "follow") /\ mutex = NoThread
  /\ IF durable_lsn < target[t] /\ sync_in_progress
       THEN IF poisoned = "none"
              THEN mutex' = t /\ Goto(t, "parking")
              ELSE UNCHANGED mutex /\ Goto(t, "failed")
       ELSE UNCHANGED mutex /\ Goto(t, "syncLoop")
  /\ UNCHANGED <<logVars, waiters, file, disk, threadVars>>

\* ... and Condvar::wait releases it while parking.
FollowPark(t) ==
  /\ At(t, "parking") /\ mutex = t
  /\ mutex' = NoThread
  /\ waiters' = waiters \cup {t}
  /\ Goto(t, "follow")
  /\ UNCHANGED <<logVars, file, disk, threadVars>>

\* The call has returned and its locals are gone; the thread may make another.
Return(t) ==
  /\ pc[t] \in {"okReady", "okDurable", "failed"}
  /\ Goto(t, "idle")
  /\ rec' = [rec EXCEPT ![t] = [start |-> InitialLsn, end |-> InitialLsn]]
  /\ target' = [target EXCEPT ![t] = InitialLsn]
  /\ sync_target' = [sync_target EXCEPT ![t] = InitialLsn]
  /\ issued' = [issued EXCEPT ![t] = {}]
  /\ UNCHANGED <<logVars, mutex, waiters, file, disk>>

-----------------------------------------------------------------------------
Append(t) == \/ BeginWrite(t) \/ AbandonReservation(t) \/ WriteFile(t)
             \/ WriteFileFails(t) \/ FinishWrite(t) \/ MarkWritten(t)
             \/ AppendFails(t) \/ CallWaitReady(t) \/ CallWaitDurable(t)

Await(t) == ReadyReached(t) \/ ReadyPark(t) \/ WaitFails(t)

Sync(t) == \/ SyncLoop(t) \/ SyncCheck(t) \/ Elect(t) \/ CloseSyncTarget(t)
           \/ CloseFails(t) \/ SyncData(t) \/ SyncDataFails(t)
           \/ StoreDurable(t) \/ ClearLeader(t) \/ WakeFollowers(t)
           \/ FollowTest(t) \/ FollowPark(t)

Next == \E t \in Threads : \/ Reserve(t) \/ CallSync(t) \/ Return(t)
                           \/ Append(t) \/ Await(t) \/ Sync(t)

Spec == Init /\ [][Next]_vars

\* A thread inside a call keeps running, its I/O returns, and parking_lot's
\* eventual fairness gives it the mutex it asks for infinitely often.
Running(t) == pc[t] # "idle" /\ (Append(t) \/ Await(t) \/ Sync(t))
Fairness == \A t \in Threads : SF_vars(Running(t))
FairSpec == Spec /\ Fairness

-----------------------------------------------------------------------------
(* Properties. *)

\* Every byte below the ready frontier is in the journal file: the frontier
\* moved by mark_written never passes a hole left by a slow or failed writer.
ReadyPrefixWritten == Bytes(InitialLsn, ready_lsn) \subseteq file

\* wait_durable returned Ok only if every byte below the caller's target is on
\* stable storage, whichever leader synced it; wait_ready only if every byte
\* below it is in the file.
AckedIsDurable ==
  \A t \in Threads :
    /\ pc[t] = "okDurable" => Bytes(InitialLsn, target[t]) \subseteq disk
    /\ pc[t] = "okReady" => Bytes(InitialLsn, target[t]) \subseteq file

\* The slots in the map tile the bytes between the ready and the reservation
\* frontier, so a reservation is never lost and never overlaps another.
SlotsTile ==
  /\ \A b \in Bytes(ready_lsn, next_lsn) :
       \E s \in DOMAIN slots : s <= b /\ b < slots[s].end
  /\ \A s \in DOMAIN slots :
       ready_lsn <= s /\ s < slots[s].end /\ slots[s].end <= next_lsn
  /\ \A s, u \in DOMAIN slots : s < u => slots[s].end <= u

\* durable_lsn is stored, not maximised, by whichever leader finishes; it still
\* never moves back, and the ready frontier stands still once poisoned.
FrontiersMonotone ==
  [][ /\ durable_lsn' >= durable_lsn
      /\ ready_lsn' >= ready_lsn
      /\ poisoned # "none" => ready_lsn' = ready_lsn ]_vars

\* A thread waiting for its record to be ready is released: by the frontier, or
\* by the poison that every abandoned or failed reservation leaves.
ReadyWaitEnds ==
  \A t \in Threads : pc[t] \in {"waitReady", "syncReady"}
                       ~> pc[t] \notin {"waitReady", "syncReady"}

\* ensure_sync returns: the leader "publishes durable_lsn, then wakes every
\* waiter" (log_manager.rs, Group commit).
SyncWaitEnds ==
  \A t \in Threads : pc[t] = "follow" ~> pc[t] \in {"okDurable", "failed"}
=============================================================================
