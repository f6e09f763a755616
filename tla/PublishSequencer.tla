-------------------------- MODULE PublishSequencer --------------------------
(***************************************************************************)
(* The ordered publish of src/src/storage/paged_engine/publish_sequencer.rs*)
(* with the two stores of publish.rs and the lock-free coherent load of    *)
(* state.rs.                                                               *)
(*                                                                         *)
(* A writer registers a slot (a dense publish_seq and the oracle's         *)
(* commit_ts, allocated together), does its work, and then marks the slot  *)
(* Ready or Aborted.  Whoever marks a slot, or wakes while waiting for its *)
(* own, advances the window: it runs the publish closure of every Ready    *)
(* slot at the front and skips the Aborted ones.  The sequencer mutex is   *)
(* held for the whole advance, so `mutex' names the advancing thread; but  *)
(* readers load the epoch and the frontier without it, so each of the two  *)
(* stores is a step.                                                       *)
(*                                                                         *)
(* A timestamp stands for an HLC value; the oracle may skip values (other  *)
(* callers commit too).  A publish closure fails when it cannot rebuild    *)
(* the published catalog, before it stores anything.                       *)
(***************************************************************************)
EXTENDS Integers

CONSTANTS Writers,     \* threads that commit
          Readers,     \* threads that open read views
          NoThread,    \* nobody holds the sequencer mutex
          InitialSeq,  \* the publish_seq recovery seeds
          InitialTs,   \* the recovered commit timestamp
          MaxSeq,      \* bound on publish_seq
          MaxTs,       \* bound on the oracle
          MaxFailures  \* bound on publish closures that fail

ASSUME SeqAssumption == /\ InitialSeq \in Nat \ {0} /\ MaxSeq \in Nat
                        /\ InitialSeq <= MaxSeq + 1
ASSUME TsAssumption == /\ InitialTs \in Nat /\ MaxTs \in Nat
                       /\ InitialTs <= MaxTs
ASSUME WriterAssumption == NoThread \notin Writers
ASSUME FailureAssumption == MaxFailures \in Nat

VARIABLES next_seq,            \* next publish_seq to allocate
          last_published,      \* highest publish_seq published or skipped
          pending,             \* publish_seq -> [commit_ts, state]
          poisoned,            \* the sequencer is poisoned
          published_frontier,  \* the lock-free frontier
          visible_ts,          \* of the published epoch
          oracle,              \* the last timestamp the oracle returned
          mutex, waiters,      \* the sequencer mutex and its condvar
          pc, guard,           \* of each writer: where it is, its slot guard
          failures,            \* closures that have failed
          rpc, epoch           \* of each reader: where it is, the epoch it holds

seqVars == <<next_seq, last_published, pending, poisoned>>
pubVars == <<published_frontier, visible_ts>>
readerVars == <<rpc, epoch>>
vars == <<seqVars, pubVars, oracle, mutex, waiters, pc, guard, failures,
          readerVars>>

Seq == InitialSeq - 1 .. MaxSeq + 1
Ts == InitialTs .. MaxTs
SlotStates == {"Pending", "Ready", "Aborted"}
PcStates == {"idle", "registered", "advanceReady", "storedReady",
             "advanceAbort", "storedAbort", "waiting", "errored",
             "published", "aborted", "fatal"}

TypeOK ==
  /\ next_seq \in Seq /\ last_published \in Seq
  /\ DOMAIN pending \subseteq Seq
  /\ pending \in [DOMAIN pending -> [commit_ts : Ts, state : SlotStates]]
  /\ poisoned \in BOOLEAN
  /\ published_frontier \in Ts /\ visible_ts \in Ts /\ oracle \in Ts
  /\ mutex \in Writers \cup {NoThread}
  /\ waiters \subseteq Writers
  /\ pc \in [Writers -> PcStates]
  /\ guard \in [Writers -> [seq : Seq, commit_ts : Ts]]
  /\ failures \in 0 .. MaxFailures
  /\ rpc \in [Readers -> {"idle", "loaded", "open"}]
  /\ epoch \in [Readers -> Ts]

NoGuard == [seq |-> InitialSeq - 1, commit_ts |-> InitialTs]

\* new_with_recovery_state, with the epoch recovery installs.
Init ==
  /\ next_seq = InitialSeq /\ last_published = InitialSeq - 1
  /\ pending = [s \in {} |-> [commit_ts |-> InitialTs, state |-> "Pending"]]
  /\ poisoned = FALSE
  /\ published_frontier = InitialTs /\ visible_ts = InitialTs
  /\ oracle = InitialTs
  /\ mutex = NoThread /\ waiters = {}
  /\ pc = [w \in Writers |-> "idle"]
  /\ guard = [w \in Writers |-> NoGuard]
  /\ failures = 0
  /\ rpc = [r \in Readers |-> "idle"]
  /\ epoch = [r \in Readers |-> InitialTs]

-----------------------------------------------------------------------------
At(w, from) == pc[w] = from /\ w \notin waiters
Goto(w, to) == pc' = [pc EXCEPT ![w] = to]
Locked == mutex = NoThread /\ UNCHANGED mutex
Acquire(w) == mutex = NoThread /\ mutex' = w
Release == mutex' = NoThread
NotifyAll == waiters' = {}
SetState(s, st) == pending' = [pending EXCEPT ![s].state = st]
Without(f, x) == [y \in DOMAIN f \ {x} |-> f[y]]

\* Faulty variant: the sequence number is recorded as the timestamp.
RegisterSwapped(w) ==
  /\ At(w, "idle") /\ Locked /\ ~poisoned
  /\ next_seq <= MaxSeq
  /\ guard' = [guard EXCEPT ![w] = [seq |-> next_seq, commit_ts |-> next_seq]]
  /\ pending' = [s \in DOMAIN pending \cup {next_seq} |->
                   IF s = next_seq
                     THEN [commit_ts |-> next_seq, state |-> "Pending"]
                     ELSE pending[s]]
  /\ next_seq' = next_seq + 1
  /\ Goto(w, "registered")
  /\ UNCHANGED <<last_published, poisoned, pubVars, oracle, waiters, failures,
                 readerVars>>

\* Faulty variant: the timestamp is allocated before the mutex is taken.
RegisterUnordered(w) ==
  /\ At(w, "idle") /\ Locked /\ ~poisoned
  /\ next_seq <= MaxSeq
  /\ \E ts \in visible_ts + 1 .. MaxTs :
       /\ \A s \in DOMAIN pending : pending[s].commit_ts # ts
       /\ oracle' = IF ts > oracle THEN ts ELSE oracle
       /\ guard' = [guard EXCEPT ![w] = [seq |-> next_seq, commit_ts |-> ts]]
       /\ pending' = [s \in DOMAIN pending \cup {next_seq} |->
                        IF s = next_seq
                          THEN [commit_ts |-> ts, state |-> "Pending"]
                          ELSE pending[s]]
  /\ next_seq' = next_seq + 1
  /\ Goto(w, "registered")
  /\ UNCHANGED <<last_published, poisoned, pubVars, waiters, failures,
                 readerVars>>

\* register_with_oracle: the timestamp and the sequence number are allocated
\* under one hold of the mutex.
Register(w) ==
  /\ At(w, "idle") /\ Locked /\ ~poisoned
  /\ next_seq <= MaxSeq
  /\ \E ts \in oracle + 1 .. MaxTs :
       /\ oracle' = ts
       /\ guard' = [guard EXCEPT ![w] = [seq |-> next_seq, commit_ts |-> ts]]
       /\ pending' = [s \in DOMAIN pending \cup {next_seq} |->
                        IF s = next_seq
                          THEN [commit_ts |-> ts, state |-> "Pending"]
                          ELSE pending[s]]
  /\ next_seq' = next_seq + 1
  /\ Goto(w, "registered")
  /\ UNCHANGED <<last_published, poisoned, pubVars, waiters, failures,
                 readerVars>>

RegisterFails(w) ==
  /\ At(w, "idle") /\ Locked /\ poisoned
  /\ Goto(w, "fatal")
  /\ UNCHANGED <<seqVars, pubVars, oracle, waiters, guard, failures,
                 readerVars>>

\* mark_ready, mark_aborted and the guard's Drop leave a poisoned sequencer
\* alone: the slot stays pending for the next open.
MarkPoisoned(w) ==
  /\ At(w, "registered") /\ Locked /\ poisoned
  /\ Goto(w, "fatal")
  /\ UNCHANGED <<seqVars, pubVars, oracle, waiters, guard, failures,
                 readerVars>>

MarkReady(w) ==
  /\ At(w, "registered") /\ Acquire(w) /\ ~poisoned
  /\ SetState(guard[w].seq, "Ready")
  /\ Goto(w, "advanceReady")
  /\ UNCHANGED <<next_seq, last_published, poisoned, pubVars, oracle, waiters,
                 guard, failures, readerVars>>

\* Faulty variant: the window is not advanced past the aborted slot.
MarkAbortedOnly(w) ==
  /\ At(w, "registered") /\ Locked /\ ~poisoned
  /\ SetState(guard[w].seq, "Aborted")
  /\ Goto(w, "aborted")
  /\ UNCHANGED <<next_seq, last_published, poisoned, pubVars, oracle, waiters,
                 guard, failures, readerVars>>

\* mark_aborted, and mark_aborted_from_drop.
MarkAborted(w) ==
  /\ At(w, "registered") /\ Acquire(w) /\ ~poisoned
  /\ SetState(guard[w].seq, "Aborted")
  /\ Goto(w, "advanceAbort")
  /\ UNCHANGED <<next_seq, last_published, poisoned, pubVars, oracle, waiters,
                 guard, failures, readerVars>>

-----------------------------------------------------------------------------
(* advance_window_locked, one slot at a time, by the mutex holder. *)

Advancing(w) == mutex = w /\ pc[w] \in {"advanceReady", "advanceAbort"}

\* Faulty variant: the window steps over slots that are still pending.
FrontTerminal ==
  LET done == {s \in DOMAIN pending : pending[s].state # "Pending"}
  IN IF done = {} THEN last_published + 1
     ELSE CHOOSE s \in done : \A u \in done : s <= u

Front == last_published + 1
FrontIs(st) == Front \in DOMAIN pending /\ pending[Front].state = st

\* The call returns: an abort's result is ignored.
Fail(w, to) ==
  /\ NotifyAll /\ Release
  /\ Goto(w, IF pc[w] = "advanceAbort" THEN "aborted" ELSE to)

AdvancePoisoned(w) ==
  /\ Advancing(w) /\ poisoned
  /\ Fail(w, "fatal")
  /\ UNCHANGED <<seqVars, pubVars, oracle, guard, failures, readerVars>>

SkipAborted(w) ==
  /\ Advancing(w) /\ ~poisoned /\ FrontIs("Aborted")
  /\ last_published' = Front
  /\ pending' = Without(pending, Front)
  /\ UNCHANGED <<next_seq, poisoned, pubVars, oracle, mutex, waiters, pc,
                 guard, failures, readerVars>>

\* publish_commit stores the new epoch.  The slot has left `pending'.
StoreEpoch(w) ==
  /\ Advancing(w) /\ ~poisoned /\ FrontIs("Ready")
  /\ visible_ts' = pending[Front].commit_ts
  /\ pending' = Without(pending, Front)
  /\ Goto(w, IF pc[w] = "advanceReady" THEN "storedReady" ELSE "storedAbort")
  /\ UNCHANGED <<next_seq, last_published, poisoned, published_frontier,
                 oracle, mutex, waiters, guard, failures, readerVars>>

\* publish_commit, and again advance_window_locked, store the frontier.
StoreFrontier(w) ==
  /\ mutex = w /\ pc[w] \in {"storedReady", "storedAbort"}
  /\ published_frontier' = visible_ts
  /\ last_published' = Front
  /\ Goto(w, IF pc[w] = "storedReady" THEN "advanceReady" ELSE "advanceAbort")
  /\ UNCHANGED <<next_seq, pending, poisoned, visible_ts, oracle, mutex,
                 waiters, guard, failures, readerVars>>

\* The closure fails: the slot is gone and last_published has not moved.
ClosureFails(w) ==
  /\ Advancing(w) /\ ~poisoned /\ FrontIs("Ready")
  /\ failures < MaxFailures
  /\ failures' = failures + 1
  /\ pending' = Without(pending, Front)
  /\ Fail(w, "errored")
  /\ UNCHANGED <<next_seq, last_published, poisoned, pubVars, oracle, guard,
                 readerVars>>

\* Faulty variant: the wait ends one slot too early.
AdvanceStopsEarly(w) ==
  /\ Advancing(w) /\ ~poisoned
  /\ ~FrontIs("Ready") /\ ~FrontIs("Aborted")
  /\ Release
  /\ \/ /\ pc[w] = "advanceAbort"
        /\ NotifyAll /\ Goto(w, "aborted")
     \/ /\ pc[w] = "advanceReady" /\ last_published + 2 >= guard[w].seq
        /\ NotifyAll /\ Goto(w, "published")
     \/ /\ pc[w] = "advanceReady" /\ last_published + 2 < guard[w].seq
        /\ waiters' = {w} /\ Goto(w, "waiting")
  /\ UNCHANGED <<seqVars, pubVars, oracle, guard, failures, readerVars>>

\* Nothing more to publish: wake everyone, then return, or park until this
\* writer's own slot has been published.
AdvanceStops(w) ==
  /\ Advancing(w) /\ ~poisoned
  /\ ~FrontIs("Ready") /\ ~FrontIs("Aborted")
  /\ Release
  /\ \/ /\ pc[w] = "advanceAbort"
        /\ NotifyAll /\ Goto(w, "aborted")
     \/ /\ pc[w] = "advanceReady" /\ last_published >= guard[w].seq
        /\ NotifyAll /\ Goto(w, "published")
     \/ /\ pc[w] = "advanceReady" /\ last_published < guard[w].seq
        /\ waiters' = {w} /\ Goto(w, "waiting")
  /\ UNCHANGED <<seqVars, pubVars, oracle, guard, failures, readerVars>>

Wake(w) ==
  /\ At(w, "waiting") /\ Acquire(w)
  /\ Goto(w, "advanceReady")
  /\ UNCHANGED <<seqVars, pubVars, oracle, waiters, guard, failures,
                 readerVars>>

-----------------------------------------------------------------------------
\* poison: by the writer whose mark_ready returned a closure's error, or by
\* one whose log record failed after it was reserved.
Poison(w) ==
  /\ At(w, "errored") \/ At(w, "registered")
  /\ Locked
  /\ poisoned' = TRUE
  /\ NotifyAll
  /\ Goto(w, "fatal")
  /\ UNCHANGED <<next_seq, last_published, pending, pubVars, oracle, guard,
                 failures, readerVars>>

\* The writer's call is over and it starts another.
Return(w) ==
  /\ pc[w] \in {"published", "aborted"}
  /\ Goto(w, "idle")
  /\ guard' = [guard EXCEPT ![w] = NoGuard]
  /\ UNCHANGED <<seqVars, pubVars, oracle, mutex, waiters, failures,
                 readerVars>>

-----------------------------------------------------------------------------
(* load_published_coherent: load the epoch, then the frontier, and retry.  *)

LoadEpoch(r) ==
  /\ rpc[r] = "idle"
  /\ epoch' = [epoch EXCEPT ![r] = visible_ts]
  /\ rpc' = [rpc EXCEPT ![r] = "loaded"]
  /\ UNCHANGED <<seqVars, pubVars, oracle, mutex, waiters, pc, guard,
                 failures>>

\* Faulty variant: the loaded epoch is used as it is.
SkipFrontierCheck(r) ==
  /\ rpc[r] = "loaded"
  /\ rpc' = [rpc EXCEPT ![r] = "open"]
  /\ UNCHANGED <<seqVars, pubVars, oracle, mutex, waiters, pc, guard,
                 failures, epoch>>

CheckFrontier(r) ==
  /\ rpc[r] = "loaded"
  /\ rpc' = [rpc EXCEPT ![r] = IF published_frontier >= epoch[r]
                                 THEN "open" ELSE "idle"]
  /\ UNCHANGED <<seqVars, pubVars, oracle, mutex, waiters, pc, guard,
                 failures, epoch>>

CloseView(r) ==
  /\ rpc[r] = "open"
  /\ rpc' = [rpc EXCEPT ![r] = "idle"]
  /\ UNCHANGED <<seqVars, pubVars, oracle, mutex, waiters, pc, guard,
                 failures, epoch>>

-----------------------------------------------------------------------------
Advance(w) == \/ AdvancePoisoned(w) \/ SkipAborted(w) \/ StoreEpoch(w)
              \/ StoreFrontier(w) \/ ClosureFails(w) \/ AdvanceStops(w)
Finish(w) == MarkPoisoned(w) \/ MarkReady(w) \/ MarkAborted(w) \/ Poison(w)
Begin(w) == Register(w) \/ RegisterFails(w)
Read(r) == LoadEpoch(r) \/ CheckFrontier(r) \/ CloseView(r)

Next == \/ \E w \in Writers : \/ Begin(w) \/ Finish(w) \/ Advance(w)
                              \/ Wake(w) \/ Return(w)
        \/ \E r \in Readers : Read(r)

Spec == Init /\ [][Next]_vars

\* A thread inside a call keeps running; a mutex is granted to a thread that
\* keeps asking for it.  Nothing forces a new call.
Fairness == \A w \in Writers : /\ SF_vars(Finish(w))
                               /\ WF_vars(Advance(w))
                               /\ SF_vars(Wake(w))
FairSpec == Spec /\ Fairness

-----------------------------------------------------------------------------
\* The claim version_visible_to rests on (mvcc/chain_snapshot.rs): once the
\* epoch or the frontier has reached a timestamp, no slot with a commit_ts at
\* or below it is still waiting for its writer, whatever order the writers
\* finished in.
FrontierPassesTerminal ==
  \A s \in DOMAIN pending :
     pending[s].commit_ts > visible_ts /\ pending[s].commit_ts > published_frontier

\* The dense order and the timestamp order agree: register_with_oracle
\* allocates both under one hold of the mutex, so a later publish_seq carries
\* a later commit_ts, and every unpublished slot lies in the window.
SeqOrderIsTsOrder ==
  /\ \A s, u \in DOMAIN pending :
        s < u => pending[s].commit_ts < pending[u].commit_ts
  /\ \A s \in DOMAIN pending : last_published < s /\ s < next_seq

\* An open view's epoch never runs ahead of the frontier it evaluates foreign
\* Pending entries against (load_published_coherent), although the epoch is
\* stored before the frontier.
ViewBehindFrontier ==
  \A r \in Readers : rpc[r] = "open" => epoch[r] <= published_frontier

\* A mark_ready that returns Ok has published the caller's own slot: the
\* epoch has reached its commit_ts, even when another thread ran its closure.
OkMeansPublished ==
  \A w \in Writers : pc[w] = "published" =>
     /\ guard[w].seq <= last_published
     /\ guard[w].commit_ts <= published_frontier

\* Publishing never goes back: neither the epoch, nor the frontier, nor the
\* window (the debug_assert of publish_commit that visible_ts is strictly
\* monotonic).
PublishMonotone ==
  [][/\ visible_ts' >= visible_ts
     /\ published_frontier' >= published_frontier
     /\ last_published' >= last_published]_vars

\* Every writer that is waiting for its slot to be published returns, with
\* Ok or with the error that stopped the window: each writer before it marks
\* its slot or poisons the sequencer, and the one that does wakes it.  (A
\* publish closure that fails is the exception: mark_aborted drops its error.)
PublishWaitEnds ==
  \A w \in Writers :
     pc[w] = "waiting" ~> \/ pc[w] \in {"published", "errored", "fatal"}
                          \/ failures > 0
=============================================================================
