--------------------------- MODULE CommitEnvelope ---------------------------
(***************************************************************************)
(* The write path, the snapshot read path and the checkpoint fold of the   *)
(* paged engine, over the version chains they share.                       *)
(*                                                                         *)
(* A transaction is one insert, update or delete of a set of keys run      *)
(* through the commit envelope (stages S1 to S12 of commit_envelope.rs).   *)
(* Every key sits on a leaf of its own.  A key's contents are, newest      *)
(* source first: the resident version chain of the leaf's frame, the       *)
(* history store, and the base cell of the leaf page.  The base cell       *)
(* carries no timestamp: whoever reaches it sees it.                       *)
(*                                                                         *)
(* Data are abstracted to what visibility tells apart: a transaction's id, *)
(* its publish slot, its commit timestamp and the value it writes are all  *)
(* the commit timestamp, and the value 0 is "no document".  The publish    *)
(* sequencer appears as the contract PublishSequencer establishes: slots   *)
(* are handed out in timestamp order and the frontier passes terminal      *)
(* prefixes only.  The log appears as the outcome of the append, which is  *)
(* what the envelope sees of LogManager.                                   *)
(***************************************************************************)
EXTENDS Integers, Sequences

CONSTANTS
    Keys,           \* the documents' primary keys
    Writers,        \* threads that run transactions
    Readers,        \* threads that hold snapshot read views
    Ops,            \* the kinds of transaction that are run
    Evictable,      \* the keys whose leaves come under cache pressure
    MaxTs,          \* bound: the number of slots ever registered
    MaxCheckpoints  \* bound: the number of checkpoints ever started

ASSUME OpsAssumption == Ops \subseteq {"insert", "update", "delete"}
ASSUME BoundAssumption == MaxTs \in Nat \ {0} /\ MaxCheckpoints \in Nat
ASSUME ThreadAssumption == Writers \cap Readers = {}
ASSUME PressureAssumption == Evictable \subseteq Keys

VARIABLES
    chain,        \* chain[k]: the resident version chain, newest entry first
    base,         \* base[k]: the value of the base cell
    history,      \* the rows of the history store
    slot,         \* slot[t]: the publish slot that owns timestamp t
    oracle,       \* the newest timestamp the oracle allocated
    published,    \* visible_ts of the published epoch, and the frontier
    poisoned,     \* engine_poisoned, the poisoned gate and sequencer
    registry,     \* registry[p]: the pinned timestamp of p's view, or None
    view,         \* view[p]: the read timestamp of p's view
    pc,           \* pc[p]: where the reader or the transaction is
    txn,          \* txn[w]: the transaction w runs
    closed,       \* the checkpoint admission gate's close_count > 0
    admitted,     \* the writers admitted and not released
    ckpt,         \* the checkpoint in progress
    checkpoints,  \* how many checkpoints were started
    victim,       \* the eviction in progress: a frame and a sampled ort
    commits       \* history variable: the writes whose log record was written

vars == <<chain, base, history, slot, oracle, published, poisoned, registry,
          view, pc, txn, closed, admitted, ckpt, checkpoints, victim, commits>>

storage == <<chain, base, history>>
publishing == <<slot, oracle, published>>
gate == <<closed, admitted>>
maintenance == <<ckpt, checkpoints, victim>>

Procs == Readers \cup Writers
Times == 1 .. MaxTs
Values == 0 .. MaxTs

\* Ts::MAX, the stop timestamp of a version nothing has superseded.
TsMax == MaxTs + 1

\* A process without a registered view.
None == TsMax + 1

\* The expected_head of a write that expects no resident version.
NoHead == 0

Version == [start : Times, stop : Times \cup {TsMax},
            state : {"Pending", "Committed", "Aborted"}, tomb : BOOLEAN]
Row == [key : Keys, start : Times, stop : Times \cup {TsMax}, tomb : BOOLEAN]
Txn == [op : Ops \cup {"none"}, keys : SUBSET Keys, ts : Values,
        read : [Keys -> Values], expected : [Keys -> Values], todo : SUBSET Keys]
NoTxn == [op |-> "none", keys |-> {}, ts |-> 0, read |-> [k \in Keys |-> 0],
          expected |-> [k \in Keys |-> NoHead], todo |-> {}]
NoCkpt == [pc |-> "idle", ts |-> 0, ort |-> 0, todo |-> {}]
NoVictim == [key |-> {}, ort |-> 0]

Goto(p, label) == pc' = [pc EXCEPT ![p] = label]

-----------------------------------------------------------------------------
(* Reading a key. *)

\* The first of the positions in I, 0 when there is none: what a scan from the
\* front of a chain finds.
First(I) == IF I = {} THEN 0 ELSE CHOOSE i \in I : \A j \in I : i <= j

\* What a version shows its reader: its value, or no document.
ValueOf(e) == IF e.tomb THEN 0 ELSE e.start

\* version_visible_to, for a view of no transaction of its own.
VisibleTo(e, ts, frontier) ==
    /\ e.state # "Aborted"
    /\ e.start <= ts /\ ts < e.stop
    /\ e.state = "Pending" => e.start <= frontier

\* ChainSnapshot::history_is_candidate; a key without a chain is one.
HistoryIsCandidate(c, ts) ==
    \A i \in DOMAIN c : c[i].start > ts \/ c[i].state = "Pending"

\* HistoryStore::probe_visible_entry: the newest row whose window holds ts.
HistoryRows(k, ts) ==
    {r \in history : r.key = k /\ r.start <= ts /\ ts < r.stop}

\* get_mvcc: the source that answers a read of k at ts, and the answer.
Lookup(k, ts) ==
    LET hit == First({i \in DOMAIN chain[k] : VisibleTo(chain[k][i], ts, published)})
        rows == HistoryRows(k, ts)
    IN IF hit # 0
       THEN [from |-> "chain", value |-> ValueOf(chain[k][hit])]
       ELSE IF HistoryIsCandidate(chain[k], ts) /\ rows # {}
       THEN [from |-> "history",
             value |-> ValueOf(CHOOSE r \in rows : \A q \in rows : q.start <= r.start)]
       ELSE [from |-> "base", value |-> base[k]]

Read(k, ts) == Lookup(k, ts).value

\* The first entry that nothing has superseded and no abort has voided.
LiveHead(c) == First({i \in DOMAIN c : c[i].stop = TsMax /\ c[i].state # "Aborted"})

\* The versions of c at the positions in kept, in their order.
Keep(c, kept) ==
    LET upTo[n \in 0 .. Len(c)] ==
            IF n = 0 THEN <<>>
            ELSE IF n \in kept THEN Append(upTo[n - 1], c[n]) ELSE upTo[n - 1]
    IN upTo[Len(c)]

\* ReadViewRegistry::oldest_required_ts; Ts::MAX when no view is registered.
OldestRequiredTs ==
    LET pins == {registry[p] : p \in {q \in Procs : registry[q] # None}} \cup {TsMax}
    IN CHOOSE t \in pins : \A u \in pins : t <= u

-----------------------------------------------------------------------------
(* The states the engine opens in: an empty file. *)

Init ==
    /\ chain = [k \in Keys |-> <<>>]
    /\ base = [k \in Keys |-> 0]
    /\ history = {}
    /\ slot = [t \in Times |-> "Free"]
    /\ oracle = 0
    /\ published = 0
    /\ poisoned = FALSE
    /\ registry = [p \in Procs |-> None]
    /\ view = [p \in Procs |-> 0]
    /\ pc = [p \in Procs |-> "idle"]
    /\ txn = [w \in Writers |-> NoTxn]
    /\ closed = FALSE
    /\ admitted = {}
    /\ ckpt = NoCkpt
    /\ checkpoints = 0
    /\ victim = NoVictim
    /\ commits = {}

-----------------------------------------------------------------------------
(* Opening and closing a snapshot read view, by a reader or by the         *)
(* selection scan of an update or delete.                                  *)

\* ConservativePinGuard: register at timestamp 0 before the epoch is loaded.
PinView(p) ==
    /\ pc[p] = "idle"
    /\ p \in Writers => Ops \cap {"update", "delete"} # {}
    /\ registry' = [registry EXCEPT ![p] = 0]
    /\ Goto(p, "pinned")
    /\ UNCHANGED <<storage, publishing, poisoned, view, txn, gate, maintenance, commits>>

\* Load the published epoch and raise the pin to its timestamp.
RefineView(p) ==
    /\ pc[p] = "pinned"
    /\ view' = [view EXCEPT ![p] = published]
    /\ registry' = [registry EXCEPT ![p] = published]
    /\ Goto(p, "viewing")
    /\ UNCHANGED <<storage, publishing, poisoned, txn, gate, maintenance, commits>>

\* ReadView's Drop unregisters it.
CloseView(r) ==
    /\ r \in Readers
    /\ pc[r] = "viewing"
    /\ registry' = [registry EXCEPT ![r] = None]
    /\ view' = [view EXCEPT ![r] = 0]
    /\ Goto(r, "idle")
    /\ UNCHANGED <<storage, publishing, poisoned, txn, gate, maintenance, commits>>

\* The operation returns to its caller: the views and the admission are dropped.
Leave(w) ==
    /\ registry' = [registry EXCEPT ![w] = None]
    /\ view' = [view EXCEPT ![w] = 0]
    /\ txn' = [txn EXCEPT ![w] = NoTxn]
    /\ admitted' = admitted \ {w}
    /\ Goto(w, "idle")

-----------------------------------------------------------------------------
(* Update and delete choose their documents before they are admitted. *)

\* The candidate scan reads the documents through the operation's view; a
\* document that is not there does not match the filter, and the filters tried
\* match some document when there is one.  An update that matched nothing runs
\* its empty transaction through the envelope.
SelectDocs(w, op, ks) ==
    /\ pc[w] = "viewing" /\ w \in Writers
    /\ op = "update" \/ (op = "delete" /\ ks # {})
    /\ ks = {} => \A k \in Keys : Read(k, view[w]) = 0
    /\ \A k \in ks : Read(k, view[w]) # 0
    /\ txn' = [txn EXCEPT ![w] = [NoTxn EXCEPT !.op = op, !.keys = ks,
                    !.read = [k \in Keys |-> IF k \in ks THEN Read(k, view[w]) ELSE 0]]]
    /\ Goto(w, "selected")
    /\ UNCHANGED <<storage, publishing, poisoned, registry, view, gate, maintenance, commits>>

\* A delete that matched nothing returns.
SelectNothing(w) ==
    /\ pc[w] = "viewing" /\ w \in Writers
    /\ "delete" \in Ops
    /\ \A k \in Keys : Read(k, view[w]) = 0
    /\ Leave(w)
    /\ UNCHANGED <<storage, publishing, poisoned, closed, maintenance, commits>>

\* The selected document is still the one its key's live head holds.
HeadMatches(k, value) ==
    LET h == LiveHead(chain[k])
    IN h # 0 => /\ chain[k][h].state = "Committed"
                /\ ~chain[k][h].tomb
                /\ chain[k][h].start = value

\* attach_expected_heads: remember each live head, none for a document that
\* lives in its base cell only.
AttachExpectedHeads(w) ==
    /\ pc[w] = "selected"
    /\ \A k \in txn[w].keys : HeadMatches(k, txn[w].read[k])
    /\ txn' = [txn EXCEPT ![w].expected =
                    [k \in Keys |-> IF k \in txn[w].keys /\ LiveHead(chain[k]) # 0
                                    THEN txn[w].read[k] ELSE NoHead]]
    /\ Goto(w, "begin")
    /\ UNCHANGED <<storage, publishing, poisoned, registry, view, gate, maintenance, commits>>

\* expected_head_for_selected_doc: the head is another version, pending or a
\* tombstone, so the operation fails with StaleSnapshot.
SelectionStale(w) ==
    /\ pc[w] = "selected"
    /\ \E k \in txn[w].keys : ~HeadMatches(k, txn[w].read[k])
    /\ Leave(w)
    /\ UNCHANGED <<storage, publishing, poisoned, closed, maintenance, commits>>

Select(w) ==
    \/ \E op \in Ops, ks \in SUBSET Keys : SelectDocs(w, op, ks)
    \/ SelectNothing(w)
    \/ AttachExpectedHeads(w)
    \/ SelectionStale(w)

-----------------------------------------------------------------------------
(* The commit envelope. *)

\* An insert enters the envelope directly.
BeginInsert(w, ks) ==
    /\ pc[w] = "idle"
    /\ "insert" \in Ops
    /\ txn' = [txn EXCEPT ![w] = [NoTxn EXCEPT !.op = "insert", !.keys = ks]]
    /\ Goto(w, "begin")
    /\ UNCHANGED <<storage, publishing, poisoned, registry, view, gate, maintenance, commits>>

\* The poison check and admit_writer: parked while the gate is closed.
Admit(w) ==
    /\ pc[w] = "begin"
    /\ ~poisoned /\ ~closed
    /\ admitted' = admitted \cup {w}
    /\ Goto(w, IF txn[w].op = "insert" THEN "admitted" ELSE "staged")
    /\ UNCHANGED <<storage, publishing, poisoned, registry, view, txn, closed, maintenance, commits>>

\* Admission or slot registration finds the engine poisoned, or the oracle
\* has no timestamp left (TimestampExhausted).
Refused(w) ==
    /\ \/ pc[w] \in {"begin", "staged"} /\ poisoned
       \/ pc[w] = "staged" /\ oracle = MaxTs
    /\ Leave(w)
    /\ UNCHANGED <<storage, publishing, poisoned, closed, maintenance, commits>>

\* WriteVisibility::new loads the epoch first and registers its view after.
LoadVisibility(w) ==
    /\ pc[w] = "admitted"
    /\ view' = [view EXCEPT ![w] = published]
    /\ Goto(w, "loaded")
    /\ UNCHANGED <<storage, publishing, poisoned, registry, txn, gate, maintenance, commits>>

RegisterVisibility(w) ==
    /\ pc[w] = "loaded"
    /\ registry' = [registry EXCEPT ![w] = view[w]]
    /\ Goto(w, "visible")
    /\ UNCHANGED <<storage, publishing, poisoned, view, txn, gate, maintenance, commits>>

\* prepare_insert_document stages the insert when no document has the key.
StageInsert(w) ==
    /\ pc[w] = "visible"
    /\ \A k \in txn[w].keys : Read(k, view[w]) = 0
    /\ Goto(w, "staged")
    /\ UNCHANGED <<storage, publishing, poisoned, registry, view, txn, gate, maintenance, commits>>

\* The body fails with DuplicateKey before anything is registered.
InsertDuplicate(w) ==
    /\ pc[w] = "visible"
    /\ \E k \in txn[w].keys : Read(k, view[w]) # 0
    /\ Leave(w)
    /\ UNCHANGED <<storage, publishing, poisoned, closed, maintenance, commits>>

\* S4: one critical section allocates the commit timestamp and its slot.
RegisterSlot(w) ==
    /\ pc[w] = "staged"
    /\ ~poisoned
    /\ oracle < MaxTs
    /\ oracle' = oracle + 1
    /\ slot' = [slot EXCEPT ![oracle + 1] = "Pending"]
    /\ txn' = [txn EXCEPT ![w].ts = oracle + 1]
    /\ Goto(w, "registered")
    /\ UNCHANGED <<storage, published, poisoned, registry, view, gate, maintenance, commits>>

\* Faulty variant: any live committed document passes for the expected one.
ProceedsOnAnyHead(k, expected) ==
    LET h == LiveHead(chain[k])
    IN h # 0 => /\ chain[k][h].state = "Committed"
                /\ chain[k][h].tomb = (expected = NoHead)

\* classify_delta_install for a primary key: may the staged write be pushed?
Proceeds(k, expected) ==
    LET h == LiveHead(chain[k])
    IN h # 0 => LET head == chain[k][h]
                IN /\ head.state = "Committed"
                   /\ IF expected = NoHead THEN head.tomb
                      ELSE head.start = expected /\ ~head.tomb

\* Faulty variant: the version is stamped with the next timestamp.
PushNextTs(c, ts, tomb) ==
    LET h == LiveHead(c)
        older == IF h = 0 THEN c ELSE [c EXCEPT ![h].stop = ts]
    IN <<[start |-> ts + 1, stop |-> TsMax, state |-> "Pending", tomb |-> tomb]>> \o older

\* Supersede the live head and push the pending version in front of it.
Push(c, ts, tomb) ==
    LET h == LiveHead(c)
        older == IF h = 0 THEN c ELSE [c EXCEPT ![h].stop = ts]
    IN <<[start |-> ts, stop |-> TsMax, state |-> "Pending", tomb |-> tomb]>> \o older

InstallOn(w, ks) ==
    chain' = [k \in Keys |-> IF k \in ks
                             THEN Push(chain[k], txn[w].ts, txn[w].op = "delete")
                             ELSE chain[k]]

\* S7: all the leaves are latched together and every write installed.
InstallPending(w) ==
    /\ pc[w] = "registered"
    /\ \A k \in txn[w].keys : Proceeds(k, txn[w].expected[k])
    /\ InstallOn(w, txn[w].keys)
    /\ txn' = [txn EXCEPT ![w].todo = txn[w].keys]
    /\ Goto(w, "installed")
    /\ UNCHANGED <<base, history, publishing, poisoned, registry, view, gate, maintenance, commits>>

\* A write conflicts after the writes staged before it (ks) were installed:
\* the envelope goes to cleanup_registered_pre_durable_failure.
InstallConflicts(w, ks) ==
    /\ pc[w] = "registered"
    /\ ks \subseteq txn[w].keys
    /\ \A k \in ks : Proceeds(k, txn[w].expected[k])
    /\ \E k \in txn[w].keys \ ks : ~Proceeds(k, txn[w].expected[k])
    /\ InstallOn(w, ks)
    /\ txn' = [txn EXCEPT ![w].todo = ks]
    /\ Goto(w, "cleanup")
    /\ UNCHANGED <<base, history, publishing, poisoned, registry, view, gate, maintenance, commits>>

\* S5 before the install or S8 after it fails without a log reservation.
FailBeforeLog(w) ==
    /\ pc[w] \in {"registered", "installed"}
    /\ Goto(w, "cleanup")
    /\ UNCHANGED <<storage, publishing, poisoned, registry, view, txn, gate, maintenance, commits>>

\* S8 and S9: the record is reserved, written, and as durable as asked for.
AppendToLog(w) ==
    /\ pc[w] = "installed"
    /\ ~poisoned
    /\ commits' = commits \cup {[key |-> k, ts |-> txn[w].ts, tomb |-> txn[w].op = "delete",
                                 over |-> txn[w].read[k]] : k \in txn[w].keys}
    /\ Goto(w, "durable")
    /\ UNCHANGED <<storage, publishing, poisoned, registry, view, txn, gate, maintenance>>

\* A failure after the reservation poisons engine, gate and sequencer.
Poison(w) ==
    /\ poisoned' = TRUE
    /\ Leave(w)

AppendFails(w) ==
    /\ pc[w] = "installed"
    /\ Poison(w)
    /\ UNCHANGED <<storage, publishing, closed, maintenance, commits>>

\* Faulty variant: an abort leaves its predecessor superseded.
RestoreNothing(c, i, ts) == c

\* The aborted version's predecessor is the live head again.
RestoreHead(c, i, ts) ==
    LET prev == {j \in (i + 1) .. Len(c) : c[j].state # "Aborted" /\ c[j].stop = ts}
    IN IF prev = {} THEN c ELSE [c EXCEPT ![First(prev)].stop = TsMax]

\* flip_pending_in_chain: settle the transaction's pending version.
FlipPending(c, ts, state) ==
    LET i == First({j \in DOMAIN c : c[j].state = "Pending" /\ c[j].start = ts})
        settled == IF i = 0 THEN c ELSE [c EXCEPT ![i].state = state]
    IN IF i = 0 \/ state = "Committed" THEN settled ELSE RestoreHead(settled, i, ts)

\* One page of the flip, S10 on success and the cleanup on failure.
Flip(w, k, label, state) ==
    /\ pc[w] = label
    /\ k \in txn[w].todo
    /\ chain' = [chain EXCEPT ![k] = FlipPending(chain[k], txn[w].ts, state)]
    /\ txn' = [txn EXCEPT ![w].todo = @ \ {k}]
    /\ UNCHANGED <<base, history, publishing, poisoned, registry, view, pc, gate, maintenance, commits>>

FlipToCommitted(w, k) == Flip(w, k, "durable", "Committed")
FlipToAborted(w, k) == Flip(w, k, "cleanup", "Aborted")

\* A page could not be pinned or kept changing: poison, leave the slot alone.
FlipFails(w) ==
    /\ pc[w] \in {"durable", "cleanup"}
    /\ txn[w].todo # {}
    /\ Poison(w)
    /\ UNCHANGED <<storage, publishing, closed, maintenance, commits>>

\* Faulty variant: a ready slot is published without waiting for older ones.
SettleAtOnce(ts, state) ==
    /\ slot' = [slot EXCEPT ![ts] = state]
    /\ published' = IF state = "Ready" /\ ts > published THEN ts ELSE published

\* The sequencer publishes every slot of the leading run of terminal slots.
Settle(ts, state) ==
    LET after == [slot EXCEPT ![ts] = state]
        passed == {t \in Times : \A u \in 1 .. t : after[u] \in {"Ready", "Aborted"}}
        ready == {published} \cup {t \in passed : after[t] = "Ready"}
    IN /\ slot' = after
       /\ published' = CHOOSE t \in ready : \A u \in ready : u <= t

\* Faulty variant: the slot is aborted before the pending versions are.
MarkAbortedFirst(w) ==
    /\ pc[w] = "cleanup"
    /\ IF poisoned THEN UNCHANGED <<slot, published>> ELSE Settle(txn[w].ts, "Aborted")
    /\ Leave(w)
    /\ UNCHANGED <<storage, oracle, poisoned, closed, maintenance, commits>>

\* Once the pending versions are aborted the slot is, and the error returned.
MarkAborted(w) ==
    /\ pc[w] = "cleanup"
    /\ txn[w].todo = {}
    /\ IF poisoned THEN UNCHANGED <<slot, published>> ELSE Settle(txn[w].ts, "Aborted")
    /\ Leave(w)
    /\ UNCHANGED <<storage, oracle, poisoned, closed, maintenance, commits>>

\* S11: the slot is ready; the writer waits until the frontier passes it.
MarkReady(w) ==
    /\ pc[w] = "durable"
    /\ txn[w].todo = {}
    /\ ~poisoned
    /\ Settle(txn[w].ts, "Ready")
    /\ Goto(w, "publishing")
    /\ UNCHANGED <<storage, oracle, poisoned, registry, view, txn, gate, maintenance, commits>>

\* The publish closure fails, or an earlier failure poisoned the sequencer.
PublishFails(w) ==
    /\ \/ pc[w] = "durable" /\ txn[w].todo = {}
       \/ pc[w] = "publishing" /\ poisoned
    /\ Poison(w)
    /\ UNCHANGED <<storage, publishing, closed, maintenance, commits>>

\* S12: the write is acknowledged.
Acknowledge(w) ==
    /\ pc[w] = "publishing"
    /\ published >= txn[w].ts
    /\ Leave(w)
    /\ UNCHANGED <<storage, publishing, poisoned, closed, maintenance, commits>>

Enter(w) ==
    \/ \E ks \in (SUBSET Keys) \ {{}} : BeginInsert(w, ks)
    \/ Admit(w) \/ Refused(w)
    \/ LoadVisibility(w) \/ RegisterVisibility(w)
    \/ StageInsert(w) \/ InsertDuplicate(w)

Commit(w) ==
    \/ RegisterSlot(w) \/ InstallPending(w) \/ FailBeforeLog(w)
    \/ \E ks \in SUBSET Keys : InstallConflicts(w, ks)
    \/ AppendToLog(w) \/ AppendFails(w)
    \/ \E k \in Keys : FlipToCommitted(w, k) \/ FlipToAborted(w, k)
    \/ FlipFails(w) \/ MarkAborted(w)
    \/ MarkReady(w) \/ PublishFails(w) \/ Acknowledge(w)

-----------------------------------------------------------------------------
(* The checkpoint: every admitted writer is out while it runs. *)

CloseGate ==
    /\ ckpt.pc = "idle"
    /\ ~poisoned
    /\ checkpoints < MaxCheckpoints
    /\ closed' = TRUE
    /\ checkpoints' = checkpoints + 1
    /\ ckpt' = [ckpt EXCEPT !.pc = "draining"]
    /\ UNCHANGED <<storage, publishing, poisoned, registry, view, pc, txn, admitted, victim, commits>>

\* The drain completes; the boundary, the ort and the dirty leaves are fixed.
PlanFold ==
    /\ ckpt.pc = "draining"
    /\ admitted = {}
    /\ ~poisoned
    /\ ckpt' = [pc |-> "spill", ts |-> published, ort |-> OldestRequiredTs,
                todo |-> {k \in Keys : \E i \in DOMAIN chain[k] :
                            /\ chain[k][i].state = "Committed"
                            /\ chain[k][i].start <= published}]
    /\ UNCHANGED <<storage, publishing, poisoned, registry, view, pc, txn, gate, checkpoints, victim, commits>>

\* checkpoint_winner_index: the newest committed version of the boundary.
Winner(c, ts) ==
    LET at == {i \in DOMAIN c : c[i].state = "Committed" /\ c[i].start <= ts}
    IN IF at = {} THEN 0 ELSE CHOOSE i \in at : \A j \in at : c[j].start <= c[i].start

\* The superseded versions that some registered view may still read.
SpillOf(k, ts, ort) ==
    LET c == chain[k]
        out == {i \in DOMAIN c : /\ i # Winner(c, ts)
                                 /\ c[i].state = "Committed"
                                 /\ c[i].start <= ts /\ c[i].stop > ort}
    IN {[key |-> k, start |-> c[i].start, stop |-> c[i].stop, tomb |-> c[i].tomb] : i \in out}

\* What stays resident: versions past the boundary and pending ones.
Retained(c, ts) ==
    Keep(c, {i \in DOMAIN c : \/ c[i].state = "Committed" /\ c[i].start > ts
                              \/ c[i].state = "Pending"})

\* Faulty variant: folding a tombstone leaves the old base cell in place.
FoldedBaseKeepsDeleted(k, ts) ==
    LET i == Winner(chain[k], ts)
    IN IF i = 0 \/ chain[k][i].tomb THEN base[k] ELSE chain[k][i].start

\* The folded base cell: the winner, nothing for a tombstone.
FoldedBase(k, ts) ==
    LET i == Winner(chain[k], ts)
    IN IF i = 0 THEN base[k] ELSE ValueOf(chain[k][i])

\* History rows are committed durably before any leaf that spilled them.
SpillHistory ==
    /\ ckpt.pc = "spill"
    /\ history' = history \cup UNION {SpillOf(k, ckpt.ts, ckpt.ort) : k \in ckpt.todo}
    /\ ckpt' = [ckpt EXCEPT !.pc = "install"]
    /\ UNCHANGED <<chain, base, publishing, poisoned, registry, view, pc, txn, gate, checkpoints, victim, commits>>

\* One leaf: the folded page replaces the base and the folded chain is cleared.
InstallFold(k) ==
    /\ ckpt.pc = "install"
    /\ k \in ckpt.todo
    /\ base' = [base EXCEPT ![k] = FoldedBase(k, ckpt.ts)]
    /\ chain' = [chain EXCEPT ![k] = Retained(chain[k], ckpt.ts)]
    /\ ckpt' = [ckpt EXCEPT !.todo = @ \ {k}]
    /\ UNCHANGED <<history, publishing, poisoned, registry, view, pc, txn, gate, checkpoints, victim, commits>>

\* Faulty variant: rows superseded at the checkpoint boundary are collected.
GcAtBoundaryAndReopen ==
    /\ ckpt.pc = "install"
    /\ ckpt.todo = {}
    /\ history' = {r \in history : r.stop = TsMax \/ r.stop > ckpt.ts}
    /\ ckpt' = NoCkpt
    /\ closed' = FALSE
    /\ UNCHANGED <<chain, base, publishing, poisoned, registry, view, pc, txn, admitted, checkpoints, victim, commits>>

\* gc_pass with the ort of the staging step, then the guard reopens the gate.
GcAndReopen ==
    /\ ckpt.pc = "install"
    /\ ckpt.todo = {}
    /\ history' = {r \in history : r.stop = TsMax \/ r.stop > ckpt.ort}
    /\ ckpt' = NoCkpt
    /\ closed' = FALSE
    /\ UNCHANGED <<chain, base, publishing, poisoned, registry, view, pc, txn, admitted, checkpoints, victim, commits>>

\* The drain times out, or the staging fails before the structural batch is
\* committed: leaves folded so far stay folded and the guard reopens the gate.
CheckpointGivesUp ==
    /\ ckpt.pc # "idle"
    /\ ckpt' = NoCkpt
    /\ closed' = poisoned
    /\ UNCHANGED <<storage, publishing, poisoned, registry, view, pc, txn, admitted, checkpoints, victim, commits>>

\* A failure from the batch commit on poisons the engine; the gate stays shut.
CheckpointFails ==
    /\ ckpt.pc = "install" /\ ckpt.todo = {}
    /\ poisoned' = TRUE
    /\ ckpt' = NoCkpt
    /\ UNCHANGED <<storage, publishing, registry, view, pc, txn, gate, checkpoints, victim, commits>>

Checkpoint ==
    \/ CloseGate \/ PlanFold \/ SpillHistory \/ GcAndReopen
    \/ \E k \in Keys : InstallFold(k)
    \/ CheckpointGivesUp \/ CheckpointFails

-----------------------------------------------------------------------------
(* Frame eviction prunes a chain by an ort sampled before the pool locks.  *)

SampleOrt(k) ==
    /\ victim = NoVictim
    /\ chain[k] # <<>>
    /\ victim' = [key |-> {k}, ort |-> OldestRequiredTs]
    /\ UNCHANGED <<storage, publishing, poisoned, registry, view, pc, txn, gate, ckpt, checkpoints, commits>>

\* Aborted versions and the versions nobody needs go.
Needed(c, ort) ==
    Keep(c, {i \in DOMAIN c : /\ c[i].state # "Aborted"
                              /\ c[i].stop = TsMax \/ c[i].stop > ort})

\* A frame with a live head is passed over; otherwise its chain is pruned, and
\* the frame goes with the last version.
Evict(k) ==
    /\ victim.key = {k}
    /\ chain' = [chain EXCEPT ![k] =
                    IF LiveHead(@) # 0 THEN @ ELSE Needed(@, victim.ort)]
    /\ victim' = NoVictim
    /\ UNCHANGED <<base, history, publishing, poisoned, registry, view, pc, txn, gate, ckpt, checkpoints, commits>>

-----------------------------------------------------------------------------
Next ==
    \/ \E p \in Procs : PinView(p) \/ RefineView(p)
    \/ \E r \in Readers : CloseView(r)
    \/ \E w \in Writers : Select(w) \/ Enter(w) \/ Commit(w)
    \/ Checkpoint
    \/ \E k \in Evictable : SampleOrt(k) \/ Evict(k)

Spec == Init /\ [][Next]_vars

-----------------------------------------------------------------------------
(* Properties. *)

\* Every variable keeps its type: chains hold well-formed versions, pins and
\* read timestamps stay in range.
TypeOK ==
    /\ \A k \in Keys : \A i \in DOMAIN chain[k] : chain[k][i] \in Version
    /\ base \in [Keys -> Values]
    /\ history \subseteq Row
    /\ slot \in [Times -> {"Free", "Pending", "Ready", "Aborted"}]
    /\ oracle \in Values /\ published \in 0 .. oracle
    /\ poisoned \in BOOLEAN /\ closed \in BOOLEAN
    /\ registry \in [Procs -> Values \cup {None}]
    /\ view \in [Procs -> Values]
    /\ txn \in [Writers -> Txn]
    /\ admitted \subseteq Writers
    /\ ckpt.pc \in {"idle", "draining", "spill", "install"}
    /\ checkpoints \in 0 .. MaxCheckpoints

\* The value of k after the logged writes up to ts, applied in timestamp order.
Reference(k, ts) ==
    LET at == {c \in commits : c.key = k /\ c.ts <= ts}
        last == CHOOSE c \in at : \A d \in at : d.ts <= c.ts
    IN IF at = {} \/ last.tomb THEN 0 ELSE last.ts

\* The processes that read through a registered, refined view.
Viewing == {p \in Procs : registry[p] # None /\ pc[p] # "pinned"}

\* A held view always reads the point-in-time state of its timestamp: the
\* newest logged write at or below it, whatever commits, aborts, evictions
\* and checkpoint folds have happened since the view was opened.
SnapshotReads ==
    \A p \in Viewing, k \in Keys : Read(k, view[p]) = Reference(k, view[p])

\* A read at the published timestamp returns the newest published write, so
\* folding, spilling and pruning never lose or resurrect a document for the
\* operations that start now.
LatestReads ==
    ~poisoned => \A k \in Keys : Read(k, published) = Reference(k, published)

\* First committer wins: a logged update or delete replaces exactly the
\* document its writer read, and a logged insert replaces none.
FirstCommitterWins ==
    \A c \in commits : Reference(c.key, c.ts - 1) = c.over

\* No view reads a value whose log record was not written, nor one whose
\* transaction the frontier has not passed.
NoDirtyRead ==
    \A p \in Viewing, k \in Keys :
        LET v == Read(k, view[p])
        IN v # 0 => /\ \E c \in commits : c.key = k /\ c.ts = v
                    /\ slot[v] = "Ready" /\ v <= published

\* The versions of a chain that no abort voided.
Standing(c) == {i \in DOMAIN c : c[i].state # "Aborted"}

LinkedChain(c) ==
    \A i \in Standing(c) :
        /\ c[i].start < c[i].stop
        /\ (\A j \in Standing(c) : i <= j) => c[i].stop = TsMax
        /\ \A j \in Standing(c) :
              (j < i /\ ~\E m \in Standing(c) : j < m /\ m < i) => c[i].stop = c[j].start

\* The versions of a chain that no abort voided hand the key over without a
\* gap: each stops where the next newer one starts and only the newest is
\* live.  Readers and the install rely on there being one live head.
ChainLinked ==
    \A k \in Keys : LinkedChain(chain[k])

\* What a held view reads from a version chain or from the history store does
\* not change under it: eviction, spilling, folding and history garbage
\* collection keep every version a registered view resolves to.
ResolvedReadsStable ==
    [][\A p \in Viewing, k \in Keys :
          (registry'[p] = registry[p] /\ Lookup(k, view[p]).from # "base")
              => Read(k, view[p])' = Read(k, view[p])]_vars
=============================================================================
