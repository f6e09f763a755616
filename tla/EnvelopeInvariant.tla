------------------------- MODULE EnvelopeInvariant --------------------------
(***************************************************************************)
(* The inductive invariants of the commit envelope.                        *)
(*                                                                         *)
(* EnvelopeInv ties every version in a chain to the publish slot of its    *)
(* transaction: a pending version's slot is pending, a committed one was   *)
(* logged before, and the frontier passes settled slots only.  LinkInv     *)
(* says that a chain's versions hand the key over without a gap, newest    *)
(* first, and that a writer only expects to replace versions older than    *)
(* itself.  FoldInv says where a logged write is once it has left its      *)
(* chain, and ViewInv and SpillInv what a fold leaves to the views held    *)
(* across it.  LogInv says that until the first checkpoint the log and the *)
(* chains agree, and that what a writer replaces is what it read.          *)
(***************************************************************************)
EXTENDS VersionChain

-----------------------------------------------------------------------------
(* Slots, owners and versions. *)

\* A transaction that owns a pending slot, and one whose slot was registered.
Owning == {"registered", "installed", "cleanup", "durable"}
Labels == Owning \cup {"idle", "pinned", "viewing", "selected", "begin", "admitted",
                       "loaded", "visible", "staged", "publishing"}

CkptType == [pc : {"idle", "draining", "spill", "install"}, ts : Values,
             ort : 0 .. TsMax, todo : SUBSET Keys]
CommitRow == [key : Keys, ts : Times, tomb : BOOLEAN, over : Values]

TypeInv ==
    /\ chain \in [Keys -> Seq(Version)]
    /\ base \in [Keys -> Values]
    /\ history \in SUBSET Row
    /\ slot \in [Times -> {"Free", "Pending", "Ready", "Aborted"}]
    /\ oracle \in Values /\ published \in Values
    /\ poisoned \in BOOLEAN /\ closed \in BOOLEAN
    /\ registry \in [Procs -> Values \cup {None}]
    /\ view \in [Procs -> Values]
    /\ pc \in [Procs -> Labels]
    /\ txn \in [Writers -> Txn]
    /\ admitted \in SUBSET Writers
    /\ ckpt \in CkptType
    /\ checkpoints \in 0 .. MaxCheckpoints
    /\ commits \in SUBSET CommitRow

\* Slots are used in timestamp order, the frontier passes terminal slots only,
\* and whoever reads or folds does so at or below it.
SlotInv ==
    /\ \A t \in Times : slot[t] = "Free" <=> t > oracle
    /\ \A t \in Times : t <= published => slot[t] \in {"Ready", "Aborted"}
    /\ published <= oracle
    /\ \A p \in Procs : view[p] <= published
    /\ ckpt.ts <= published

\* A transaction in flight owns a pending slot nobody else has, and its writes
\* are in the log from the append on, not before.
OwnerInv ==
    /\ \A w \in Writers : pc[w] \in Owning =>
          /\ txn[w].ts \in Times
          /\ slot[txn[w].ts] = "Pending"
          /\ pc[w] # "durable" => \A c \in commits : c.ts # txn[w].ts
    /\ \A w \in Writers : pc[w] = "durable" =>
          \A k \in txn[w].keys : [key |-> k, ts |-> txn[w].ts, tomb |-> txn[w].op = "delete",
                                  over |-> txn[w].read[k]] \in commits
    /\ \A v, w \in Writers : (pc[v] \in Owning /\ pc[w] \in Owning /\ txn[v].ts = txn[w].ts) => v = w
    /\ \A c \in commits : slot[c.ts] \in {"Pending", "Ready"}
    /\ \A c, d \in commits : (c.key = d.key /\ c.ts = d.ts) => c = d

\* A version in a chain, and the transaction that put it there.
EntryOf(k, e, slots, log, at, txns) ==
    /\ slots[e.start] # "Free"
    /\ e.state = "Pending" => slots[e.start] = "Pending"
    /\ e.state = "Committed" =>
          \E c \in log : c.key = k /\ c.ts = e.start /\ c.tomb = e.tomb
    /\ e.tomb => "delete" \in Ops
    /\ \A w \in Writers : (at[w] \in Owning /\ txns[w].ts = e.start) =>
          /\ at[w] # "registered"
          /\ e.tomb = (txns[w].op = "delete")
          /\ k \in txns[w].keys
          /\ e.state = "Pending" => k \in txns[w].todo

EntryInv(k, e) == EntryOf(k, e, slot, commits, pc, txn)

ChainInv ==
    \A k \in Keys :
        /\ \A i \in DOMAIN chain[k] : EntryInv(k, chain[k][i])
        /\ \A i, j \in DOMAIN chain[k] : chain[k][i].start = chain[k][j].start => i = j

\* What the checkpoint moved out of the chains was logged and published.
Logged(k, ts, tomb) ==
    ts <= published /\ \E c \in commits : c.key = k /\ c.ts = ts /\ c.tomb = tomb

StoreInv ==
    /\ \A r \in history : Logged(r.key, r.start, r.tomb)
    /\ \A k \in Keys : base[k] # 0 => Logged(k, base[k], FALSE)

EnvelopeInv == TypeInv /\ SlotInv /\ OwnerInv /\ ChainInv /\ StoreInv

\* Settling a slot moves the frontier over terminal slots only.
Settled(ts, state) ==
    /\ slot' \in [Times -> {"Free", "Pending", "Ready", "Aborted"}]
    /\ slot'[ts] = state
    /\ \A t \in Times : t # ts => slot'[t] = slot[t]
    /\ published' \in Values /\ published <= published' /\ published' <= oracle
    /\ \A t \in Times : t <= published' => slot'[t] \in {"Ready", "Aborted"}
    /\ \A t \in Times : slot'[t] = "Free" <=> t > oracle

-----------------------------------------------------------------------------
(* The order of the versions in a chain. *)

\* No delete is run, or only one thread writes.
TombsInOrder == "delete" \notin Ops \/ \A v, w \in Writers : v = w

\* What a writer may replace is older than itself.
ExpectInv ==
    \A w \in Writers :
        /\ \A k \in Keys : txn[w].read[k] <= oracle /\ txn[w].expected[k] <= oracle
        /\ pc[w] = "registered" => \A k \in Keys : txn[w].expected[k] < txn[w].ts
        /\ pc[w] = "registered" /\ "delete" \in Ops => txn[w].ts = oracle

LinkInv ==
    /\ TombsInOrder
    /\ \A k \in Keys : GoodChain(chain[k])
    /\ ExpectInv

-----------------------------------------------------------------------------
(* Where the logged writes are. *)

\* The logged write c is a version that stands.
Stands(c) ==
    \E i \in Standing(chain[c.key]) : chain[c.key][i].start = c.ts /\ chain[c.key][i].tomb = c.tomb

\* The base cell of k holds the newest write a checkpoint took out of its chain.
BaseOf(k) ==
    \/ base[k] = 0 /\ \A c \in commits : c.key = k => Stands(c)
    \/ \E c \in commits : /\ c.key = k /\ ~Stands(c)
                          /\ \A d \in commits : d.key = k /\ ~Stands(d) => d.ts <= c.ts
                          /\ base[k] = IF c.tomb THEN 0 ELSE c.ts

HoldsPending(w) ==
    \A k \in txn[w].keys : \E i \in DOMAIN chain[k] : /\ chain[k][i].start = txn[w].ts
                                                      /\ chain[k][i].state = "Pending"

\* A logged write stands in its chain, or it is published, older than whatever
\* stands there, and was folded into the base cell or under a newer one.
FoldInv ==
    /\ \A c \in commits :
          \/ Stands(c)
          \/ c.ts <= published /\ \A i \in Standing(chain[c.key]) : c.ts < chain[c.key][i].start
    /\ \A k \in Keys : BaseOf(k)
    /\ \A r \in history : r.stop <= published
    /\ \A w \in Writers : pc[w] = "installed" => HoldsPending(w)

\* What a step other than a fold does to the chains: logged and pending
\* versions stay, and new ones are past the frontier.
Stays ==
    /\ \A c \in commits : Stands(c) => Stands(c)'
    /\ \A k \in Keys : \A i \in Standing(chain'[k]) :
          \/ published < chain'[k][i].start
          \/ \E j \in Standing(chain[k]) : chain[k][j].start = chain'[k][i].start
    /\ \A w \in Writers : pc'[w] = "installed" => HoldsPending(w)'

-----------------------------------------------------------------------------
(* What the checkpoint may take from under a view. *)

\* The labels of a writer the admission gate has let in.
Inside == Owning \cup {"admitted", "loaded", "visible", "staged", "publishing"}

\* The view of one process: refined, it is registered at its own timestamp; a
\* process that has none registered none; a writer past the gate is admitted;
\* and the ort of a running fold is not above the view, unless the view was
\* opened past the boundary.
ViewOf(p) ==
    /\ p \in Viewing => registry[p] = view[p]
    /\ pc[p] \in {"idle", "admitted", "loaded"} => registry[p] = None
    /\ p \in Writers =>
          /\ pc[p] = "selected" => txn[p].op # "insert"
          /\ pc[p] = "begin" /\ txn[p].op = "insert" => registry[p] = None
          /\ pc[p] \in Inside => p \in admitted
    /\ ckpt.pc \in {"spill", "install"} /\ p \in Viewing =>
          ckpt.ort <= view[p] \/ ckpt.ts <= view[p]

\* The fold runs behind the closed and drained gate.
ViewInv ==
    /\ \A p \in Procs : ViewOf(p)
    /\ ckpt.pc # "idle" => closed
    /\ ckpt.pc \in {"spill", "install"} => admitted = {}

\* No logged write falls inside the window of a history row, and before a leaf
\* is folded the rows of its superseded versions are in the history store.
SpillInv ==
    /\ \A r \in history : \A c \in commits : c.key = r.key => c.ts <= r.start \/ r.stop <= c.ts
    /\ ckpt.pc \in {"spill", "install"} => \A r \in history : r.stop <= ckpt.ts
    /\ ckpt.pc = "install" => \A k \in ckpt.todo : SpillOf(k, ckpt.ts, ckpt.ort) \in SUBSET history

-----------------------------------------------------------------------------
(* The newest logged write, and what the writers replace. *)

\* v is the value of k after the writes in log up to ts.
Newest(log, k, ts, v) ==
    \/ v = 0 /\ \A c \in log : c.key = k => ~(c.ts <= ts)
    \/ \E c \in log : /\ c.key = k /\ c.ts <= ts
                      /\ \A d \in log : d.key = k /\ d.ts <= ts => d.ts <= c.ts
                      /\ v = IF c.tomb THEN 0 ELSE c.ts

\* What a view finds in a chain or in the history store is the newest logged
\* write up to its timestamp.
ResolvedInv ==
    \A p \in Procs, k \in Keys :
        Lookup(k, view[p]).from # "base" => Newest(commits, k, view[p], Read(k, view[p]))

Preparing == {"begin", "admitted", "loaded", "visible", "staged", "registered"}

\* What a writer read is logged, what it expects to replace is what it read,
\* and once its version is pending nobody else writes the key before it.
ReadInv ==
    \A w \in Writers, k \in Keys :
        /\ txn[w].read[k] # 0 => \E c \in commits : c.key = k /\ c.ts = txn[w].read[k]
        /\ k \notin txn[w].keys => txn[w].read[k] = 0
        /\ pc[w] \in Preparing => txn[w].expected[k] = txn[w].read[k]
        /\ pc[w] = "installed" /\ k \in txn[w].keys =>
              Newest(commits, k, txn[w].ts - 1, txn[w].read[k])

\* Nothing has left the chains: a logged write is a version that stands.
LogInv ==
    /\ MaxCheckpoints = 0 /\ checkpoints = 0 /\ ckpt.pc = "idle" /\ history = {}
    /\ \A c \in commits : Stands(c) /\ Newest(commits, c.key, c.ts - 1, c.over)
    /\ ReadInv
=============================================================================
