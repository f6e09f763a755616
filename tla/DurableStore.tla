---------------------------- MODULE DurableStore ----------------------------
(***************************************************************************)
(* What the storage engine promises across crashes, with no journal, pages *)
(* or checkpoints: a history of committed states, of which a prefix is     *)
(* safe.  A crash forgets a suffix of the unsafe commits; reopening shows  *)
(* exactly the last commit that was kept, never a state between two        *)
(* commits.  Recovery.tla is shown to implement it.                        *)
(***************************************************************************)
EXTENDS Integers, Sequences

CONSTANTS
  Collections,  \* the collection names
  Keys          \* the document keys of a collection

VARIABLES
  commits,  \* the state after each commit, oldest first; commits[1] is empty
  safe,     \* how many states of commits no crash may forget
  up,       \* whether the engine is open
  seen      \* the state a reader sees while the engine is open

vars == <<commits, safe, up, seen>>

\* A database state gives every existing collection its documents: a value
\* per key, 0 where there is none.
Documents == [Keys -> Nat]
Contents == UNION {[C -> Documents] : C \in SUBSET Collections}
IsContents(s) == DOMAIN s \subseteq Collections /\ s \in [DOMAIN s -> Documents]

Nothing == [c \in {} |-> [k \in Keys |-> 0]]

Newest == commits[Len(commits)]

TypeOK ==
  /\ commits \in Seq(Contents)
  /\ commits # <<>>
  /\ safe \in 1..Len(commits)
  /\ up \in BOOLEAN
  /\ seen \in Contents

Init ==
  /\ commits = <<Nothing>>
  /\ safe = 1
  /\ up = TRUE
  /\ seen = Nothing

SameElsewhere(s, t, c) ==
  \A d \in Collections \ {c} :
    /\ d \in DOMAIN s <=> d \in DOMAIN t
    /\ d \in DOMAIN s => t[d] = s[d]

\* One commit writes one document, creates one empty collection or drops one.
OneChange(s, t) ==
  \E c \in Collections :
    /\ SameElsewhere(s, t, c)
    /\ \/ /\ c \in DOMAIN s \cap DOMAIN t
          /\ \E k \in Keys : \A j \in Keys \ {k} : t[c][j] = s[c][j]
       \/ /\ c \in DOMAIN t \ DOMAIN s
          /\ t[c] = [k \in Keys |-> 0]
       \/ c \in DOMAIN s \ DOMAIN t

Commit ==
  /\ up
  /\ IsContents(seen')
  /\ OneChange(seen, seen')
  /\ commits' = Append(commits, seen')
  /\ UNCHANGED <<safe, up>>

Harden ==
  /\ safe' \in safe..Len(commits)
  /\ UNCHANGED <<commits, up, seen>>

Crash ==
  /\ \E n \in safe..Len(commits) :
       /\ commits' = SubSeq(commits, 1, n)
       /\ safe' \in safe..n
  /\ up' = FALSE
  /\ seen' = Nothing

Reopen ==
  /\ ~up
  /\ up' = TRUE
  /\ seen' = Newest
  /\ UNCHANGED <<commits, safe>>

Next == Commit \/ Harden \/ Crash \/ Reopen

Spec == Init /\ [][Next]_vars

----------------------------------------------------------------------------
\* An open engine shows the newest commit: no reader sees a half-recovered or
\* half-checkpointed state.
SeesNewest == up => seen = Newest

\* No step takes a safe commit away or changes it.
SafeKept ==
  [][/\ safe' >= safe
     /\ SubSeq(commits', 1, safe) = SubSeq(commits, 1, safe)]_vars
=============================================================================
