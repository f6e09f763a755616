------------------------- MODULE DurableStoreProofs -------------------------
(***************************************************************************)
(* Proofs about the promise Recovery implements, for every set of          *)
(* collections and keys and every number of commits and crashes.           *)
(***************************************************************************)
EXTENDS DurableStore, SequenceTheorems, TLAPS

\* The time the SMT solver may take for a leaf that names no prover.
USE SMTT(60)

\* The state before the first commit is a database state.
LEMMA NothingIsContents == Nothing \in Contents
<1>1. Nothing \in [{} -> Documents]
  BY Zenon DEF Nothing, Documents
<1>2. {} \in SUBSET Collections
  BY Zenon
<1> QED BY <1>1, <1>2, Zenon DEF Contents

\* The predicate a commit tests and the set the type invariant names agree.
LEMMA IsContentsInContents ==
  ASSUME NEW s, IsContents(s)
  PROVE  s \in Contents
BY Zenon DEF IsContents, Contents

\* The state invariant behind both results: types, and an open engine that
\* shows the newest commit.
Inv == TypeOK /\ SeesNewest

\* The history starts with the empty database, which is what is seen.
LEMMA InitInv == Init => Inv
<1> SUFFICES ASSUME Init PROVE Inv
  BY Zenon
<1>1. commits = <<Nothing>> /\ safe = 1 /\ up = TRUE /\ seen = Nothing
  BY Zenon DEF Init
<1>2. commits \in Seq(Contents) /\ Len(commits) = 1 /\ commits[1] = Nothing
  BY <1>1, NothingIsContents
<1>3. TypeOK
  BY <1>1, <1>2, NothingIsContents DEF TypeOK
<1> QED BY <1>1, <1>2, <1>3, Zenon DEF Inv, SeesNewest, Newest

\* A commit shows what it appended; a crash shows nothing; reopening shows the
\* newest commit kept.
LEMMA NextInv == Inv /\ [Next]_vars => Inv'
<1> SUFFICES ASSUME Inv, [Next]_vars PROVE Inv'
  BY Zenon
<1> USE DEF Inv
<1>1. CASE Commit
  <2>1. seen' \in Contents
    BY <1>1, IsContentsInContents, Zenon DEF Commit
  <2>2. /\ commits' \in Seq(Contents)
        /\ Len(commits') = Len(commits) + 1
        /\ commits'[Len(commits')] = seen'
    BY <1>1, <2>1 DEF Commit, TypeOK
  <2>3. TypeOK'
    BY <1>1, <2>1, <2>2 DEF Commit, TypeOK
  <2> QED BY <2>2, <2>3, Zenon DEF SeesNewest, Newest
<1>2. CASE Harden
  <2>1. TypeOK'
    BY <1>2 DEF Harden, TypeOK
  <2> QED BY <1>2, <2>1, Zenon DEF Harden, SeesNewest, Newest
<1>3. CASE Crash
  <2>1. PICK n \in safe..Len(commits) :
          commits' = SubSeq(commits, 1, n) /\ safe' \in safe..n
    BY <1>3, Zenon DEF Crash
  <2>2. n \in 1..Len(commits) /\ Len(commits) \in Nat
    BY DEF TypeOK
  <2>3. commits' \in Seq(Contents) /\ Len(commits') = n
    BY <2>1, <2>2 DEF TypeOK
  <2>4. safe' \in 1..Len(commits') /\ commits' # <<>>
    BY <2>1, <2>2, <2>3 DEF TypeOK
  <2>5. up' \in BOOLEAN /\ seen' \in Contents
    BY <1>3, NothingIsContents, Zenon DEF Crash
  <2>6. TypeOK'
    BY <2>3, <2>4, <2>5, Zenon DEF TypeOK
  <2> QED BY <1>3, <2>6, Zenon DEF Crash, SeesNewest
<1>4. CASE Reopen
  <2>1. Newest \in Contents
    BY DEF TypeOK, Newest
  <2>2. TypeOK'
    BY <1>4, <2>1, Zenon DEF Reopen, TypeOK
  <2> QED BY <1>4, <2>2, Zenon DEF Reopen, SeesNewest, Newest
<1>5. CASE UNCHANGED vars
  BY <1>5, Zenon DEF vars, TypeOK, SeesNewest, Newest
<1> QED BY <1>1, <1>2, <1>3, <1>4, <1>5, Zenon DEF Next

\* The history is a sequence of database states and an open engine shows its
\* last one: a reader never meets a half-recovered or half-checkpointed state.
THEOREM OpenShowsNewest == Spec => [](TypeOK /\ SeesNewest)
<1>1. Inv <=> TypeOK /\ SeesNewest
  BY Zenon DEF Inv
<1> QED BY InitInv, NextInv, <1>1, PTL DEF Spec

\* Cutting a sequence beyond its first m elements leaves those as they are.
LEMMA PrefixOfPrefix ==
  ASSUME NEW S, NEW s \in Seq(S), NEW n \in 0..Len(s), NEW m \in 0..n
  PROVE  SubSeq(SubSeq(s, 1, n), 1, m) = SubSeq(s, 1, m)
OBVIOUS

\* Appending to a sequence leaves its first m elements as they are.
LEMMA PrefixOfAppend ==
  ASSUME NEW S, NEW s \in Seq(S), NEW e \in S, NEW m \in 0..Len(s)
  PROVE  SubSeq(Append(s, e), 1, m) = SubSeq(s, 1, m)
OBVIOUS

\* One step never shrinks the safe prefix or changes a commit in it.
LEMMA StepKeepsSafe ==
  ASSUME Inv, [Next]_vars
  PROVE  safe' >= safe /\ SubSeq(commits', 1, safe) = SubSeq(commits, 1, safe)
<1> USE DEF Inv, TypeOK
<1>1. CASE Commit
  <2>1. seen' \in Contents
    BY <1>1, IsContentsInContents, Zenon DEF Commit
  <2> QED BY <1>1, <2>1, PrefixOfAppend DEF Commit
<1>2. CASE Harden
  BY <1>2 DEF Harden
<1>3. CASE Crash
  <2>1. PICK n \in safe..Len(commits) :
          commits' = SubSeq(commits, 1, n) /\ safe' \in safe..n
    BY <1>3, Zenon DEF Crash
  <2>2. n \in 0..Len(commits) /\ safe \in 0..n
    BY <2>1
  <2> QED BY <2>1, <2>2, PrefixOfPrefix
<1>4. CASE Reopen
  BY <1>4 DEF Reopen
<1>5. CASE UNCHANGED vars
  BY <1>5 DEF vars
<1> QED BY <1>1, <1>2, <1>3, <1>4, <1>5, Zenon DEF Next

\* What was durable stays: over any number of commits, crashes and reopenings
\* no step takes a safe commit away or changes it.
THEOREM DurableCommitsStay == Spec => SafeKept
<1> DEFINE Kept == /\ safe' >= safe
                   /\ SubSeq(commits', 1, safe) = SubSeq(commits, 1, safe)
<1>1. Inv /\ [Next]_vars => [Kept]_vars
  BY StepKeepsSafe, Zenon
<1> QED BY InitInv, NextInv, <1>1, PTL DEF Spec, SafeKept
=============================================================================
