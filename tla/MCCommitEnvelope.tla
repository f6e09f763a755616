-------------------------- MODULE MCCommitEnvelope --------------------------
(* CommitEnvelope for TLC: interchangeable writers, readers and keys. *)
EXTENDS CommitEnvelope, TLC

ReaderSymmetry == Permutations(Readers)
WriterKeySymmetry == Permutations(Writers) \cup Permutations(Keys)
=============================================================================
