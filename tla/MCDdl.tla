------------------------------- MODULE MCDdl -------------------------------
(* The DDL model with two documents and two values, small enough for TLC.  *)
EXTENDS Ddl, TLC

MCDocs == 1..2
MCValues == 1..2
MCExpired == {1}
MCSymmetry == Permutations(Writers) \cup Permutations(Builders)

\* What follows a refused index record, or a build that changed pages of
\* others, is outside every property here.
MCUntorn == ~torn

\* Three writes and two DDL operations, or two and three.
MCMaxOps == pub.ts + ddls <= 5
=============================================================================
