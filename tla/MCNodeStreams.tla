--------------------------- MODULE MCNodeStreams ---------------------------
(***************************************************************************)
(* Small instances of NodeStreams.                                         *)
(***************************************************************************)
EXTENDS NodeStreams, TLC

CONSTANTS a, b, c

\* Threads are interchangeable.
ThreadSymmetry == Permutations(Threads)

=============================================================================
