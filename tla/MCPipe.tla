------------------------------- MODULE MCPipe -------------------------------
(***************************************************************************)
(* Instances of Pipe for TLC.                                              *)
(***************************************************************************)
EXTENDS Pipe, TLC

Opt(l, d, i) == [limit |-> l, discard |-> d, idle |-> i]

\* Safety: waiting writers with an idle timeout, and discarding writers.
MCOptions == {Opt(0, FALSE, TRUE), Opt(1, TRUE, FALSE)}

\* The writers are interchangeable.
MCSymmetry == Permutations(Writers)

\* Liveness: writers wait as soon as one chunk is buffered.
MCWaiting == {Opt(0, FALSE, FALSE)}
=============================================================================
