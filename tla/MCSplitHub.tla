----------------------------- MODULE MCSplitHub -----------------------------
(***************************************************************************)
(* Small instances of SplitHub.                                            *)
(***************************************************************************)
EXTENDS SplitHub

\* The first packet needs two reads, the others one.
MCPieces == [n \in 0..MaxPosts |-> IF n = 0 THEN 2 ELSE 1]

MCOnePiece == [n \in 0..MaxPosts |-> 1]

\* Three packets, a repeated packet, and a packet whose predecessor never comes,
\* in one session; and one packet while the id goes through two sessions.
MCWorkloads ==
    {[seq |-> <<0, 1, 2>>, sessions |-> 1], [seq |-> <<0, 0, Unsent>>, sessions |-> 1],
     [seq |-> <<1, 2, Unsent>>, sessions |-> 1], [seq |-> <<0, Unsent, Unsent>>, sessions |-> 2]}

\* Four posts, of which two carry packet 1.
MCRepeated == {[seq |-> <<0, 1, 1, 2>>, sessions |-> 1]}
=============================================================================
