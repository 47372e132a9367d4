---------------------------- MODULE MCDnsService ----------------------------
(***************************************************************************)
(* Small instances of DnsService.                                          *)
(***************************************************************************)
EXTENDS DnsService

\* Two lookups that share a client, of one group with the other client or not;
\* two of a client that serves what has expired, the other client being FakeDNS;
\* two in turn, for both families; two of a client that serves what has expired
\* without a limit; and one that asks two clients in turn.
MCWorkloads ==
    {[parallel |-> TRUE, caching |-> "off", policy |-> p, fake |-> {},
      allow |-> <<{4}, {6}>>, opt |-> <<{4, 6}, {4}>>, until |-> 0] : p \in {<<1, 1>>, <<1, 2>>}}
    \cup
    {[parallel |-> TRUE, caching |-> "stale", policy |-> <<1, 2>>, fake |-> {2},
      allow |-> <<{4, 6}, {4}>>, opt |-> <<{4}, {4}>>, until |-> 3],
     [parallel |-> FALSE, caching |-> "stale", policy |-> <<1, 2>>, fake |-> {2},
      allow |-> <<{4, 6}, {4}>>, opt |-> <<{4, 6}, {4, 6}>>, until |-> 1],
     [parallel |-> FALSE, caching |-> "endless", policy |-> <<1, 2>>, fake |-> {2},
      allow |-> <<{4}, {4}>>, opt |-> <<{4}, {4}>>, until |-> 3],
     [parallel |-> FALSE, caching |-> "on", policy |-> <<1, 2>>, fake |-> {},
      allow |-> <<{4}, {4}>>, opt |-> <<{4}, {}>>, until |-> 2]}

\* Two lookups of one client, one after the other or at once.
MCOneClient ==
    {[parallel |-> FALSE, caching |-> "off", policy |-> <<1>>, fake |-> {},
      allow |-> <<{4}>>, opt |-> <<{4}, {4}>>, until |-> 0]}
=============================================================================
