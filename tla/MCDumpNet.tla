----------------------------- MODULE MCDumpNet -----------------------------
(***************************************************************************)
(* Networks on which DumpNet is checked.                                    *)
(***************************************************************************)
EXTENDS DumpNet

\* Every node has one address per connection (a gateway), or one address
\* (a host on a LAN).
PerLink  == [n \in Nodes |-> [m \in Nodes |-> <<n, m>>]]
PerNode  == [n \in Nodes |-> [m \in Nodes |-> <<n, n>>]]
AllPairs == Nodes \X Nodes

\* A triangle with a tail: the source gets its own request back.
Lollipop == << <<"s", "a">>, <<"a", "b">>, <<"b", "s">>, <<"b", "d">> >>
Line == << <<"s", "a">>, <<"a", "d">> >>

NoPair == {}
ChurnPairs == {<<"s", "a">>, <<"d", "s">>}
StoD_PerLink == {<<"s", <<"d", "b">>>>}
StoD_PerNode == {<<"s", <<"d", "d">>>>}
=============================================================================
