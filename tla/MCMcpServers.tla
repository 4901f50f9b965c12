---------------------------- MODULE MCMcpServers ----------------------------
(* Instances of McpServers for TLC.                                        *)
EXTENDS McpServers, TLC

CONSTANTS s1, s2, k1, k2, k3, k4, k5, i1, i2, f1, f2, f3, f4   \* model values

\* A crash that is seen twice ends an instance of two servers: the properties say
\* nothing of its server from then on.  The instance of one server goes on.
NothingSeenTwice == again = {}

McpSymmetry == Permutations(Container) \cup Permutations(Flow) \cup Permutations(Ip)
=============================================================================
