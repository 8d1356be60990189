------------------------------ MODULE NetLinks -----------------------------
(* Links between the nodes of a topology, and lists of links as a switch    *)
(* enters them in its table.                                                *)
EXTENDS Integers, Sequences

Host(i) == <<"HOST", i>>
Link(a, b, i) == [from |-> a, to |-> b, bundle |-> i]

\* The links from a to each of the nodes, over each link of a bundle.
LinksTo(a, nodes, bundle) ==
  [i \in 1 .. Len(nodes) * bundle |->
     Link(a, nodes[((i - 1) \div bundle) + 1], (i - 1) % bundle)]

\* A list of routes, whether all the destinations of the switch share it, and
\* whether it is shuffled when it is entered.
Hops(links, shared, shuffled) ==
  [links |-> links, shared |-> shared, shuffled |-> shuffled]
=============================================================================
