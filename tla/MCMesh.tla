------------------------------- MODULE MCMesh --------------------------------
(* Mesh for TLC: the shapes of Mesh.csv and NoC.csv with two cores, a home node and a switch. *)
EXTENDS Mesh

Msg(from, tos, class, owner) == [from |-> from, tos |-> tos, class |-> class, owner |-> owner]

Both(a, b) == <<<<a, b, "request">>, <<a, b, "data">>>>

FullMesh ==
  [ids |-> <<1, 2>>, switches |-> {}, links |-> Both(1, 2), row |-> <<{2}, {1}>>, arbiter |-> "RR", max |-> 2,
   traffic |-> {Msg(1, <<2>>, "request", 1), Msg(1, <<2>>, "request", 2), Msg(1, <<2>>, "data", 1),
                Msg(2, <<1>>, "request", 2)}]
OneSwitch ==
  [ids |-> <<1, 2, 3, 4>>, switches |-> {4}, links |-> Both(1, 4) \o Both(1, 3) \o Both(2, 4) \o Both(2, 3),
   row |-> <<{3, 4}, {3, 4}, {1, 2}, {1, 2}>>, arbiter |-> "FCFS", max |-> 3,
   traffic |-> {Msg(1, <<2, 3>>, "request", 1), Msg(1, <<2>>, "data", 1), Msg(2, <<1>>, "request", 2)}]
Topologies == {FullMesh, OneSwitch}
Latencies == [request |-> 2, data |-> 3]
=============================================================================
