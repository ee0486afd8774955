---------------------------- MODULE MCDirectory -----------------------------
(* Instances of Directory for TLC.                                           *)
EXTENDS Directory

Config(p, t, ops, evicts) == [proto |-> p, transport |-> t, ops |-> ops, evicts |-> evicts]

\* Two busy cores with evictions, three cores that meet on the line, and the home
\* recalling the line of a single core.
MCConfigs ==
  {Config("MSI", "bus", <<2, 2, 0>>, <<1, 1, 0, 0>>), Config("MSI", "mesh", <<2, 1, 0>>, <<1, 1, 0, 0>>)}
  \cup {Config("MESI", "bus", <<2, 1, 0>>, <<1, 1, 0, 0>>),
        Config("MOESI", "bus", <<2, 1, 0>>, <<1, 0, 0, 0>>)}
  \cup {Config(p, "bus", <<1, 1, 1>>, <<0, 0, 0, 0>>) : p \in {"MSI", "MOESI"}}
  \cup {Config("MSI", t, <<1, 0, 0>>, <<1, 0, 0, 1>>) : t \in {"bus", "mesh"}}

MCRecall == {Config("MSI", "bus", <<1, 1>>, <<0, 0, 1>>)}
=============================================================================
