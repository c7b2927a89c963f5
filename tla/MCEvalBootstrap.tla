--------------------------- MODULE MCEvalBootstrap --------------------------
(***************************************************************************)
(* EvalBootstrap for TLC: two machines, one of which may register twice,   *)
(* and two shapes in which one id string stands for different numbers.     *)
(***************************************************************************)
EXTENDS EvalBootstrap

Shape(dist, city) ==
    [nodes |-> [l \in 0 .. 4 |-> CASE l = 0 -> dist [] l = 1 -> city [] OTHER -> 0],
     cnodes |-> [l \in 0 .. 4 |-> 1], continents |-> 1]

\* Districts of two nodes, and of one; then fewer nodes than a gossip table of
\* TABLE_SIZE = 2 takes, itself and its successor aside.
MCConfigs ==
    <<[type |-> "hgfr", shape |-> Shape(2, 2)], [type |-> "eth", shape |-> Shape(1, 4)],
      [type |-> "eth", shape |-> Shape(1, 3)]>>

Budget(starts, configs, tables, broadcasts, pulls, trouble) ==
    "start" :> starts @@ "config" :> configs @@ "table" :> tables @@
    "BROADCAST" :> broadcasts @@ "PULL_LOG" :> pulls @@ "trouble" :> trouble

\* Two runs with logs; one run over a bad network; a machine that registers
\* again, so that the list has two pages, in two runs or with a log; a run whose
\* draw does not end, and an order after it.
MCBudgets ==
    {Budget(2, 2, 2, 1, 1, 0), Budget(2, 1, 1, 1, 1, 1),
     Budget(3, 2, 2, 0, 0, 0), Budget(4, 1, 1, 0, 0, 0),
     Budget(2, 3, 1, 1, 0, 0)}

\* Two runs, for the second manager of a client.
TwoRuns == {Budget(2, 2, 2, 0, 0, 0)}
=============================================================================
