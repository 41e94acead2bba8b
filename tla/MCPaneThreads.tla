--------------------------- MODULE MCPaneThreads ----------------------------
\* PaneThreads for TLC. Each workload drives one part to its limits with the
\* others present.
EXTENDS PaneThreads

Quiet == [output |-> 0, submits |-> 0, plugin |-> 0, input |-> 0,
          closes |-> FALSE, stops |-> FALSE, leftovers |-> FALSE]

\* A full channel; a full command queue and a capped plugin; the input queue
\* at either limit; a little of everything.
SafetyWorkloads ==
    {[Quiet EXCEPT !.output = 3, !.closes = TRUE, !.leftovers = TRUE],
     [Quiet EXCEPT !.submits = 2, !.plugin = 2],
     [Quiet EXCEPT !.submits = 3, !.input = 3, !.closes = TRUE],
     [Quiet EXCEPT !.output = 1, !.submits = 1, !.plugin = 1, !.stops = TRUE]}

LiveWorkloads ==
    {[Quiet EXCEPT !.output = 2, !.closes = TRUE, !.leftovers = TRUE],
     [Quiet EXCEPT !.plugin = 2],
     [Quiet EXCEPT !.submits = 1, !.stops = TRUE],
     [Quiet EXCEPT !.submits = 1, !.input = 1, !.closes = TRUE]}
=============================================================================
