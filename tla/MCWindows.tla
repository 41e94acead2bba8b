------------------------------ MODULE MCWindows ------------------------------
(* The parts of an attached screen that work on their own state - what a     *)
(* project's window shows of its repository, its tree, its terminals, the    *)
(* frame loop, and where input goes - each on small instances.  A behaviour  *)
(* is about one of them: topic says which, and the others keep still in one  *)
(* of their initial states.                                                  *)
EXTENDS GitViews, TreeNav, PaneView, FrameLoop, KeyRouter

VARIABLE topic

----------------------------------------------------------------------------
(* GitViews: a repository with two changed files, up to three commits before *)
(* and one after, and a tree of a directory and two files.                   *)

MCRows == <<0, 1, 2>>
MCFiles == << <<1>>, <<1, 2>>, <<2>>, <<>> >>
Bounds(k, e, c, f, a) == [keys |-> k, edits |-> e, commits |-> c, failures |-> f, again |-> a]
Base == [keys |-> {}, queries |-> {}, max |-> Bounds(0, 0, 0, 0, 1), mtime |-> <<1, 2>>,
         history |-> <<2, 1>>, follow |-> FALSE, restoring |-> 0]
MCScripts ==
    {[Base EXCEPT !.keys = {"up", "view"}, !.max = Bounds(2, 1, 0, 1, 1), !.restoring = 2],
     [Base EXCEPT !.keys = {"down", "search"}, !.queries = {{1}, {}, 1 .. 4},
                  !.max = Bounds(2, 1, 0, 0, 1), !.follow = TRUE],
     [Base EXCEPT !.keys = {"mode", "down", "drill", "search"}, !.queries = {{1}, 1 .. 4},
                  !.max = Bounds(3, 0, 0, 1, 0)],
     [Base EXCEPT !.keys = {"mode", "down", "drill"}, !.max = Bounds(3, 0, 1, 0, 0),
                  !.history = <<3, 2, 1>>],
     [Base EXCEPT !.keys = {"mode", "down", "tree", "view"}, !.max = Bounds(3, 0, 0, 0, 0)]}

\* TreeNav: a directory in a directory with a file, and a file at the top.
MCParent == <<0, 1, 2, 0>>

\* PaneView: three panes of which one or two are visible.
MCSaved == {SavedView(2, "terminal", FALSE, FALSE, FALSE),
            SavedView(1, "terminal", TRUE, FALSE, FALSE),
            SavedView(1, "list", FALSE, FALSE, TRUE)}
MCPanes == {PVScript({"focus", "full"}, 3, 1), PVScript({"panes", "full"}, 2, 2),
            PVScript({"size", "full"}, 3, 1)}

\* FrameLoop: two projects, files at one or two ages.
MCFileSets == {{1}, {0, 2}}
Kinds(k, n) == [kinds |-> k, left |-> n]
MCFrames == {Kinds({"clock", "session", "git"}, 3), Kinds({"clock", "input"}, 3),
             Kinds({"blink", "terminal", "session"}, 2), Kinds({"terminal", "input"}, 3),
             Kinds({"blink", "input", "resize"}, 3), Kinds({"clock"}, 4)}

\* KeyRouter: two repositories; each script the inputs that meet each other.
MCInputs == {KRScript({"leader", "o", "f", "esc", "press"}, 4, 2),
             KRScript({"leader", "s", "3", "h", "press", "paste"}, 3, 2),
             KRScript({"slash", "esc", "paste", "leader", "enter"}, 3, 2),
             KRScript({"press", "cycle", "fkey", "leader", "t"}, 2, 3),
             KRScript({"leader", "1", "l", "q", "press"}, 3, 1),
             KRScript({"leader", "2", "w", "press", "esc"}, 3, 1)}

----------------------------------------------------------------------------

GVStill == GVInit /\ script = CHOOSE s \in Scripts : TRUE
TNStill == TNInit /\ present = {}
PVStill == /\ PVInit /\ hub.panes = << >>
           /\ pv.saved = CHOOSE s \in SavedViews : TRUE
           /\ pvBudget = CHOOSE b \in PVScripts : TRUE
FLStill == /\ FLInit /\ clk.now = 0
           /\ app[1].files = CHOOSE s \in FileSets : TRUE
           /\ flBudget = CHOOSE b \in FLScripts : TRUE
KRStill == KRInit /\ ws.tabs = << >> /\ krBudget = CHOOSE b \in KRScripts : TRUE

MCInit ==
    \/ topic = "git" /\ GVInit /\ TNStill /\ PVStill /\ FLStill /\ KRStill
    \/ topic = "tree" /\ TNInit /\ GVStill /\ PVStill /\ FLStill /\ KRStill
    \/ topic = "panes" /\ PVInit /\ GVStill /\ TNStill /\ FLStill /\ KRStill
    \/ topic = "frames" /\ FLInit /\ GVStill /\ TNStill /\ PVStill /\ KRStill
    \/ topic = "input" /\ KRInit /\ GVStill /\ TNStill /\ PVStill /\ FLStill

MCNext ==
    /\ UNCHANGED topic
    /\ \/ topic = "git" /\ GVNext /\ UNCHANGED <<tnvars, pvvars, flvars, krvars>>
       \/ topic = "tree" /\ TNNext /\ UNCHANGED <<gvvars, pvvars, flvars, krvars>>
       \/ topic = "panes" /\ PVNext /\ UNCHANGED <<gvvars, tnvars, flvars, krvars>>
       \/ topic = "frames" /\ FLNext /\ UNCHANGED <<gvvars, tnvars, pvvars, krvars>>
       \/ topic = "input" /\ KRNext /\ UNCHANGED <<gvvars, tnvars, pvvars, flvars>>

MCSpec == MCInit /\ [][MCNext]_<<topic, gvvars, tnvars, pvvars, flvars, krvars>>
=============================================================================
