---------------------------- MODULE MCHubPlugins ----------------------------
\* HubPlugins on small instances.
EXTENDS HubPlugins

CONSTANTS resume, signal

Entry(w, s) == [enabled |-> TRUE, watch |-> w, spec |-> s]

\* A plugin that is opted into, with two command lines, and one that is only
\* given panes on a signal, each on or off.
PluginTables ==
    {cfg \in [Names -> Config] :
        /\ resume \in Names => cfg[resume] \in {Off, Entry(FALSE, 1), Entry(TRUE, 2)}
        /\ signal \in Names => cfg[signal] \in {Off, Entry(TRUE, 1)}}
=============================================================================
