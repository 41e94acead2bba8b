----------------------------- MODULE MCKeyRouter -----------------------------
\* KeyRouter alone: a search bar, Esc, and a pane that arrives meanwhile.
EXTENDS KeyRouter

MCInputs == {KRScript({"slash", "esc", "paste", "leader", "enter"}, 3, 2)}
MCSpec == KRInit /\ [][KRNext]_krvars
=============================================================================
