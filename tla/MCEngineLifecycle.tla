------------------------- MODULE MCEngineLifecycle --------------------------
(***************************************************************************)
(* Slices of an engine for TLC: its Node with some of its components.      *)
(***************************************************************************)
EXTENDS EngineLifecycle

CONSTANTS w1, w2

OneWorker == {w1}
TwoWorkers == {w1, w2}
None == {}
Registering == {"catalog", "updater", "crawler", "parser"}
Fetching == {"crawler", "parser", "index"}
Fragiles == {"parser"}
=============================================================================
