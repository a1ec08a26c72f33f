--------------------------- MODULE MCScriptEvents ---------------------------
(* ScriptEvents with a pool of three script events and one key, for        *)
(* scripts that call different functions.                                  *)
EXTENDS ScriptEvents

Script(p, n, f) == [polyphonic |-> p, events |-> n, calls |-> f,
                    handlers |-> IF p THEN {"note", "release"} ELSE {"note"}]

MCScripts == {Script(FALSE, 2, {"fork"}), Script(TRUE, 2, {"abort"}),
              Script(TRUE, 2, {"stop_wait"})}
=============================================================================
