------------------------- MODULE MCScriptExecution -------------------------
(* Instances of ScriptExecution for TLC. *)
EXTENDS ScriptExecution

Job(statements, stop, text) ==
    [script |-> statements, stop |-> stop, text |-> text, old |-> NoId]

AnyJob == { Job(<<"table">>, FALSE, FALSE), Job(<<"call">>, FALSE, FALSE),
            Job(<<"update", "keyless">>, TRUE, TRUE),
            Job(<<"update", "update">>, FALSE, FALSE) }

Commands(runs, pages, hides, packets) ==
    [run |-> runs, page |-> pages, hide |-> hides, packets |-> packets]

(* Two runs that overlap; a run and two pages of its results, which may    *)
(* overlap; a run, a page and a hidden tab; a tab that is hidden twice; and*)
(* with smaller results two pages and a hidden tab.                        *)
Few == { Commands(2, 0, 0, 3), Commands(1, 2, 0, 3), Commands(1, 1, 1, 3),
         Commands(1, 0, 2, 3), Commands(1, 2, 1, 2) }

(* A select of more rows than two packets hold.                            *)
LongSelect == { Job(<<"table">>, FALSE, FALSE) }
RunOnly == { Commands(1, 0, 0, 3) }
=============================================================================
