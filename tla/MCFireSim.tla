----------------------------- MODULE MCFireSim -----------------------------
(* A folder whose nat table has two shell parts, and one with one shorter  *)
(* script alone.                                                           *)
EXTENDS FireSim

Part1(script, text) == [script |-> script, text |-> text]
MCParts == [c \in {"two", "one"} |->
    IF c = "two"
    THEN <<Part1(FALSE, <<"x">>), Part1(TRUE, <<"x", "y">>), Part1(TRUE, <<"y">>)>>
    ELSE <<Part1(TRUE, <<"z">>)>>]
=============================================================================
