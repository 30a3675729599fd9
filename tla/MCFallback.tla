----------------------------- MODULE MCFallback -----------------------------
(* The candidates and the requests of the model-checked executions. *)
EXTENDS Fallback

MCKeys == {"a", "b"}
MCRPM  == [k \in MCKeys |-> IF k = "a" THEN 1 ELSE 0]

Text(l)  == [list |-> l, image |-> FALSE]
Image(l) == [list |-> l, image |-> TRUE]

MCRequests == <<{Text(<<"b", "a">>), Text(<<"a", "b">>)}, {Text(<<"a">>)}, {Text(<<"a">>), Image(<<"a">>)}>>
=============================================================================
