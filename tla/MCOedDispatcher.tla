-------------------------- MODULE MCOedDispatcher --------------------------
(* Small sets of templates and objects for the matcher.                    *)
EXTENDS OedDispatcher, TLC

(* A take that waits for either of two templates, and a read of one of     *)
(* them with a wildcard.                                                   *)
TakeTwo == <<<<"a", "b">>, <<"b">>>>
ReadOne == <<<<"_", "b">>>>
MCTemplates == ("take" :> TakeTwo) @@ ("read" :> ReadOne)

(* A read whose two templates are filed under one key, and a take.         *)
Shared == <<<<"a">>, <<"a", "_">>>>
MCShared == ("read" :> Shared) @@ ("take" :> <<<<"_", "b", "a">>>>)

MCObject == {<<"a", "b">>, <<"c", "b">>}
=============================================================================
