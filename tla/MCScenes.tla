------------------------------ MODULE MCScenes ------------------------------
(* Instances of Scenes.  "a b" and "a_b" are two SSIDs with one file name. *)
EXTENDS Scenes

MCAlphanumeric == {"a", "b", "A"}
MCFatCase == [c \in MCAlphanumeric |-> IF c = "A" THEN "a" ELSE c]
DistinctSsids == {<<"a", " ">>, <<"b", " ">>}
OneSsid == {<<"a">>}
CollidingSsids == {<<"a", " ">>, <<"a", "_">>}
MCPasswords == {<<>>, <<"secret">>}
OnePassword == {<<>>}
=============================================================================
