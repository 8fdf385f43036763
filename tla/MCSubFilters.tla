---------------------------- MODULE MCSubFilters -----------------------------
(***************************************************************************)
(* Overlapping filters for SubFilters: "a", "+" and "a/#".                    *)
(***************************************************************************)
EXTENDS SubFilters

MCText == <<<<"a">>, <<"+">>, <<"a", "/", "#">>>>
MCTopics == {<<"a">>, <<"b">>}
==============================================================================
