------------------------------- MODULE MCServer -------------------------------
(* Two requests that meet on the flag or on a key, and the three it takes to   *)
(* write a row that is not the one that was read.                              *)
EXTENDS ServerProperties

MCPlans == {<<"toggle", "update">>, <<"toggle", "delete">>, <<"delete", "delete">>,
            <<"createKey", "revokeKey">>, <<"update", "delete", "create">>}
=============================================================================
