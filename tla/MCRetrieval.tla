---------------------------- MODULE MCRetrieval -----------------------------
(* Two snapshots of one repository with as many chunks, one of another with too *)
(* many, and one whose last chunk cannot be sent to the server.                *)
EXTENDS Retrieval

Snapshots == {<<"repo", "one">>, <<"repo", "two">>, <<"big", "one">>, <<"wide", "one">>}
Sizes == [s \in Snapshots |-> IF s[1] = "big" THEN 4 ELSE 3]
Wide == {<<<<"wide", "one">>, 3>>}
=============================================================================
