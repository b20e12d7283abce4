------------------------------ MODULE MCFetch ------------------------------
(* Contents of two chunks; the index announces `good' or, after an update  *)
(* of the repository, `newer'; the server may send either, whatever the    *)
(* index says, or one cut short.                                           *)
EXTENDS Fetch

good == <<"g1", "g2">>
newer == <<"g1", "n2">>
short == <<"g1">>

MCWanted == {good, newer}
MCAnswers == {good, newer, short}
============================================================================
