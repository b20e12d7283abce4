----------------------------- MODULE MCHistory -----------------------------
(* A log that does not exist yet, and one with a first section. *)
EXTENDS History

CONSTANTS x, y

Logs == {NoLog, <<Header>>, <<Header, Line("name", x)>>}
============================================================================
