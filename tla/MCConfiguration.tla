-------------------------- MODULE MCConfiguration --------------------------
(* Users one of whom has a colon in the password, and files: none, one of  *)
(* an old version with EPD_username, one with a token, one with both kinds *)
(* of credentials.                                                         *)
EXTENDS Configuration, TLC

CONSTANTS plain, colon, url, other

TwoUsers == {plain, colon}
File(a, username, token, repos) ==
    [auth |-> a, username |-> username, token |-> token,
     section |-> TRUE, repos |-> repos]
FourFiles == {NoFile, File(None, TRUE, FALSE, {}), File(None, TRUE, TRUE, {other}),
              File(plain, FALSE, TRUE, {})}

(* Processes differ in nothing. *)
Symmetry == Permutations(Procs)
=============================================================================
