------------------------------ MODULE MCRepair ------------------------------
EXTENDS Repair

(* Two eggs: one that can be repaired, one with a file in a subdirectory,  *)
(* which cannot, and without PKG-INFO.                                     *)
CONSTANTS plain, nested, spec, script

MCEggs == {plain, nested}
MCMembers == {"PKG-INFO", "egginst.json", spec, script}
MCSource ==
    [e \in MCEggs |->
        IF e = plain THEN {"PKG-INFO", "egginst.json", spec} ELSE {"egginst.json", spec, script}]
=============================================================================
