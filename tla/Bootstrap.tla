----------------------------- MODULE Bootstrap -----------------------------
(***************************************************************************)
(* egginst/bootstrap.py: a script that is run by hand, with any Python, to *)
(* put a given version of enstaller into a prefix.  It takes the egg in    *)
(* the current directory, or downloads it there and checks it; removes     *)
(* whatever enstaller is installed, and installs the egg.                  *)
(*                                                                         *)
(* The packages of the prefix are a set; how one is removed and installed  *)
(* is module EggInst.                                                      *)
(***************************************************************************)
EXTENDS Naturals, FiniteSets

CONSTANT
    BootEgg     \* the version that is bootstrapped

ASSUME BootstrapAssumption == BootEgg.name = "enstaller"

VARIABLES
    installed,  \* the packages of the prefix
    saved,      \* enstaller-<version>.egg: "none", "partial", "other", "good"
    step,       \* what the script is doing, "idle" when it is not running
    stopped,    \* was a run killed, or unable to write?
    unchecked   \* is the installed enstaller from an egg with another checksum?

bootVars == <<installed, saved, step, stopped, unchecked>>

Enstallers == {p \in installed : p.name = "enstaller"}

BootInit ==
    /\ saved = "none"
    /\ step = "idle"
    /\ stopped = FALSE
    /\ unchecked = FALSE

-----------------------------------------------------------------------------
(* download_enstaller: "Avoid repeated downloads". *)
StartBootstrap ==
    /\ step = "idle"
    /\ step' = IF saved = "none" THEN "download" ELSE "replace"
    /\ UNCHANGED <<installed, saved, stopped, unchecked>>

(* get_best_downloader: powershell, curl or wget, if there is one, is      *)
(* started and writes the file as it comes.                                *)
RunDownloader ==
    /\ step = "download"
    /\ saved' = "partial" /\ step' = "wait"
    /\ UNCHANGED <<installed, stopped, unchecked>>

(* It ends well, whatever it got; or not, and _clean_check removes the file. *)
DownloaderEnds ==
    /\ step = "wait"
    /\ \/ saved' \in {"good", "other"} /\ step' = "check"
       \/ saved' = "none" /\ step' = "idle"
    /\ UNCHANGED <<installed, stopped, unchecked>>

(* Otherwise download_file_insecure, which writes when it has read all. *)
DownloadInsecure ==
    /\ step = "download"
    /\ \/ saved' \in {"good", "other"} /\ step' = "check" /\ UNCHANGED stopped
       \/ step' = "idle" /\ UNCHANGED <<saved, stopped>>
       \/ saved' = "partial" /\ step' = "idle" /\ stopped' = TRUE
    /\ UNCHANGED <<installed, unchecked>>

(* Mutant of CheckSum: a file with another checksum is not removed.        *)
CheckSumOnly ==
    /\ step = "check"
    /\ step' = IF saved = "good" THEN "replace" ELSE "idle"
    /\ UNCHANGED <<installed, saved, stopped, unchecked>>

CheckSum ==
    /\ step = "check"
    /\ IF saved = "good" THEN step' = "replace" /\ UNCHANGED saved
       ELSE saved' = "none" /\ step' = "idle"
    /\ UNCHANGED <<installed, stopped, unchecked>>

(* bootstrap_enstaller runs the egginst of the egg, or, if the file is no  *)
(* zip archive, the one that is installed.                                 *)
RemoveEnstaller ==
    /\ step = "replace"
    /\ IF saved = "partial" /\ Enstallers = {}
       THEN step' = "idle" /\ UNCHANGED <<installed, unchecked>>
       ELSE /\ installed' = installed \ Enstallers
            /\ unchecked' = FALSE
            /\ step' = "install"
    /\ UNCHANGED <<saved, stopped>>

(* What is no zip archive cannot be installed. *)
InstallEnstaller ==
    /\ step = "install"
    /\ step' = "idle"
    /\ IF saved = "partial" THEN UNCHANGED <<installed, unchecked>>
       ELSE installed' = installed \cup {BootEgg} /\ unchecked' = (saved # "good")
    /\ UNCHANGED <<saved, stopped>>

StopBootstrap ==
    /\ step # "idle"
    /\ step' = "idle" /\ stopped' = TRUE
    /\ UNCHANGED <<installed, saved, unchecked>>

BootNext ==
    \/ StartBootstrap \/ RunDownloader \/ DownloaderEnds \/ DownloadInsecure
    \/ CheckSum \/ RemoveEnstaller \/ InstallEnstaller \/ StopBootstrap

-----------------------------------------------------------------------------
(* Properties *)

(* As long as every run of the script came to an end of its own, good or   *)
(* bad, the file that it leaves, which the next run takes unchecked, has   *)
(* the right checksum, and so has every enstaller that a run installed.    *)
(* (download_enstaller, _clean_check)                                      *)
BootstrapVerified ==
    ~ stopped =>
        /\ ~ unchecked
        /\ step \in {"idle", "replace", "install"} => saved \in {"none", "good"}
=============================================================================
