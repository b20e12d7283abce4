------------------------------ MODULE History ------------------------------
(***************************************************************************)
(* enstaller/history.py: the log PREFIX/enpkg.hist of what was installed   *)
(* when.  A section of the log is a header line and then either the whole  *)
(* set of eggs or, from the second section on, the changes since the       *)
(* section before it.                                                      *)
(*                                                                         *)
(* Every enpkg command that executes actions updates the log twice.  Each  *)
(* write is buffered and reaches the file when it is closed: a process     *)
(* that is stopped leaves some of its lines, and may cut the last of them. *)
(* What is appended then goes on with the line that was cut.  Nothing locks*)
(* the log.                                                                *)
(*                                                                         *)
(* Left out: two processes that create the log at the same time and write  *)
(* over one another's bytes.                                               *)
(*                                                                         *)
(* External: the set of installed eggs (egginst.get_installed), which      *)
(* changes at any time.                                                    *)
(***************************************************************************)
EXTENDS SharedFile, Naturals, FiniteSets, Sequences, SequencesExt

CONSTANTS
    Eggs,         \* eggs that may be installed
    NoEgg,        \* what a header says instead of an egg
    Torn,         \* what a line says that was cut, or goes on after it was
    NoLog,        \* there is no log file
    Error,        \* the log cannot be read: get_state raises
    InitialLogs,  \* the logs the model starts with
    MaxLines      \* bound on the lines of the log before it is written again

VARIABLES
    installed,    \* what egginst.get_installed yields
    log,          \* the lines of the file, or NoLog
    ended,        \* the last line of the file has its line end
    cut,          \* ghost: a process was stopped within a line
    last,         \* last[p]: the state p read from the log
    curr          \* curr[p]: the installed eggs p read

logVars == <<installed, log, ended, cut, pc, last, curr, disturbed>>

-----------------------------------------------------------------------------
(* Reading *)

Header == [op |-> "head", egg |-> NoEgg]
Line(op, e) == [op |-> op, egg |-> e]
LinesOf(op, eggs) == {Line(op, e) : e \in eggs}

(* What is cut of a header is one line more.                               *)
Names == Eggs \cup {Torn}
PartOfHeader == Line("part", Torn)
Lines == {Header, PartOfHeader} \cup [op : {"name", "add", "del"}, egg : Names]

(* The places of the headers; a section begins at each, a revision.        *)
Headers(lines) == {i \in DOMAIN lines : lines[i].op = "head"}

(* The header of the section that line i is in: the last one up to i.      *)
HeaderOf(lines, i) ==
    {h \in Headers(lines) : h <= i /\ \A g \in Headers(lines) : g <= i => g <= h}

(* parse: the lines below a header, and the header before it.              *)
Below(lines, h) == {lines[i] : i \in {j \in DOMAIN lines \ {h} : h \in HeaderOf(lines, j)}}
Section(lines, h) == [at |-> h, after |-> HeaderOf(lines, h - 1), text |-> Below(lines, h)]
Sections(lines) == {Section(lines, h) : h \in Headers(lines)}

(* parse raises at a line above the first header. *)
Parseable(lines) == \A i \in DOMAIN lines : HeaderOf(lines, i) # {}

IsDiff(section) == \E line \in section : line.op \in {"add", "del"}
EggsIn(section, op) == {line.egg : line \in {l \in section : l.op = op}}
NamesIn(section) == EggsIn(section, "name") \cup EggsIn(section, "part")

(* construct_states, one section: the sets the state may become.  Changes  *)
(* are applied in the order of a set, so an egg both added and removed may *)
(* stay or go.  A line that is no change is an error in a diff, and a diff *)
(* in the first section has nothing to change.                             *)
Apply(state, section) ==
    LET added == EggsIn(section, "add")
        removed == EggsIn(section, "del")
    IN  IF ~ IsDiff(section) THEN {NamesIn(section)}
        ELSE IF state = Error \/ NamesIn(section) # {} THEN {Error}
        ELSE {((state \ removed) \cup added) \ lost :
                  lost \in SUBSET (added \cap removed)}

(* The state that a section changes, if there is one before it. *)
Before(list, after) == IF after = {} THEN {Error} ELSE {list[h] : h \in after}

(* construct_states: the states that it may return, one for each revision, *)
(* of which each is made from the one before; none if it raises.           *)
States(lines) ==
    LET sections == Sections(lines)
    IN  IF ~ Parseable(lines) THEN {}
        ELSE {list \in [Headers(lines) -> SUBSET Names] :
                \A s \in sections :
                    \E state \in Before(list, s.after) : list[s.at] \in Apply(state, s.text)}

(* get_state: the sets it may return, Error if it raises. *)
GetState(lines) ==
    LET lists == States(lines)
        latest == HeaderOf(lines, Len(lines))
    IN  IF lists = {} \/ latest = {} THEN {Error}
        ELSE {list[h] : list \in lists, h \in latest}

(* Only one state can be read from a log as updates write it. *)
ASSUME HistoryAssumption ==
    /\ MaxLines \in Nat
    /\ IsFiniteSet(Eggs) /\ {NoEgg, Torn} \cap Eggs = {}
    /\ \A names \in SUBSET Names : Error # names
    /\ NoLog \notin Seq(Lines)
    /\ \A lines \in InitialLogs \ {NoLog} :
        lines \in Seq(Lines) /\ \E list \in States(lines) : States(lines) = {list}

-----------------------------------------------------------------------------
(* Writing *)

(* What _write_egg_names and _write_changes write, in any order of a set. *)
NamesText(eggs) == {<<Header>> \o s : s \in SetToSeqs(LinesOf("name", eggs))}
(* Mutants of ChangesText: additions only; additions without their sign;   *)
(* changes without a header.                                               *)
AdditionsText(from, to) ==
    {<<Header>> \o a : a \in SetToSeqs(LinesOf("add", to \ from))}
UnsignedText(from, to) ==
    UNION {{<<Header>> \o d \o a : a \in SetToSeqs(LinesOf("name", to \ from))} :
              d \in SetToSeqs(LinesOf("del", from \ to))}
HeadlessText(from, to) ==
    UNION {{d \o a : a \in SetToSeqs(LinesOf("add", to \ from))} :
              d \in SetToSeqs(LinesOf("del", from \ to))}

ChangesText(from, to) ==
    UNION {{<<Header>> \o d \o a : a \in SetToSeqs(LinesOf("add", to \ from))} :
              d \in SetToSeqs(LinesOf("del", from \ to))}

(* A line that goes on where another one was cut: the date of a header may *)
(* be any text, and a mark at the start of a line is enough for a change.  *)
Glue(line, next) ==
    IF line = Header THEN {Header}
    ELSE IF line = PartOfHeader THEN {line, next}
    ELSE {Line(line.op, Torn)}

(* The lines of the log once text is written at its end. *)
Appended(text) ==
    IF ended \/ text = <<>> THEN {log \o text}
    ELSE {Front(log) \o <<line>> \o Tail(text) : line \in Glue(Last(log), Head(text))}

-----------------------------------------------------------------------------
LogInit ==
    /\ installed \in SUBSET Eggs
    /\ log \in InitialLogs /\ ended = TRUE /\ cut = FALSE
    /\ pc = [p \in Procs |-> "idle"]
    /\ last = [p \in Procs |-> {}]
    /\ curr = [p \in Procs |-> {}]
    /\ disturbed = [p \in Procs |-> FALSE]

(* update: is there a log?  Opening a new one leaves it empty at first. *)
Start(p) ==
    /\ pc[p] = "idle"
    /\ log # NoLog => Len(log) <= MaxLines
    /\ IF log = NoLog
       THEN log' = <<>> /\ GoTo(p, "create") /\ Disturb(p)
       ELSE /\ UNCHANGED log /\ GoTo(p, "read")
            /\ disturbed' = [disturbed EXCEPT ![p] = FALSE]
    /\ UNCHANGED <<installed, ended, cut, last, curr>>

(* _write_egg_names *)
Create(p) ==
    /\ pc[p] = "create"
    /\ log' \in NamesText(installed) /\ ended' = TRUE
    /\ GoTo(p, "read") /\ Disturb(p)
    /\ UNCHANGED <<installed, cut, last, curr>>

(* get_state; an exception ends the command. *)
ReadLog(p) ==
    /\ pc[p] = "read"
    /\ \E s \in GetState(log) :
        IF s = Error
        THEN GoTo(p, "raised") /\ UNCHANGED last
        ELSE GoTo(p, "scan") /\ last' = [last EXCEPT ![p] = s]
    /\ UNCHANGED <<installed, log, ended, cut, curr, disturbed>>

Scan(p) ==
    /\ pc[p] = "scan"
    /\ curr' = [curr EXCEPT ![p] = installed]
    /\ GoTo(p, IF last[p] = installed THEN "done" ELSE "append")
    /\ UNCHANGED <<installed, log, ended, cut, last, disturbed>>

(* _write_changes *)
WriteChanges(p) ==
    /\ pc[p] = "append"
    /\ \E text \in ChangesText(last[p], curr[p]) : log' \in Appended(text)
    /\ ended' = TRUE
    /\ GoTo(p, "done") /\ Disturb(p)
    /\ UNCHANGED <<installed, cut, last, curr>>

EndUpdate(p) ==
    /\ pc[p] \in {"done", "raised"}
    /\ GoTo(p, "idle")
    /\ last' = [last EXCEPT ![p] = {}] /\ curr' = [curr EXCEPT ![p] = {}]
    /\ UNCHANGED <<installed, log, ended, cut, disturbed>>

-----------------------------------------------------------------------------
(* The process is stopped while it writes: a part of its text reaches the  *)
(* file.                                                                   *)
WholeLines(text) == {SubSeq(text, 1, i) : i \in 0..Len(text) - 1}

(* A header that is cut is no header, unless only its line end is missing. *)
CutLine(line) ==
    IF line = Header THEN {Header, PartOfHeader} ELSE {line, Line(line.op, Torn)}
CutShort(text) ==
    UNION {{Append(part, line) : line \in CutLine(text[Len(part) + 1])} :
              part \in WholeLines(text)}

StopUpdate(p) ==
    /\ \/ /\ pc[p] = "create"
          /\ \E text \in NamesText(installed) :
                \/ log' \in WholeLines(text) /\ UNCHANGED <<ended, cut>>
                \/ log' \in CutShort(text) /\ ended' = FALSE /\ cut' = TRUE
       \/ /\ pc[p] = "append"
          /\ \E text \in ChangesText(last[p], curr[p]) :
                \/ /\ \E part \in WholeLines(text) :
                        log' \in Appended(part) /\ ended' = (ended \/ part # <<>>)
                   /\ UNCHANGED cut
                \/ /\ \E part \in CutShort(text) : log' \in Appended(part)
                   /\ ended' = FALSE /\ cut' = TRUE
    /\ GoTo(p, "idle") /\ Disturb(p)
    /\ last' = [last EXCEPT ![p] = {}] /\ curr' = [curr EXCEPT ![p] = {}]
    /\ UNCHANGED installed

(* Packages come and go, through enpkg or behind its back. *)
Change ==
    /\ installed' \in SUBSET Eggs \ {installed}
    /\ UNCHANGED <<log, ended, cut, pc, last, curr, disturbed>>

LogNext ==
    \/ \E p \in Procs :
        \/ Start(p) \/ Create(p) \/ ReadLog(p) \/ Scan(p) \/ WriteChanges(p)
        \/ EndUpdate(p) \/ StopUpdate(p)
    \/ Change

LogSpec == LogInit /\ [][LogNext]_logVars

-----------------------------------------------------------------------------
(* Properties *)

(* After an update in which no other process wrote, the state of the log   *)
(* is the installed set that the update saw.  (History.update, get_state:  *)
(* "the same as the current state when the log file is up-to-date")        *)
LogIsCurrent ==
    \A p \in Procs :
        pc[p] = "done" /\ ~ disturbed[p] => GetState(log) = {curr[p]}

(* So it is whatever earlier updates that were mixed, or stopped between   *)
(* two lines, left in the log.  (History.update, get_state)                *)
UpToDate == ~ cut => LogIsCurrent

(* An update raises only on a log that is empty, because another process   *)
(* is creating it or was stopped while it did, or in which a line was cut: *)
(* what updates that mix, or are stopped between two lines, leave in the   *)
(* log can always be parsed. (parse, construct_states, get_state)          *)
RaisesOnlyOnBrokenLog ==
    [][\A p \in Procs :
        pc[p] # "raised" /\ pc'[p] = "raised" => log = <<>> \/ cut]_logVars

(* A revision, once in the log, is what it is: no later write changes its  *)
(* number, or the state that `enpkg --revert N' goes back to, as long as   *)
(* no line was cut.  (update, construct_states)                            *)
RevisionsStable ==
    [][log # NoLog /\ log' # log /\ ~ cut' =>
        \A list \in States(log) : \E longer \in States(log') :
            /\ DOMAIN list = {h \in DOMAIN longer : h <= Len(log)}
            /\ \A h \in DOMAIN list : longer[h] = list[h]]_log
=============================================================================
