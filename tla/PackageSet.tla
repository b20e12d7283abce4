----------------------------- MODULE PackageSet -----------------------------
(***************************************************************************)
(* What the users of a Repository rely on: "A Repository is a set of       *)
(* package, and knows about which package it contains", repository.py:32.  *)
(* More exactly, it is a bag.  The set is only changed by adding and by    *)
(* deleting packages, and every answer follows from what is in it and from *)
(* what was asked.                                                         *)
(***************************************************************************)
EXTENDS Naturals, Sequences, SequencesExt, FiniteSets

CONSTANTS
    Packages,   \* the packages that there are
    Names       \* the names one may ask for

VARIABLES
    bag,        \* bag[p]: how often p was added and not deleted
    known,      \* the names that were added, deleted from or asked for
    answer      \* the latest answer, with the question it is an answer to

vars == <<bag, known, answer>>

(* A question is about a name, and perhaps about some versions of it, or   *)
(* about the full version in `text'.                                       *)
Question(op, name, versions, text) ==
    [op |-> op, name |-> name, versions |-> versions, text |-> text]
NoQuestion == Question("none", "any", {}, "any")

Reply(question, ok, list) == [to |-> question, ok |-> ok, list |-> list]
NoAnswer == Reply(NoQuestion, TRUE, <<>>)
Raised(question) == Reply(question, FALSE, <<>>)

In(n) == {p \in Packages : bag[p] > 0 /\ p.name = n}

(* What has the greatest version in s. *)
Newest(s) == {p \in s : \A q \in s : q.version <= p.version}

Init ==
    /\ bag = [p \in Packages |-> 0]
    /\ known = {}
    /\ answer = NoAnswer

Add(ps) ==
    /\ answer' = NoAnswer
    /\ bag' = [p \in Packages |-> IF p \in ps THEN bag[p] + 1 ELSE bag[p]]
    /\ known' = known \cup {p.name : p \in ps}

(* "Removing a non-existent package is an error", repository.py:128. *)
Delete(p) ==
    LET same == {q \in In(p.name) : q.text = p.text}
    IN  /\ bag' = [q \in Packages |-> IF q \in same THEN 0 ELSE bag[q]]
        /\ answer' = IF same = {} THEN Raised(Question("delete", p.name, {}, p.text)) ELSE NoAnswer
        /\ known' = known \cup {p.name}

(* One of the choices is the answer; without any, the question raises.     *)
OneOf(choices, reply) ==
    IF choices = {} THEN ~reply.ok /\ reply.list = <<>>
    ELSE reply.ok /\ \E p \in choices : reply.list = <<p>>

(* What has the name, and one of the versions that were asked for. *)
Matching(question) == {p \in In(question.name) : p.version \in question.versions}

(* All of that name, as often as they were added, the lower versions first. *)
AllSorted(name, list) ==
    /\ \A p \in Packages :
        Cardinality({i \in DOMAIN list : list[i] = p}) = IF p.name = name THEN bag[p] ELSE 0
    /\ \A i, j \in DOMAIN list : i < j => list[i].version <= list[j].version

(* One that is newest of every name; but when all packages of a known name *)
(* were deleted, or there never were any, there is no answer any more.     *)
RecentOnes(reply) ==
    IF \E n \in known : In(n) = {} THEN ~reply.ok
    ELSE /\ reply.ok
         /\ \A p \in ToSet(reply.list) : p \in Newest(In(p.name))
         /\ \A n \in known : \E i \in DOMAIN reply.list :
            {j \in DOMAIN reply.list : reply.list[j].name = n} = {i}

Correct(question, reply) ==
    \/ question.op = "latest" /\ OneOf(Newest(In(question.name)), reply)
    \/ question.op = "requirement" /\ OneOf(Newest(Matching(question)), reply)
    \/ question.op = "find" /\ OneOf(Matching(question), reply)
    \/ /\ question.op = "has" /\ reply.list = <<>>
       /\ reply.ok = \E p \in In(question.name) : p.text = question.text
    \/ question.op = "packages" /\ reply.ok /\ AllSorted(question.name, reply.list)
    \/ question.op = "recent" /\ RecentOnes(reply)

(* has_package and find_package make the name known. *)
Ask(question) ==
    /\ answer'.to = question /\ Correct(question, answer')
    /\ known' = IF question.op \in {"has", "find"} THEN known \cup {question.name} ELSE known
    /\ UNCHANGED bag

Next ==
    \/ \E ps \in SUBSET Packages : Add(ps)
    \/ \E p \in Packages : Delete(p)
    \/ Ask(answer'.to)

Spec == Init /\ [][Next]_vars
=============================================================================
