----------------------------- MODULE Repository -----------------------------
(***************************************************************************)
(* repository.py: the in-memory index.  A Repository maps the name of a    *)
(* project to the list of its packages, lowest version first, in a         *)
(* dictionary that makes an empty list for every name it is asked for with *)
(* [] (collections.DefaultOrderedDict).                                    *)
(*                                                                         *)
(* Its user loads the indices of stores into it (parse_index, update), and *)
(* adds, deletes and looks for packages, in any order.                     *)
(***************************************************************************)
EXTENDS PackageMetadata, Sublists, SequencesExt

CONSTANTS
    Stores,     \* the stores one may load
    Index,      \* Index[s]: the entries of index.json of store s
    Names,      \* the names one may ask for
    MaxPackages \* bound: how many packages the repository may have

VARIABLES
    index,      \* _name_to_packages
    loaded,     \* the stores that were loaded, or are being loaded
    adding,     \* the packages of that store that are still to be added
    deleted,    \* the names from which a package was deleted
    answer      \* the latest answer, with the question it is an answer to

repositoryVars == <<index, loaded, adding, deleted, answer>>

Entries == UNION {Index[s] : s \in Stores}
Packages == UNION {UNION {FromIndex(Index[s], e) : e \in Index[s]} : s \in Stores}
Versions == {p.version : p \in Packages}

(* Versions are numbers, in the order of EnpkgVersion.  Names are always   *)
(* in lower case, and what is in lower case stays so.  A tag names an      *)
(* implementation and a Python, or is for any.  (_RequirementNormalizer,   *)
(* _python_tag_to_python)                                                  *)
ASSUME RepositoryAssumption ==
    /\ Running \notin {"absent", "none"}
    /\ \A e \in Entries :
        /\ e.version \in Nat
        /\ e.name \in Names
        /\ Lower[e.name] = e.name
        /\ \A r \in e.packages : Lower[Lower[r]] = Lower[r]
        /\ e.tag \in {AbsentTag, NoTag} \/ e.tag.python \notin {"absent", "none"}

(* What a caller passes: a name, and perhaps versions that it is to have,  *)
(* or a full version; and what it gets for that.                           *)
Question(op, name, versions, text) ==
    [op |-> op, name |-> name, versions |-> versions, text |-> text]
NoQuestion == Question("none", "any", {}, "any")

Reply(question, ok, list) == [to |-> question, ok |-> ok, list |-> list]
NoAnswer == Reply(NoQuestion, TRUE, <<>>)
Raised(question) == Reply(question, FALSE, <<>>)

RepositoryInit ==
    /\ index = [n \in {} |-> <<>>]
    /\ loaded = {} /\ adding = {} /\ deleted = {}
    /\ answer = NoAnswer

-----------------------------------------------------------------------------
(* The dictionary: get does not change it, [] does. *)
Get(idx, n) == IF n \in DOMAIN idx THEN idx[n] ELSE <<>>
Put(idx, n, list) == [m \in DOMAIN idx \cup {n} |-> IF m = n THEN list ELSE idx[m]]
Touched(n) == Put(index, n, Get(index, n))

(* append, then a stable sort by version of a list that was sorted before. *)
Insert(list, p) ==
    Pick(list, {q \in Packages : q.version <= p.version}) \o <<p>>
        \o Pick(list, {q \in Packages : q.version > p.version})

Added(p) == Put(index, p.name, Insert(Get(index, p.name), p))

Count(p) == Cardinality(Places(Get(index, p.name), p))
RoomFor(n) == MapThenSumSet(LAMBDA m : Len(index[m]), DOMAIN index) + n <= MaxPackages

(* parse_index makes the packages, from_repository_infos and update add    *)
(* one after the other, in whatever order the dictionary of json has.      *)
Load(s) ==
    /\ s \notin loaded /\ adding = {}
    /\ \E parsed \in {f \in [{e \in Index[s] : Accepted(e)} -> Packages] :
                        \A e \in DOMAIN f : f[e] \in FromIndex(Index[s], e)} :
        /\ RoomFor(Cardinality(DOMAIN parsed))
        /\ adding' = {parsed[e] : e \in DOMAIN parsed}
    /\ loaded' = loaded \cup {s}
    /\ answer' = NoAnswer
    /\ UNCHANGED <<index, deleted>>

(* The next one of them. *)
AddParsed(p) ==
    /\ p \in adding
    /\ index' = Added(p)
    /\ adding' = adding \ {p}
    /\ answer' = NoAnswer
    /\ UNCHANGED <<loaded, deleted>>

AddPackage(p) ==
    /\ adding = {} /\ RoomFor(1)
    /\ index' = Added(p)
    /\ answer' = NoAnswer
    /\ UNCHANGED <<loaded, adding, deleted>>

Has(p) == \E q \in ToSet(Get(index, p.name)) : q.text = p.text

(* Every package of that full version goes, whatever store it came from. *)
DeletePackage(p) ==
    /\ adding = {}
    /\ index' = Put(index, p.name, Pick(Get(index, p.name), {q \in Packages : q.text # p.text}))
    /\ answer' = IF Has(p) THEN NoAnswer ELSE Raised(Question("delete", p.name, {}, p.text))
    /\ deleted' = deleted \cup {p.name}
    /\ UNCHANGED <<loaded, adding>>

-----------------------------------------------------------------------------
(* Questions *)

AnswerWith(reply) == adding = {} /\ answer' = reply /\ UNCHANGED <<loaded, adding, deleted>>

HasPackage(p) ==
    /\ index' = Touched(p.name)
    /\ AnswerWith(Reply(Question("has", p.name, {}, p.text), Has(p), <<>>))

(* The first one whose version is v, which may be spelled in several ways. *)
FindPackage(n, v) ==
    LET found == Pick(Get(index, n), {p \in Packages : p.version = v})
        asked == Question("find", n, {v}, "any")
    IN  /\ index' = Touched(n)
        /\ AnswerWith(IF found = <<>> THEN Raised(asked) ELSE Reply(asked, TRUE, <<Head(found)>>))

FindPackages(n) ==
    /\ AnswerWith(Reply(Question("packages", n, {}, "any"), TRUE, Get(index, n)))
    /\ UNCHANGED index

LastOf(asked, list) ==
    IF list = <<>> THEN Raised(asked) ELSE Reply(asked, TRUE, <<Last(list)>>)

FindLatestPackage(n) ==
    /\ AnswerWith(LastOf(Question("latest", n, {}, "any"), Get(index, n)))
    /\ UNCHANGED index

Candidates(n, vs) == Pick(Get(index, n), {p \in Packages : p.version \in vs})

(* Mutant of FindPackageFromRequirement: sorted the other way round. *)
FindLowestFromRequirement(n, vs) ==
    /\ AnswerWith(LastOf(Question("requirement", n, vs, "any"), Reverse(Candidates(n, vs))))
    /\ UNCHANGED index

(* vs: the versions that the requirement matches. *)
FindPackageFromRequirement(n, vs) ==
    /\ AnswerWith(LastOf(Question("requirement", n, vs, "any"), Candidates(n, vs)))
    /\ UNCHANGED index

(* packages[-1] of every list, also of one that is empty. *)
IterMostRecentPackages ==
    /\ AnswerWith(IF \E n \in DOMAIN index : index[n] = <<>> THEN Raised(Question("recent", "any", {}, "any"))
                  ELSE Reply(Question("recent", "any", {}, "any"), TRUE,
                             SetToSeq({Last(index[n]) : n \in DOMAIN index})))
    /\ UNCHANGED index

RepositoryNext ==
    \/ \E s \in Stores : Load(s)
    \/ \E p \in Packages : AddParsed(p) \/ AddPackage(p)
    \/ \E p \in Packages : DeletePackage(p) \/ HasPackage(p)
    \/ \E n \in Names : FindPackages(n) \/ FindLatestPackage(n)
    \/ \E n \in Names, v \in Versions : FindPackage(n, v)
    \/ \E n \in Names, vs \in SUBSET Versions : FindPackageFromRequirement(n, vs)
    \/ IterMostRecentPackages

RepositorySpec == RepositoryInit /\ [][RepositoryNext]_repositoryVars

-----------------------------------------------------------------------------
(* Properties *)

Sets == INSTANCE PackageSet WITH bag <- [p \in Packages |-> Count(p)], known <- DOMAIN index

(* Whatever is loaded, added, deleted and asked for, in any order: the     *)
(* answer to each question is the one that a bag of packages gives to that *)
(* question - the newest that a requirement matches, one of the version    *)
(* asked for, an exception if there is none - nothing is deleted but what  *)
(* has the full version asked for, and asking changes nothing; with one    *)
(* exception, that a name which is empty, or unknown and was looked up,    *)
(* makes iter_most_recent_packages raise.  (class Repository)              *)
KnowsItsPackages == Sets!Spec

(* A requirement on the egg name of an entry is one on a name that the     *)
(* repository finds, although index files spell the two differently; and   *)
(* so is a requirement on an egg of another store, if the two differ in    *)
(* case only; once their packages are added.  (_RequirementNormalizer,     *)
(* parse_index)                                                            *)
DependenciesFound ==
    adding = {} =>
    \A s, t \in loaded : \A e \in Index[s], f \in Index[t] :
        (/\ Accepted(e) /\ Accepted(f) /\ f.egg \in e.packages
         /\ {e.name, f.name} \cap deleted = {}
         /\ \A g \in Index[t] : g.egg = f.egg => g.name = f.name
         /\ s = t \/ (f.name = Lower[f.egg] /\ \A g \in Index[s] : g.egg # f.egg))
        => (/\ Get(index, f.name) # <<>>
            /\ \E p \in ToSet(Get(index, e.name)) : p.text = e.text /\ f.name \in p.needs)

(* What is written of a package can be read back: the index entry that     *)
(* s3index_data makes is that of the same package, and a package that was  *)
(* installed beside others has the name, version and requirements of the   *)
(* index, and its Python, or the running one if it is for any.  Except for *)
(* a requirement that, in lower case, is the egg name of a project with    *)
(* another name: an index without that egg leaves it as it is, and the     *)
(* installed egg makes it that name.                                       *)
(* (s3index_data, parse_index, _populate_from_prefixes)                    *)
MetadataSurvive ==
    LET inside == UNION {ToSet(index[n]) : n \in DOMAIN index}
        infos == {S3IndexData(p) : p \in inside}
    IN  \A p \in inside :
        (\A q \in inside : q.egg \in p.needs => q.name = q.egg) =>
        LET data == S3IndexData(p)
        IN  /\ FromIndex({data}, data) = {p}
            /\ Accepted(data) <=> p.tag.python \in {"none", Running}
            /\ \A installed \in FromInstalled(infos, data) :
                /\ [installed EXCEPT !.tag = p.tag] = p
                /\ installed.tag.python = IF p.tag = NoTag THEN Running ELSE p.tag.python
=============================================================================
