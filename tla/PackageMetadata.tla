-------------------------- MODULE PackageMetadata --------------------------
(***************************************************************************)
(* package.py, with repository.parse_index and what an installation does   *)
(* with the metadata: the forms the metadata of one egg go through.  An    *)
(* entry of a store's index.json becomes a RemotePackageMetadata; its      *)
(* s3index_data are again an entry, and InstallAction passes them to       *)
(* create_info, which writes _info.json; from that file later processes    *)
(* make an InstalledPackageMetadata.                                       *)
(*                                                                         *)
(* A key is <egg name>-<version>-<build>.egg.  `text' is the full version  *)
(* as a string and `version' what EnpkgVersion makes of it: two texts may  *)
(* be one version.  Fields that are only passed on are left out.           *)
(***************************************************************************)
CONSTANTS
    Running,    \* the running Python, "major.minor"
    Lower       \* Lower[r]: the lower case of a name in a requirement

(* python and python_tag may be missing, or null for any Python. *)
AbsentTag == [impl |-> "absent", python |-> "absent"]
NoTag == [impl |-> "none", python |-> "none"]
CPython(python) == [impl |-> "cp", python |-> python]

(* An entry, and a package made from one. *)
Entry(egg, name, version, text, packages, python, tag) ==
    [egg |-> egg, name |-> name, version |-> version, text |-> text,
     packages |-> packages, python |-> python, tag |-> tag]
Package(entry, needs, tag) ==
    [egg |-> entry.egg, name |-> entry.name, version |-> entry.version,
     text |-> entry.text, needs |-> needs, tag |-> tag]

(* parse_index: `python' defaults to the running one; entries for another  *)
(* one are left out.                                                       *)
DefaultPython(entry) == IF entry.python = "absent" THEN Running ELSE entry.python
Accepted(entry) == DefaultPython(entry) \in {"none", Running}

(* _set_default_python_tag *)
DefaultTag(python, tag) ==
    IF tag # AbsentTag THEN tag
    ELSE IF python = "none" THEN NoTag ELSE CPython(python)

(* Mutant of Normalized: names are only put in lower case. *)
NormalizedByCase(json, requirement) == {Lower[requirement]}

(* _RequirementNormalizer: of several entries with that egg name the last  *)
(* one of the file counts.                                                 *)
Normalized(json, requirement) ==
    LET named == {entry.name : entry \in {x \in json : x.egg = requirement}}
    IN  IF named = {} THEN {Lower[requirement]} ELSE named

(* The packages that parse_index may make of an entry of the file json. *)
FromIndex(json, entry) ==
    LET choices == {f \in [entry.packages -> UNION {Normalized(json, r) : r \in entry.packages}] :
                      \A r \in entry.packages : f[r] \in Normalized(json, r)}
    IN  {Package(entry, {f[r] : r \in entry.packages},
                 DefaultTag(DefaultPython(entry), entry.tag)) : f \in choices}

(* Mutant of S3IndexData: for which implementation the egg was built, and  *)
(* whether for any, is forgotten.                                          *)
S3IndexDataForRunning(p) == Entry(p.egg, p.name, p.version, p.text, p.needs, Running, AbsentTag)

S3IndexData(p) == Entry(p.egg, p.name, p.version, p.text, p.needs, p.tag.python, p.tag)

(* _populate_from_prefixes and from_installed_meta_dict, of what           *)
(* create_info wrote: the names that are required are normalized again,    *)
(* now by what is installed, and the tag is not looked at.                 *)
FromInstalled(infos, info) ==
    {[p EXCEPT !.tag = CPython(IF info.python = "none" THEN Running ELSE info.python)] :
        p \in FromIndex(infos, info)}
=============================================================================
