---------------------------- MODULE MCRepository ----------------------------
EXTENDS Repository

(* Two stores.  "MKL" is called mkl by its entries; two texts of mkl are   *)
(* one version; "Cython" of the other store differs in case only; the egg  *)
(* name dateutil is not the project's name; the two eggs for another Python *)
(* can only be added.                                                      *)
MCIndex ==
    [s \in {"free", "commercial"} |->
        IF s = "free"
        THEN {Entry("MKL", "mkl", 1, "1.0-1", {"dateutil"}, "absent", AbsentTag),
              Entry("dateutil", "python_dateutil", 1, "1.0-1", {"Cython"}, "none", AbsentTag)}
        ELSE {Entry("MKL", "mkl", 1, "1.0.0-1", {"Cython"}, "3.3",
                    [impl |-> "py", python |-> "3.3"]),
              Entry("MKL", "mkl", 2, "2.0-1", {"dateutil"}, "3.3", AbsentTag),
              Entry("Cython", "cython", 2, "2.0-1", {}, "none", NoTag)}]
MCLower == [r \in {"MKL", "Cython", "mkl", "cython", "dateutil", "python_dateutil"} |->
              CASE r = "MKL" -> "mkl" [] r = "Cython" -> "cython" [] OTHER -> r]
=============================================================================
