-------------------------- MODULE MCEventVerifier --------------------------
(***************************************************************************)
(* Small instance of EventVerifier: an event of each of two sources, a     *)
(* second one of each, one with the name of the first, one without its     *)
(* level, and one of another run.                                           *)
(***************************************************************************)
EXTENDS EventVerifier

MCEvents   == {"out1", "out2", "file1", "copy1", "bare1", "other1"}
MCPrefixed == MCEvents \ {"other1"}
MCSound    == MCEvents \ {"bare1"}
MCStream   == [e \in MCEvents |-> IF e \in {"file1", "bare1"} THEN "file" ELSE "stdout"]
MCName     == [e \in MCEvents |-> IF e = "copy1" THEN "out1" ELSE e]
MCLoggedAt == [e \in MCEvents |-> IF e \in {"out1", "other1"} THEN 1
                                  ELSE IF e = "file1" THEN 2 ELSE 3]
MCWanted   == [s \in {"stdout", "stderr", "file"} |->
                CASE s = "stdout" -> 2 [] s = "file" -> 1 [] OTHER -> 0]
=============================================================================
