------------------------------ MODULE MCCaches ------------------------------
(***************************************************************************)
(* Callers that share the caches: one has a compiler for patterns of its   *)
(* own, which refuses a pattern.  One location is relative, and one no     *)
(* reader knows.                                                           *)
(***************************************************************************)
EXTENDS Caches

MCLocations ==
  { [scheme |-> "http", host |-> "h", path |-> "/a"],
    [scheme |-> "", host |-> "", path |-> "b"],
    [scheme |-> "s3", host |-> "", path |-> "/a"] }
MCRelative == {"b"}
MCCompiler == [p \in Callers |-> IF p = "own" THEN "re2" ELSE ""]
MCRefused == { <<"re2", "lookahead">> }
MCElem == [t \in Types |-> IF t = "*T" THEN "T" ELSE t]
=============================================================================
