----------------------------- MODULE MCRegistry -----------------------------
(***************************************************************************)
(* Configurations of ral.Init for Registry: naming name "a" feeds an http *)
(* and an hbase resource; hbase:m has one manual endpoint; redis:r        *)
(* declares Depend on both hbase:m and the naming resource, so the two    *)
(* goroutines contend for its lock.                                       *)
(***************************************************************************)
EXTENDS Registry

NoFile(k) == [key |-> k, manual |-> <<>>, othermanual |-> FALSE, zns |-> "", idc |-> "", depend |-> <<>>]

\* http:a1 names its naming service through ZNS.Name
MCFiles ==
  << [NoFile(<<"http", "a1">>) EXCEPT !.zns = "a"],
     [NoFile(<<"hbase", "a2">>) EXCEPT !.zns = "a"],
     [NoFile(<<"hbase", "m">>) EXCEPT !.manual = <<"e2">>],
     [NoFile(<<"redis", "r">>) EXCEPT !.depend = << <<"hbase", "m">>, <<"zns", "a">> >>] >>

\* the same, with http:a1 naming it only through ZNS.IDC[env.IDC]
MCFilesIDC == [MCFiles EXCEPT ![1] = [@ EXCEPT !.zns = "", !.idc = "a"]]

\* A two-level cascade: redis:x takes its endpoints from naming name "b"
\* and hbase:y depends on redis:x, so an hbase Append error unwinds two
\* frames
MCFilesNested ==
  << [NoFile(<<"redis", "x">>) EXCEPT !.zns = "b"],
     [NoFile(<<"hbase", "y">>) EXCEPT !.depend = << <<"redis", "x">> >>] >>
=============================================================================
