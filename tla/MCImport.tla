------------------------------ MODULE MCImport ------------------------------
(***************************************************************************)
(* Instances of Import for TLC: two scans of two hosts or of one, started  *)
(* in the same second or not.                                              *)
(***************************************************************************)
EXTENDS Import

TwoHosts == [s \in Scans |-> IF s = "first" THEN "web1" ELSE "web2"]
OneHost  == [s \in Scans |-> "web1"]

TwoSeconds == [s \in Scans |-> IF s = "first" THEN "10:00:00" ELSE "10:00:01"]
OneSecond  == [s \in Scans |-> "10:00:00"]
=============================================================================
