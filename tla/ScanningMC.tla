------------------------------ MODULE ScanningMC ------------------------------
(* Instances of Scanning for TLC: a crate's Cargo.toml and a file in its target folder. *)
EXTENDS Scanning

CrateNames == {"Cargo.toml", "target/f"}
CrateMarks == [n \in CrateNames |-> IF n = "target/f" THEN {"Cargo.toml"} ELSE {}]
=============================================================================
