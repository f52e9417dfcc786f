---------------------------- MODULE MCPackApply -----------------------------
(* Instances of PackApply for TLC. *)
EXTENDS PackApply

\* Both platforms, with every choice of packs that do not start, with and without crashes.
MCSettings == [platform : {"linux", "windows"}, dead : SUBSET (1 .. MaxPacks), crashes : BOOLEAN]
=============================================================================
