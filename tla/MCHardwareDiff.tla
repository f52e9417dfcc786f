--------------------------- MODULE MCHardwareDiff ---------------------------
(* Instances of HardwareDiff for TLC. *)
EXTENDS HardwareDiff, TLC

Consider(changes, fails, noisy, overlap, back) ==
    [changes |-> changes, fails |-> fails, noisy |-> noisy, overlap |-> overlap, back |-> back]

\* In order, with the tools that see a kind of parts, and those that leave notes;
\* requests that overtake each other, and a clock that is set back.
MCSettings ==
    {Consider({"ram"}, {"dmidecode"}, FALSE, FALSE, FALSE),
     Consider({"gpu"}, {"nvidia-smi", "lspci"}, FALSE, FALSE, FALSE),
     Consider({"disk"}, {"lsblk", "lspci"}, FALSE, FALSE, FALSE),
     Consider({"disk"}, {"lsblk"}, TRUE, FALSE, FALSE),
     Consider({"ram"}, {"dmidecode"}, FALSE, TRUE, FALSE),
     Consider({"disk"}, {"lsblk"}, FALSE, TRUE, TRUE)}

Symmetry == Permutations(Slots) \cup Permutations(Modules) \cup Permutations(Cards)
              \cup Permutations(Disks) \cup Permutations(Sessions)
=============================================================================
