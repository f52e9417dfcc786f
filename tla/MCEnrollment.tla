---------------------------- MODULE MCEnrollment ----------------------------
(* Instances of Enrollment for TLC. *)
EXTENDS Enrollment, TLC

CONSTANTS h1, h2

\* Two PCs, each with an SMBIOS UUID; the second has a machine-id as well.
MCSysUuid  == (h1 :> "u1") @@ (h2 :> "u2")
MCMachUuid == (h1 :> None) @@ (h2 :> "v2")

Consider(operations, approval, overlap, tokens) ==
    [operations |-> operations, approval |-> approval, overlap |-> overlap, tokens |-> tokens]

\* Registrations that overlap with administrators' requests about machines; that
\* overlap with the installer's one-use tokens; tokens and the installer, in turns.
MCSettings ==
    {Consider({"share", "revoke", "approve", "withdraw", "rotate", "delete"}, FALSE, TRUE, 1),
     Consider({"enroll", "revoke_token"}, FALSE, TRUE, 2),
     Consider({"enroll", "share", "revoke_token", "delete_token", "expire", "delete", "retag"},
              TRUE, FALSE, 2)}

\* Hosts that move between assets, one registration at a time.
MCMoves == {Consider({"share"}, FALSE, FALSE, 1)}

Symmetry == Permutations(Rows) \cup Permutations(Tokens) \cup Permutations(Sessions) \cup Permutations(Assets)
=============================================================================
