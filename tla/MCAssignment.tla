---------------------------- MODULE MCAssignment ----------------------------
(* Instances of Assignment for TLC. *)
EXTENDS Assignment, TLC

\* The lab of an item is its location's, or its holder's.
MCLocation == [i \in Items |-> NoLab]

\* The registry of scholars, three times without one of its operations; the Assign
\* and Revoke pages alone, with changes of address; they with removals of items and
\* scholars; documents; the own page.
MCSettings == {{"enroll", "confirm", "people"},
               {"enroll", "import", "patch", "people"},
               {"enroll", "confirm", "import", "patch"},
               {"issue", "revoke", "email"},
               {"issue", "revoke", "people", "items"},
               {"document", "revoke"},
               {"link", "people"}}

\* The Assign page alone.
MCIssue == {{"issue"}}

Symmetry == Permutations(Scholars) \cup Permutations(Items) \cup Permutations(Labs) \cup Permutations(Requests)
=============================================================================
