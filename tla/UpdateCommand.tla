--------------------------- MODULE UpdateCommand ---------------------------
(***************************************************************************)
(* What the remote update promises about the commands queued for an agent: *)
(* each is begun at most once and installed at most once, and only if an   *)
(* administrator queued it.  Commands are numbered in the order they are   *)
(* queued.  Nothing promises that a command is begun, or ends well.        *)
(***************************************************************************)
EXTENDS Naturals

VARIABLES
    issued,    \* number of commands queued
    hand,      \* command the agent is handling, or 0
    acted,     \* commands the agent has begun to handle
    installed  \* commands whose pack the agent has installed

vars == <<issued, hand, acted, installed>>

Init == issued = 0 /\ hand = 0 /\ acted = {} /\ installed = {}

Issue ==
    /\ issued' = issued + 1
    /\ UNCHANGED <<hand, acted, installed>>

Begin ==
    /\ \E c \in (1 .. issued) \ acted : hand' = c /\ acted' = acted \cup {c}
    /\ UNCHANGED <<issued, installed>>

Install ==
    /\ hand \in acted \ installed
    /\ installed' = installed \cup {hand}
    /\ UNCHANGED <<issued, hand, acted>>

Drop ==
    /\ hand' = 0
    /\ UNCHANGED <<issued, acted, installed>>

Next == Issue \/ Begin \/ Install \/ Drop

Spec == Init /\ [][Next]_vars
=============================================================================
