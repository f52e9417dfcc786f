---------------------------- MODULE MCServerApply ----------------------------
(* Instances of ServerApply for TLC. *)
EXTENDS ServerApply

Deployment(docker, unit, overlap) == [docker |-> docker, unit |-> unit, overlap |-> overlap]

\* As shipped, with turns and without; the systemd unit alone; both.
MCSettings == {Deployment(TRUE, FALSE, TRUE), Deployment(TRUE, FALSE, FALSE),
               Deployment(FALSE, TRUE, TRUE), Deployment(TRUE, TRUE, FALSE)}
=============================================================================
