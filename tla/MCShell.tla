------------------------------ MODULE MCShell ------------------------------
(***************************************************************************)
(* One session of each kind.                                               *)
(***************************************************************************)
EXTENDS Shell

MCKinds == {"ssh", "docker", "pty"}
=============================================================================
