---------------------------- MODULE ClientSyncMC ----------------------------
(* Instances of ClientSync for TLC. *)
EXTENDS ClientSync

OnePath == {"f"}
TwoPaths == {"f", "g"}
=============================================================================
