---------------------------- MODULE MCLibraryScan ----------------------------
(* Instances of LibraryScan for TLC. *)
EXTENDS LibraryScan

CONSTANTS f1, f2, r1

OneFile == {f1}
TwoFiles == {f1, f2}
OneRemote == {r1}
NoClients == {}
=============================================================================
