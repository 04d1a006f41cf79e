---------------------------- MODULE MCChatServer ----------------------------
(***************************************************************************)
(* ChatServer for TLC.  The safety properties treat all clients alike, so  *)
(* the run that checks them takes states up to a permutation of clients;   *)
(* the runs that check liveness do not.                                    *)
(***************************************************************************)
EXTENDS ChatServer, TLC

ClientSymmetry == Permutations(Clients)
=============================================================================
