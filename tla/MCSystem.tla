------------------------------- MODULE MCSystem -------------------------------
(***************************************************************************)
(* System for TLC.  One client needs three requests to create an object,   *)
(* lose a request to the end of the server and use its old handle; the     *)
(* other needs two to create an object and use it at that moment.  Either  *)
(* may fall silent while ~Server waits for its worker.                     *)
(***************************************************************************)
EXTENDS System

TwoClients  == 1 .. 2
ThreeAndTwo == [c \in TwoClients |-> 4 - c]
=============================================================================
