------------------------------- MODULE MCClient -------------------------------
(***************************************************************************)
(* Client on small instances.  ClassHandle is a set of model values that   *)
(* are only compared.                                                      *)
(***************************************************************************)
EXTENDS Client, TLC

\* The eleven demos of DemoSimulator::ReadRequest(), and one of each kind.
AllDemos  == <<"plain", "plain", "plain", "create", "create", "create", "print",
               "call", "call", "call", "call">>
OneOfEach == <<"plain", "create", "print", "call">>

\* Used where no liveness is checked.
ClassHandleSymmetry == Permutations(ClassHandle)
=============================================================================
