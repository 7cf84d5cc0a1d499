------------------------------- MODULE MCServer -------------------------------
(***************************************************************************)
(* Server on small instances.  Three requests are enough: one that is      *)
(* answered, one that is not, one that does not fit in the read buffer.    *)
(* Fewer handle values than clients make CreateNamedPipe reuse one.        *)
(***************************************************************************)
EXTENDS Server, TLC

\* Handle values are only compared.  Used where no liveness is checked.
HandleSymmetry == Permutations(Handle)
=============================================================================
