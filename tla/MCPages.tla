------------------------------ MODULE MCPages ------------------------------
(***************************************************************************)
(* A tree for TLC: a file that the glob does not match, a directory with   *)
(* two files, a file that can be where the directory was, and a directory  *)
(* that is not searched.                                                   *)
(***************************************************************************)
EXTENDS Pages

SomePaths == {<<1>>, <<2>>, <<2, 1>>, <<2, 2>>, <<9, 1>>}

NotTheFirst == SomePaths \ {<<1>>}
=============================================================================
