----------------------------- MODULE MCFileSys -----------------------------
(* Two processes on a disk with room for few files.                        *)
EXTENDS FileSys, TLC

Symmetry == Permutations(Procs)

(* A name in the working directory, one in its parent (the root has itself *)
(* as parent) and one in a directory below the root.                       *)
SomePaths == {<<"x">>, <<"..", "y">>, <<"/", "x", "y">>}
=============================================================================
