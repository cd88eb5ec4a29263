---------------------------- MODULE MCFileSystem ----------------------------
(* Eleven sectors of five bytes: four are left for user files.  The third  *)
(* directory entry, the first of a user file, lies across two sectors.     *)
EXTENDS FileSystem, TLC

CONSTANTS f1, f2, f3

WriteData == {<<"x">>, <<"y", "z", "y">>}

Symmetry == Permutations(Name)
=============================================================================
