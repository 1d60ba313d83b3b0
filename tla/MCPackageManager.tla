-------------------------- MODULE MCPackageManager --------------------------
(* A file, a directory that holds it and a second file, and a package of   *)
(* another path with the directory's name.                                 *)
EXTENDS PackageManager, TLC

CONSTANTS x1, x2, file, directory, namesake

MCFilesOf == file :> {x1} @@ directory :> {x1, x2} @@ namesake :> {x2}

MCNameOf == file :> "file" @@ directory :> "lib" @@ namesake :> "lib"

\* Which content is which does not matter to the cache.
ContentSymmetry == Permutations(Contents)
=============================================================================
