--------------------------- MODULE MCPackageCache ---------------------------
(* PackageCache for one process, two source files and two contents.        *)
EXTENDS PackageCache
=============================================================================
