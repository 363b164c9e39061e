--------------------------- MODULE MCPackageGraph ---------------------------
(* Instances of PackageGraph for TLC. *)
EXTENDS PackageGraph

CONSTANTS fwk1, fwk2, d1

MCPackages == {fwk1, fwk2}
MCRanks == {-1, 0}
MCDirs == {d1}
AnyFailure == {"SetEnvironmentVariable", "AddDllDirectory", "ParseAppxManifest"}
=============================================================================
