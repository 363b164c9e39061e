------------------------ MODULE MCPackageResolution ------------------------
(* Instances of PackageResolution for TLC: a family of five packages that an *)
(* x86 process sees, one of them for another architecture.                   *)
EXTENDS PackageResolution

MCFamily == {"v1_neutral", "v1_x86", "v2_x86", "v2_neutral", "v3_arm"}
MCVersion == [v1_neutral |-> 1, v1_x86 |-> 1, v2_x86 |-> 2, v2_neutral |-> 2, v3_arm |-> 3]
MCArchitecture == [v1_neutral |-> "neutral", v1_x86 |-> "x86", v2_x86 |-> "x86",
                   v2_neutral |-> "neutral", v3_arm |-> "arm"]
MCFilters == {{}, {"x86"}, {"x86", "neutral"}}
=============================================================================
