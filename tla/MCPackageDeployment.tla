------------------------ MODULE MCPackageDeployment -------------------------
(* PackageDeployment for model checking: what callers pass. *)
EXTENDS PackageDeployment

CONSTANTS f1, f2

MCFamilies == {f1, f2}
I(family, min, uri) == [family |-> family, min |-> min, uri |-> uri]
S(uri, items) == [uri |-> uri, items |-> items]
MCPackageSets ==
    {S(0, <<>>),                                \* nothing: refused, or an unknown product
     S(0, <<I(f1, 1, 2)>>),                     \* one item with a URI
     S(0, <<I(f1, 1, 0)>>),                     \* one item by name
     S(0, <<I(f1, 1, 0), I(f2, 2, 0)>>),        \* two items by name
     S(2, <<I(f1, 2, 1), I(f2, 1, 0)>>)}        \* URIs of the item and of the set, one too old
=============================================================================
