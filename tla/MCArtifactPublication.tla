----------------------- MODULE MCArtifactPublication -----------------------
(* Three operations over two contents: o1 downloads d1 and externalizes    *)
(* d2, o2 downloads d1 as well, o3 externalizes the bytes of d2.           *)
EXTENDS ArtifactPublication

CONSTANTS o1, o2, o3, d1, d2

MCContent ==
    [o \in Ops |->
        [remote |-> IF o = o3 THEN NoDigest ELSE d1,
         local  |-> IF o = o2 THEN NoDigest ELSE d2]]

MCLength == [d \in Digests |-> IF d = d1 THEN 2 ELSE 1]
=============================================================================
