------------------------ MODULE MCPrivilegedAccess ------------------------
(***************************************************************************)
(* Instances of PrivilegedAccess.  Member m1 is the operator who requests; *)
(* m2 and m3 can approve.  Two grants are either on two assets or on one.  *)
(***************************************************************************)
EXTENDS PrivilegedAccess, TLC

CONSTANTS g1, g2, m1, m2, m3, a1, a2, h1, h2, p1, p2

OneGrant    == g1 :> m1
TwoGrants   == g1 :> m1 @@ g2 :> m1
OneAsset    == g1 :> a1
SameAsset   == g1 :> a1 @@ g2 :> a1
OtherAssets == g1 :> a1 @@ g2 :> a2

\* The two approvers, the publishers and the handlers are interchangeable.
Interchangeable == Permutations({m2, m3}) \cup Permutations({p1, p2}) \cup Permutations({h1, h2})
=============================================================================
