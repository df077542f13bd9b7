---------------------------- MODULE MCDiscovery -----------------------------
(* DiscoveryScan for TLC: three roots, the first of which does not exist,   *)
(* with a malformed file, one without a key, and keys found again in a      *)
(* later root and among the applications.                                   *)
EXTENDS DiscoveryInvariant, TLC

CONSTANTS f1, f2, f3, f4, broken, keyless, app1, app2, k1, k2, k3, k4, p1, p2, p3

MCProcs == {p1, p2, p3}
MCFiles == {f1, f2, f3, f4, broken, keyless, app1, app2}
MCKeys  == {k1, k2, k3, k4}
MCKeyOf ==
  f1 :> k1 @@ f2 :> k2 @@ f3 :> k1 @@ f4 :> k3 @@ broken :> k4 @@ keyless :> NoKey
  @@ app1 :> k3 @@ app2 :> k4
MCRoots == << <<f4>>, <<f1, keyless, f2>>, <<f3, broken, f4>> >>
MCApps  == <<app1, app2>>
MCRuns  == {<<f1, p1>>, <<f3, p2>>, <<app2, p3>>}
=============================================================================
