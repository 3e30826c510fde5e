------------------------------- MODULE MCPipeline -------------------------------
(***************************************************************************)
(* Two builds, one seen on two devices, with classes of the same file      *)
(* name.  Of the sites s1 is at a line of b1 and next to one of b2, s2 is  *)
(* between two lines of b1, s3 is far from all, and s0 names no line.  The *)
(* same files lie in directories, where a scope leaves out f2; one of two  *)
(* runs may be given those, the other the archives.                        *)
(***************************************************************************)
EXTENDS Pipeline, TLC

CONSTANTS r1, r2, r3, r4, b1, b2, d1, d2, s1, s2, s3, s0, f1, f2, f3, w, x, y, z, base, here, there, everyJar, services

MCRow == {r1, r2, r3, r4}
MCBuild == {b1, b2}
MCDevice == {d1, d2}
MCSite == {s1, s2, s3, s0}
MCFile == {f1, f2, f3}
MCLock == {w, x, y, z}

MCBuildOf == (r1 :> b1) @@ (r2 :> b1) @@ (r3 :> b2) @@ (r4 :> b2)
MCDeviceOf == (r1 :> d1) @@ (r2 :> d2) @@ (r3 :> d1) @@ (r4 :> d2)
MCBlockedSite == (r1 :> s1) @@ (r2 :> s3) @@ (r3 :> s1) @@ (r4 :> s0)
MCBlockingSite == (r1 :> s2) @@ (r2 :> s2) @@ (r3 :> s3) @@ (r4 :> s0)

At(n) == {[base |-> base, slash |-> FALSE, endings |-> {}, line |-> n]}
Under(path, n) == {[base |-> base, slash |-> TRUE, endings |-> {path}, line |-> n]}

MCParsed == (s1 :> At(3)) @@ (s2 :> Under(here, 4)) @@ (s3 :> At(9)) @@ (s0 :> {})

Taken(path, n, l) == [base |-> base, path |-> path, line |-> {n}, lock |-> l]

MCArchive == (b1 :> {f1, f2}) @@ (b2 :> {f3})
MCAcquired ==
  (f1 :> {Taken(here, 3, x), Taken(there, 4, x)}) @@ (f2 :> {Taken(here, 5, y), Taken(here, 6, w)})
    @@ (f3 :> {Taken(there, 2, z), Taken(there, 5, z), [Taken(here, 0, x) EXCEPT !.line = {}]})
MCScope == {everyJar, services}
MCDirectory == (b1 :> ((everyJar :> {f1, f2}) @@ (services :> {f1}))) @@ (b2 :> [s \in MCScope |-> {f3}])
MCSetting == {[zip |-> TRUE, scope |-> everyJar], [zip |-> FALSE, scope |-> services]}
MCCacheName == (b1 :> b1) @@ (b2 :> b2)
===============================================================================
