---------------------------- MODULE MCNativeCall ----------------------------
(* Instances of NativeCall: two threads with a session each, one with a     *)
(* channel; two threads that share a session and its scp, or its channel;   *)
(* and one thread with a channel and a scp of one session.                  *)
EXTENDS NativeCall, TLC

CONSTANTS t1, t2, s1, s2, c1, p1

TwoSessionOf == c1 :> s1
TwoUses      == t1 :> {s1} @@ t2 :> {s2}

SharedUses   == t1 :> {s1} @@ t2 :> {s1}
ScpSessionOf == p1 :> s1

\* Threads that share everything are interchangeable.
Symmetry == Permutations(Thread)

OneSessionOf == c1 :> s1 @@ p1 :> s1
OneUses      == t1 :> {s1}
=============================================================================
