------------------------------ MODULE FileCopy ------------------------------
(***************************************************************************)
(* What upload! and download! promise: the target is a copy of a source.   *)
(* The copy grows as a prefix of its source, and a normal return means     *)
(* that it is complete.  A transfer may hold several files (a pattern on   *)
(* the remote side), which come one after the other, each one complete     *)
(* before the next.  In a target with a name each replaces the one before, *)
(* so the last one stays; a target that is a stream has them all.          *)
(***************************************************************************)
EXTENDS Integers, Sequences

CONSTANT NoFile  \* no target yet

VARIABLES
    appends,  \* whether the target is a stream
    sources,  \* the contents to copy, by their place in the transfer
    current,  \* place of the content being copied, 0 before the first
    before,   \* what the target holds in front of it
    target,   \* what has been stored of it, or NoFile
    outcome   \* "running", "finished" or "failed"

cvars == <<appends, sources, current, before, target, outcome>>

CInit ==
    /\ current = 0
    /\ before = <<>>
    /\ target = NoFile
    /\ outcome = "running"

CopyNext ==
    /\ outcome = "running"
    /\ current > 0 => target = sources[current]
    /\ \E i \in DOMAIN sources :
          /\ current < i
          /\ \A j \in DOMAIN sources : j < i => j <= current
          /\ current' = i
    /\ before' = IF appends /\ current > 0 THEN before \o target ELSE <<>>
    /\ target' = <<>>
    /\ UNCHANGED <<appends, sources, outcome>>

CopyMore ==
    /\ outcome = "running"
    /\ current > 0
    /\ \E n \in (Len(target) + 1)..Len(sources[current]) :
          target' = SubSeq(sources[current], 1, n)
    /\ UNCHANGED <<appends, sources, current, before, outcome>>

Conclude(o) ==
    /\ outcome = "running"
    /\ o = "finished" =>
          /\ \A i \in DOMAIN sources : i <= current
          /\ current > 0 => target = sources[current]
    /\ outcome' = o
    /\ UNCHANGED <<appends, sources, current, before, target>>

CNext == CopyNext \/ CopyMore \/ \E o \in {"finished", "failed"} : Conclude(o)

CSpec == CInit /\ [][CNext]_cvars
=============================================================================
