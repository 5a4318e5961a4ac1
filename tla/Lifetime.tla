------------------------------ MODULE Lifetime ------------------------------
(***************************************************************************)
(* Lifetime of the Ruby objects that wrap libssh structures.               *)
(*                                                                         *)
(* A LibSSH::Session, LibSSH::Channel or LibSSH::Scp is a Ruby object      *)
(* whose holder struct points to a structure of libssh.  A dependent       *)
(* object (channel or scp) keeps its session alive only through its mark   *)
(* function; the garbage collector decides when the free functions run,    *)
(* and it sweeps the dead objects one by one, in any order, while the      *)
(* program goes on.  libssh has its own ownership: a session owns its      *)
(* ssh_channels and frees them, a scp owns one ssh_channel of its session. *)
(*                                                                         *)
(* The collector (generational, mark and sweep) and libssh are external:   *)
(* they are modelled from the flags and calls the extension uses.          *)
(***************************************************************************)
EXTENDS Integers, FiniteSets

CONSTANTS
    Session,    \* LibSSH::Session objects
    Channel,    \* LibSSH::Channel objects
    Scp,        \* LibSSH::Scp objects
    NoSession,  \* Qundef: the session field of a holder nobody initialized
    OldAge      \* collections an object survives before it is old

Dependent == Channel \cup Scp
Object    == Session \cup Dependent

ASSUME DisjointKinds ==
    /\ Session \cap Dependent = {}
    /\ Channel \cap Scp = {}
    /\ NoSession \notin Session

ASSUME Ages == OldAge \in Nat \ {0}

VARIABLES
    heap,       \* heap[o]: "unused", "allocated", "ready" or "swept"
    session,    \* session[d]: holder->session of a dependent object
    native,     \* native[o]: the libssh structure behind o: "none" when the
                \* pointer is NULL, "live", or "freed" by libssh
    scpChannel, \* scpChannel[p]: the ssh_channel inside the ssh_scp of p
    root,       \* objects the running program refers to
    age,        \* age[o]: collections o has survived, at most OldAge
    garbage,    \* objects the last marking left white, not yet swept
    disconnected, \* sessions Session#disconnect was called on
    unbarriered \* history: dependents that were old when a session that was
                \* not was stored in them

vars == <<heap, session, native, scpChannel, root, age, garbage, disconnected,
          unbarriered>>

TypeOK ==
    /\ heap \in [Object -> {"unused", "allocated", "ready", "swept"}]
    /\ session \in [Dependent -> Session \cup {NoSession}]
    /\ native \in [Object -> {"none", "live", "freed"}]
    /\ scpChannel \in [Scp -> {"none", "live", "freed"}]
    /\ root \subseteq Object
    /\ age \in [Object -> 0..OldAge]
    /\ garbage \subseteq Object
    /\ disconnected \subseteq Session
    /\ unbarriered \subseteq Dependent

InHeap == {o \in Object : heap[o] \in {"allocated", "ready"}}

Init ==
    /\ heap = [o \in Object |-> "unused"]
    /\ session = [d \in Dependent |-> NoSession]
    /\ native = [o \in Object |-> "none"]
    /\ scpChannel = [p \in Scp |-> "none"]
    /\ root = {}
    /\ age = [o \in Object |-> 0]
    /\ garbage = {}
    /\ disconnected = {}
    /\ unbarriered = {}

-----------------------------------------------------------------------------
(* Creation.                                                               *)

\* session_alloc, channel_alloc, scp_alloc: the pointers are NULL, the
\* session field of a dependent is Qundef.
Allocate(o) ==
    /\ heap[o] = "unused"
    /\ heap' = [heap EXCEPT ![o] = "allocated"]
    /\ root' = root \cup {o}
    /\ UNCHANGED <<session, native, scpChannel, age, garbage, disconnected,
                   unbarriered>>

\* Session#initialize.
InitSession(s) ==
    /\ s \in root
    /\ heap[s] = "allocated"
    /\ heap' = [heap EXCEPT ![s] = "ready"]
    /\ native' = [native EXCEPT ![s] = "live"]
    /\ UNCHANGED <<session, scpChannel, root, age, garbage, disconnected,
                   unbarriered>>

\* The store of a session s in a dependent d goes without a write barrier: the
\* collector is not told, no age changes.
NoteStore(d, s) ==
    unbarriered' = IF age[d] = OldAge /\ age[s] < OldAge THEN unbarriered \cup {d}
                                                       ELSE unbarriered

\* Channel#initialize: ssh_channel_new returns NULL for a session that was
\* never initialized, and the code keeps that NULL.  Collections may have run
\* since the allocation, so the object may be old by now.
InitChannel(c, s) ==
    /\ {c, s} \subseteq root
    /\ heap[c] = "allocated"
    /\ heap' = [heap EXCEPT ![c] = "ready"]
    /\ native' = [native EXCEPT ![c] = native[s]]
    /\ session' = [session EXCEPT ![c] = s]
    /\ NoteStore(c, s)
    /\ UNCHANGED <<scpChannel, root, age, garbage, disconnected>>

\* Scp#initialize, after the mode and path are accepted: the same for
\* ssh_scp_new.
InitScp(p, s) ==
    /\ {p, s} \subseteq root
    /\ heap[p] = "allocated"
    /\ heap' = [heap EXCEPT ![p] = "ready"]
    /\ native' = [native EXCEPT ![p] = native[s]]
    /\ session' = [session EXCEPT ![p] = s]
    /\ NoteStore(p, s)
    /\ UNCHANGED <<scpChannel, root, age, garbage, disconnected>>

-----------------------------------------------------------------------------
(* Calls that change who owns what inside libssh.                          *)

\* Scp#init: ssh_scp_init makes the ssh_channel of the scp.
ScpInit(p) ==
    /\ p \in root
    /\ native[p] = "live"
    /\ scpChannel[p] = "none"
    /\ scpChannel' = [scpChannel EXCEPT ![p] = "live"]
    /\ UNCHANGED <<heap, session, native, root, age, garbage, disconnected,
                   unbarriered>>

\* Scp#close, also the ensure of Scp#init: ssh_scp_close frees the
\* ssh_channel; when it fails it returns before it does.
ScpClose(p) ==
    /\ p \in root
    /\ scpChannel[p] = "live"
    /\ scpChannel' = [scpChannel EXCEPT ![p] = "none"]
    /\ UNCHANGED <<heap, session, native, root, age, garbage, disconnected,
                   unbarriered>>

\* What ssh_disconnect and ssh_free do to the ssh_channels of session s.
FreedWith(s) == {d \in Dependent : session[d] = s}

FreeChannels(s) ==
    scpChannel' = [p \in Scp |-> IF p \in FreedWith(s) /\ scpChannel[p] = "live"
                                 THEN "freed" ELSE scpChannel[p]]

NativeWithoutChannels(s) ==
    [o \in Object |-> IF o \in Channel \cap FreedWith(s) /\ native[o] = "live"
                      THEN "freed" ELSE native[o]]

\* Session#disconnect: the holders of the channels are not told.
Disconnect(s) ==
    /\ s \in root
    /\ native[s] = "live"
    /\ disconnected' = disconnected \cup {s}
    /\ native' = NativeWithoutChannels(s)
    /\ FreeChannels(s)
    /\ UNCHANGED <<heap, session, root, age, garbage, unbarriered>>

-----------------------------------------------------------------------------
(* The collector.                                                          *)

\* The program forgets an object.
Drop(o) ==
    /\ o \in root
    /\ root' = root \ {o}
    /\ UNCHANGED <<heap, session, native, scpChannel, age, garbage, disconnected,
                   unbarriered>>

\* Variant of MarkedBy: the mark function does nothing.
MarkedByNothing(d) == {}

\* channel_mark, scp_mark: the session is marked only when the pointer is
\* not NULL.  session_mark marks nothing.
MarkedBy(d) == IF native[d] # "none" THEN {session[d]} ELSE {}

Children(D) == UNION {MarkedBy(d) : d \in D \cap Dependent}

Old == {o \in InHeap : age[o] = OldAge}

\* The age after a marking that visits the set visited and turns the set
\* parents (all of them visited) into marked objects whose children are
\* followed: an object reached from an old parent becomes old with it.
GrownOlder(o) == IF age[o] < OldAge THEN age[o] + 1 ELSE OldAge

AgeAfter(parents, visited) ==
    LET promoted == Children({d \in parents : GrownOlder(d) = OldAge})
    IN [o \in Object |-> IF o \in promoted THEN OldAge
                         ELSE IF o \in visited THEN GrownOlder(o) ELSE age[o]]

\* A full collection marks everything the roots reach.
GcMajor ==
    LET visited == root \cup Children(root)
    IN /\ garbage = {}
       /\ garbage' = InHeap \ visited
       /\ age' = AgeAfter(root, visited)
       /\ UNCHANGED <<heap, session, native, scpChannel, root, disconnected,
                      unbarriered>>

\* A minor collection keeps every old object and does not look inside one:
\* both types declare RUBY_TYPED_WB_PROTECTED, which promises that whoever
\* stores a reference in an old object tells the collector.
GcMinor ==
    LET young   == root \ Old
        visited == young \cup Children(young)
    IN /\ garbage = {}
       /\ garbage' = InHeap \ (Old \cup visited)
       /\ age' = AgeAfter(young, visited)
       /\ UNCHANGED <<heap, session, native, scpChannel, root, disconnected,
                      unbarriered>>

\* The free functions.

\* Variants of SweepSession and SweepChannel: ssh_free is not called;
\* ssh_channel_free is, the call the code has commented out.
SweepSessionKept(s) == UNCHANGED <<native, scpChannel>>

SweepChannelFreed(c) ==
    /\ native' = [native EXCEPT ![c] = IF native[c] = "none" THEN "none" ELSE "freed"]
    /\ UNCHANGED scpChannel

\* session_free: ssh_free frees the channels too.
SweepSession(s) ==
    /\ native' = IF native[s] = "none" THEN native
                 ELSE [NativeWithoutChannels(s) EXCEPT ![s] = "freed"]
    /\ IF native[s] = "none" THEN UNCHANGED scpChannel ELSE FreeChannels(s)

\* channel_free: the ssh_channel is left to the session.
SweepChannel(c) == UNCHANGED <<native, scpChannel>>

\* scp_free: ssh_scp_free frees the ssh_scp and its ssh_channel.
SweepScp(p) ==
    /\ native' = [native EXCEPT ![p] = IF native[p] = "none" THEN "none" ELSE "freed"]
    /\ scpChannel' = [scpChannel EXCEPT ![p] = IF scpChannel[p] = "none" THEN "none"
                                               ELSE "freed"]

Sweep(o) ==
    /\ o \in garbage
    /\ garbage' = garbage \ {o}
    /\ heap' = [heap EXCEPT ![o] = "swept"]
    /\ \/ o \in Session /\ SweepSession(o)
       \/ o \in Channel /\ SweepChannel(o)
       \/ o \in Scp     /\ SweepScp(o)
    /\ UNCHANGED <<session, root, age, disconnected, unbarriered>>

-----------------------------------------------------------------------------
Next ==
    \/ \E o \in Object : Allocate(o) \/ Drop(o) \/ Sweep(o)
    \/ \E s \in Session : InitSession(s) \/ Disconnect(s)
    \/ \E c \in Channel, s \in Session : InitChannel(c, s)
    \/ \E p \in Scp, s \in Session : InitScp(p, s)
    \/ \E p \in Scp : ScpInit(p) \/ ScpClose(p)
    \/ GcMajor
    \/ GcMinor

Spec == Init /\ [][Next]_vars

\* Ruby runs a full collection again and again in a program that allocates,
\* and a sweep, once begun, reaches every dead object.
FairSpec ==
    /\ Spec
    /\ WF_vars(GcMajor)
    /\ \A o \in Object : WF_vars(Sweep(o))

-----------------------------------------------------------------------------
(* Properties.                                                             *)

\* An object the program can still use, whose pointer is not NULL, finds its
\* session in the heap with a live ssh_session behind it: channel_mark and
\* scp_mark, called by the collections that visit the object, are enough
\* to keep the session through every later collection, minor ones included.
\* The objects initialized when they were old are the only exception.
SessionOutlivesDependents ==
    \A d \in (root \cap Dependent) \ unbarriered :
        native[d] # "none" =>
            /\ session[d] \in InHeap \ garbage
            /\ native[session[d]] = "live"

\* What RUBY_TYPED_WB_PROTECTED promises the collector: an old object refers
\* to old objects only, whatever was stored in it after it grew old.
WriteBarrierPromise ==
    \A d \in Dependent :
        (native[d] # "none" /\ age[d] = OldAge) => age[session[d]] = OldAge

\* Only Session#disconnect can leave a usable Channel or Scp object with a
\* freed ssh_channel: no collection does, in whatever order it sweeps, but
\* for the objects initialized when they were old.
DanglingOnlyAfterDisconnect ==
    \A d \in (root \cap Dependent) \ unbarriered :
        \/ native[d] = "freed"
        \/ d \in Scp /\ scpChannel[d] = "freed"
        => session[d] \in disconnected

\* The comment in channel_free: an ssh_channel is freed when its session is
\* disconnected or freed, never because its Channel object was swept.
ChannelFreedBySession ==
    [][\A c \in Channel :
          (native[c] = "live" /\ native'[c] = "freed") =>
              \/ native'[session[c]] = "freed"
              \/ session[c] \in disconnected']_vars

\* The comment in scp_free: "holder->scp must be free'ed before
\* holder->session is free'ed".
ScpFreedBeforeSession ==
    \A p \in Scp : native[p] = "live" => native[session[p]] = "live"

\* An ssh_session that no Session, Channel or Scp object of the program can
\* reach any more is freed in the end, with the connection it holds.
UnreachableSessionFreed ==
    \A s \in Session :
        (native[s] = "live" /\ s \notin root \cup Children(root))
            ~> (native[s] = "freed")
=============================================================================
