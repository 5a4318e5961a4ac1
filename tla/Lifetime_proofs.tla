--------------------------- MODULE Lifetime_proofs ---------------------------
(* Proofs about Lifetime, for any number of sessions, channels and scps.    *)
EXTENDS Lifetime, TLAPS

\* Every variable keeps its type, from the allocation of the objects to the
\* sweep of the last one.
THEOREM TypeCorrect == Spec => []TypeOK
<1>1. Init => TypeOK
  BY Ages DEF Init, TypeOK
<1>2. TypeOK /\ [Next]_vars => TypeOK'
  <2> SUFFICES ASSUME TypeOK, [Next]_vars PROVE TypeOK'
    OBVIOUS
  <2> USE DEF TypeOK, Object, Dependent
  <2>1. ASSUME NEW o \in Object, Allocate(o) PROVE TypeOK'
    BY <2>1 DEF Allocate
  <2>2. ASSUME NEW o \in Object, Drop(o) PROVE TypeOK'
    BY <2>2 DEF Drop
  <2>3. ASSUME NEW o \in Object, Sweep(o) PROVE TypeOK'
    <3>1. CASE o \in Session /\ SweepSession(o)
      BY <2>3, <3>1 DEF Sweep, SweepSession, NativeWithoutChannels, FreeChannels
    <3>2. CASE o \in Channel /\ SweepChannel(o)
      BY <2>3, <3>2 DEF Sweep, SweepChannel
    <3>3. CASE o \in Scp /\ SweepScp(o)
      BY <2>3, <3>3 DEF Sweep, SweepScp
    <3> QED BY <2>3, <3>1, <3>2, <3>3 DEF Sweep
  <2>4. ASSUME NEW s \in Session, InitSession(s) PROVE TypeOK'
    BY <2>4 DEF InitSession
  <2>5. ASSUME NEW s \in Session, Disconnect(s) PROVE TypeOK'
    BY <2>5 DEF Disconnect, NativeWithoutChannels, FreeChannels
  <2>6. ASSUME NEW c \in Channel, NEW s \in Session, InitChannel(c, s) PROVE TypeOK'
    BY <2>6 DEF InitChannel, NoteStore
  <2>7. ASSUME NEW p \in Scp, NEW s \in Session, InitScp(p, s) PROVE TypeOK'
    BY <2>7 DEF InitScp, NoteStore
  <2>8. ASSUME NEW p \in Scp, ScpInit(p) PROVE TypeOK'
    BY <2>8 DEF ScpInit
  <2>9. ASSUME NEW p \in Scp, ScpClose(p) PROVE TypeOK'
    BY <2>9 DEF ScpClose
  <2>10. ASSUME NEW parents, NEW visited
         PROVE AgeAfter(parents, visited) \in [Object -> 0..OldAge]
    <3>1. \A o \in Object : GrownOlder(o) \in 0..OldAge
      BY Ages DEF GrownOlder
    <3> QED BY <3>1, Ages DEF AgeAfter
  <2>11. CASE GcMajor
    BY <2>10, <2>11 DEF GcMajor, InHeap
  <2>12. CASE GcMinor
    BY <2>10, <2>12 DEF GcMinor, InHeap
  <2>13. CASE UNCHANGED vars
    BY <2>13 DEF vars
  <2> QED BY <2>1, <2>2, <2>3, <2>4, <2>5, <2>6, <2>7, <2>8, <2>9, <2>11, <2>12, <2>13
       DEF Next
<1> QED BY <1>1, <1>2, PTL DEF Spec

-----------------------------------------------------------------------------
(* The inductive invariant behind SessionOutlivesDependents.                *)

\* Roots are in the heap and the collector never condemns one.
RootsInHeap == root \subseteq InHeap \ garbage

\* What a session in use looks like, and that nothing condemned was swept.
SessionsLive ==
    /\ \A s \in Session : heap[s] = "ready" => native[s] = "live"
    /\ \A o \in Object : heap[o] \in {"unused", "allocated"} => native[o] = "none"
    /\ garbage \subseteq InHeap

\* A dependent whose pointer is not NULL has a session, and one that is
\* reachable, and was young when it was initialized, finds it ready and not
\* condemned.
SessionsKept ==
    /\ \A d \in Dependent : native[d] # "none" => session[d] \in Session
    /\ \A d \in (root \cap Dependent) \ unbarriered :
          native[d] # "none" => /\ heap[session[d]] = "ready"
                                /\ session[d] \notin garbage

\* What is left of the promise of the type flags: an old dependent refers to
\* an old session unless it was old itself when the session was stored.
PromiseKept ==
    \A d \in Dependent \ unbarriered :
        (native[d] # "none" /\ age[d] = OldAge) => age[session[d]] = OldAge

LifetimeInv ==
    /\ TypeOK
    /\ RootsInHeap
    /\ SessionsLive
    /\ SessionsKept
    /\ PromiseKept

\* No object exists at first, so nothing refers to a session.
LEMMA InitInv == Init => LifetimeInv
  BY Ages DEF Init, LifetimeInv, TypeOK, RootsInHeap, SessionsLive, SessionsKept,
     PromiseKept, InHeap, Object, Dependent

\* A marking that follows the children of the parents it visits ages no
\* object backwards, and makes the session of every parent that is old
\* afterwards old too.
LEMMA AgeAfterKeepsPromise ==
    ASSUME TypeOK, PromiseKept,
           \A d \in Dependent : native[d] # "none" => session[d] \in Session,
           NEW parents \in SUBSET Object, NEW visited,
           visited = parents \cup Children(parents),
           age' = AgeAfter(parents, visited),
           UNCHANGED <<native, session, unbarriered>>
    PROVE  PromiseKept'
<1> USE DEF Object, Dependent
<1>1. \A o \in Object : age[o] = OldAge => age'[o] = OldAge
  BY Ages DEF AgeAfter, GrownOlder, TypeOK
<1> SUFFICES ASSUME NEW d \in Dependent \ unbarriered, native[d] # "none",
                    age'[d] = OldAge
             PROVE  age'[session[d]] = OldAge
  BY DEF PromiseKept
<1>2. session[d] \in Session
  OBVIOUS
<1>3. CASE age[d] = OldAge
  BY <1>1, <1>2, <1>3 DEF PromiseKept
<1>4. CASE age[d] # OldAge
  <2>1. \A e \in Dependent : native[e] # "none" => session[e] \notin Dependent
    BY DisjointKinds
  <2>2. d \notin Children(parents)
    BY <2>1 DEF Children, MarkedBy
  <2>3. d \notin Children({e \in parents : GrownOlder(e) = OldAge})
    BY <2>1 DEF Children, MarkedBy
  <2>4. d \in parents /\ GrownOlder(d) = OldAge
    BY <1>4, <2>2, <2>3 DEF AgeAfter
  <2>5. session[d] \in Children({e \in parents : GrownOlder(e) = OldAge})
    BY <2>4 DEF Children, MarkedBy
  <2> QED BY <1>2, <2>5 DEF AgeAfter
<1> QED BY <1>3, <1>4

\* A collection of either kind preserves the invariant: it condemns no
\* root and no session that a reachable dependent refers to.
LEMMA CollectionKeepsInv ==
    ASSUME LifetimeInv, TypeOK', GcMajor \/ GcMinor
    PROVE  LifetimeInv'
<1> USE DEF Object, Dependent
<1>1. CASE GcMajor
  <2>1. PromiseKept'
    BY <1>1, AgeAfterKeepsPromise DEF GcMajor, LifetimeInv, SessionsKept, TypeOK
  <2>2. RootsInHeap' /\ SessionsLive'
    BY <1>1 DEF GcMajor, LifetimeInv, RootsInHeap, SessionsLive, InHeap
  <2>3. \A d \in (root \cap Dependent) \ unbarriered :
            native[d] # "none" => session[d] \in Children(root)
    BY DEF Children, MarkedBy
  <2>4. SessionsKept'
    BY <1>1, <2>3 DEF GcMajor, LifetimeInv, SessionsKept
  <2> QED BY <2>1, <2>2, <2>4 DEF LifetimeInv
<1>2. CASE GcMinor
  <2> DEFINE young == root \ Old
  <2>1. PromiseKept'
    BY <1>2, AgeAfterKeepsPromise DEF GcMinor, LifetimeInv, SessionsKept, TypeOK
  <2>2. RootsInHeap' /\ SessionsLive'
    BY <1>2 DEF GcMinor, LifetimeInv, RootsInHeap, SessionsLive, InHeap
  <2>3. \A d \in (root \cap Dependent) \ unbarriered :
            native[d] # "none" => session[d] \in Old \cup Children(young)
    <3> SUFFICES ASSUME NEW d \in (root \cap Dependent) \ unbarriered, native[d] # "none"
                 PROVE  session[d] \in Old \cup Children(young)
      OBVIOUS
    <3>1. CASE d \in Old
      BY <3>1 DEF Old, LifetimeInv, PromiseKept, SessionsKept, InHeap
    <3>2. CASE d \notin Old
      BY <3>2 DEF Children, MarkedBy
    <3> QED BY <3>1, <3>2
  <2>4. SessionsKept'
    BY <1>2, <2>3 DEF GcMinor, LifetimeInv, SessionsKept
  <2> QED BY <2>1, <2>2, <2>4 DEF LifetimeInv
<1> QED BY <1>1, <1>2

\* Sweeping a condemned object preserves the invariant, although it frees
\* the ssh_channels of other objects when the object is a session.
LEMMA SweepKeepsInv ==
    ASSUME LifetimeInv, TypeOK', NEW o \in Object, Sweep(o)
    PROVE  LifetimeInv'
<1> USE DEF Object, Dependent
<1>1. \A x \in Object : x # o => heap'[x] = heap[x]
  BY DEF Sweep, LifetimeInv, TypeOK
<1>2. heap'[o] = "swept" /\ o \notin root
  BY DEF Sweep, LifetimeInv, TypeOK, RootsInHeap
<1>3. /\ \A x \in Object : native'[x] = "none" <=> native[x] = "none"
      /\ \A s \in Session \ {o} : native'[s] = native[s]
  <2> USE DisjointKinds DEF LifetimeInv, TypeOK
  <2>1. CASE o \in Session /\ native[o] = "none"
    BY <2>1 DEF Sweep, SweepSession, SweepChannel, SweepScp
  <2>2. CASE o \in Session /\ native[o] # "none"
    <3>1. native' = [NativeWithoutChannels(o) EXCEPT ![o] = "freed"]
      BY <2>2 DEF Sweep, SweepSession
    <3> QED BY <2>2, <3>1 DEF NativeWithoutChannels
  <2>3. CASE o \in Channel
    BY <2>3 DEF Sweep, SweepChannel
  <2>4. CASE o \in Scp
    BY <2>4 DEF Sweep, SweepScp
  <2> QED BY <2>1, <2>2, <2>3, <2>4
<1>5. RootsInHeap'
  BY <1>1, <1>2 DEF Sweep, LifetimeInv, RootsInHeap, InHeap
<1>6. SessionsLive'
  BY <1>1, <1>2, <1>3 DEF Sweep, LifetimeInv, SessionsLive, InHeap
<1>7. SessionsKept'
  BY <1>1, <1>3 DEF Sweep, LifetimeInv, SessionsKept
<1>8. PromiseKept'
  BY <1>3 DEF Sweep, LifetimeInv, PromiseKept
<1> QED BY <1>5, <1>6, <1>7, <1>8 DEF LifetimeInv

\* Initialize stores a session the program holds; when the collector should
\* have been told, the object is noted.
LEMMA InitDependentKeepsInv ==
    ASSUME LifetimeInv, TypeOK', NEW d \in Dependent, NEW s \in Session,
           InitChannel(d, s) \/ InitScp(d, s)
    PROVE  LifetimeInv'
<1> USE DEF Object, Dependent
<1>1. /\ {d, s} \subseteq root /\ heap[d] = "allocated" /\ NoteStore(d, s)
      /\ heap' = [heap EXCEPT ![d] = "ready"]
      /\ native' = [native EXCEPT ![d] = native[s]]
      /\ session' = [session EXCEPT ![d] = s]
      /\ UNCHANGED <<root, age, garbage>>
  BY DEF InitChannel, InitScp
<1>2. d \notin Session /\ s \notin Dependent
  BY DisjointKinds
<1>3. native[s] # "none" => heap[s] = "ready"
  BY <1>1 DEF LifetimeInv, RootsInHeap, SessionsLive, InHeap
<1>4. RootsInHeap'
  BY <1>1 DEF LifetimeInv, RootsInHeap, InHeap, TypeOK
<1>5. SessionsLive'
  BY <1>1, <1>2 DEF LifetimeInv, SessionsLive, InHeap, TypeOK
<1>6. unbarriered \subseteq unbarriered'
      /\ (age[d] = OldAge /\ age[s] # OldAge => d \in unbarriered')
  BY <1>1, Ages DEF NoteStore, LifetimeInv, TypeOK
<1>7. SessionsKept'
  BY <1>1, <1>2, <1>3, <1>6 DEF LifetimeInv, SessionsKept, RootsInHeap, TypeOK
<1>8. PromiseKept'
  BY <1>1, <1>2, <1>6 DEF LifetimeInv, PromiseKept, TypeOK
<1> QED BY <1>4, <1>5, <1>7, <1>8 DEF LifetimeInv

\* One step of the program or of the collector preserves the invariant.
LEMMA NextInv ==
    ASSUME LifetimeInv, TypeOK', [Next]_vars
    PROVE  LifetimeInv'
<1> USE DEF Object, Dependent
<1> DEFINE I == LifetimeInv
<1>1. ASSUME NEW o \in Object, Allocate(o) PROVE I'
  BY <1>1 DEF Allocate, LifetimeInv, TypeOK, RootsInHeap, SessionsLive, SessionsKept,
     PromiseKept, InHeap
<1>2. ASSUME NEW o \in Object, Drop(o) PROVE I'
  BY <1>2 DEF Drop, LifetimeInv, RootsInHeap, SessionsLive, SessionsKept,
     PromiseKept, InHeap
<1>3. ASSUME NEW s \in Session, InitSession(s) PROVE I'
  BY <1>3, DisjointKinds DEF InitSession, LifetimeInv, TypeOK, RootsInHeap, SessionsLive,
     SessionsKept, PromiseKept, InHeap
<1>4. ASSUME NEW s \in Session, Disconnect(s) PROVE I'
  <2>1. \A x \in Object : native'[x] = "none" <=> native[x] = "none"
    BY <1>4 DEF Disconnect, NativeWithoutChannels, LifetimeInv, TypeOK
  <2>2. \A t \in Session : native'[t] = native[t]
    BY <1>4, DisjointKinds DEF Disconnect, NativeWithoutChannels, LifetimeInv, TypeOK
  <2> QED BY <1>4, <2>1, <2>2 DEF Disconnect, LifetimeInv, RootsInHeap, SessionsLive,
          SessionsKept, PromiseKept, InHeap
<1>5. ASSUME NEW p \in Scp, ScpInit(p) \/ ScpClose(p) PROVE I'
  BY <1>5 DEF ScpInit, ScpClose, LifetimeInv, RootsInHeap, SessionsLive,
     SessionsKept, PromiseKept, InHeap
<1>6. CASE UNCHANGED vars
  BY <1>6 DEF vars, LifetimeInv, RootsInHeap, SessionsLive,
     SessionsKept, PromiseKept, InHeap
<1> QED BY <1>1, <1>2, <1>3, <1>4, <1>5, <1>6, SweepKeepsInv, InitDependentKeepsInv,
        CollectionKeepsInv DEF Next

\* The inductive invariant holds in every reachable state.
THEOREM LifetimeInvariant == Spec => []LifetimeInv
<1>1. LifetimeInv /\ TypeOK' /\ [Next]_vars => LifetimeInv'
  BY NextInv
<1> QED BY <1>1, InitInv, TypeCorrect, PTL DEF Spec

\* A reachable channel or scp with a libssh pointer always finds its session
\* in the heap and alive, whatever the collector did.
THEOREM SessionOutlives == Spec => []SessionOutlivesDependents
<1>1. LifetimeInv => SessionOutlivesDependents
  BY DEF LifetimeInv, SessionsKept, SessionsLive, SessionOutlivesDependents, InHeap,
     Object, Dependent
<1> QED BY <1>1, LifetimeInvariant, PTL

-----------------------------------------------------------------------------
(* Who may free a ssh_channel.                                              *)

\* A scp without a ssh_scp has no ssh_channel either: without this an object
\* could be born dangling.
DanglingInv ==
    /\ \A p \in Scp : native[p] = "none" => scpChannel[p] = "none"
    /\ DanglingOnlyAfterDisconnect

\* Nothing is freed at first.
LEMMA InitDangling == Init => DanglingInv
  BY DEF Init, DanglingInv, DanglingOnlyAfterDisconnect, Object, Dependent

\* The sweep of a session frees only the ssh_channels of dependents that
\* refer to it, and none of those is reachable.
LEMMA SweepDangling ==
    ASSUME LifetimeInv, DanglingInv, NEW o \in Object, Sweep(o)
    PROVE  DanglingInv'
<1> USE DisjointKinds DEF Object, Dependent, LifetimeInv, TypeOK
<1>1. o \notin root /\ o \in garbage
      /\ UNCHANGED <<root, session, disconnected, unbarriered>>
  BY DEF Sweep, RootsInHeap
<1>2. ASSUME o \in Session, SweepSession(o) PROVE DanglingInv'
  <2>1. CASE native[o] = "none"
    BY <1>1, <1>2, <2>1 DEF SweepSession, DanglingInv, DanglingOnlyAfterDisconnect
  <2>2. CASE native[o] # "none"
    <3>1. /\ native' = [NativeWithoutChannels(o) EXCEPT ![o] = "freed"]
          /\ FreeChannels(o)
      BY <1>2, <2>2 DEF SweepSession
    <3>2. \A p \in Scp : native'[p] = native[p]
      BY <1>2, <3>1 DEF NativeWithoutChannels
    <3>3. \A p \in Scp : native[p] = "none" => scpChannel'[p] = "none"
      BY <3>1 DEF FreeChannels, DanglingInv
    <3>4. ASSUME NEW d \in (root \cap Dependent) \ unbarriered, native[d] # "none"
          PROVE  session[d] # o
      BY <1>1, <3>4 DEF SessionsKept
    <3>5. ASSUME NEW d \in (root \cap Dependent) \ unbarriered
          PROVE  native'[d] = native[d] /\ (d \in Scp => scpChannel'[d] = scpChannel[d])
      <4>1. CASE native[d] = "none"
        BY <1>2, <3>1, <3>3, <4>1 DEF NativeWithoutChannels, DanglingInv
      <4>2. CASE native[d] # "none"
        <5>1. session[d] # o
          BY <3>4, <4>2
        <5> QED BY <1>2, <3>1, <5>1 DEF NativeWithoutChannels, FreeChannels, FreedWith
      <4> QED BY <4>1, <4>2
    <3> QED BY <1>1, <3>2, <3>3, <3>5 DEF DanglingInv, DanglingOnlyAfterDisconnect
  <2> QED BY <2>1, <2>2
<1>3. ASSUME o \in Channel, SweepChannel(o) PROVE DanglingInv'
  BY <1>1, <1>3 DEF SweepChannel, DanglingInv, DanglingOnlyAfterDisconnect
<1>4. ASSUME o \in Scp, SweepScp(o) PROVE DanglingInv'
  BY <1>1, <1>4 DEF SweepScp, DanglingInv, DanglingOnlyAfterDisconnect
<1> QED BY <1>2, <1>3, <1>4 DEF Sweep

\* A dependent is initialized with a session that is live or was never
\* initialized, never with a freed one.
LEMMA InitDependentDangling ==
    ASSUME LifetimeInv, DanglingInv, NEW d \in Dependent, NEW s \in Session,
           InitChannel(d, s) \/ InitScp(d, s)
    PROVE  DanglingInv'
<1> USE DisjointKinds DEF Object, Dependent, LifetimeInv, TypeOK
<1>1. /\ {d, s} \subseteq root /\ heap[d] = "allocated"
      /\ native' = [native EXCEPT ![d] = native[s]]
      /\ session' = [session EXCEPT ![d] = s]
      /\ unbarriered \subseteq unbarriered'
      /\ UNCHANGED <<root, scpChannel, disconnected>>
  BY DEF InitChannel, InitScp, NoteStore
<1>2. native[d] = "none" /\ (d \in Scp => scpChannel[d] = "none")
  BY <1>1 DEF SessionsLive, DanglingInv
<1>3. native[s] # "freed"
  BY <1>1 DEF RootsInHeap, SessionsLive, InHeap
<1> QED BY <1>1, <1>2, <1>3 DEF DanglingInv, DanglingOnlyAfterDisconnect

\* One step preserves the invariant.
LEMMA NextDangling ==
    ASSUME LifetimeInv, DanglingInv, [Next]_vars
    PROVE  DanglingInv'
<1> USE DisjointKinds DEF Object, Dependent, LifetimeInv, TypeOK
<1>1. ASSUME NEW o \in Object, Allocate(o) PROVE DanglingInv'
  <2>1. native[o] = "none" /\ root' = root \cup {o}
        /\ UNCHANGED <<native, session, scpChannel, disconnected, unbarriered>>
    BY <1>1 DEF Allocate, SessionsLive
  <2> QED BY <2>1 DEF DanglingInv, DanglingOnlyAfterDisconnect
<1>2. ASSUME NEW o \in Object, Drop(o) PROVE DanglingInv'
  BY <1>2 DEF Drop, DanglingInv, DanglingOnlyAfterDisconnect
<1>3. ASSUME NEW s \in Session, InitSession(s) PROVE DanglingInv'
  BY <1>3 DEF InitSession, DanglingInv, DanglingOnlyAfterDisconnect
<1>4. ASSUME NEW s \in Session, Disconnect(s) PROVE DanglingInv'
  <2>1. disconnected' = disconnected \cup {s} /\ native' = NativeWithoutChannels(s)
        /\ FreeChannels(s) /\ UNCHANGED <<root, session, unbarriered>>
    BY <1>4 DEF Disconnect
  <2>2. \A d \in Dependent : session[d] # s =>
            native'[d] = native[d] /\ (d \in Scp => scpChannel'[d] = scpChannel[d])
    BY <2>1 DEF NativeWithoutChannels, FreeChannels, FreedWith
  <2>3. \A p \in Scp : native'[p] = native[p]
    BY <2>1 DEF NativeWithoutChannels
  <2>4. \A p \in Scp : native[p] = "none" => scpChannel'[p] = "none"
    BY <2>1 DEF FreeChannels, DanglingInv
  <2> QED BY <2>1, <2>2, <2>3, <2>4 DEF DanglingInv, DanglingOnlyAfterDisconnect
<1>5. ASSUME NEW p \in Scp, ScpInit(p) \/ ScpClose(p) PROVE DanglingInv'
  <2>1. scpChannel[p] = "live" => native[p] # "none"
    BY DEF DanglingInv
  <2> QED BY <1>5, <2>1 DEF ScpInit, ScpClose, DanglingInv, DanglingOnlyAfterDisconnect
<1>6. CASE GcMajor \/ GcMinor
  BY <1>6 DEF GcMajor, GcMinor, DanglingInv, DanglingOnlyAfterDisconnect
<1>7. CASE UNCHANGED vars
  BY <1>7 DEF vars, DanglingInv, DanglingOnlyAfterDisconnect
<1> QED BY <1>1, <1>2, <1>3, <1>4, <1>5, <1>6, <1>7, SweepDangling, InitDependentDangling
        DEF Next

\* No collection, in whatever order it sweeps, leaves a reachable channel or
\* scp with a freed ssh_channel: only Session#disconnect does.
THEOREM DanglingAfterDisconnect == Spec => []DanglingOnlyAfterDisconnect
<1>1. LifetimeInv /\ DanglingInv /\ [Next]_vars => DanglingInv'
  BY NextDangling
<1>2. DanglingInv => DanglingOnlyAfterDisconnect
  BY DEF DanglingInv
<1> QED BY <1>1, <1>2, InitDangling, LifetimeInvariant, PTL DEF Spec

\* The steps that free a ssh_channel are the disconnect and the sweep of its
\* session.
LEMMA NextFreesChannel ==
    ASSUME LifetimeInv, [Next]_vars, NEW c \in Channel,
           native[c] = "live", native'[c] = "freed"
    PROVE  native'[session[c]] = "freed" \/ session[c] \in disconnected'
<1> USE DisjointKinds DEF Object, Dependent, LifetimeInv, TypeOK
<1>1. ASSUME NEW s \in Session, Disconnect(s) PROVE session[c] \in disconnected'
  BY <1>1 DEF Disconnect, NativeWithoutChannels, FreedWith
<1>2. ASSUME NEW o \in Object, Sweep(o) PROVE native'[session[c]] = "freed"
  <2>1. CASE o \in Session /\ SweepSession(o)
    <3>1. native' = [NativeWithoutChannels(o) EXCEPT ![o] = "freed"]
      BY <2>1 DEF SweepSession
    <3>2. session[c] = o
      BY <2>1, <3>1 DEF NativeWithoutChannels, FreedWith
    <3> QED BY <3>1, <3>2 DEF NativeWithoutChannels
  <2>2. CASE o \in Channel /\ SweepChannel(o)
    BY <2>2 DEF SweepChannel
  <2>3. CASE o \in Scp /\ SweepScp(o)
    BY <2>3 DEF SweepScp
  <2> QED BY <1>2, <2>1, <2>2, <2>3 DEF Sweep
<1>3. ASSUME NEW d \in Dependent, NEW s \in Session, InitChannel(d, s) \/ InitScp(d, s)
      PROVE  FALSE
  <2>1. heap[d] = "allocated" /\ native' = [native EXCEPT ![d] = native[s]]
    BY <1>3 DEF InitChannel, InitScp
  <2>2. d # c
    BY <2>1 DEF SessionsLive
  <2> QED BY <2>1, <2>2
<1>4. ASSUME NEW s \in Session, InitSession(s) PROVE FALSE
  BY <1>4 DEF InitSession
<1>5. CASE UNCHANGED native
  BY <1>5
<1> QED BY <1>1, <1>2, <1>3, <1>4, <1>5 DEF Next, Allocate, Drop, ScpInit, ScpClose,
        GcMajor, GcMinor, vars

\* A ssh_channel is freed with its session or by its disconnect, never
\* because the Channel object was swept.
THEOREM ChannelsFreedBySession == Spec => ChannelFreedBySession
<1>1. LifetimeInv /\ [Next]_vars =>
          [\A c \in Channel :
              (native[c] = "live" /\ native'[c] = "freed") =>
                  \/ native'[session[c]] = "freed"
                  \/ session[c] \in disconnected']_vars
  BY NextFreesChannel
<1> QED BY <1>1, LifetimeInvariant, PTL DEF Spec, ChannelFreedBySession
=============================================================================
