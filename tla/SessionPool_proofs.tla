------------------------- MODULE SessionPool_proofs -------------------------
(* Proofs about SessionPool, for any number of threads, hosts, sessions and *)
(* options.                                                                 *)
EXTENDS SessionPool, TLAPS

\* What a thread holds at each point of with_session: the arguments of its
\* request from the first step on, and a session made for them.
Holding ==
    \A t \in Threads :
        /\ pc[t] # "idle" => asked[t] \in Key
        /\ pc[t] \in {"idle", "store", "read", "pop"} <=> conn[t] = None
        /\ conn[t] # None => state[conn[t]] # "none" /\ key[conn[t]] = asked[t]
        /\ Using(t) => state[conn[t]] = "authenticated"

\* What lies in the pool lies under the arguments it was made for.
Filed ==
    \A k \in Key : \A s \in pool[k] : state[s] = "authenticated" /\ key[s] = k

\* OneUser, without the sets it speaks of.
Exclusive ==
    /\ \A t, u \in Threads : conn[t] = conn[u] /\ conn[t] # None => t = u
    /\ \A t \in Threads : \A k \in Key : conn[t] \notin pool[k]

\* Besides what interrupts have left, a session has a channel while its user
\* is between open and close, on a connection that is not lost.
Channels ==
    /\ \A s \in Sessions : state[s] = "none" => ~lost[s] /\ channels[s] = 0 /\ stray[s] = 0
    /\ \A s \in Sessions : lost[s] => channels[s] = 0 /\ stray[s] = 0
    /\ \A k \in Key : \A s \in pool[k] : channels[s] = stray[s]
    /\ \A t \in Threads :
          conn[t] # None /\ ~lost[conn[t]] =>
              channels[conn[t]] = stray[conn[t]] + IF pc[t] \in {"body", "close"} THEN 1 ELSE 0

IInv == TypeOK /\ Holding /\ Filed /\ Exclusive /\ Channels

\* No session, no arguments.
LEMMA NoneIsNothing == None \notin Sessions /\ None \notin Key
  BY NoneAssumption DEF Key, Option

\* The requests of a program that has merged its options.
LEMMA RequestIsKey ==
    ASSUME TypeOK, NEW h \in Hosts
    PROVE  <<h, IF hostOption[h] = Unset THEN config ELSE hostOption[h]>> \in Key
  BY DEF TypeOK, Key, Option

LEMMA InitInv == Init => IInv
  BY NoneIsNothing, InterruptsAssumption DEF Init, IInv, TypeOK, Holding, Filed, Exclusive, Channels, Using, PcValue,
     Option

\* Settings, time and the network.
LEMMA OutsideInv ==
    ASSUME IInv, \/ \E o \in Option : SetConfig(o) \/ \E h \in Hosts : SetHostOption(h, o)
                 \/ \E s \in Sessions : LoseConnection(s) \/ Expire(s)
    PROVE  IInv'
<1> USE NoneIsNothing DEF IInv, sessions, cache, threads, settings
<1>1. ASSUME NEW o \in Option, SetConfig(o) PROVE IInv'
  BY <1>1 DEF SetConfig, TypeOK, Holding, Filed, Exclusive, Channels, Using
<1>2. ASSUME NEW o \in Option, NEW h \in Hosts, SetHostOption(h, o) PROVE IInv'
  BY <1>2 DEF SetHostOption, TypeOK, Holding, Filed, Exclusive, Channels, Using
<1>3. ASSUME NEW s \in Sessions, Expire(s) PROVE IInv'
  BY <1>3 DEF Expire, TypeOK, Holding, Filed, Exclusive, Channels, Using
<1>4. ASSUME NEW s \in Sessions, LoseConnection(s) PROVE IInv'
  <2>1. TypeOK'
    <3>1. 0 \in 0..Interrupts
      BY InterruptsAssumption
    <3>2. UNCHANGED <<config, hostOption, state, key, pool, expired, pc, asked, conn>>
      BY <1>4 DEF LoseConnection
    <3>3. /\ lost' = [lost EXCEPT ![s] = TRUE]
          /\ channels' = [channels EXCEPT ![s] = 0] /\ stray' = [stray EXCEPT ![s] = 0]
      BY <1>4 DEF LoseConnection
    <3> QED BY <3>1, <3>2, <3>3 DEF TypeOK
  <2>2. Holding' /\ Filed' /\ Exclusive'
    BY <1>4 DEF LoseConnection, Holding, Filed, Exclusive, Using
  <2>3. Channels'
    BY <1>4 DEF LoseConnection, TypeOK, Channels
  <2> QED BY <2>1, <2>2, <2>3
<1> QED BY <1>1, <1>2, <1>3, <1>4

\* The pool drops sessions, and the collector takes what nobody refers to.
LEMMA DropInv ==
    ASSUME IInv, (\E k \in Key : Evict(k)) \/ (\E s \in Sessions : Collect(s))
    PROVE  IInv'
<1> USE NoneIsNothing DEF IInv, sessions, cache, threads, settings
<1>1. ASSUME NEW k \in Key, Evict(k) PROVE IInv'
  <2>1. TypeOK'
    BY <1>1 DEF Evict, TypeOK
  <2>2. \A j \in Key : pool'[j] \subseteq pool[j]
    BY <1>1 DEF Evict, TypeOK
  <2>3. Holding'
    BY <1>1 DEF Evict, Holding, Using
  <2>4. Filed' /\ Exclusive'
    BY <1>1, <2>2 DEF Evict, Filed, Exclusive
  <2>5. Channels'
    BY <1>1, <2>2 DEF Evict, Channels
  <2> QED BY <2>1, <2>3, <2>4, <2>5
<1>2. ASSUME NEW s \in Sessions, Collect(s) PROVE IInv'
  <2>1. TypeOK'
    <3>1. 0 \in 0..Interrupts
      BY InterruptsAssumption
    <3>2. UNCHANGED <<config, hostOption, pool, expired, pc, asked, conn>>
      BY <1>2 DEF Collect
    <3>3. /\ state' = [state EXCEPT ![s] = "none"] /\ key' = [key EXCEPT ![s] = None]
          /\ lost' = [lost EXCEPT ![s] = FALSE]
          /\ channels' = [channels EXCEPT ![s] = 0] /\ stray' = [stray EXCEPT ![s] = 0]
      BY <1>2 DEF Collect
    <3> QED BY <3>1, <3>2, <3>3 DEF TypeOK
  <2>2. s \notin Pooled /\ s \notin Held
    BY <1>2 DEF Collect
  <2>3. /\ \A t \in Threads : conn[t] # s
        /\ \A k \in Key : s \notin pool[k]
    BY <2>2 DEF Pooled, Held
  <2>4. /\ state' = [state EXCEPT ![s] = "none"] /\ key' = [key EXCEPT ![s] = None]
        /\ UNCHANGED <<pool, pc, asked, conn>>
    BY <1>2 DEF Collect
  <2>5. Holding'
    BY <2>3, <2>4 DEF TypeOK, Holding, Using
  <2>6. Filed' /\ Exclusive'
    BY <2>3, <2>4 DEF TypeOK, Filed, Exclusive
  <2>7. Channels'
    <3>1. stray'[s] = 0 /\ channels'[s] = 0 /\ ~lost'[s]
      BY <1>2 DEF Collect, TypeOK
    <3>2. \A r \in Sessions : r # s => /\ stray'[r] = stray[r] /\ channels'[r] = channels[r]
                                     /\ lost'[r] = lost[r] /\ state'[r] = state[r]
      BY <1>2 DEF Collect, TypeOK
    <3>3. pool' = pool /\ conn' = conn /\ pc' = pc
      BY <1>2 DEF Collect
    <3>4. /\ \A t \in Threads : conn[t] # None => conn[t] \in Sessions \ {s}
          /\ \A k \in Key : pool[k] \subseteq Sessions \ {s}
      BY <2>3 DEF TypeOK
    <3> QED BY <3>1, <3>2, <3>3, <3>4 DEF Channels
  <2> QED BY <2>1, <2>5, <2>6, <2>7
<1> QED BY <1>1, <1>2

\* A thread that has no session gathers the arguments of its request.
LEMMA RequestInv ==
    ASSUME IInv, NEW t \in Threads, conn[t] = None,
           NEW label \in {"store", "read", "pop"}, pc' = [pc EXCEPT ![t] = label],
           config' = config /\ hostOption' \in [Hosts -> Option],
           asked'[t] \in Key, asked' = [asked EXCEPT ![t] = asked'[t]],
           UNCHANGED <<sessions, cache, conn>>
    PROVE  IInv'
<1> USE NoneIsNothing DEF IInv, sessions, cache
<1>1. TypeOK'
  BY DEF TypeOK, PcValue
<1>2. \A u \in Threads : u # t => asked'[u] = asked[u] /\ pc'[u] = pc[u]
  BY DEF TypeOK
<1>3. Holding'
  BY <1>2 DEF TypeOK, Holding, Using
<1>4. Filed' /\ Exclusive' /\ Channels'
  BY <1>2 DEF TypeOK, Filed, Exclusive, Channels
<1> QED BY <1>1, <1>3, <1>4

\* A thread asks for a session and gets an idle one or a new one.
LEMMA TakeInv ==
    ASSUME IInv, NEW t \in Threads,
           (\E h \in Hosts : MergeOptions(t, h)) \/ StoreOptions(t) \/ WithSession(t)
              \/ Pop(t) \/ NewSession(t)
    PROVE  IInv'
<1> USE NoneIsNothing DEF IInv, sessions, cache, threads, settings, Goto, PoolKey
<1>1. ASSUME NEW h \in Hosts, MergeOptions(t, h) PROVE IInv'
  <2>1. /\ asked'[t] \in Key /\ conn[t] = None
        /\ asked' = [asked EXCEPT ![t] = asked'[t]]
    BY <1>1, RequestIsKey DEF MergeOptions, TypeOK, Holding
  <2>2. UNCHANGED <<settings, sessions, cache, conn>> /\ pc' = [pc EXCEPT ![t] = "store"]
    BY <1>1 DEF MergeOptions
  <2>3. config' = config /\ hostOption' \in [Hosts -> Option]
    BY <2>2 DEF TypeOK
  <2> QED BY <2>1, <2>2, <2>3, RequestInv
<1>4. ASSUME StoreOptions(t) PROVE IInv'
  <2>1. asked[t] \in Key /\ conn[t] = None
    BY <1>4 DEF StoreOptions, Holding
  <2>2. hostOption' \in [Hosts -> Option]
    BY <1>4, <2>1 DEF StoreOptions, TypeOK, Key
  <2>3. UNCHANGED <<config, sessions, cache, asked, conn>> /\ pc' = [pc EXCEPT ![t] = "read"]
    BY <1>4 DEF StoreOptions
  <2>4. asked' = [asked EXCEPT ![t] = asked'[t]] /\ asked'[t] \in Key
    BY <2>1, <2>3 DEF TypeOK
  <2>5. hostOption' \in [Hosts -> Option] /\ config' = config
    BY <2>2, <2>3
  <2> QED BY <2>1, <2>3, <2>4, <2>5, RequestInv
<1>5. ASSUME WithSession(t) PROVE IInv'
  <2>1. asked[t] \in Key /\ conn[t] = None
    BY <1>5 DEF WithSession, Holding
  <2>2. asked'[t] = <<asked[t][1], hostOption[asked[t][1]]>>
    BY <1>5, <2>1 DEF WithSession, TypeOK, Key
  <2>3. asked'[t] \in Key /\ asked' = [asked EXCEPT ![t] = asked'[t]]
    BY <1>5, <2>1, <2>2 DEF WithSession, TypeOK, Key
  <2>4. UNCHANGED <<settings, sessions, cache, conn>> /\ pc' = [pc EXCEPT ![t] = "pop"]
    BY <1>5 DEF WithSession
  <2>5. config' = config /\ hostOption' \in [Hosts -> Option]
    BY <2>4 DEF TypeOK
  <2> QED BY <2>1, <2>3, <2>4, <2>5, RequestInv
<1>2. ASSUME Pop(t) PROVE IInv'
  <2> DEFINE k == asked[t]
  <2>1. k \in Key /\ conn[t] = None
    BY <1>2 DEF Pop, Holding
  <2>2. PICK s \in pool[k] \ expired :
           /\ conn' = [conn EXCEPT ![t] = s]
           /\ pool' = [pool EXCEPT ![k] = (pool[k] \ expired) \ {s}]
    BY <1>2 DEF Pop
  <2>3. s \in Sessions /\ s # None /\ state[s] = "authenticated" /\ key[s] = k
    BY <2>1, <2>2 DEF TypeOK, Filed
  <2>4. /\ \A u \in Threads : conn[u] # s
        /\ \A j \in Key : j # k => s \notin pool[j]
    BY <2>1, <2>2, <2>3 DEF Exclusive, Filed
  <2>5. TypeOK'
    BY <1>2, <2>1, <2>2, <2>3 DEF Pop, TypeOK, PcValue
  <2>6. \A j \in Key : pool'[j] \subseteq pool[j] /\ s \notin pool'[j]
    BY <2>1, <2>2, <2>4 DEF TypeOK
  <2>7. Holding'
    BY <1>2, <2>1, <2>2, <2>3 DEF Pop, TypeOK, Holding, Using
  <2>8. Filed'
    BY <1>2, <2>6 DEF Pop, Filed
  <2>9. Exclusive'
    BY <2>2, <2>3, <2>4, <2>6 DEF TypeOK, Exclusive
  <2>10. Channels'
    BY <1>2, <2>1, <2>2, <2>3, <2>6 DEF Pop, TypeOK, Channels
  <2> QED BY <2>5, <2>7, <2>8, <2>9, <2>10
<1>3. ASSUME NewSession(t) PROVE IInv'
  <2> DEFINE k == asked[t]
  <2>1. k \in Key /\ conn[t] = None
    BY <1>3 DEF NewSession, Holding
  <2>2. PICK s \in Sessions :
           /\ state[s] = "none"
           /\ state' = [state EXCEPT ![s] = "new"]
           /\ key' = [key EXCEPT ![s] = k]
           /\ conn' = [conn EXCEPT ![t] = s]
    BY <1>3 DEF NewSession
  <2>3. /\ \A u \in Threads : conn[u] # s
        /\ \A j \in Key : s \notin pool[j]
    BY <2>2 DEF Holding, Filed
  <2>4. TypeOK'
    BY <1>3, <2>1, <2>2 DEF NewSession, TypeOK, PcValue
  <2>5. \A j \in Key : pool'[j] \subseteq pool[j]
    BY <1>3, <2>1 DEF NewSession, TypeOK
  <2>6. Holding'
    BY <1>3, <2>1, <2>2, <2>3 DEF NewSession, TypeOK, Holding, Using
  <2>7. Filed'
    BY <1>3, <2>2, <2>3, <2>5 DEF NewSession, TypeOK, Filed
  <2>8. Exclusive'
    BY <2>2, <2>3, <2>5 DEF TypeOK, Exclusive
  <2>9. Channels'
    BY <1>3, <2>1, <2>2, <2>3, <2>5 DEF NewSession, TypeOK, Channels
  <2> QED BY <2>4, <2>6, <2>7, <2>8, <2>9
<1> QED BY <1>1, <1>2, <1>3, <1>4, <1>5

\* A step of create_session succeeds.
LEMMA SetUpInv ==
    ASSUME IInv, NEW t \in Threads, NEW label \in PcValue,
           NEW reached \in {"new", "connected", "known", "authenticated"},
           SetUp(t, label, reached), pc[t] \notin {"idle", "store", "read", "pop", "body", "close"},
           label \notin {"idle", "store", "read", "pop", "body", "close"},
           label \in {"open", "push"} => reached = "authenticated"
    PROVE  IInv'
<1> USE NoneIsNothing DEF IInv, sessions, cache, threads, settings, Goto
<1> DEFINE s == conn[t]
<1>1. s # None /\ s \in Sessions
  BY DEF TypeOK, Holding
<1>2. /\ \A u \in Threads : u # t => conn[u] # s
      /\ \A j \in Key : s \notin pool[j]
  BY <1>1 DEF Exclusive
<1>3. TypeOK'
  BY <1>1 DEF SetUp, TypeOK
<1>4. Holding'
  BY <1>1, <1>2 DEF SetUp, TypeOK, Holding, Using, PcValue
<1>5. Filed' /\ Exclusive'
  BY <1>1, <1>2 DEF SetUp, TypeOK, Filed, Exclusive
<1>6. Channels'
  BY <1>1, <1>2 DEF SetUp, TypeOK, Channels
<1> QED BY <1>3, <1>4, <1>5, <1>6

\* A step of create_session raises.
LEMMA CreateFailsInv ==
    ASSUME IInv, NEW t \in Threads, CreateFails(t)
    PROVE  IInv'
<1> USE NoneIsNothing DEF IInv, sessions, cache, threads, settings, Goto, CreateFails, Leave
<1>1. TypeOK'
  BY DEF TypeOK, PcValue
<1>2. Holding'
  BY DEF TypeOK, Holding, Using
<1>3. Filed' /\ Exclusive' /\ Channels'
  BY DEF TypeOK, Filed, Exclusive, Channels
<1> QED BY <1>1, <1>2, <1>3

\* create_session as a whole.
LEMMA CreateInv ==
    ASSUME IInv, NEW t \in Threads,
           ConfigureSession(t) \/ Connect(t) \/ ServerKnown(t) \/ Userauth(t)
    PROVE  IInv'
<1>1. CASE CreateFails(t)
  BY <1>1, CreateFailsInv
<1>2. CASE pc[t] = "configure" /\ SetUp(t, "connect", "new")
  BY <1>2, SetUpInv DEF PcValue
<1>3. CASE pc[t] = "connect" /\ SetUp(t, "server_known", "connected")
  BY <1>3, SetUpInv DEF PcValue
<1>4. CASE pc[t] = "server_known" /\ SetUp(t, "userauth", "known")
  BY <1>4, SetUpInv DEF PcValue
<1>5. CASE pc[t] = "userauth" /\ SetUp(t, "open", "authenticated")
  BY <1>5, SetUpInv DEF PcValue
<1> QED BY <1>1, <1>2, <1>3, <1>4, <1>5 DEF ConfigureSession, Connect, ServerKnown, Userauth

\* The block.
LEMMA BlockInv ==
    ASSUME IInv, NEW t \in Threads, OpenChannel(t) \/ Body(t) \/ CloseChannel(t)
    PROVE  IInv'
<1> USE NoneIsNothing DEF IInv, sessions, cache, threads, settings, Goto, OpenChannel, Body,
        CloseChannel, Strand
<1> DEFINE s == conn[t]
<1>1. s # None /\ s \in Sessions /\ state[s] = "authenticated"
  BY DEF TypeOK, Holding, Using
<1>2. /\ \A u \in Threads : u # t => conn[u] # s
      /\ \A j \in Key : s \notin pool[j]
  BY <1>1 DEF Exclusive
<1>3. channels' \in [Sessions -> Nat]
      /\ stray' \in [Sessions -> 0..Interrupts]
      /\ \A r \in Sessions : r # s => channels'[r] = channels[r] /\ stray'[r] = stray[r]
  BY <1>1, InterruptsAssumption DEF TypeOK, Channels
<1>4. TypeOK'
  BY <1>3 DEF TypeOK, PcValue
<1>5. Holding'
  BY <1>1 DEF TypeOK, Holding, Using
<1>6. Filed' /\ Exclusive'
  BY DEF TypeOK, Filed, Exclusive
<1>7. ~lost[s] => channels'[s] = stray'[s] + IF pc'[t] \in {"body", "close"} THEN 1 ELSE 0
  BY <1>1, InterruptsAssumption DEF TypeOK, Channels
<1>8. Channels'
  BY <1>1, <1>2, <1>3, <1>7 DEF TypeOK, Channels
<1> QED BY <1>4, <1>5, <1>6, <1>8

\* The ensure of the pool.
LEMMA PushInv ==
    ASSUME IInv, NEW t \in Threads, Push(t)
    PROVE  IInv'
<1> USE NoneIsNothing DEF IInv, sessions, cache, threads, settings, Goto, Push, Leave, PoolKey
<1> DEFINE s == conn[t]
           k == asked[t]
<1>1. /\ s # None /\ s \in Sessions /\ k \in Key
      /\ state[s] = "authenticated" /\ key[s] = k
      /\ channels[s] = stray[s]
  BY DEF TypeOK, Holding, Using, Channels
<1>2. \A u \in Threads : u # t => conn[u] # s
  BY <1>1 DEF Exclusive
<1>3. TypeOK'
  BY <1>1 DEF TypeOK, PcValue
<1>4. \A j \in Key : pool'[j] \subseteq pool[j] \cup (IF j = k THEN {s} ELSE {})
  BY <1>1 DEF TypeOK
<1>5. Holding'
  BY DEF TypeOK, Holding, Using
<1>6. Filed'
  BY <1>1, <1>4 DEF TypeOK, Filed
<1>7. Exclusive'
  BY <1>1, <1>2, <1>4, <1>3 DEF TypeOK, Exclusive
<1>8. Channels'
  BY <1>1, <1>4 DEF TypeOK, Channels
<1> QED BY <1>3, <1>5, <1>6, <1>7, <1>8

\* IInv is inductive.
LEMMA NextInv == IInv /\ [Next]_vars => IInv'
<1> SUFFICES ASSUME IInv, [Next]_vars PROVE IInv'
  OBVIOUS
<1>1. CASE Environment
  BY <1>1, OutsideInv, DropInv DEF Environment
<1>2. ASSUME NEW t \in Threads, Thread(t) PROVE IInv'
  BY <1>2, TakeInv, CreateInv, BlockInv, PushInv DEF Thread
<1>3. CASE UNCHANGED vars
  BY <1>3 DEF vars, sessions, cache, threads, settings, IInv, TypeOK, Holding, Filed, Exclusive,
     Channels, Using
<1> QED BY <1>1, <1>2, <1>3 DEF Next

LEMMA SpecInv == Spec => []IInv
  BY InitInv, NextInv, PTL DEF Spec

\* Whatever the pool, the program and the network do, the types hold.
THEOREM TypeCorrect == Spec => []TypeOK
<1>1. IInv => TypeOK
  BY DEF IInv
<1> QED BY <1>1, SpecInv, PTL

\* Any number of threads: a session has one user.
THEOREM SessionHasOneUser == Spec => []OneUser
<1>1. IInv => OneUser
  BY NoneIsNothing DEF IInv, Exclusive, Filed, OneUser, Held, Pooled
<1> QED BY <1>1, SpecInv, PTL

\* A block gets a session that is authenticated, and so does the pool.
THEOREM HandsOutAuthenticated == Spec => []HandedAuthenticated
<1>1. IInv => HandedAuthenticated
  BY DEF IInv, Holding, Filed, HandedAuthenticated, Pooled
<1> QED BY <1>1, SpecInv, PTL

\* Its session was made for what the thread asked for.
THEOREM SessionFits == Spec => []SessionMatchesRequest
<1>1. IInv => SessionMatchesRequest
  BY DEF IInv, Holding, SessionMatchesRequest, Using
<1> QED BY <1>1, SpecInv, PTL

\* Whatever else goes wrong in a block, only an interrupt leaves a channel open
\* on a session of the pool.
THEOREM PoolIsClean == Spec => []PooledClean
<1>1. IInv => PooledClean
  <2> SUFFICES ASSUME IInv, NEW s \in Pooled PROVE channels[s] <= stray[s]
    BY DEF PooledClean
  <2>1. PICK k \in Key : s \in pool[k]
    BY DEF Pooled
  <2>2. s \in Sessions /\ channels[s] = stray[s]
    BY <2>1 DEF IInv, TypeOK, Channels
  <2> QED BY <2>2 DEF IInv, TypeOK
<1> QED BY <1>1, SpecInv, PTL
=============================================================================
