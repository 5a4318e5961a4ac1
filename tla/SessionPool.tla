---------------------------- MODULE SessionPool ----------------------------
(***************************************************************************)
(* SSHKit::Backend::Libssh#with_session: threads that run commands and     *)
(* transfers share connected sessions through SSHKit's connection pool.    *)
(*                                                                         *)
(* The pool keeps the sessions of one list of arguments (host, user,       *)
(* options) together.  When a block is done its session goes back to the   *)
(* pool, however the block ended; an idle session expires and is dropped.  *)
(* LibSSH::Session has neither close nor closed?, the methods by which the *)
(* pool closes a dropped session and recognizes a dead one.                *)
(***************************************************************************)
EXTENDS Integers, FiniteSets

CONSTANTS
    Threads, Hosts, Sessions,
    Ports,   \* values of an option, standing for all options
    Unset,   \* the option is not given
    None,    \* no session, nothing asked
    Interrupts  \* bound on the channels of a session that interrupts leave open

ASSUME UnsetAssumption == Unset \notin Ports
ASSUME InterruptsAssumption == Interrupts \in Nat
ASSUME NoneAssumption == None \notin Sessions /\ None \notin Hosts \X (Ports \cup {Unset})

Option == Ports \cup {Unset}
Key    == Hosts \X Option

VARIABLES
    config,     \* the option in Libssh.config.ssh_options
    hostOption, \* hostOption[h]: the option in host.ssh_options
    state,      \* state[s]: how far the session is set up
    key,        \* key[s]: the arguments it was created with
    lost,       \* lost[s]: its connection is lost
    channels,   \* channels[s]: open channels
    stray,      \* stray[s]: how often an interrupt kept a channel from being closed
    pool,       \* pool[k]: idle sessions
    expired,    \* idle sessions whose time is over
    pc,         \* pc[t]: what thread t is doing
    asked,      \* asked[t]: the host and option of its with_session, so far
    conn        \* conn[t]: the session it holds

settings == <<config, hostOption>>
sessions == <<state, key, lost, channels, stray>>
cache    == <<pool, expired>>
threads  == <<pc, asked, conn>>
vars     == <<settings, sessions, cache, threads>>

PcValue == {"idle", "store", "read", "pop", "configure", "connect", "server_known", "userauth",
            "open", "body", "close", "push"}

TypeOK ==
    /\ config \in Option
    /\ hostOption \in [Hosts -> Option]
    /\ state \in [Sessions -> {"none", "new", "connected", "known", "authenticated"}]
    /\ key \in [Sessions -> Key \cup {None}]
    /\ lost \in [Sessions -> BOOLEAN]
    /\ channels \in [Sessions -> Nat]
    /\ stray \in [Sessions -> 0..Interrupts]
    /\ pool \in [Key -> SUBSET Sessions]
    /\ expired \subseteq Sessions
    /\ pc \in [Threads -> PcValue]
    /\ asked \in [Threads -> Key \cup {None}]
    /\ conn \in [Threads -> Sessions \cup {None}]

Init ==
    /\ config = Unset /\ hostOption = [h \in Hosts |-> Unset]
    /\ state = [s \in Sessions |-> "none"]
    /\ key = [s \in Sessions |-> None]
    /\ lost = [s \in Sessions |-> FALSE]
    /\ channels = [s \in Sessions |-> 0]
    /\ stray = [s \in Sessions |-> 0]
    /\ pool = [k \in Key |-> {}]
    /\ expired = {}
    /\ pc = [t \in Threads |-> "idle"]
    /\ asked = [t \in Threads |-> None]
    /\ conn = [t \in Threads |-> None]

Pooled == UNION {pool[k] : k \in Key}
Held   == {conn[t] : t \in Threads} \ {None}

-----------------------------------------------------------------------------
(* The program's settings, the network, time, the collector.               *)

SetConfig(o) ==
    /\ config' = o
    /\ UNCHANGED <<hostOption, sessions, cache, threads>>

SetHostOption(h, o) ==
    /\ hostOption' = [hostOption EXCEPT ![h] = o]
    /\ UNCHANGED <<config, sessions, cache, threads>>

\* With its connection a session loses its channels.
LoseConnection(s) ==
    /\ state[s] \notin {"none", "new"} /\ ~lost[s]
    /\ lost' = [lost EXCEPT ![s] = TRUE]
    /\ channels' = [channels EXCEPT ![s] = 0]
    /\ stray' = [stray EXCEPT ![s] = 0]
    /\ UNCHANGED <<settings, state, key, cache, threads>>

Expire(s) ==
    /\ s \in Pooled \ expired
    /\ expired' = expired \cup {s}
    /\ UNCHANGED <<settings, sessions, pool, threads>>

\* The pool's own thread drops what has expired.
Evict(k) ==
    /\ pool[k] \cap expired # {}
    /\ pool' = [pool EXCEPT ![k] = @ \ expired]
    /\ expired' = expired \ pool[k]
    /\ UNCHANGED <<settings, sessions, threads>>

\* Variant of Collect: the connection stays.
CollectKept(s) == FALSE

\* Nobody refers to the session: its free function ends the connection.
Collect(s) ==
    /\ state[s] # "none" /\ s \notin Pooled \cup Held
    /\ state' = [state EXCEPT ![s] = "none"]
    /\ key' = [key EXCEPT ![s] = None]
    /\ lost' = [lost EXCEPT ![s] = FALSE]
    /\ channels' = [channels EXCEPT ![s] = 0]
    /\ stray' = [stray EXCEPT ![s] = 0]
    /\ UNCHANGED <<settings, cache, threads>>

-----------------------------------------------------------------------------
(* with_session.                                                           *)

Goto(t, label) == pc' = [pc EXCEPT ![t] = label]

\* Libssh.config.ssh_options.merge(host.ssh_options || {}): what the host has
\* wins.
MergeOptions(t, h) ==
    /\ pc[t] = "idle"
    /\ asked' = [asked EXCEPT ![t] =
          <<h, IF hostOption[h] = Unset THEN config ELSE hostOption[h]>>]
    /\ Goto(t, "store")
    /\ UNCHANGED <<settings, sessions, cache, conn>>

\* The result is stored in the host, over what it has by now.
StoreOptions(t) ==
    /\ pc[t] = "store"
    /\ hostOption' = [hostOption EXCEPT ![asked[t][1]] = asked[t][2]]
    /\ Goto(t, "read")
    /\ UNCHANGED <<config, sessions, cache, asked, conn>>

\* host.netssh_options are read from the host again, for pool.with.
WithSession(t) ==
    /\ pc[t] = "read"
    /\ asked' = [asked EXCEPT ![t][2] = hostOption[asked[t][1]]]
    /\ Goto(t, "pop")
    /\ UNCHANGED <<settings, sessions, cache, conn>>

\* Variant of PoolKey: the options are not part of it.
PoolKeyHost(k) == <<k[1], Unset>>

\* The pool finds a session by all arguments of create_session.
PoolKey(k) == k

\* pool.with: what has expired is dropped, a session that is left is taken.
Pop(t) ==
    LET k == PoolKey(asked[t])
        fresh == pool[k] \ expired
    IN
    /\ pc[t] = "pop"
    /\ \E s \in fresh :
          /\ conn' = [conn EXCEPT ![t] = s]
          /\ pool' = [pool EXCEPT ![k] = fresh \ {s}]
    /\ expired' = expired \ pool[k]
    /\ Goto(t, "open")
    /\ UNCHANGED <<settings, sessions, asked>>

\* None is left: create_session makes one.
NewSession(t) ==
    LET k == PoolKey(asked[t]) IN
    /\ pc[t] = "pop"
    /\ pool[k] \subseteq expired
    /\ pool' = [pool EXCEPT ![k] = {}]
    /\ expired' = expired \ pool[k]
    /\ \E s \in Sessions :
          /\ state[s] = "none"
          /\ state' = [state EXCEPT ![s] = "new"]
          /\ key' = [key EXCEPT ![s] = asked[t]]
          /\ conn' = [conn EXCEPT ![t] = s]
    /\ Goto(t, "configure")
    /\ UNCHANGED <<settings, lost, channels, stray, asked>>

Leave(t) ==
    /\ Goto(t, "idle")
    /\ asked' = [asked EXCEPT ![t] = None]
    /\ conn' = [conn EXCEPT ![t] = None]

\* create_session raises: pool.with has no connection to put back, and nobody
\* disconnects the session.
CreateFails(t) ==
    /\ Leave(t)
    /\ UNCHANGED <<settings, sessions, cache>>

\* A step of create_session succeeds.
SetUp(t, label, reached) ==
    /\ state' = [state EXCEPT ![conn[t]] = reached]
    /\ Goto(t, label)
    /\ UNCHANGED <<settings, key, lost, channels, stray, cache, asked, conn>>

\* What create_session sets of libssh's options; the timeout of the backend's
\* configuration is not among them.
OptionsSet == {"host", "user", "port", "identity", "config"}

\* host=, user=, configure_session; an option may have the wrong type.
ConfigureSession(t) ==
    /\ pc[t] = "configure"
    /\ SetUp(t, "connect", "new") \/ CreateFails(t)

Connect(t) ==
    /\ pc[t] = "connect"
    /\ SetUp(t, "server_known", "connected") \/ CreateFails(t)

\* raise 'unknown host'
ServerKnown(t) ==
    /\ pc[t] = "server_known"
    /\ SetUp(t, "userauth", "known") \/ CreateFails(t)

\* Variant of Userauth: the result is not looked at.
UserauthUnchecked(t) ==
    /\ pc[t] = "userauth"
    /\ SetUp(t, "open", "authenticated") \/ SetUp(t, "open", "known")

\* raise 'authorization failed'
Userauth(t) ==
    /\ pc[t] = "userauth"
    /\ \/ ~lost[conn[t]] /\ SetUp(t, "open", "authenticated")
       \/ CreateFails(t)

\* An interrupt (Thread#raise, a timeout, a signal) keeps a channel open.
Strand(s) ==
    /\ stray[s] < Interrupts
    /\ stray' = [stray EXCEPT ![s] = @ + 1]

\* The block of with_session opens a channel or a scp.  If that fails, there
\* is nothing to close.  An interrupt that arrives before the thread has the
\* GVL again is raised with the channel open and the close not yet due.
OpenChannel(t) ==
    /\ pc[t] = "open"
    /\ \/ UNCHANGED <<channels, stray>> /\ Goto(t, "push")
       \/ /\ ~lost[conn[t]]
          /\ channels' = [channels EXCEPT ![conn[t]] = @ + 1]
          /\ \/ UNCHANGED stray /\ Goto(t, "body")
             \/ Strand(conn[t]) /\ Goto(t, "push")
    /\ UNCHANGED <<settings, state, key, lost, cache, asked, conn>>

\* Variant of Body: an exception skips the close.
BodyUnprotected(t) ==
    /\ pc[t] = "body"
    /\ Goto(t, "close") \/ Goto(t, "push")
    /\ UNCHANGED <<settings, sessions, cache, asked, conn>>

\* What is done with the channel ends or raises.
Body(t) ==
    /\ pc[t] = "body"
    /\ Goto(t, "close")
    /\ UNCHANGED <<settings, sessions, cache, asked, conn>>

\* The close; an interrupt may be raised before libssh is called.
CloseChannel(t) ==
    /\ pc[t] = "close"
    /\ \/ /\ channels' = IF lost[conn[t]] THEN channels
                                          ELSE [channels EXCEPT ![conn[t]] = @ - 1]
          /\ UNCHANGED stray
       \/ ~lost[conn[t]] /\ Strand(conn[t]) /\ UNCHANGED channels
    /\ Goto(t, "push")
    /\ UNCHANGED <<settings, state, key, lost, cache, asked, conn>>

\* Variant of Push: the thread keeps the session it has put back.
PushKept(t) ==
    /\ pc[t] = "push"
    /\ pool' = [pool EXCEPT ![PoolKey(asked[t])] = @ \cup {conn[t]}]
    /\ Goto(t, "open")
    /\ UNCHANGED <<settings, sessions, expired, asked, conn>>

\* The ensure of pool.with, whether the block has raised or not: the session
\* goes back for another idle time.  A lost one is not recognized.
Push(t) ==
    /\ pc[t] = "push"
    /\ pool' = [pool EXCEPT ![PoolKey(asked[t])] = @ \cup {conn[t]}]
    /\ Leave(t)
    /\ UNCHANGED <<settings, sessions, expired>>

-----------------------------------------------------------------------------
Environment ==
    \/ \E o \in Option : SetConfig(o) \/ \E h \in Hosts : SetHostOption(h, o)
    \/ \E s \in Sessions : LoseConnection(s) \/ Expire(s) \/ Collect(s)
    \/ \E k \in Key : Evict(k)

Thread(t) ==
    \/ \E h \in Hosts : MergeOptions(t, h)
    \/ StoreOptions(t) \/ WithSession(t)
    \/ Pop(t) \/ NewSession(t) \/ ConfigureSession(t) \/ Connect(t)
    \/ ServerKnown(t) \/ Userauth(t) \/ OpenChannel(t) \/ Body(t)
    \/ CloseChannel(t) \/ Push(t)

Next == Environment \/ \E t \in Threads : Thread(t)

Spec == Init /\ [][Next]_vars

\* Time passes, the pool's thread and the collector run; nothing is assumed of
\* the program.
FairSpec ==
    /\ Spec
    /\ \A s \in Sessions : WF_vars(Expire(s)) /\ WF_vars(Collect(s))
    /\ \A k \in Key : WF_vars(Evict(k))

\* Every call of a thread returns; a connect that the server does not answer
\* returns when libssh has a timeout for it.
TimeSpec ==
    /\ Spec
    /\ \A t \in Threads :
          WF_vars(Thread(t) /\ (pc[t] = "connect" => "timeout" \in OptionsSet))

-----------------------------------------------------------------------------
(* Properties.                                                             *)

\* A session is used by one thread at a time: no two threads hold it, and
\* nobody holds what the pool can hand out.
OneUser ==
    /\ \A t, u \in Threads : conn[t] = conn[u] /\ conn[t] # None => t = u
    /\ Held \cap Pooled = {}
    /\ \A j, k \in Key : pool[j] \cap pool[k] # {} => j = k

\* Using(t): thread t is in the block of with_session.
Using(t) == pc[t] \in {"open", "body", "close", "push"}

\* The block is given a session whose server is known and that is
\* authenticated; one whose creation has failed is never seen again.
HandedAuthenticated ==
    /\ \A t \in Threads : Using(t) => state[conn[t]] = "authenticated"
    /\ \A s \in Pooled : state[s] = "authenticated"

\* It was created for the host and with the options the thread asked for,
\* although config and host options may change at any time.
SessionMatchesRequest == \A t \in Threads : Using(t) => key[conn[t]] = asked[t]

\* On a session that goes back to the pool no more channels are open than
\* interrupts have left behind: refused opens, exceptions of the block and
\* lost connections leave none.
PooledClean == \A s \in Pooled : channels[s] <= stray[s]

\* A connection that nobody uses is used again or closed in the end, although
\* the pool cannot close it: the collector does.
IdleConnectionEnds ==
    \A s \in Sessions :
        (state[s] # "none" /\ s \notin Held) ~> (state[s] = "none" \/ s \in Held)

\* What the program has set for a host stays: merging the configuration into
\* the host's options fills in what they lack.
OwnOptionKept ==
    [][\A t \in Threads : StoreOptions(t) =>
          \A h \in Hosts : hostOption[h] # Unset => hostOption'[h] = hostOption[h]]_vars

\* Configuration#connection_timeout: a connect does not last for ever.
ConnectTimesOut == \A t \in Threads : pc[t] = "connect" ~> pc[t] # "connect"
=============================================================================
