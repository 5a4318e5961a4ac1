-------------------------- MODULE NativeCall_proofs --------------------------
(* Proofs about NativeCall, for any number of threads, sessions, channels   *)
(* and scps, and blocks nested to any depth.                                *)
EXTENDS NativeCall, TLAPS

\* The calls methods make: a block follows an open call only, and opens and
\* closes are made on a channel or scp.
MethodCall ==
    {c \in Call : /\ c.kind \in {"open", "close"} => c.on \in Handle
                  /\ c.block => c.kind = "open"
                  /\ c.kind = "open" => c.onError = "raise"}

\* Every method either enters libssh with such a call or is refused before.
LEMMA MethodShape ==
    ASSUME NEW t \in Thread, Method(t)
    PROVE  \/ \E c \in MethodCall : Begin(t, c)
           \/ \E c \in Channel : RefuseUnconnected(t, c)
<1> USE DEF Handle, Plain, MethodCall, Call, Kind, OnError
<1>1. ASSUME NEW s \in Session, SessionMethod(t, s) PROVE \E c \in MethodCall : Begin(t, c)
  BY <1>1 DEF SessionMethod, Connect, Disconnect, UserauthPublickeyAuto, UserauthNone,
     UserauthPassword, UserauthList, ServerKnown, GetPublickey, WriteKnownhost, Fd
<1>2. ASSUME NEW h \in Handle, NEW block \in BOOLEAN PROVE OpenCall(h, block) \in MethodCall
  BY DEF OpenCall
<1>3. ASSUME NEW c \in Channel, NEW block \in BOOLEAN,
             OpenSession(t, c, block) \/ OpenForward(t, c, block)
      PROVE  \/ \E d \in MethodCall : Begin(t, d)
             \/ RefuseUnconnected(t, c)
  BY <1>2, <1>3 DEF OpenSession, OpenForward
<1>4. ASSUME NEW c \in Channel,
             \/ RequestExec(t, c) \/ RequestPty(t, c) \/ Poll(t, c) \/ Write(t, c)
             \/ SendEof(t, c) \/ Read(t, c) \/ ReadNonblocking(t, c) \/ ChannelQuery(t, c)
             \/ GetExitStatus(t, c) \/ Select(t, c)
      PROVE  \E d \in MethodCall : Begin(t, d)
  BY <1>4 DEF RequestExec, RequestPty, Poll, Write, SendEof, Read, ReadNonblocking,
     ReadCall, ChannelQuery, GetExitStatus, Select
<1>5. ASSUME NEW p \in Scp, ScpMethod(t, p) PROVE \E c \in MethodCall : Begin(t, c)
  BY <1>2, <1>5 DEF ScpMethod, ScpInit, PushFile, ScpWrite, PullRequest, AcceptRequest,
     DenyRequest, ScpRead, ScpQuery, RequestPermissions
<1>6. ASSUME NEW h \in Handle, Close(t, h) PROVE \E c \in MethodCall : Begin(t, c)
  BY <1>6 DEF Close, CloseCall
<1> QED BY <1>1, <1>3, <1>4, <1>5, <1>6 DEF Method, ChannelMethod

-----------------------------------------------------------------------------
(* Types.                                                                   *)

\* A thread outside of Ruby code is making one of the calls above, and a
\* return code waits for the method to look at it only after libssh returned.
CallsMade ==
    \A t \in Thread : /\ pc[t] # "ruby" => call[t] \in MethodCall
                      /\ pc[t] # "back" => rc[t] = "ok"

TypeInv == TypeOK /\ CallsMade

\* No thread runs and no object is in use at first.
LEMMA InitTypes == Init => TypeInv
  BY ConstantTypes DEF Init, TypeInv, TypeOK, CallsMade, Exception, NoError, NoFailure

\* Entering libssh keeps the types, for a call a method or rb_ensure makes,
\* and so does the interrupt delivered instead.
LEMMA EnterTypes ==
    ASSUME TypeInv, NEW t \in Thread, NEW c \in MethodCall, Enter(t, c),
           gvl = t, pc[t] = "ruby", UNCHANGED rc
    PROVE  /\ gvl' \in Thread \cup {Nobody}
           /\ pc' \in [Thread -> {"ruby", "native", "back"}]
           /\ call' \in [Thread -> Call \cup {NoCall}]
           /\ exc' \in [Thread -> Exception]
           /\ pending' \subseteq Thread
           /\ leaked' \subseteq Thread
           /\ CallsMade'
<1>1. c \in Call
  BY DEF MethodCall
<1>2. ASSUME EnterNative(t, c), UNCHANGED <<exc, pending>>
      PROVE  /\ gvl' \in Thread \cup {Nobody}
             /\ pc' \in [Thread -> {"ruby", "native", "back"}]
             /\ call' \in [Thread -> Call \cup {NoCall}]
             /\ leaked' \subseteq Thread
             /\ CallsMade'
  <2>1. CallsMade'
    BY <1>2 DEF EnterNative, TypeInv, TypeOK, CallsMade
  <2> QED BY <1>1, <1>2, <2>1 DEF EnterNative, TypeInv, TypeOK
<1>3. ASSUME InterruptedAtEntry(t, c)
      PROVE  /\ UNCHANGED <<gvl, pc, call>>
             /\ exc' \in [Thread -> Exception]
             /\ pending' \subseteq Thread
             /\ leaked' \subseteq Thread
             /\ CallsMade'
  BY <1>3 DEF InterruptedAtEntry, TypeInv, TypeOK, CallsMade, Exception
<1> QED BY <1>2, <1>3 DEF Enter, TypeInv, TypeOK

\* What libssh returns keeps the types.
LEMMA NativeTypes ==
    ASSUME TypeInv, NEW t \in Thread, NativeReturn(t)
    PROVE  TypeInv'
<1> DEFINE x == call[t].on
<1>1. call[t] \in MethodCall /\ x \in Session \cup Handle /\ call[t].kind \in Kind
      /\ (call[t].kind \in {"open", "close"} => x \in Handle)
  BY DEF NativeReturn, TypeInv, CallsMade, MethodCall, Call
<1>2. SessOf(x) \in Session
  BY <1>1, ConstantTypes DEF SessOf
<1> DEFINE EffectTypes == /\ conn' \in [Session -> {"new", "up", "authed", "lost"}]
                          /\ state' \in [Handle -> {"new", "open", "running", "closed", "freed"}]
                          /\ byBlock' \subseteq Handle
<1> USE DEF TypeInv, TypeOK
<1>3. ASSUME Succeed(t) PROVE EffectTypes
  <2>1. CASE Connected(x)
    BY <2>1 DEF Connected
  <2>2. CASE Disconnected(x)
    BY <2>2 DEF Disconnected
  <2>3. CASE Authenticated(x)
    BY <2>3 DEF Authenticated
  <2>4. CASE call[t].kind = "open" /\ Opened(x, call[t].block)
    BY <1>1, <2>4 DEF Opened
  <2>5. CASE ExecRequested(x)
    BY <2>5 DEF ExecRequested
  <2>6. CASE Closed(x)
    BY <2>6 DEF Closed
  <2>7. CASE UNCHANGED <<conn, state, byBlock>>
    BY <2>7
  <2> QED BY <1>3, <2>1, <2>2, <2>3, <2>4, <2>5, <2>6, <2>7 DEF Succeed
<1>4. /\ conn' \in [Session -> {"new", "up", "authed", "lost"}]
      /\ state' \in [Handle -> {"new", "open", "running", "closed", "freed"}]
      /\ byBlock' \subseteq Handle
      /\ rc' \in [Thread -> {"ok", "error"}]
      /\ lastError' \in [Session -> [by : Thread \cup {Nobody}, during : SUBSET Thread]]
  <2>1. InCallOn(SessOf(x)) \in SUBSET Thread
    BY DEF InCallOn
  <2>2. CASE Fail(t)
    BY <1>2, <2>1, <2>2 DEF Fail
  <2> QED BY <1>3, <2>2 DEF NativeReturn
<1>5. TypeOK'
  BY <1>4 DEF NativeReturn, TypeInv, TypeOK
<1>6. CallsMade'
  BY DEF NativeReturn, Fail, TypeInv, TypeOK, CallsMade
<1> QED BY <1>5, <1>6 DEF TypeInv

\* So does the end of a method, whatever it raises.
LEMMA FinishTypes ==
    ASSUME TypeInv, NEW t \in Thread, Finish(t)
    PROVE  TypeInv'
<1>1. call[t] \in MethodCall
  BY DEF Finish, TypeInv, CallsMade
<1>2. call[t].block => call[t].on \in Handle
  BY <1>1 DEF MethodCall
<1>3. SessOf(call[t].on) \in Session
  BY <1>1, ConstantTypes DEF MethodCall, Call, SessOf
<1>4. LibSSHError(t) \in Exception
  BY <1>3 DEF LibSSHError, Exception, TypeInv, TypeOK
<1>5. /\ exc' \in [Thread -> Exception]
      /\ frames' \in [Thread -> Seq(Handle)]
      /\ pending' \subseteq Thread
      /\ leaked' \subseteq Thread
  <2> USE DEF TypeInv, TypeOK
  <2>1. leaked' \subseteq Thread /\ pending' \subseteq Thread
    BY DEF Finish, Interrupted, Conclude, Failed, RaiseError, Lose
  <2>2. CASE Interrupted(t)
    BY <2>1, <2>2 DEF Interrupted, Exception
  <2>3. CASE Conclude(t)
    <3>1. frames' \in [Thread -> Seq(Handle)]
      <4>1. CASE frames' = frames
        BY <4>1
      <4>2. CASE call[t].block /\ frames' = [frames EXCEPT ![t] = Append(@, call[t].on)]
        BY <1>2, <4>2
      <4> QED BY <2>3, <4>1, <4>2 DEF Conclude, Failed, RaiseError
    <3>2. exc' \in [Thread -> Exception]
      BY <1>4, <2>3 DEF Conclude, Failed, RaiseError, Exception
    <3> QED BY <2>1, <3>1, <3>2
  <2> QED BY <2>2, <2>3 DEF Finish
<1>6. TypeOK'
  <2>1. \A e \in [by : Thread \cup {Nobody}, during : SUBSET Thread] :
            Past(e, t) \in [by : Thread \cup {Nobody}, during : SUBSET Thread]
    BY DEF Past, NoFailure
  <2>2. lastError' \in [Session -> [by : Thread \cup {Nobody}, during : SUBSET Thread]]
    BY <1>3, <2>1 DEF Finish, TypeInv, TypeOK
  <2> QED BY <1>5, <2>2 DEF Finish, TypeInv, TypeOK
<1>7. CallsMade'
  BY DEF Finish, TypeInv, TypeOK, CallsMade
<1> QED BY <1>6, <1>7 DEF TypeInv

\* So does leaving the block of an open call.
LEMMA LeaveBlockTypes ==
    ASSUME TypeInv, NEW t \in Thread, LeaveBlock(t)
    PROVE  /\ TypeInv'
           /\ frames[t][Len(frames[t])] \in Handle
           /\ CloseCall(frames[t][Len(frames[t])]) \in MethodCall
<1> DEFINE h == frames[t][Len(frames[t])]
<1>1. frames[t] \in Seq(Handle) /\ frames[t] # <<>>
  BY DEF LeaveBlock, TypeInv, TypeOK
<1>2. h \in Handle
  BY <1>1
<1>3. CloseCall(h) \in MethodCall
  BY <1>2 DEF CloseCall, Plain, MethodCall, Call, Kind, OnError
<1>4. frames' \in [Thread -> Seq(Handle)]
  BY <1>1 DEF LeaveBlock, Pop, TypeInv, TypeOK
<1>5. TypeInv'
  BY <1>3, <1>4, EnterTypes DEF LeaveBlock, InRuby, TypeInv, TypeOK
<1> QED BY <1>2, <1>3, <1>5

\* So does every step.
LEMMA NextTypes == TypeInv /\ [Next]_vars => TypeInv'
<1> SUFFICES ASSUME TypeInv, [Next]_vars PROVE TypeInv'
  OBVIOUS
<1>1. ASSUME NEW t \in Thread, Interpreter(t) PROVE TypeInv'
  <2> USE DEF TypeInv, TypeOK, CallsMade
  <2>1. CASE AcquireGvl(t)
    BY <2>1 DEF AcquireGvl
  <2>2. CASE YieldGvl(t)
    BY <2>2 DEF YieldGvl
  <2>3. CASE Interrupt(t)
    BY <2>3, ConstantTypes DEF Interrupt
  <2>4. CASE TakeInterrupt(t)
    BY <2>4 DEF TakeInterrupt, Exception
  <2>5. CASE Rescue(t)
    BY <2>5 DEF Rescue, Exception
  <2> QED BY <1>1, <2>1, <2>2, <2>3, <2>4, <2>5 DEF Interpreter
<1>2. ASSUME NEW t \in Thread, NEW c \in MethodCall, Begin(t, c) PROVE TypeInv'
  BY <1>2, EnterTypes DEF Begin, InRuby, TypeInv, TypeOK
<1>3. ASSUME NEW t \in Thread, NEW c \in Channel, RefuseUnconnected(t, c) PROVE TypeInv'
  BY <1>3 DEF RefuseUnconnected, TypeInv, TypeOK, CallsMade, Exception
<1>4. ASSUME NEW s \in Session, ConnectionLost(s) PROVE TypeInv'
  BY <1>4 DEF ConnectionLost, TypeInv, TypeOK, CallsMade
<1>5. CASE UNCHANGED vars
  BY <1>5 DEF vars, TypeInv, TypeOK, CallsMade
<1> QED BY <1>1, <1>2, <1>3, <1>4, <1>5, MethodShape, NativeTypes, FinishTypes,
        LeaveBlockTypes DEF Next

\* Every variable keeps its type in every behaviour.
THEOREM TypeCorrect == Spec => []TypeOK
<1>1. TypeInv => TypeOK
  BY DEF TypeInv
<1> QED BY <1>1, InitTypes, NextTypes, PTL DEF Spec

-----------------------------------------------------------------------------
(* The error a thread raises is of the time of its call.                    *)

\* While a return code waits to be raised, the session's last error is one
\* that was set during the call, by the thread or by another one.
RecentInv ==
    /\ \A t \in Thread :
          rc[t] = "error" => t \in lastError[SessOf(call[t].on)].during
    /\ ErrorIsRecent

\* No call was made and no exception raised at first.
LEMMA InitRecent == Init => RecentInv
  BY DEF Init, RecentInv, ErrorIsRecent, NoError

\* A failure of another thread's call on the session replaces the error by a
\* younger one, and the end of another call leaves it there.
LEMMA NextRecent ==
    ASSUME TypeInv, RecentInv, [Next]_vars
    PROVE  RecentInv'
<1> USE DEF RecentInv, ErrorIsRecent, TypeInv, TypeOK, CallsMade
<1>1. ASSUME NEW t \in Thread, Interpreter(t) PROVE RecentInv'
  <2>1. CASE AcquireGvl(t)
    BY <2>1 DEF AcquireGvl, SessOf
  <2>2. CASE YieldGvl(t)
    BY <2>2 DEF YieldGvl, SessOf
  <2>3. CASE Interrupt(t)
    BY <2>3 DEF Interrupt, SessOf
  <2>4. CASE TakeInterrupt(t)
    BY <2>4 DEF TakeInterrupt, SessOf
  <2>5. CASE Rescue(t)
    BY <2>5 DEF Rescue, NoError, SessOf
  <2> QED BY <1>1, <2>1, <2>2, <2>3, <2>4, <2>5 DEF Interpreter
<1>2. ASSUME NEW t \in Thread, NEW c \in MethodCall, Enter(t, c), pc[t] = "ruby",
             UNCHANGED <<rc, lastError>>
      PROVE  RecentInv'
  <2>1. CASE EnterNative(t, c) /\ UNCHANGED exc
    BY <1>2, <2>1 DEF EnterNative, SessOf
  <2>2. CASE InterruptedAtEntry(t, c)
    BY <1>2, <2>2 DEF InterruptedAtEntry, SessOf
  <2> QED BY <1>2, <2>1, <2>2 DEF Enter
<1>3. ASSUME NEW t \in Thread, NEW c \in MethodCall, Begin(t, c) PROVE RecentInv'
  BY <1>2, <1>3 DEF Begin, InRuby
<1>4. ASSUME NEW t \in Thread, NEW c \in Channel, RefuseUnconnected(t, c) PROVE RecentInv'
  BY <1>4 DEF RefuseUnconnected, SessOf
<1>5. ASSUME NEW t \in Thread, NativeReturn(t) PROVE RecentInv'
  <2>1. CASE UNCHANGED <<rc, lastError>>
    BY <1>5, <2>1 DEF NativeReturn, SessOf
  <2>2. CASE Fail(t)
    <3> DEFINE s == SessOf(call[t].on)
    <3>1. s \in Session
      BY <1>5, ConstantTypes DEF NativeReturn, MethodCall, Call, SessOf
    <3>2. lastError' = [lastError EXCEPT ![s] = [by |-> t, during |-> InCallOn(s)]]
          /\ rc' = [rc EXCEPT ![t] = "error"]
      BY <2>2 DEF Fail
    <3>3. \A u \in Thread : pc[u] # "ruby" /\ SessOf(call[u].on) = s => u \in InCallOn(s)
      BY DEF InCallOn
    <3>4. pc[t] = "native"
      BY <1>5 DEF NativeReturn
    <3> HIDE DEF s
    <3>5. ASSUME NEW u \in Thread, rc'[u] = "error"
          PROVE  u \in lastError'[SessOf(call[u].on)].during
      <4>1. pc[u] # "ruby" /\ (u # t => rc[u] = "error")
        BY <3>2, <3>4, <3>5
      <4>2. CASE SessOf(call[u].on) = s
        BY <3>1, <3>2, <3>3, <4>1, <4>2
      <4>3. CASE SessOf(call[u].on) # s
        BY <3>2, <4>1, <4>3 DEF s
      <4> QED BY <4>2, <4>3
    <3> QED BY <1>5, <3>5 DEF NativeReturn, SessOf
  <2> QED BY <1>5, <2>1, <2>2 DEF NativeReturn
<1>6. ASSUME NEW t \in Thread, Finish(t) PROVE RecentInv'
  <2>1. \A e \in [by : Thread \cup {Nobody}, during : SUBSET Thread], u \in Thread \ {t} :
            u \in e.during => u \in Past(e, t).during
    BY DEF Past
  <2>2. ASSUME NEW u \in Thread, rc'[u] = "error"
        PROVE  u \in lastError'[SessOf(call'[u].on)].during
    <3>1. u # t /\ rc[u] = "error" /\ call'[u] = call[u]
      BY <1>6, <2>2 DEF Finish
    <3>2. SessOf(call[u].on) \in Session
      BY <3>1, ConstantTypes DEF MethodCall, Call, SessOf
    <3>3. u \in lastError[SessOf(call[u].on)].during
      BY <3>1
    <3> QED BY <1>6, <2>1, <3>1, <3>2, <3>3 DEF Finish, SessOf
  <2>3. ErrorIsRecent'
    <3>1. CASE Interrupted(t)
      BY <3>1 DEF Interrupted
    <3>2. CASE UNCHANGED exc
      BY <3>2
    <3>3. CASE exc' = [exc EXCEPT ![t] = [class |-> "ArgumentError"]]
      BY <3>3
    <3>4. CASE rc[t] = "error" /\ exc' = [exc EXCEPT ![t] = LibSSHError(t)]
      BY <3>4 DEF LibSSHError
    <3> QED BY <1>6, <3>1, <3>2, <3>3, <3>4 DEF Finish, Conclude, Failed, RaiseError
  <2> QED BY <2>2, <2>3
<1>7. ASSUME NEW t \in Thread, LeaveBlock(t) PROVE RecentInv'
  BY <1>2, <1>7, LeaveBlockTypes DEF LeaveBlock, InRuby
<1>8. ASSUME NEW s \in Session, ConnectionLost(s) PROVE RecentInv'
  BY <1>8 DEF ConnectionLost, SessOf
<1>9. CASE UNCHANGED vars
  BY <1>9 DEF vars, SessOf
<1> QED BY <1>1, <1>3, <1>4, <1>5, <1>6, <1>7, <1>8, <1>9, MethodShape DEF Next

\* Whatever threads share a session: a LibSSH::Error carries code and message
\* of a failure that happened during the call that raises it.
THEOREM ErrorRecent == Spec => []ErrorIsRecent
<1>1. TypeInv /\ RecentInv /\ [Next]_vars => RecentInv'
  BY NextRecent
<1>2. RecentInv => ErrorIsRecent
  BY DEF RecentInv
<1> QED BY <1>1, <1>2, InitTypes, NextTypes, InitRecent, PTL DEF Spec

-----------------------------------------------------------------------------
(* open_session with a block closes the channel.                            *)

\* Who answers for a handle: the block the thread is in, the open call that
\* is about to enter it, or the close call on the way out.
Holds(t, h) ==
    \/ InFrame(t, h)
    \/ pc[t] = "back" /\ call[t].kind = "open" /\ call[t].block /\ call[t].on = h
       /\ rc[t] = "ok"
    \/ pc[t] = "native" /\ call[t].kind = "close" /\ call[t].on = h

\* No interrupt is pending, nothing is open on a session that is not
\* connected and authorized (or was), and somebody answers for every handle
\* a block was given for.
BlockInv ==
    /\ pending = {}
    /\ \A h \in Handle : conn[SessionOf[h]] \in {"new", "up"} => ~IsOpen(h)
    /\ \A h \in byBlock :
          (IsOpen(h) /\ conn[SessionOf[h]] = "authed") => \E t \in Thread : Holds(t, h)

\* No handle is open at first.
LEMMA InitBlock == Init => BlockInv
  BY DEF Init, BlockInv, IsOpen

\* A step that changes no handle and no connection and takes no handle from
\* a thread preserves the invariant.
LEMMA HeldBlock ==
    ASSUME BlockInv, UNCHANGED <<conn, state, byBlock, pending>>,
           \A t \in Thread, h \in Handle : Holds(t, h) => Holds(t, h)',
           byBlock \subseteq Handle
    PROVE  BlockInv'
  BY DEF BlockInv, IsOpen

\* What libssh does to handles and connections when it returns preserves
\* the invariant: a close succeeds as long as the connection stands.
LEMMA NativeBlock ==
    ASSUME TypeInv, BlockInv, NEW t \in Thread, NativeReturn(t)
    PROVE  BlockInv'
<1> USE DEF TypeInv, TypeOK, IsOpen
<1> DEFINE x == call[t].on
<1>1. call[t] \in MethodCall /\ (call[t].kind \in {"open", "close"} => x \in Handle)
      /\ pc' = [pc EXCEPT ![t] = "back"] /\ UNCHANGED <<call, frames, pending>>
  BY DEF NativeReturn, CallsMade, MethodCall
<1>2. \A u \in Thread, h \in Handle :
          Holds(u, h) => \/ Holds(u, h)'
                         \/ u = t /\ call[t].kind = "close" /\ x = h
  BY <1>1 DEF Holds, InFrame, NativeReturn, Fail
<1>3. x \in Handle => SessOf(x) = SessionOf[x]
  BY ConstantTypes DEF SessOf
<1>4. CASE Fail(t)
  BY <1>1, <1>2, <1>3, <1>4 DEF Fail, BlockInv
<1>5. CASE call[t].kind = "close" /\ Closed(x)
  BY <1>1, <1>2, <1>5 DEF Closed, BlockInv
<1>6. ASSUME call[t].kind = "open", Opened(x, call[t].block), UNCHANGED rc PROVE BlockInv'
  <2>1. x \in Handle /\ conn[SessionOf[x]] = "authed" /\ UNCHANGED conn
        /\ state' = [state EXCEPT ![x] = "open"]
    BY <1>1, <1>6 DEF Opened
  <2>2. x \in byBlock' => Holds(t, x)'
    BY <1>1, <1>6, <2>1 DEF Opened, Holds, NativeReturn, CallsMade
  <2>3. \A h \in byBlock' : h # x => h \in byBlock /\ state'[h] = state[h]
    BY <1>6, <2>1 DEF Opened
  <2>4. byBlock' \subseteq Handle
    BY <1>6, <2>1 DEF Opened
  <2> QED BY <1>1, <1>2, <1>6, <2>1, <2>2, <2>3, <2>4 DEF BlockInv
<1>7. ASSUME call[t].kind = "connect", Connected(x) PROVE BlockInv'
  BY <1>1, <1>2, <1>7 DEF Connected, BlockInv
<1>8. ASSUME call[t].kind = "disconnect", Disconnected(x) PROVE BlockInv'
  <2>1. \A h \in Handle : state'[h] \in {"open", "running"} =>
            state[h] \in {"open", "running"} /\ SessionOf[h] # x
    BY <1>8 DEF Disconnected
  <2>2. \A s \in Session : s # x => conn'[s] = conn[s]
    BY <1>8 DEF Disconnected
  <2> QED BY <1>1, <1>2, <1>8, <2>1, <2>2, ConstantTypes DEF Disconnected, BlockInv
<1>9. ASSUME call[t].kind = "auth", Authenticated(x) PROVE BlockInv'
  <2>1. \A s \in Session : conn'[s] # conn[s] => s = x /\ conn[x] = "up"
    BY <1>9 DEF Authenticated
  <2>2. \A h \in Handle : SessionOf[h] \in Session
    BY ConstantTypes
  <2>3. \A h \in Handle : conn[SessionOf[h]] = "up" => ~IsOpen(h)
    BY DEF BlockInv
  <2>4. UNCHANGED <<state, byBlock>>
    BY <1>9 DEF Authenticated
  <2>5. \A h \in Handle : conn'[SessionOf[h]] = conn[SessionOf[h]] \/ ~IsOpen(h)
    BY <2>1, <2>2, <2>3
  <2> QED BY <1>1, <1>2, <1>9, <2>4, <2>5 DEF BlockInv
<1>10. ASSUME call[t].kind = "exec", ExecRequested(x) PROVE BlockInv'
  BY <1>1, <1>2, <1>10 DEF ExecRequested, BlockInv
<1>11. ASSUME call[t].kind \in {"status", "io"}, UNCHANGED <<conn, state, byBlock>>
       PROVE  BlockInv'
  BY <1>1, <1>2, <1>11 DEF BlockInv
<1> QED BY <1>4, <1>5, <1>6, <1>7, <1>8, <1>9, <1>10, <1>11 DEF NativeReturn, Succeed

\* Without interrupts every step preserves the invariant.
LEMMA NextBlock ==
    ASSUME Interrupts = 0, TypeInv, BlockInv, [Next]_vars
    PROVE  BlockInv'
<1> USE DEF TypeInv, TypeOK
<1>1. ASSUME NEW t \in Thread, Interpreter(t) PROVE BlockInv'
  <2>1. UNCHANGED <<pc, call, rc, frames, conn, state, byBlock, pending>>
    BY <1>1 DEF Interpreter, AcquireGvl, YieldGvl, Interrupt, TakeInterrupt, Rescue, BlockInv
  <2> QED BY <2>1, HeldBlock DEF Holds, InFrame
<1>2. ASSUME NEW t \in Thread, NEW c \in MethodCall, Begin(t, c) PROVE BlockInv'
  <2>1. \A u \in Thread, h \in Handle : Holds(u, h) => Holds(u, h)'
    BY <1>2 DEF Begin, InRuby, Enter, InterruptedAtEntry, EnterNative, Holds, InFrame,
       BlockInv
  <2> QED BY <1>2, <2>1, HeldBlock DEF Begin, Enter, InterruptedAtEntry, BlockInv
<1>3. ASSUME NEW t \in Thread, NEW c \in Channel, RefuseUnconnected(t, c) PROVE BlockInv'
  BY <1>3, HeldBlock DEF RefuseUnconnected, Holds, InFrame
<1>4. ASSUME NEW t \in Thread, Finish(t) PROVE BlockInv'
  <2>1. Conclude(t) /\ UNCHANGED pending
    BY <1>4 DEF Finish, Conclude, Failed, RaiseError, Interrupted, BlockInv
  <2>2. \A u \in Thread, h \in Handle : Holds(u, h) => Holds(u, h)'
    <3> SUFFICES ASSUME NEW u \in Thread, NEW h \in Handle, Holds(u, h) PROVE Holds(u, h)'
      OBVIOUS
    <3>1. CASE u # t
      BY <1>4, <2>1, <3>1 DEF Finish, Conclude, Failed, RaiseError, Holds, InFrame
    <3>2. CASE u = t /\ InFrame(t, h)
      <4>1. CASE frames' = frames
        BY <3>2, <4>1 DEF Holds, InFrame
      <4>2. CASE frames' = [frames EXCEPT ![t] = Append(@, call[t].on)]
        BY <3>2, <4>2 DEF Holds, InFrame
      <4> QED BY <2>1, <4>1, <4>2 DEF Conclude, Failed, RaiseError
    <3>3. CASE u = t /\ ~InFrame(t, h)
      <4>1. call[t].block /\ call[t].on = h /\ rc[t] = "ok"
        BY <1>4, <3>3 DEF Finish, Holds
      <4>2. frames' = [frames EXCEPT ![t] = Append(@, h)]
        BY <2>1, <4>1 DEF Conclude, Failed, RaiseError
      <4>3. frames'[t] = Append(frames[t], h) /\ frames[t] \in Seq(Handle)
        BY <4>2
      <4>4. frames'[t][Len(frames'[t])] = h /\ Len(frames'[t]) \in 1..Len(frames'[t])
        BY <4>3
      <4> QED BY <3>3, <4>4 DEF Holds, InFrame
    <3> QED BY <3>1, <3>2, <3>3
  <2> QED BY <1>4, <2>1, <2>2, HeldBlock DEF Finish
<1>5. ASSUME NEW t \in Thread, LeaveBlock(t) PROVE BlockInv'
  <2> DEFINE last == frames[t][Len(frames[t])]
  <2>1. /\ frames[t] \in Seq(Handle) /\ frames[t] # <<>> /\ pc[t] = "ruby"
        /\ frames' = [frames EXCEPT ![t] = SubSeq(@, 1, Len(@) - 1)]
        /\ pc' = [pc EXCEPT ![t] = "native"]
        /\ call' = [call EXCEPT ![t] = CloseCall(last)]
        /\ UNCHANGED <<rc, conn, state, byBlock, pending>>
    BY <1>5 DEF LeaveBlock, InRuby, Pop, Enter, InterruptedAtEntry, EnterNative, BlockInv
  <2>2. \A u \in Thread, h \in Handle : Holds(u, h) => Holds(u, h)'
    <3> SUFFICES ASSUME NEW u \in Thread, NEW h \in Handle, Holds(u, h) PROVE Holds(u, h)'
      OBVIOUS
    <3>1. CASE u # t
      BY <2>1, <3>1 DEF Holds, InFrame
    <3>2. CASE u = t
      <4>1. PICK i \in 1..Len(frames[t]) : frames[t][i] = h
        BY <2>1, <3>2 DEF Holds, InFrame
      <4>2. CASE i = Len(frames[t])
        BY <2>1, <3>2, <4>1, <4>2 DEF Holds, CloseCall, Plain
      <4>3. CASE i < Len(frames[t])
        <5>1. frames'[t] = SubSeq(frames[t], 1, Len(frames[t]) - 1)
          BY <2>1
        <5>2. i \in 1..Len(frames'[t]) /\ frames'[t][i] = h
          BY <2>1, <4>1, <4>3, <5>1
        <5> QED BY <3>2, <5>2 DEF Holds, InFrame
      <4> QED BY <4>1, <4>2, <4>3
    <3> QED BY <3>1, <3>2
  <2> QED BY <2>1, <2>2, HeldBlock
<1>6. ASSUME NEW s \in Session, ConnectionLost(s) PROVE BlockInv'
  <2>1. \A h \in Handle : conn'[SessionOf[h]] \in {"new", "up", "authed"} =>
                              conn'[SessionOf[h]] = conn[SessionOf[h]]
    BY <1>6, ConstantTypes DEF ConnectionLost
  <2> QED BY <1>6, <2>1 DEF ConnectionLost, BlockInv, IsOpen, Holds, InFrame
<1>7. CASE UNCHANGED vars
  BY <1>7, HeldBlock DEF vars, Holds, InFrame
<1> QED BY <1>1, <1>2, <1>3, <1>4, <1>5, <1>6, <1>7, MethodShape, NativeBlock DEF Next

\* Without asynchronous interrupts, a handle opened for a block is closed
\* when the block is left, whatever exceptions and threads do.
THEOREM BlockCloses ==
    ASSUME Interrupts = 0
    PROVE  Spec => []BlockClosesHandle
<1>1. TypeInv /\ BlockInv /\ [Next]_vars => BlockInv'
  BY NextBlock
<1>2. BlockInv => BlockClosesHandle
  BY DEF BlockInv, BlockClosesHandle, Holds, Calling
<1> QED BY <1>1, <1>2, InitTypes, NextTypes, InitBlock, PTL DEF Spec

-----------------------------------------------------------------------------
(* Exceptions are not swallowed.                                            *)

\* Only a rescue ends an exception: a method begins without one, and what
\* a returning method or the ensure of a block raises takes its place.
LEMMA NextKeepsException ==
    ASSUME TypeInv, [Next]_vars, NEW t \in Thread, exc[t] # NoError, ~Rescue(t)
    PROVE  exc'[t] # NoError
<1> USE DEF TypeInv, TypeOK
<1>1. (\A u \in Thread : LibSSHError(u) # NoError) /\ [class |-> "Interrupt"] # NoError
      /\ [class |-> "ArgumentError"] # NoError
  BY DEF LibSSHError, NoError
<1>2. ASSUME NEW u \in Thread, Interpreter(u) PROVE exc'[t] # NoError
  BY <1>1, <1>2 DEF Interpreter, AcquireGvl, YieldGvl, Interrupt, TakeInterrupt, Rescue
<1>3. ASSUME NEW u \in Thread, Method(u) PROVE exc'[t] # NoError
  BY <1>1, <1>3, MethodShape DEF Begin, Enter, InterruptedAtEntry, RefuseUnconnected
<1>4. ASSUME NEW u \in Thread, Finish(u) PROVE exc'[t] # NoError
  BY <1>1, <1>4 DEF Finish, Interrupted, Conclude, RaiseError
<1>5. ASSUME NEW u \in Thread, LeaveBlock(u) PROVE exc'[t] # NoError
  BY <1>1, <1>5 DEF LeaveBlock, Enter, InterruptedAtEntry
<1>6. CASE UNCHANGED exc
  BY <1>6
<1> QED BY <1>2, <1>3, <1>4, <1>5, <1>6 DEF Next, NativeReturn, ConnectionLost, vars

\* The close that ends a block never swallows the exception the block ends
\* with, for any interrupts and any nesting.
THEOREM EnsureKeeps == Spec => EnsureKeepsException
<1>1. TypeInv /\ [Next]_vars =>
          [\A t \in Thread :
              (exc[t] # NoError /\ ~Rescue(t)) => exc'[t] # NoError]_vars
  BY NextKeepsException
<1> QED BY <1>1, InitTypes, NextTypes, PTL DEF Spec, EnsureKeepsException

\* A buffer is lost by an interrupt, or with the ArgumentError of a string
\* of negative size.
LEMMA NextLosesBuffer ==
    ASSUME TypeInv, [Next]_vars, NEW t \in Thread, t \in leaked' \ leaked
    PROVE  exc'[t].class \in {"Interrupt", "ArgumentError"}
<1> USE DEF TypeInv, TypeOK
<1>1. ASSUME NEW u \in Thread, NEW c, Enter(u, c)
      PROVE  exc'[t].class \in {"Interrupt", "ArgumentError"}
  <2>1. InterruptedAtEntry(u, c) /\ u = t
    BY <1>1 DEF Enter, EnterNative, InterruptedAtEntry
  <2>2. exc'[t] = [class |-> "Interrupt"]
    BY <2>1 DEF InterruptedAtEntry
  <2> QED BY <2>2
<1>2. ASSUME NEW u \in Thread, Finish(u) PROVE exc'[t].class \in {"Interrupt", "ArgumentError"}
  <2>1. Lose(u)
    BY <1>2 DEF Finish, Interrupted, Conclude, RaiseError
  <2>2. u = t
    BY <2>1 DEF Lose
  <2>3. \/ exc' = [exc EXCEPT ![t] = [class |-> "Interrupt"]]
        \/ exc' = [exc EXCEPT ![t] = [class |-> "ArgumentError"]]
    BY <1>2, <2>2 DEF Finish, Interrupted, Conclude, RaiseError
  <2>4. \/ exc'[t] = [class |-> "Interrupt"]
        \/ exc'[t] = [class |-> "ArgumentError"]
    BY <2>3
  <2> QED BY <2>4
<1>3. ASSUME NEW u \in Thread, Method(u) \/ LeaveBlock(u)
      PROVE  exc'[t].class \in {"Interrupt", "ArgumentError"}
  BY <1>1, <1>3, MethodShape DEF Begin, RefuseUnconnected, LeaveBlock
<1>4. CASE UNCHANGED leaked
  BY <1>4
<1> QED BY <1>2, <1>3, <1>4 DEF Next, Interpreter, AcquireGvl, YieldGvl, Interrupt,
        TakeInterrupt, Rescue, NativeReturn, ConnectionLost, vars

\* No method loses its buffer on the way to a LibSSH::Error.
THEOREM BuffersFreed == Spec => BufferFreedBeforeRaise
<1>1. TypeInv /\ [Next]_vars =>
          [\A t \in Thread :
              t \in leaked' \ leaked =>
                  exc'[t].class \in {"Interrupt", "ArgumentError"}]_vars
  BY NextLosesBuffer
<1> QED BY <1>1, InitTypes, NextTypes, PTL DEF Spec, BufferFreedBeforeRaise
=============================================================================
