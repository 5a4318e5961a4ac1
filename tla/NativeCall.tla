----------------------------- MODULE NativeCall -----------------------------
(***************************************************************************)
(* The call protocol every method of LibSSH::Session, LibSSH::Channel and  *)
(* LibSSH::Scp follows, run by several Ruby threads.                       *)
(*                                                                         *)
(* A method that waits for the server gives the global VM lock (GVL) away  *)
(* while libssh works, takes it back, lets the interpreter deliver pending *)
(* interrupts (Thread#raise, Timeout, Ctrl-C), and only then looks at the  *)
(* return code, raises LibSSH::Error from the session's last error, frees  *)
(* the buffer it allocated or runs the block it was given.  Other methods  *)
(* keep the GVL.  open_session, open_forward and Scp#init close the handle *)
(* in an ensure clause when their block is left.                           *)
(*                                                                         *)
(* libssh, the server and the interpreter are external: what a call may    *)
(* return, and when it cannot return at all, is modelled from the comments *)
(* and checks of the extension.                                            *)
(***************************************************************************)
EXTENDS Integers, Sequences, FiniteSets

CONSTANTS
    Thread, Session, Channel, Scp,
    SessionOf,  \* SessionOf[h]: the session a channel or scp was made from
    Uses,       \* Uses[t]: the sessions thread t works with
    Interrupts, \* asynchronous interrupts that arrive, at most
    MaxDepth,   \* blocks of open calls a thread nests, at most
    Nobody      \* no thread

Handle == Channel \cup Scp

ASSUME ConstantTypes ==
    /\ SessionOf \in [Handle -> Session]
    /\ Uses \in [Thread -> SUBSET Session]
    /\ Interrupts \in Nat /\ MaxDepth \in Nat
    /\ Nobody \notin Thread
    /\ Session \cap Handle = {} /\ Channel \cap Scp = {}

VARIABLES
    gvl,      \* the thread that holds the GVL, or Nobody
    pc,       \* pc[t]: "ruby", "native" (inside libssh) or "back" (libssh
              \* has returned, the C method has not)
    call,     \* call[t]: the call t makes
    rc,       \* rc[t]: whether libssh returned SSH_ERROR: "ok" or "error"
    exc,      \* exc[t]: the exception t is raising
    frames,   \* frames[t]: handles whose open block t is in, innermost last
    pending,  \* threads with an interrupt not delivered yet
    arrived,  \* interrupts that have arrived so far
    conn,     \* conn[s]: "new", "up", "authed" or "lost"
    state,    \* state[h]: "new", "open", "running" (a command was
              \* requested), "closed" or "freed"
    byBlock,  \* handles whose last open call was given a block
    lastError,\* lastError[s]: who set the error of session s last, and the
              \* calls that were under way on s then and still are
    leaked    \* threads whose last call lost the buffer it allocated

vars == <<gvl, pc, call, rc, exc, frames, pending, arrived, conn, state,
          byBlock, lastError, leaked>>

Kind == {"connect", "disconnect", "auth", "open", "exec", "close", "status", "io"}
OnError == {"raise", "ignore", "negative_size"}

\* What the C method does around libssh: whether it gives the GVL away, what
\* it does with SSH_ERROR, whether it allocates a buffer, whether a block
\* follows.
Call == [kind : Kind, on : Session \cup Handle, nogvl : BOOLEAN,
         onError : OnError, buffer : BOOLEAN, block : BOOLEAN]

NoCall  == [kind |-> "none"]
NoError == [class |-> "none"]

\* No call that was under way when the session's error was set is left.
NoFailure == [by |-> Nobody, during |-> {}]

\* What rb_raise and libssh_ruby_raise produce, and a delivered interrupt.  A
\* LibSSH::Error tells of the failure of the call of thread from; recent: that
\* failure happened while the call that raises it was under way.
Exception == {NoError, [class |-> "ArgumentError"], [class |-> "Interrupt"]}
             \cup [class : {"LibSSH::Error"}, from : Thread \cup {Nobody},
                   recent : BOOLEAN]

TypeOK ==
    /\ gvl \in Thread \cup {Nobody}
    /\ pc \in [Thread -> {"ruby", "native", "back"}]
    /\ call \in [Thread -> Call \cup {NoCall}]
    /\ rc \in [Thread -> {"ok", "error"}]
    /\ exc \in [Thread -> Exception]
    /\ frames \in [Thread -> Seq(Handle)]
    /\ pending \subseteq Thread
    /\ arrived \in 0..Interrupts
    /\ conn \in [Session -> {"new", "up", "authed", "lost"}]
    /\ state \in [Handle -> {"new", "open", "running", "closed", "freed"}]
    /\ byBlock \subseteq Handle
    /\ lastError \in [Session -> [by : Thread \cup {Nobody}, during : SUBSET Thread]]
    /\ leaked \subseteq Thread

Init ==
    /\ gvl = Nobody
    /\ pc = [t \in Thread |-> "ruby"]
    /\ call = [t \in Thread |-> NoCall]
    /\ rc = [t \in Thread |-> "ok"]
    /\ exc = [t \in Thread |-> NoError]
    /\ frames = [t \in Thread |-> <<>>]
    /\ pending = {}
    /\ arrived = 0
    /\ conn = [s \in Session |-> "new"]
    /\ state = [h \in Handle |-> "new"]
    /\ byBlock = {}
    /\ lastError = [s \in Session |-> NoFailure]
    /\ leaked = {}

SessOf(x) == IF x \in Session THEN x ELSE SessionOf[x]
IsOpen(h) == state[h] \in {"open", "running"}
InFrame(t, h) == \E i \in 1..Len(frames[t]) : frames[t][i] = h
Calling(t, x) == pc[t] # "ruby" /\ call[t].on = x

\* The threads in a call on the session s or an object made from it.
InCallOn(s) == {t \in Thread : pc[t] # "ruby" /\ SessOf(call[t].on) = s}

-----------------------------------------------------------------------------
(* The interpreter.                                                        *)

AcquireGvl(t) ==
    /\ gvl = Nobody
    /\ pc[t] # "native"
    /\ gvl' = t
    /\ UNCHANGED <<pc, call, rc, exc, frames, pending, arrived, conn, state,
                   byBlock, lastError, leaked>>

\* The timer takes the GVL from a thread that runs Ruby code.
YieldGvl(t) ==
    /\ gvl = t
    /\ pc[t] = "ruby"
    /\ gvl' = Nobody
    /\ UNCHANGED <<pc, call, rc, exc, frames, pending, arrived, conn, state,
                   byBlock, lastError, leaked>>

InRuby(t) == gvl = t /\ pc[t] = "ruby"

Interrupt(t) ==
    /\ arrived < Interrupts
    /\ arrived' = arrived + 1
    /\ pending' = pending \cup {t}
    /\ UNCHANGED <<gvl, pc, call, rc, exc, frames, conn, state, byBlock,
                   lastError, leaked>>

\* Ruby code delivers an interrupt between two calls.
TakeInterrupt(t) ==
    /\ InRuby(t)
    /\ t \in pending
    /\ pending' = pending \ {t}
    /\ exc' = [exc EXCEPT ![t] = [class |-> "Interrupt"]]
    /\ UNCHANGED <<gvl, pc, call, rc, frames, arrived, conn, state, byBlock,
                   lastError, leaked>>

\* The program rescues the exception, in a block or outside of all blocks.
Rescue(t) ==
    /\ InRuby(t)
    /\ exc[t] # NoError
    /\ exc' = [exc EXCEPT ![t] = NoError]
    /\ UNCHANGED <<gvl, pc, call, rc, frames, pending, arrived, conn, state,
                   byBlock, lastError, leaked>>

-----------------------------------------------------------------------------
(* How a method enters libssh.                                             *)

\* From the method to libssh: the GVL is given away or kept.
EnterNative(t, c) ==
    /\ call' = [call EXCEPT ![t] = c]
    /\ pc' = [pc EXCEPT ![t] = "native"]
    /\ gvl' = IF c.nogvl THEN Nobody ELSE t
    /\ leaked' = leaked \ {t}

\* rb_thread_call_without_gvl delivers an interrupt that is already pending
\* instead of calling libssh: the method ends there, with its buffer allocated.
InterruptedAtEntry(t, c) ==
    /\ t \in pending
    /\ pending' = pending \ {t}
    /\ exc' = [exc EXCEPT ![t] = [class |-> "Interrupt"]]
    /\ leaked' = IF c.buffer THEN leaked \cup {t} ELSE leaked \ {t}
    /\ UNCHANGED <<gvl, pc, call>>

Enter(t, c) ==
    \/ /\ c.nogvl => t \notin pending
       /\ EnterNative(t, c)
       /\ UNCHANGED <<exc, pending>>
    \/ /\ c.nogvl
       /\ InterruptedAtEntry(t, c)

\* Ruby code calls a method on an object of a session it works with.
Begin(t, c) ==
    /\ InRuby(t)
    /\ exc[t] = NoError
    /\ SessOf(c.on) \in Uses[t]
    /\ Enter(t, c)
    /\ UNCHANGED <<rc, frames, arrived, conn, state, byBlock, lastError>>

\* A call in the shape most methods have: no GVL, SSH_ERROR is raised.
Plain(kind, x) == [kind |-> kind, on |-> x, nogvl |-> TRUE, onError |-> "raise",
                   buffer |-> FALSE, block |-> FALSE]

\* Objects whose libssh structure is gone, or going, are not used any more.
Usable(h) ==
    /\ state[h] # "freed"
    /\ \A t \in Thread : ~(Calling(t, SessionOf[h]) /\ call[t].kind = "disconnect")

-----------------------------------------------------------------------------
(* LibSSH::Session.                                                        *)

\* A session is connected once, until it is disconnected.
Connect(t, s) == conn[s] = "new" /\ Begin(t, Plain("connect", s))

\* The program leaves the blocks of the session first.
Disconnect(t, s) ==
    /\ \A u \in Thread, h \in Handle :
          SessionOf[h] = s => ~InFrame(u, h) /\ ~Calling(u, h)
    /\ Begin(t, [Plain("disconnect", s) EXCEPT !.onError = "ignore"])

\* userauth_publickey_auto.
UserauthPublickeyAuto(t, s) == Begin(t, Plain("auth", s))

\* userauth_none and userauth_password wait for the server with the GVL.
UserauthNone(t, s) == Begin(t, [Plain("auth", s) EXCEPT !.nogvl = FALSE])

UserauthPassword(t, s) == Begin(t, [Plain("auth", s) EXCEPT !.nogvl = FALSE])

\* Local work, with the GVL.
UserauthList(t, s) == Begin(t, [Plain("io", s) EXCEPT !.nogvl = FALSE])

ServerKnown(t, s) == Begin(t, [Plain("io", s) EXCEPT !.nogvl = FALSE])

GetPublickey(t, s) == Begin(t, [Plain("io", s) EXCEPT !.nogvl = FALSE])

WriteKnownhost(t, s) == Begin(t, [Plain("io", s) EXCEPT !.nogvl = FALSE])

Fd(t, s) == Begin(t, [Plain("io", s) EXCEPT !.nogvl = FALSE, !.onError = "ignore"])

-----------------------------------------------------------------------------
(* LibSSH::Channel.                                                        *)

\* open_session looks at the connection before it calls libssh.
RefuseUnconnected(t, c) ==
    /\ conn[SessionOf[c]] \in {"new", "lost"}
    /\ InRuby(t)
    /\ exc[t] = NoError
    /\ SessionOf[c] \in Uses[t]
    /\ exc' = [exc EXCEPT ![t] = [class |-> "ArgumentError"]]
    /\ UNCHANGED <<gvl, pc, call, rc, frames, pending, arrived, conn, state,
                   byBlock, lastError, leaked>>

\* Variant of OpenCall: the open request is made with the GVL.
OpenCallLocked(h, block) == [Plain("open", h) EXCEPT !.block = block, !.nogvl = FALSE]

OpenCall(h, block) == [Plain("open", h) EXCEPT !.block = block]

OpenSession(t, c, block) ==
    /\ Usable(c)
    /\ Len(frames[t]) < MaxDepth
    /\ \/ conn[SessionOf[c]] \in {"up", "authed"} /\ Begin(t, OpenCall(c, block))
       \/ RefuseUnconnected(t, c)

\* open_forward does not.
OpenForward(t, c, block) ==
    /\ Usable(c)
    /\ Len(frames[t]) < MaxDepth
    /\ Begin(t, OpenCall(c, block))

RequestExec(t, c) == Usable(c) /\ Begin(t, Plain("exec", c))
RequestPty(t, c)  == Usable(c) /\ Begin(t, Plain("io", c))
Poll(t, c)        == Usable(c) /\ Begin(t, Plain("io", c))
Write(t, c)       == Usable(c) /\ Begin(t, Plain("io", c))
SendEof(t, c)     == Usable(c) /\ Begin(t, Plain("io", c))

\* The result of libssh goes to rb_utf8_str_new, SSH_ERROR included, before
\* the buffer is freed.
ReadCall(c) == [Plain("io", c) EXCEPT !.onError = "negative_size", !.buffer = TRUE]

Read(t, c)            == Usable(c) /\ Begin(t, ReadCall(c))
ReadNonblocking(t, c) == Usable(c) /\ Begin(t, ReadCall(c))

\* eof?, closed?, open?
ChannelQuery(t, c) ==
    Usable(c) /\ Begin(t, [Plain("io", c) EXCEPT !.nogvl = FALSE,
                                                 !.onError = "ignore"])

\* get_exit_status turns -1 into nil.
GetExitStatus(t, c) ==
    Usable(c) /\ Begin(t, [Plain("status", c) EXCEPT !.onError = "ignore"])

\* Channel.select drops the return code and frees its arrays.
Select(t, c) ==
    Usable(c) /\ Begin(t, [Plain("io", c) EXCEPT !.onError = "ignore",
                                                 !.buffer = TRUE])

\* Channel#close and Scp#close.
CloseCall(h) == Plain("close", h)
Close(t, h)  ==
    Usable(h) /\ state[h] \in {"open", "running", "closed"} /\ Begin(t, CloseCall(h))

-----------------------------------------------------------------------------
(* LibSSH::Scp.                                                            *)

\* Scp#init always runs a block; nothing looks at the connection.
ScpInit(t, p) ==
    /\ Usable(p)
    /\ Len(frames[t]) < MaxDepth
    /\ Begin(t, OpenCall(p, TRUE))

PushFile(t, p)      == Usable(p) /\ Begin(t, Plain("io", p))
ScpWrite(t, p)      == Usable(p) /\ Begin(t, Plain("io", p))
PullRequest(t, p)   == Usable(p) /\ Begin(t, Plain("io", p))
AcceptRequest(t, p) == Usable(p) /\ Begin(t, Plain("io", p))
DenyRequest(t, p)   == Usable(p) /\ Begin(t, Plain("io", p))

\* Scp#read frees its buffer before it raises.
ScpRead(t, p) == Usable(p) /\ Begin(t, [Plain("io", p) EXCEPT !.buffer = TRUE])

\* request_size, request_filename and request_warning; request_permissions.
ScpQuery(t, p) ==
    Usable(p) /\ Begin(t, [Plain("io", p) EXCEPT !.nogvl = FALSE,
                                                 !.onError = "ignore"])

RequestPermissions(t, p) ==
    Usable(p) /\ Begin(t, [Plain("io", p) EXCEPT !.nogvl = FALSE])

-----------------------------------------------------------------------------
(* libssh and the server.                                                  *)

ConnectionLost(s) ==
    /\ conn[s] \in {"up", "authed"}
    /\ conn' = [conn EXCEPT ![s] = "lost"]
    /\ UNCHANGED <<gvl, pc, call, rc, exc, frames, pending, arrived, state,
                   byBlock, lastError, leaked>>

\* The calls the FIXME comments warn of: an open request before the
\* authorization, an exit status nobody asked a command for.
Premature(t) ==
    LET c == call[t] IN
    \/ c.kind = "open" /\ conn[SessOf(c.on)] = "up"
    \/ c.kind = "status" /\ state[c.on] = "open" /\ conn[SessOf(c.on)] = "authed"

\* Calls that succeed, and what libssh then holds for the session s or the
\* handle h.
Connected(s) ==
    /\ conn[s] = "new"
    /\ conn' = [conn EXCEPT ![s] = "up"]
    /\ UNCHANGED <<state, byBlock>>

Disconnected(s) ==
    /\ conn' = [conn EXCEPT ![s] = "new"]
    /\ state' = [h \in Handle |->
                    IF SessionOf[h] = s /\ (h \in Channel \/ IsOpen(h))
                    THEN "freed" ELSE state[h]]
    /\ UNCHANGED byBlock

\* The server accepts, or denies: no error either.
Authenticated(s) ==
    /\ conn[s] \in {"up", "authed"}
    /\ conn' \in {conn, [conn EXCEPT ![s] = "authed"]}
    /\ UNCHANGED <<state, byBlock>>

Opened(h, block) ==
    /\ conn[SessionOf[h]] = "authed"
    /\ state[h] = "new"
    /\ state' = [state EXCEPT ![h] = "open"]
    /\ byBlock' = IF block THEN byBlock \cup {h} ELSE byBlock \ {h}
    /\ UNCHANGED conn

ExecRequested(c) ==
    /\ conn[SessionOf[c]] = "authed"
    /\ state[c] = "open"
    /\ state' = [state EXCEPT ![c] = "running"]
    /\ UNCHANGED <<conn, byBlock>>

\* A scp can be opened again: ssh_scp_close resets it.
Closed(h) ==
    /\ state' = [state EXCEPT ![h] = IF h \in Scp THEN "new" ELSE "closed"]
    /\ UNCHANGED <<conn, byBlock>>

Succeed(t) ==
    LET x == call[t].on IN
    \/ call[t].kind = "connect"    /\ Connected(x)
    \/ call[t].kind = "disconnect" /\ Disconnected(x)
    \/ call[t].kind = "auth"       /\ Authenticated(x)
    \/ call[t].kind = "open"       /\ Opened(x, call[t].block)
    \/ call[t].kind = "exec"       /\ ExecRequested(x)
    \/ call[t].kind = "close"      /\ Closed(x)
    \/ call[t].kind \in {"status", "io"} /\ UNCHANGED <<conn, state, byBlock>>

\* libssh returns SSH_ERROR and keeps code and message in the session.  A
\* close fails only for want of a connection.
Fail(t) ==
    /\ call[t].kind # "disconnect"
    /\ call[t].kind = "close" => conn[SessOf(call[t].on)] # "authed"
    /\ rc' = [rc EXCEPT ![t] = "error"]
    /\ lastError' = LET s == SessOf(call[t].on)
                    IN [lastError EXCEPT ![s] = [by |-> t, during |-> InCallOn(s)]]
    /\ UNCHANGED <<conn, state, byBlock>>

NativeReturn(t) ==
    /\ pc[t] = "native"
    /\ ~Premature(t)
    /\ pc' = [pc EXCEPT ![t] = "back"]
    /\ \/ Succeed(t) /\ UNCHANGED <<rc, lastError>>
       \/ Fail(t)
    /\ UNCHANGED <<gvl, call, exc, frames, pending, arrived, leaked>>

-----------------------------------------------------------------------------
(* How a method returns.                                                   *)

\* Variant of Failed: a refused authentication counts as an error.
FailedOrDenied(t) ==
    rc[t] = "error" \/ (call[t].kind = "auth" /\ conn[call[t].on] = "up")

\* RAISE_IF_ERROR.
Failed(t) == rc[t] = "error"

Lose(t) == leaked' = IF call[t].buffer THEN leaked \cup {t} ELSE leaked

\* What libssh_ruby_raise makes: code and message are those the session holds
\* by now.
LibSSHError(t) ==
    LET last == lastError[SessOf(call[t].on)]
    IN [class |-> "LibSSH::Error", from |-> last.by, recent |-> t \in last.during]

\* Variant of RaiseError: the buffer is not freed before the jump.
RaiseErrorFirst(t) ==
    /\ exc' = [exc EXCEPT ![t] = LibSSHError(t)]
    /\ Lose(t)
    /\ UNCHANGED frames

RaiseError(t) ==
    /\ exc' = [exc EXCEPT ![t] = LibSSHError(t)]
    /\ UNCHANGED <<frames, leaked>>

\* rb_thread_call_without_gvl delivers interrupts before it returns: the
\* rest of the method is skipped, its ruby_xfree and its rb_ensure included.
Interrupted(t) ==
    /\ call[t].nogvl
    /\ t \in pending
    /\ pending' = pending \ {t}
    /\ exc' = [exc EXCEPT ![t] = [class |-> "Interrupt"]]
    /\ Lose(t)
    /\ UNCHANGED frames

\* The method itself, with the GVL again.
Conclude(t) ==
    /\ ~(call[t].nogvl /\ t \in pending)
    /\ UNCHANGED pending
    /\ \/ /\ ~Failed(t) \/ call[t].onError = "ignore"
          /\ frames' = IF call[t].block THEN [frames EXCEPT ![t] = Append(@, call[t].on)]
                       ELSE frames
          /\ UNCHANGED <<exc, leaked>>
       \/ Failed(t) /\ call[t].onError = "raise" /\ RaiseError(t)
       \/ /\ Failed(t) /\ call[t].onError = "negative_size"
          /\ exc' = [exc EXCEPT ![t] = [class |-> "ArgumentError"]]
          /\ Lose(t)
          /\ UNCHANGED frames

\* The call of t is over: the error e is none of its time any more.
Past(e, t) == IF e.during \subseteq {t} THEN NoFailure
              ELSE [e EXCEPT !.during = @ \ {t}]

Finish(t) ==
    /\ gvl = t
    /\ pc[t] = "back"
    /\ pc' = [pc EXCEPT ![t] = "ruby"]
    /\ Interrupted(t) \/ Conclude(t)
    /\ call' = [call EXCEPT ![t] = NoCall]
    /\ rc' = [rc EXCEPT ![t] = "ok"]
    /\ lastError' = [lastError EXCEPT ![SessOf(call[t].on)] = Past(@, t)]
    /\ UNCHANGED <<gvl, arrived, conn, state, byBlock>>

Pop(t) == frames' = [frames EXCEPT ![t] = SubSeq(@, 1, Len(@) - 1)]

\* Variants of LeaveBlock: no close when an exception leaves the block, as
\* without rb_ensure; the exception ends there, as with rb_rescue.
LeaveBlockUnprotected(t) ==
    /\ InRuby(t)
    /\ frames[t] # <<>>
    /\ Pop(t)
    /\ \/ /\ exc[t] = NoError /\ t \notin pending
          /\ EnterNative(t, CloseCall(frames[t][Len(frames[t])]))
       \/ /\ exc[t] # NoError
          /\ UNCHANGED <<gvl, pc, call, leaked>>
    /\ UNCHANGED <<rc, exc, pending, arrived, conn, state, byBlock, lastError>>

LeaveBlockRescuing(t) ==
    /\ InRuby(t)
    /\ frames[t] # <<>>
    /\ Pop(t)
    /\ EnterNative(t, CloseCall(frames[t][Len(frames[t])]))
    /\ exc' = [exc EXCEPT ![t] = NoError]
    /\ UNCHANGED <<rc, pending, arrived, conn, state, byBlock, lastError>>

\* The block of an open call is left, with or without an exception: rb_ensure
\* runs the close method, whose own exception replaces the block's.
LeaveBlock(t) ==
    /\ InRuby(t)
    /\ frames[t] # <<>>
    /\ Pop(t)
    /\ Enter(t, CloseCall(frames[t][Len(frames[t])]))
    /\ UNCHANGED <<rc, arrived, conn, state, byBlock, lastError>>

-----------------------------------------------------------------------------
SessionMethod(t, s) ==
    \/ Connect(t, s) \/ Disconnect(t, s)
    \/ UserauthPublickeyAuto(t, s) \/ UserauthNone(t, s)
    \/ UserauthPassword(t, s) \/ UserauthList(t, s)
    \/ ServerKnown(t, s) \/ GetPublickey(t, s) \/ WriteKnownhost(t, s) \/ Fd(t, s)

ChannelMethod(t, c) ==
    \/ \E block \in BOOLEAN : OpenSession(t, c, block) \/ OpenForward(t, c, block)
    \/ RequestExec(t, c) \/ RequestPty(t, c) \/ Poll(t, c) \/ Write(t, c)
    \/ SendEof(t, c) \/ Read(t, c) \/ ReadNonblocking(t, c) \/ ChannelQuery(t, c)
    \/ GetExitStatus(t, c) \/ Select(t, c)

ScpMethod(t, p) ==
    \/ ScpInit(t, p) \/ PushFile(t, p) \/ ScpWrite(t, p) \/ PullRequest(t, p)
    \/ AcceptRequest(t, p) \/ DenyRequest(t, p) \/ ScpRead(t, p)
    \/ ScpQuery(t, p) \/ RequestPermissions(t, p)

Method(t) ==
    \/ \E s \in Session : SessionMethod(t, s)
    \/ \E c \in Channel : ChannelMethod(t, c)
    \/ \E p \in Scp : ScpMethod(t, p)
    \/ \E h \in Handle : Close(t, h)

Interpreter(t) ==
    \/ AcquireGvl(t) \/ YieldGvl(t) \/ Interrupt(t) \/ TakeInterrupt(t) \/ Rescue(t)

Next ==
    \/ \E t \in Thread : \/ Interpreter(t) \/ Method(t) \/ NativeReturn(t)
                         \/ Finish(t) \/ LeaveBlock(t)
    \/ \E s \in Session : ConnectionLost(s)

Spec == Init /\ [][Next]_vars

\* The GVL is handed on in turn, a thread whose time slice is over gives it up
\* the next time it runs Ruby code (it may be in C code whenever it ends),
\* and libssh comes back from every call that is not premature: the server
\* answers or the connection is lost.
FairSpec ==
    /\ Spec
    /\ \A t \in Thread : /\ SF_vars(AcquireGvl(t)) /\ SF_vars(YieldGvl(t))
                         /\ WF_vars(NativeReturn(t)) /\ WF_vars(Finish(t))

-----------------------------------------------------------------------------
(* Properties.                                                             *)

\* The documentation of Channel#open_session: "Open a session channel, and
\* close it after the block".  A handle opened with a block is inside that
\* block, or in a call, or not open any more, as long as its connection
\* stands: whatever exception leaves the block, on whatever path.
BlockClosesHandle ==
    \A h \in byBlock :
        (IsOpen(h) /\ conn[SessionOf[h]] = "authed") =>
            \E t \in Thread : InFrame(t, h) \/ Calling(t, h)

\* The documentation of LibSSH::Error, "Error returned from libssh", and of
\* its code: a LibSSH::Error carries the code and message of the call that
\* raises it, although they are read from the session after the GVL was
\* waited for.
ErrorIsOwn ==
    \A t \in Thread : exc[t].class = "LibSSH::Error" => exc[t].from = t

\* Whatever other threads do with the session meanwhile, a LibSSH::Error never
\* tells of a failure from before the call that raises it: RAISE_IF_ERROR
\* reads the session only when there is an error of its time to be read.
ErrorIsRecent ==
    \A t \in Thread : exc[t].class = "LibSSH::Error" => exc[t].recent

\* A buffer is lost only to an interrupt or to the failing constructor of
\* the result, never on the way to a LibSSH::Error.
BufferFreedBeforeRaise ==
    [][\A t \in Thread :
          t \in leaked' \ leaked => exc'[t].class \in {"Interrupt", "ArgumentError"}]_vars

\* The close that rb_ensure runs never swallows the exception it runs for.
EnsureKeepsException ==
    [][\A t \in Thread :
          (exc[t] # NoError /\ ~Rescue(t)) => exc'[t] # NoError]_vars

\* A method that asks libssh in the right order returns to Ruby, whatever
\* the other threads do with the GVL.
CallReturns ==
    \A t \in Thread : (pc[t] = "native" /\ ~Premature(t)) ~> (pc[t] = "ruby")

\* The documentation of LibSSH::Error, "Error returned from libssh": a call
\* that failed in libssh is reported by that class.
FailureIsLibSSHError ==
    [][\A t \in Thread :
          (pc[t] = "back" /\ pc'[t] = "ruby" /\ rc[t] = "error"
             /\ exc'[t] # NoError /\ exc'[t].class # "Interrupt")
          => exc'[t].class = "LibSSH::Error"]_vars

\* The check of Channel#open_session and its comment, "When
\* ssh_channel_open_session is called before ssh_connect, libssh would
\* crash": no open request reaches libssh before the session is connected.
NoOpenBeforeConnect ==
    \A t \in Thread :
        (pc[t] = "native" /\ call[t].kind = "open") => conn[SessOf(call[t].on)] # "new"
=============================================================================
