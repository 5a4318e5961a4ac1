---------------------------- MODULE LocalForward ----------------------------
(***************************************************************************)
(* example/local_forward.rb: a client process talks to a remote service    *)
(* through a local socket and a forwarded channel.  One thread copies from *)
(* the socket to the channel, one from the channel to the socket, a third  *)
(* one waits for both; the main thread waits for the socket to be there    *)
(* and runs the client.                                                    *)
(*                                                                         *)
(* Units 1, 2, ... are written on each side.  The calls of the two copying *)
(* threads may overlap in libssh; that they do not disturb each other      *)
(* there is an assumption of this module.                                  *)
(***************************************************************************)
EXTENDS Integers, Sequences

CONSTANTS
    MaxUnits,     \* units each side writes at most
    BUFSIZ,       \* units of one read at most
    Capacity,     \* units a socket or a channel window holds
    PollTimeout   \* whether poll is given a timeout (the example gives none)

ASSUME SizesAssumption ==
    MaxUnits \in Nat \ {0} /\ BUFSIZ \in Nat \ {0} /\ Capacity \in Nat \ {0}
ASSUME PollTimeoutAssumption == PollTimeout \in BOOLEAN

VARIABLES
    main,       \* "starting", "waiting", "client", "join" or "ended"
    thread,     \* server_thread: "listen", "signal", "accept", "open",
                \* "join_reader", "join_writer", "close", "done" or "dead"
    failing,    \* whether its block is being left by an exception
    reader,     \* "none", "read", "write", "send_eof", "done" or "dead"
    writer,     \* "none", "poll", "read", "write", "done" or "dead"
    data,       \* what each copying thread holds
    polled,     \* what poll has returned last, and whether its time was up
    client,     \* "none", "open", "shut", "closed" or "reset"
    remote,     \* "none", "open" or "ended"
    channel,    \* "none", "open", "eof" (sent by us) or "closed"
    lost,       \* whether the connection to the SSH server is lost
    up, down,   \* the two directions: what is written, in the socket, in the
                \* channel, and what has come out
    remoteEof   \* whether the remote service has seen the end of input

process  == <<main, thread, failing>>
copying  == <<reader, writer, data, polled>>
ends     == <<client, remote, remoteEof>>
vars     == <<process, copying, ends, channel, lost, up, down>>

Flow == [sent : 0..MaxUnits, socket : Seq(1..MaxUnits), channel : Seq(1..MaxUnits),
         got : Seq(1..MaxUnits)]

Nil == -1

TypeOK ==
    /\ main \in {"starting", "waiting", "client", "join", "ended"}
    /\ thread \in {"listen", "signal", "accept", "open", "join_reader", "join_writer",
                   "close", "done", "dead"}
    /\ failing \in BOOLEAN
    /\ reader \in {"none", "read", "write", "send_eof", "done", "dead"}
    /\ writer \in {"none", "poll", "read", "write", "done", "dead"}
    /\ data \in [{"reader", "writer"} -> Seq(1..MaxUnits)]
    /\ polled \in [size : {Nil} \cup 0..MaxUnits, timedOut : BOOLEAN]
    /\ client \in {"none", "open", "shut", "closed", "reset"}
    /\ remote \in {"none", "open", "ended"}
    /\ channel \in {"none", "open", "eof", "closed"}
    /\ lost \in BOOLEAN /\ remoteEof \in BOOLEAN
    /\ up \in Flow /\ down \in Flow

EmptyFlow == [sent |-> 0, socket |-> <<>>, channel |-> <<>>, got |-> <<>>]

Init ==
    /\ main = "starting" /\ thread = "listen" /\ failing = FALSE
    /\ reader = "none" /\ writer = "none"
    /\ data = [th \in {"reader", "writer"} |-> <<>>]
    /\ polled = [size |-> 0, timedOut |-> FALSE]
    /\ client = "none" /\ remote = "none" /\ remoteEof = FALSE
    /\ channel = "none" /\ lost = FALSE
    /\ up = EmptyFlow /\ down = EmptyFlow

Chunk(s) == {k \in 1..BUFSIZ : k <= Len(s)}
Front(s, k) == SubSeq(s, 1, k)
Rest(s, k)  == SubSeq(s, k + 1, Len(s))

-----------------------------------------------------------------------------
(* The client process, the remote service, the connection.                 *)

Connected == client \in {"open", "shut"}

ClientConnect ==
    /\ main = "client" /\ client = "none"
    /\ thread = "accept"
    /\ client' = "open"
    /\ UNCHANGED <<process, copying, remote, remoteEof, channel, lost, up, down>>

ClientWrite ==
    /\ client = "open"
    /\ up.sent < MaxUnits /\ Len(up.socket) < Capacity
    /\ up' = [up EXCEPT !.sent = @ + 1, !.socket = Append(@, up.sent + 1)]
    /\ UNCHANGED <<process, copying, ends, channel, lost, down>>

ClientRead ==
    /\ Connected
    /\ \E k \in Chunk(down.socket) :
          down' = [down EXCEPT !.socket = Rest(@, k), !.got = @ \o Front(down.socket, k)]
    /\ UNCHANGED <<process, copying, ends, channel, lost, up>>

\* It may end its output first, and it may leave without reading everything.
ClientShut ==
    /\ client = "open"
    /\ client' = "shut"
    /\ UNCHANGED <<process, copying, remote, remoteEof, channel, lost, up, down>>

ClientLeave ==
    /\ Connected
    /\ \/ client' = "closed" /\ UNCHANGED up
       \/ client' = "reset" /\ up' = [up EXCEPT !.socket = <<>>]
    /\ UNCHANGED <<process, copying, remote, remoteEof, channel, lost, down>>

RemoteWrite ==
    /\ remote = "open" /\ ~lost
    /\ down.sent < MaxUnits /\ Len(down.channel) < Capacity
    /\ down' = [down EXCEPT !.sent = @ + 1, !.channel = Append(@, down.sent + 1)]
    /\ UNCHANGED <<process, copying, ends, channel, lost, up>>

RemoteRead ==
    /\ remote # "none" /\ ~lost
    /\ \E k \in Chunk(up.channel) :
          up' = [up EXCEPT !.channel = Rest(@, k), !.got = @ \o Front(up.channel, k)]
    /\ UNCHANGED <<process, copying, ends, channel, lost, down>>

\* ssh_channel_close sends the end of input too.
RemoteSeesEof ==
    /\ remote = "open" /\ ~lost /\ ~remoteEof
    /\ channel \in {"eof", "closed"} /\ up.channel = <<>>
    /\ remoteEof' = TRUE
    /\ UNCHANGED <<process, copying, client, remote, channel, lost, up, down>>

RemoteEnds ==
    /\ remote = "open" /\ ~lost
    /\ remote' = "ended"
    /\ UNCHANGED <<process, copying, client, remoteEof, channel, lost, up, down>>

ConnectionLost ==
    /\ ~lost /\ thread \notin {"done", "dead"}
    /\ lost' = TRUE
    /\ UNCHANGED <<process, copying, ends, channel, up, down>>

-----------------------------------------------------------------------------
(* The main thread and server_thread.                                      *)

\* mutex.synchronize { cv.wait(mutex) }
MainWait ==
    /\ main = "starting"
    /\ main' = "waiting"
    /\ UNCHANGED <<thread, failing, copying, ends, channel, lost, up, down>>

\* system('psql', ...) returns.
ClientExits ==
    /\ main = "client" /\ client \in {"closed", "reset"}
    /\ main' = "join"
    /\ UNCHANGED <<thread, failing, copying, ends, channel, lost, up, down>>

MainJoin ==
    /\ main = "join" /\ thread \in {"done", "dead"}
    /\ main' = "ended"
    /\ UNCHANGED <<thread, failing, copying, ends, channel, lost, up, down>>

Advance(label) == thread' = label /\ UNCHANGED failing

\* TCPServer.open(local_port); the port may be taken.
Listen ==
    /\ thread = "listen"
    /\ Advance("signal") \/ Advance("dead")
    /\ UNCHANGED <<main, copying, ends, channel, lost, up, down>>

\* mutex.synchronize { cv.signal }: nothing remembers it if nobody waits.
Signal ==
    /\ thread = "signal"
    /\ main' = IF main = "waiting" THEN "client" ELSE main
    /\ Advance("accept")
    /\ UNCHANGED <<copying, ends, channel, lost, up, down>>

Accept ==
    /\ thread = "accept" /\ client # "none"
    /\ Advance("open")
    /\ UNCHANGED <<main, copying, ends, channel, lost, up, down>>

\* channel.open_forward, and the two threads of its block.
OpenForward ==
    /\ thread = "open"
    /\ \/ /\ ~lost
          /\ channel' = "open" /\ remote' = "open"
          /\ reader' = "read" /\ writer' = "poll"
          /\ Advance("join_reader")
       \/ Advance("dead") /\ UNCHANGED <<channel, remote, reader, writer>>
    /\ UNCHANGED <<main, data, polled, client, remoteEof, lost, up, down>>

\* The exception a thread died of is raised where it is joined, and rb_ensure
\* closes the channel.
Join(copier, label, next) ==
    /\ thread = label
    /\ \/ copier = "done" /\ Advance(next)
       \/ copier = "dead" /\ thread' = "close" /\ failing' = TRUE
    /\ UNCHANGED <<main, copying, ends, channel, lost, up, down>>

JoinReader == Join(reader, "join_reader", "join_writer")

JoinWriter == Join(writer, "join_writer", "close")

\* The ensure of open_forward.
Close ==
    /\ thread = "close"
    /\ \/ ~lost /\ channel' = "closed"
          /\ Advance(IF failing THEN "dead" ELSE "done")
       \/ lost /\ Advance("dead") /\ UNCHANGED channel
    /\ UNCHANGED <<main, copying, ends, lost, up, down>>

-----------------------------------------------------------------------------
(* The thread that copies from the socket to the channel.                  *)

\* socket.readpartial(bufsiz)
ReaderRead ==
    /\ reader = "read"
    /\ \E k \in Chunk(up.socket) :
          /\ data' = [data EXCEPT !["reader"] = Front(up.socket, k)]
          /\ up' = [up EXCEPT !.socket = Rest(@, k)]
    /\ reader' = "write"
    /\ UNCHANGED <<process, writer, polled, ends, channel, lost, down>>

\* EOFError, or an exception that ends the thread without an end of input for
\* the remote service.
ReaderEnds ==
    /\ reader = "read" /\ up.socket = <<>>
    /\ \/ client \in {"shut", "closed"} /\ reader' = "send_eof"
       \/ client = "reset" /\ reader' = "dead"
    /\ UNCHANGED <<process, writer, data, polled, ends, channel, lost, up, down>>

\* Variant of ReaderWrite: what the window does not take is dropped.
ReaderWriteShort ==
    /\ reader = "write"
    /\ up' = IF Len(up.channel) < Capacity /\ data["reader"] # <<>>
             THEN [up EXCEPT !.channel = Append(@, Head(data["reader"]))]
             ELSE up
    /\ data' = [data EXCEPT !["reader"] = <<>>]
    /\ reader' = "read"
    /\ UNCHANGED <<process, writer, polled, ends, channel, lost, down>>

\* channel.write(data), as the window allows.
ReaderWrite ==
    /\ reader = "write"
    /\ \/ /\ data["reader"] # <<>> /\ Len(up.channel) < Capacity
          /\ ~lost
          /\ up' = [up EXCEPT !.channel = Append(@, Head(data["reader"]))]
          /\ data' = [data EXCEPT !["reader"] = Tail(@)]
          /\ UNCHANGED reader
       \/ data["reader"] = <<>> /\ reader' = "read" /\ UNCHANGED <<up, data>>
       \/ /\ lost \/ remote = "ended"
          /\ reader' = "dead" /\ UNCHANGED <<up, data>>
    /\ UNCHANGED <<process, writer, polled, ends, channel, lost, down>>

\* Variant of SendEof: it is forgotten.
SendEofNot ==
    /\ reader = "send_eof"
    /\ reader' = "done"
    /\ UNCHANGED <<process, writer, data, polled, ends, channel, lost, up, down>>

SendEof ==
    /\ reader = "send_eof"
    /\ \/ ~lost /\ channel' = "eof" /\ reader' = "done"
       \/ lost /\ reader' = "dead" /\ UNCHANGED channel
    /\ UNCHANGED <<process, writer, data, polled, ends, lost, up, down>>

-----------------------------------------------------------------------------
(* The thread that copies from the channel to the socket.                  *)

\* What ssh_channel_poll_timeout returns: the bytes it has, or SSH_EOF, or 0
\* when the time is up.
Polled(size, timedOut) == polled' = [size |-> size, timedOut |-> timedOut]

SSH_EOF == -127

\* Variants of PollResult: libssh's code goes to the caller; 0 is nil as well.
PollResultRaw(rc) == rc
PollResultZero(rc) == IF rc \in {SSH_EOF, 0} THEN Nil ELSE rc

\* Channel#poll makes nil of SSH_EOF.
PollResult(rc) == IF rc = SSH_EOF THEN Nil ELSE rc

\* Nothing more can come out of the channel.
NoMore == remote = "ended" \/ channel = "closed"

Poll ==
    /\ writer = "poll"
    /\ \E rc \in {SSH_EOF} \cup 0..Capacity :
          /\ \/ rc > 0 /\ rc = Len(down.channel)
             \/ rc = SSH_EOF /\ down.channel = <<>> /\ NoMore
             \/ rc = 0 /\ down.channel = <<>> /\ ~NoMore /\ PollTimeout
          /\ Polled(PollResult(rc), rc = 0)
          /\ writer' = IF PollResult(rc) \in {Nil, SSH_EOF} THEN "done" ELSE "read"
    /\ UNCHANGED <<process, reader, data, ends, channel, lost, up, down>>

\* channel.read(size)
WriterRead ==
    /\ writer = "read"
    /\ \E k \in 0..polled.size :
          /\ k > 0 \/ polled.size = 0
          /\ data' = [data EXCEPT !["writer"] = Front(down.channel, k)]
          /\ down' = [down EXCEPT !.channel = Rest(@, k)]
    /\ writer' = "write"
    /\ UNCHANGED <<process, reader, polled, ends, channel, lost, up>>

\* A lost connection fails either call.
WriterFails ==
    /\ writer \in {"poll", "read"} /\ lost
    /\ writer' = "dead"
    /\ UNCHANGED <<process, reader, data, polled, ends, channel, lost, up, down>>

\* Variant of WriterWrite: after a partial write all of the data is written again.
WriterWriteAgain ==
    /\ writer = "write"
    /\ down' = IF Len(down.socket) < Capacity /\ data["writer"] # <<>>
               THEN [down EXCEPT !.socket = Append(@, Head(data["writer"]))]
               ELSE down
    /\ \/ UNCHANGED <<data, writer>>
       \/ data' = [data EXCEPT !["writer"] = <<>>] /\ writer' = "poll"
    /\ UNCHANGED <<process, reader, polled, ends, channel, lost, up>>

\* socket.write(data), as the socket's buffer allows, or EPIPE.
WriterWrite ==
    /\ writer = "write"
    /\ \/ /\ data["writer"] # <<>> /\ Len(down.socket) < Capacity /\ Connected
          /\ down' = [down EXCEPT !.socket = Append(@, Head(data["writer"]))]
          /\ data' = [data EXCEPT !["writer"] = Tail(@)]
          /\ UNCHANGED writer
       \/ data["writer"] = <<>> /\ writer' = "poll" /\ UNCHANGED <<down, data>>
       \/ /\ data["writer"] # <<>> /\ ~Connected
          /\ writer' = "dead" /\ UNCHANGED <<down, data>>
    /\ UNCHANGED <<process, reader, polled, ends, channel, lost, up>>

Done == main = "ended" /\ UNCHANGED vars

-----------------------------------------------------------------------------
Main == MainWait \/ ClientExits \/ MainJoin
ServerThread ==
    Listen \/ Signal \/ Accept \/ OpenForward \/ JoinReader \/ JoinWriter \/ Close
Reader == ReaderRead \/ ReaderEnds \/ ReaderWrite \/ SendEof
Writer == Poll \/ WriterRead \/ WriterFails \/ WriterWrite

Outside ==
    \/ ClientConnect \/ ClientWrite \/ ClientRead \/ ClientShut \/ ClientLeave
    \/ RemoteWrite \/ RemoteRead \/ RemoteSeesEof \/ RemoteEnds \/ ConnectionLost

Next == Outside \/ Main \/ ServerThread \/ Reader \/ Writer \/ Done

Spec == Init /\ [][Next]_vars

\* The threads run; the client connects when it is started; the service takes
\* its input and ends when that has ended; polling again and again, the writer
\* notices the loss of the connection.  Nothing is assumed of the client beyond
\* that.
FairSpec ==
    /\ Spec
    /\ WF_vars(Main) /\ WF_vars(ServerThread) /\ WF_vars(Reader) /\ WF_vars(Writer)
    /\ SF_vars(WriterFails)
    /\ WF_vars(ClientConnect)
    /\ WF_vars(RemoteRead) /\ WF_vars(RemoteSeesEof) /\ WF_vars(remoteEof /\ RemoteEnds)

-----------------------------------------------------------------------------
(* Properties.                                                             *)

\* What the client writes reaches the remote service in order and whole before
\* the end of input, across two buffers and a thread; the other way round the
\* same, except that the client is never told the end.
Up == INSTANCE Pipe WITH
    sent <- up.sent, broken <- client = "reset", got <- up.got, eof <- remoteEof
Down == INSTANCE Pipe WITH
    sent <- down.sent, broken <- FALSE, got <- down.got, eof <- FALSE

UpPipe   == Up!PSpec
DownPipe == Down!PSpec

\* When the forwarding ends without an exception, nothing is left between the
\* two ends: the client's units are with the server, the service's units with
\* the client's socket.
DoneMeansRelayed ==
    thread = "done" =>
        /\ up.socket = <<>> /\ data["reader"] = <<>>
        /\ down.channel = <<>> /\ data["writer"] = <<>>

\* Once the client has gone, both threads end and the channel is closed, in
\* whatever state the client left them.
RelayEnds ==
    client \in {"closed", "reset"} ~> (thread \in {"done", "dead"} /\ reader # "read")

\* The main thread waits for the signal of the listening server_thread and
\* then runs the client (lines 29 and 60): a signal means that it will.
SignalStartsClient == thread = "accept" ~> main \in {"client", "join", "ended"}

\* The documentation of Channel#poll: nil if timed out.
NilMeansTimeout == polled.size = Nil => polled.timedOut
=============================================================================
