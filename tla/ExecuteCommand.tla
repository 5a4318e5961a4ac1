--------------------------- MODULE ExecuteCommand ---------------------------
(***************************************************************************)
(* SSHKit::Backend::Libssh#execute_command: a command run on a session     *)
(* channel, its two output streams drained by one polling loop.            *)
(*                                                                         *)
(* The SSH server and the command, the network and libssh's side of the    *)
(* channel are external: a server that sends data while the channel's      *)
(* window has room, then the end of the output, the exit status (in either *)
(* order, or none for a command that was killed) and the close; a FIFO     *)
(* connection that may be lost; buffers that libssh fills only while the   *)
(* program waits in it or finds them empty, and empties by reads.          *)
(*                                                                         *)
(* Output is counted in units: a read returns at most BUFSIZ of them, the  *)
(* window holds Window of them, a stream has at most MaxUnits.             *)
(***************************************************************************)
EXTENDS Integers, Sequences

CONSTANTS
    Stream, Stdout, Stderr,
    Status, Unknown, NoStatus,
    BUFSIZ, Window, MaxUnits,
    Pty        \* Configuration#pty

ASSUME ExecuteTypes ==
    /\ Stdout # Stderr /\ Stream = {Stdout, Stderr}
    /\ {BUFSIZ, Window, MaxUnits} \subseteq Nat \ {0}
    /\ Unknown \notin Status /\ NoStatus \notin Status /\ Unknown # NoStatus
    /\ Pty \in BOOLEAN

VARIABLES
    \* the server
    output,    \* output[st]: units the command is going to write
    written,   \* written[st]: units it has written
    eofSent, ended, statusSent, closeSent,
    window,    \* units the server may still send
    net,       \* messages on their way to the client, oldest first
    lost,      \* the connection is gone
    \* libssh's channel
    channel,   \* "new", "open" or "closed" by this side
    buffer,    \* buffer[st]: units received and not read
    remoteEof, \* the server has ended the output, or closed
    remoteClosed,
    exitStatus,\* the exit status received
    \* execute_command
    pc,        \* the call the program is in, or is about to make
    raised,    \* an exception is on its way out of the block
    handed,    \* units given to cmd.on_stdout and cmd.on_stderr
    reported   \* what cmd.exit_status was set to

server == <<output, written, eofSent, ended, statusSent, closeSent>>
libssh == <<channel, buffer, remoteEof, remoteClosed, exitStatus>>
vars == <<server, window, net, lost, libssh, pc, raised, handed, reported>>

Message == [type : {"data"}, unit : Stream \X (1..MaxUnits)]
           \cup [type : {"status"}, status : Status]
           \cup [type : {"eof", "close"}]

TypeOK ==
    /\ output \in [Stream -> 0..MaxUnits] /\ written \in [Stream -> 0..MaxUnits]
    /\ {eofSent, statusSent, closeSent, lost, remoteEof, remoteClosed, raised} \subseteq BOOLEAN
    /\ ended \in Status \cup {Unknown, NoStatus}
    /\ window \in 0..Window
    /\ net \in Seq(Message)
    /\ channel \in {"new", "open", "closed"}
    /\ buffer \in [Stream -> Seq(Stream \X (1..MaxUnits))]
    /\ exitStatus \in Status \cup {NoStatus}
    /\ pc \in {"open_session", "request_pty", "request_exec", "eof?", "select",
               "read_stdout", "read_stderr", "get_exit_status", "close",
               "finished", "failed"}
    /\ handed \in [Stream -> Seq(Stream \X (1..MaxUnits))]
    /\ reported \in Status \cup {Unknown, NoStatus}

Init ==
    /\ output \in [Stream -> 0..MaxUnits]
    /\ written = [st \in Stream |-> 0]
    /\ eofSent = FALSE /\ ended = NoStatus /\ statusSent = FALSE /\ closeSent = FALSE
    /\ window = Window
    /\ net = <<>>
    /\ lost = FALSE
    /\ channel = "new"
    /\ buffer = [st \in Stream |-> <<>>]
    /\ remoteEof = FALSE /\ remoteClosed = FALSE
    /\ exitStatus = NoStatus
    /\ pc = "open_session"
    /\ raised = FALSE
    /\ handed = [st \in Stream |-> <<>>]
    /\ reported = NoStatus

client == <<pc, raised, handed, reported>>

-----------------------------------------------------------------------------
(* The server and the connection.                                          *)

\* The command is started by request_exec.
Started == pc \in {"eof?", "select", "read_stdout", "read_stderr", "get_exit_status",
                   "close", "finished", "failed"} /\ channel # "new"

Send(m) == net' = Append(net, m)

ServerWrite(st) ==
    /\ Started /\ ~lost
    /\ written[st] < output[st]
    /\ window > 0
    /\ window' = window - 1
    /\ written' = [written EXCEPT ![st] = @ + 1]
    /\ Send([type |-> "data", unit |-> <<st, written[st] + 1>>])
    /\ UNCHANGED <<output, eofSent, ended, statusSent, closeSent, lost, libssh, client>>

ServerEof ==
    /\ Started /\ ~lost /\ ~eofSent /\ ~closeSent
    /\ written = output
    /\ eofSent' = TRUE
    /\ Send([type |-> "eof"])
    /\ UNCHANGED <<output, written, ended, statusSent, closeSent, window, lost,
                   libssh, client>>

\* The command ends by itself or by a signal, its last output may still be
\* on the way.
CommandEnds ==
    /\ Started /\ ended = NoStatus
    /\ ended' \in Status \cup {Unknown}
    /\ UNCHANGED <<output, written, eofSent, statusSent, closeSent, window, net,
                   lost, libssh, client>>

ServerStatus ==
    /\ ~lost /\ ~statusSent /\ ~closeSent
    /\ ended \in Status
    /\ statusSent' = TRUE
    /\ Send([type |-> "status", status |-> ended])
    /\ UNCHANGED <<output, written, eofSent, ended, closeSent, window, lost,
                   libssh, client>>

\* The close may come without an end of output before it.
ServerClose ==
    /\ ~lost /\ ~closeSent
    /\ written = output
    /\ ended = Unknown \/ statusSent
    /\ closeSent' = TRUE
    /\ Send([type |-> "close"])
    /\ UNCHANGED <<output, written, eofSent, ended, statusSent, window, lost,
                   libssh, client>>

ConnectionLost ==
    /\ ~lost /\ pc \notin {"finished", "failed"}
    /\ lost' = TRUE
    /\ net' = <<>>
    /\ UNCHANGED <<server, window, libssh, client>>

-----------------------------------------------------------------------------
(* libssh.                                                                 *)

\* The calls that read the socket: a nonblocking read only when it has
\* nothing to return.
Pumping ==
    \/ pc \in {"select", "get_exit_status"}
    \/ pc = "read_stdout" /\ buffer[Stdout] = <<>>
    \/ pc = "read_stderr" /\ buffer[Stderr] = <<>>

Receive ==
    /\ Pumping
    /\ net # <<>>
    /\ net' = Tail(net)
    /\ LET m == Head(net) IN
       \/ m.type = "data"
          /\ buffer' = [buffer EXCEPT ![m.unit[1]] = Append(@, m.unit)]
          /\ UNCHANGED <<channel, remoteEof, remoteClosed, exitStatus>>
       \/ m.type = "status"
          /\ exitStatus' = m.status
          /\ UNCHANGED <<channel, buffer, remoteEof, remoteClosed>>
       \/ m.type \in {"eof", "close"}
          /\ remoteEof' = TRUE
          /\ remoteClosed' = (remoteClosed \/ m.type = "close")
          /\ UNCHANGED <<channel, buffer, exitStatus>>
    /\ UNCHANGED <<server, window, lost, client>>

\* ssh_channel_is_eof: data that is still buffered hides the end.
IsEof == remoteEof /\ \A st \in Stream : buffer[st] = <<>>

-----------------------------------------------------------------------------
(* execute_command.                                                        *)

Goto(label) == pc' = label
others == <<server, net, lost>>

\* The block is entered when the channel is open; before that an exception
\* leaves execute_command, and nothing is closed.
OpenSession ==
    /\ pc = "open_session"
    /\ \/ /\ ~lost
          /\ channel' = "open"
          /\ Goto(IF Pty THEN "request_pty" ELSE "request_exec")
          /\ UNCHANGED raised
       \/ /\ raised' = TRUE
          /\ Goto("failed")
          /\ UNCHANGED channel
    /\ UNCHANGED <<others, window, buffer, remoteEof, remoteClosed, exitStatus,
                   handed, reported>>

\* Variant of Raise: nothing closes the channel.
RaiseUnclosed == raised' = TRUE /\ Goto("failed")

\* An exception in the block: rb_ensure closes the channel.
Raise == raised' = TRUE /\ Goto("close")

\* channel.request_pty and channel.request_exec: the server may refuse.
Request(label, next) ==
    /\ pc = label
    /\ \/ ~lost /\ Goto(next) /\ UNCHANGED raised
       \/ Raise
    /\ UNCHANGED <<others, window, libssh, handed, reported>>

RequestPty  == Request("request_pty", "request_exec")
RequestExec == Request("request_exec", "eof?")

\* Variant of CheckEof: the loop ends with standard output.
CheckEofOfStdout ==
    /\ pc = "eof?"
    /\ Goto(IF remoteEof /\ buffer[Stdout] = <<>> THEN "get_exit_status" ELSE "select")
    /\ UNCHANGED <<others, window, libssh, raised, handed, reported>>

\* until channel.eof?
CheckEof ==
    /\ pc = "eof?"
    /\ Goto(IF IsEof THEN "get_exit_status" ELSE "select")
    /\ UNCHANGED <<others, window, libssh, raised, handed, reported>>

\* LibSSH::Channel.select([channel], [], [], nil): no timeout, and the
\* return code is dropped, so a lost connection ends it like data does.
Select ==
    /\ pc = "select"
    /\ \/ \E st \in Stream : buffer[st] # <<>>
       \/ remoteEof
       \/ lost
    /\ Goto("read_stdout")
    /\ UNCHANGED <<others, window, libssh, raised, handed, reported>>

\* What a read takes from a buffer of libssh: at most BUFSIZ units, the oldest.
Size(st) == IF Len(buffer[st]) < BUFSIZ THEN Len(buffer[st]) ELSE BUFSIZ

\* Variant of Taken: newest first.
TakenBackwards(st) == [i \in 1..Size(st) |-> buffer[st][Size(st) + 1 - i]]

Taken(st) == SubSeq(buffer[st], 1, Size(st))

\* channel.read_nonblocking(BUFSIZ, ...) and the handler of the stream: some
\* units are buffered and the handler takes them (it may raise), or nothing
\* is there (nil at the end of the output, an empty string before it), or the
\* connection is gone and the negative return code raises.  The window grows
\* by what was read.
ReadNonblocking(st, label, next) ==
    /\ pc = label
    /\ LET n == Size(st) IN
       \/ /\ n > 0 \/ remoteEof \/ ~lost
          /\ handed' = [handed EXCEPT ![st] = @ \o Taken(st)]
          /\ buffer' = [buffer EXCEPT ![st] = SubSeq(@, n + 1, Len(@))]
          /\ window' = window + n
          /\ \/ Goto(next) /\ UNCHANGED raised
             \/ n > 0 /\ Raise
       \/ /\ n = 0 /\ ~remoteEof /\ lost
          /\ Raise
          /\ UNCHANGED <<handed, buffer, window>>
    /\ UNCHANGED <<others, channel, remoteEof, remoteClosed, exitStatus, reported>>

\* Variant of ReadStderr: standard error is never drained.
ReadStderrSkipped ==
    /\ pc = "read_stderr"
    /\ Goto("eof?")
    /\ UNCHANGED <<others, window, libssh, raised, handed, reported>>

ReadStdout == ReadNonblocking(Stdout, "read_stdout", "read_stderr")
ReadStderr == ReadNonblocking(Stderr, "read_stderr", "eof?")

\* ssh_channel_get_exit_status waits for the status or the close.
StatusSettled == exitStatus # NoStatus \/ remoteClosed \/ lost

\* Variants of StatusOrNil: libssh's -1 goes to the caller; a status is made up.
StatusRaw == IF exitStatus = NoStatus THEN -1 ELSE exitStatus

StatusMadeUp ==
    IF exitStatus = NoStatus THEN CHOOSE v \in Status : TRUE ELSE exitStatus

\* Channel#get_exit_status makes nil of the -1 libssh returns without a status.
StatusOrNil == IF exitStatus = NoStatus THEN Unknown ELSE exitStatus

\* cmd.exit_status = channel.get_exit_status; SSHKit may raise on the status
\* it is given.
GetExitStatus ==
    /\ pc = "get_exit_status"
    /\ StatusSettled
    /\ reported' = StatusOrNil
    /\ raised' \in BOOLEAN
    /\ Goto("close")
    /\ UNCHANGED <<others, window, libssh, handed>>

\* The ensure of open_session: Channel#close, which raises when it cannot
\* send.
Close ==
    /\ pc = "close"
    /\ \/ /\ channel' = "closed"
          /\ UNCHANGED raised
          /\ Goto(IF raised THEN "failed" ELSE "finished")
       \/ /\ lost
          /\ raised' = TRUE
          /\ Goto("failed")
          /\ UNCHANGED channel
    /\ UNCHANGED <<others, window, buffer, remoteEof, remoteClosed, exitStatus,
                   handed, reported>>

Done == pc \in {"finished", "failed"} /\ UNCHANGED vars

-----------------------------------------------------------------------------
Server ==
    \/ \E st \in Stream : ServerWrite(st)
    \/ ServerEof \/ CommandEnds \/ ServerStatus \/ ServerClose

Client ==
    \/ OpenSession \/ RequestPty \/ RequestExec \/ CheckEof \/ Select
    \/ ReadStdout \/ ReadStderr \/ GetExitStatus \/ Close

Next == Server \/ ConnectionLost \/ Receive \/ Client \/ Done

Spec == Init /\ [][Next]_vars

\* The command writes all of its output and ends, its messages arrive while
\* libssh reads the socket, the program goes on when its call returns.
FairSpec ==
    /\ Spec
    /\ \A st \in Stream : WF_vars(ServerWrite(st))
    /\ WF_vars(ServerEof) /\ WF_vars(CommandEnds) /\ WF_vars(ServerStatus)
    /\ WF_vars(ServerClose)
    /\ WF_vars(Receive)
    /\ WF_vars(Client)

-----------------------------------------------------------------------------
(* Properties.                                                             *)

\* When cmd.exit_status is set, on_stdout and on_stderr have been given the
\* whole output of the command, although the loop ends on a flag that
\* libssh raises while output is still buffered, and that the status may
\* overtake.
StatusAfterOutput ==
    reported # NoStatus => \A st \in Stream : Len(handed[st]) = output[st]

\* A nil exit status means that the command was killed or the connection
\* was lost, any other status is the command's.
ExitStatusFaithful ==
    /\ reported \in Status => reported = ended
    /\ (reported = Unknown /\ ~lost) => ended = Unknown

\* The channel is closed on every way out of the block, unless the
\* connection is lost.
ChannelClosed == (pc \in {"finished", "failed"} /\ channel = "open") => lost

\* A command that ends is noticed, whatever it writes on the two streams:
\* no stream is left to fill the window they share.
CommandFinishes == <>(pc \in {"finished", "failed"})

\* What SSHKit is promised.
Command == INSTANCE RemoteCommand WITH
    shut <- eofSent \/ closeSent,
    outcome <- IF pc \in {"finished", "failed"} THEN pc ELSE "running"

RunsCommand == Command!RSpec
=============================================================================
