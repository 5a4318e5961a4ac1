----------------------------- MODULE ScpUpload -----------------------------
(***************************************************************************)
(* SSHKit::Backend::Libssh#upload!: the size of a local file is announced, *)
(* then what can be read of it is written, while the file may change; the  *)
(* remote scp stores what arrives.                                         *)
(*                                                                         *)
(* A byte of the file is its position in it.                               *)
(***************************************************************************)
EXTENDS Integers, Sequences

CONSTANTS
    MaxLen,  \* longest local file
    BUFSIZ,  \* bytes of one readpartial at most
    Faults,  \* what may go wrong besides lost connections and refusals:
             \* "position" an IO-like object that was read from before,
             \* "shrink", "grow" the file changes while it is sent,
             \* "disk" the server cannot store a byte
    NoFile   \* there is no remote file yet

ASSUME SizesAssumption == MaxLen \in Nat \ {0} /\ BUFSIZ \in Nat \ {0}
ASSUME FaultsAssumption == Faults \subseteq {"position", "shrink", "grow", "disk"}
ASSUME NoFileAssumption == NoFile \notin Seq(Nat)

\* The content of a file of k bytes.
Content(k) == [i \in 1..k |-> i]

VARIABLES
    original,  \* length of the local file when its size is announced
    len,       \* its length now
    start,     \* position of the IO object at the beginning
    pos,       \* and now
    pc,        \* the call upload! is in
    raised,    \* class of the exception on its way, or "none"
    scp,       \* libssh's state of the transfer
    processed, \* bytes libssh has sent of the file
    net,       \* bytes on the way
    eof,       \* whether the client has ended its input to the server
    lost,      \* whether the connection is lost
    server,    \* "refusing" (to run scp), "ready", "storing" or "ended"
    reply,     \* the server's last unread message: "none", "ok" or "bad"
    remote     \* content of the remote file

file   == <<original, len, start>>
client == <<pos, pc, raised>>
libssh == <<scp, processed, eof>>
sink   == <<server, reply, remote>>
vars   == <<file, client, libssh, net, lost, sink>>

PcValue == {"open", "init", "push_file", "write", "send_eof", "drain", "finished", "failed"}

TypeOK ==
    /\ {original, len, pos} \subseteq 0..MaxLen
    /\ start \in 0..original
    /\ pc \in PcValue
    /\ raised \in {"none", "LibSSH::Error", "SystemCallError"}
    /\ scp \in {"new", "inited", "writing", "error"}
    /\ processed \in 0..original
    /\ net \in Seq(1..MaxLen)
    /\ eof \in BOOLEAN /\ lost \in BOOLEAN
    /\ server \in {"refusing", "ready", "storing", "ended"}
    /\ reply \in {"none", "ok", "bad"}
    /\ remote \in Seq(1..MaxLen) \cup {NoFile}

Init ==
    /\ original \in 0..MaxLen /\ len = original
    /\ start \in (IF "position" \in Faults THEN 0..original ELSE {0})
    /\ pos = start
    /\ pc = "open" /\ raised = "none"
    /\ scp = "new" /\ processed = 0 /\ eof = FALSE
    /\ net = <<>>
    /\ lost = FALSE
    /\ server \in {"refusing", "ready"} /\ reply = "none"
    /\ remote = NoFile

-----------------------------------------------------------------------------
(* The local file, the connection, the remote scp.                         *)

Grow ==
    /\ "grow" \in Faults
    /\ pc = "write" /\ len < MaxLen
    /\ len' = len + 1
    /\ UNCHANGED <<original, start, client, libssh, net, lost, sink>>

Shrink ==
    /\ "shrink" \in Faults
    /\ pc = "write" /\ len > 0
    /\ len' \in 0..(len - 1)
    /\ UNCHANGED <<original, start, client, libssh, net, lost, sink>>

ConnectionLost ==
    /\ ~lost /\ pc \notin {"finished", "failed"}
    /\ lost' = TRUE
    /\ net' = <<>>
    /\ UNCHANGED <<file, client, libssh, sink>>

\* A byte is stored; or it cannot be, and it and all behind it are dropped with
\* a message that may or may not be seen in time.  Behind the last byte of the
\* file comes the verdict.
StoreByte ==
    /\ server = "storing"
    /\ net # <<>>
    /\ net' = Tail(net)
    /\ \/ /\ reply # "bad"
          /\ remote' = Append(remote, Head(net))
          /\ reply' = IF Len(remote) + 1 = original THEN "ok" ELSE reply
       \/ /\ reply = "bad" \/ "disk" \in Faults
          /\ reply' = "bad" /\ UNCHANGED remote
    /\ UNCHANGED <<file, client, libssh, lost, server>>

ServerEnds ==
    /\ server \in {"ready", "storing"}
    /\ net = <<>> /\ (eof \/ lost)
    /\ server' = "ended"
    /\ UNCHANGED <<file, client, libssh, net, lost, reply, remote>>

-----------------------------------------------------------------------------
(* upload!                                                                 *)

Goto(label) == pc' = label

\* An exception in the block of Scp#init: rb_ensure closes the scp.
Raise(class) == raised' = class /\ Goto("send_eof")

\* wrap_local_reader: before anything is sent.
OpenLocal ==
    /\ pc = "open"
    /\ \/ Goto("init") /\ UNCHANGED raised
       \/ Goto("failed") /\ raised' = "SystemCallError"
    /\ UNCHANGED <<file, pos, libssh, net, lost, sink>>

ScpInit ==
    /\ pc = "init"
    /\ \/ ~lost /\ server = "ready" /\ scp' = "inited" /\ Goto("push_file")
          /\ UNCHANGED raised
       \/ /\ lost \/ server = "refusing"
          /\ scp' = "error" /\ Goto("failed") /\ raised' = "LibSSH::Error"
    /\ UNCHANGED <<file, pos, processed, eof, net, lost, sink>>

\* scp.push_file(name, io.size, mode): libssh waits until the server has
\* opened the file.
PushFile ==
    /\ pc = "push_file"
    /\ \/ /\ ~lost /\ server = "ready"
          /\ scp' = "writing" /\ processed' = 0
          /\ server' = "storing" /\ remote' = <<>>
          /\ Goto("write")
          /\ UNCHANGED <<raised, reply>>
       \/ /\ scp' = "error" /\ reply' = IF lost THEN reply ELSE "bad"
          /\ Raise("LibSSH::Error")
          /\ UNCHANGED <<processed, server, remote>>
    /\ UNCHANGED <<file, pos, eof, net, lost>>

\* ssh_scp_write sends no more than was announced.
Sent(k) == IF processed + k > original THEN original - processed ELSE k

\* Variant of Buffer: the chunk before is written once more.
BufferAgain(k) == SubSeq(Content(pos + k), IF pos > 0 THEN pos ELSE 1, pos + k)

\* What io.readpartial returned.
Buffer(k) == SubSeq(Content(pos + k), pos + 1, pos + k)

\* loop do scp.write(io.readpartial(BUFSIZ)) end: the round succeeds, or libssh
\* has noticed the loss of the connection or a message of the server, or the
\* file is complete for libssh and the call is one too many, or the read fails.
Write ==
    /\ pc = "write" /\ pos < len
    /\ \E k \in 1..BUFSIZ :
          /\ k <= len - pos
          /\ pos' = pos + k
          /\ \/ /\ scp = "writing"
                /\ processed' = processed + Sent(k)
                /\ scp' = IF processed' = original THEN "inited" ELSE scp
                /\ net' = IF lost THEN net ELSE net \o SubSeq(Buffer(k), 1, Sent(k))
                /\ UNCHANGED <<pc, raised>>
             \/ /\ scp # "writing" \/ lost \/ reply = "bad"
                /\ scp' = "error"
                /\ Raise("LibSSH::Error")
                /\ UNCHANGED <<processed, net>>
             \/ /\ Raise("SystemCallError")
                /\ UNCHANGED <<scp, processed, net>>
    /\ UNCHANGED <<file, eof, lost, sink>>

\* Variant of EndOfFile: an empty string is written first.
EndOfFileWritten ==
    /\ pc = "write" /\ pos >= len
    /\ IF scp = "writing" THEN Goto("send_eof") /\ UNCHANGED raised
                          ELSE Raise("LibSSH::Error")
    /\ UNCHANGED <<file, pos, libssh, net, lost, sink>>

\* Variant of EndOfFile: the loop counts up to the announced size, and read
\* returns an empty string when there is no more.
EndOfFileCounted ==
    /\ pc = "write" /\ pos >= len
    /\ IF scp = "writing" THEN UNCHANGED pc ELSE Goto("send_eof")
    /\ UNCHANGED <<file, pos, raised, libssh, net, lost, sink>>

\* rescue EOFError: the loop ends where the file ends now.
EndOfFile ==
    /\ pc = "write" /\ pos >= len
    /\ Goto("send_eof")
    /\ UNCHANGED <<file, pos, raised, libssh, net, lost, sink>>

\* The ensure of Scp#init: scp.close ends the input of the server and waits
\* until the server has ended, but reads none of its messages.
SendEof ==
    /\ pc = "send_eof"
    /\ \/ ~lost /\ eof' = TRUE /\ Goto("drain") /\ UNCHANGED raised
       \/ lost /\ raised' = "LibSSH::Error" /\ Goto("failed") /\ UNCHANGED eof
    /\ UNCHANGED <<file, pos, scp, processed, net, lost, sink>>

\* Variant of Drain: it does not wait.
DrainNothing ==
    /\ pc = "drain"
    /\ Goto(IF raised = "none" THEN "finished" ELSE "failed")
    /\ UNCHANGED <<file, pos, raised, libssh, net, lost, sink>>

Drain ==
    /\ pc = "drain"
    /\ \/ /\ ~lost /\ server = "ended"
          /\ Goto(IF raised = "none" THEN "finished" ELSE "failed")
          /\ UNCHANGED raised
       \/ lost /\ raised' = "LibSSH::Error" /\ Goto("failed")
    /\ UNCHANGED <<file, pos, libssh, net, lost, sink>>

Done == pc \in {"finished", "failed"} /\ UNCHANGED vars

-----------------------------------------------------------------------------
Server == StoreByte \/ ServerEnds

Upload ==
    \/ OpenLocal \/ ScpInit \/ PushFile \/ Write \/ EndOfFile \/ SendEof \/ Drain

Next == Grow \/ Shrink \/ ConnectionLost \/ Server \/ Upload \/ Done

Spec == Init /\ [][Next]_vars

\* The server works off its input; the program goes on when a call returns.
FairSpec == Spec /\ WF_vars(Server) /\ WF_vars(Upload)

-----------------------------------------------------------------------------
(* Properties.                                                             *)

\* Whatever happens to the file, the connection and the disk: what is stored
\* are bytes of the file, in order, each at most once, and no more of them than
\* were announced.
StoresAnnouncedBytes ==
    remote # NoFile =>
        /\ Len(remote) + Len(net) <= processed
        /\ \A i, j \in 1..Len(remote) : i < j => remote[i] < remote[j]
        /\ \A i \in 1..Len(remote) : start < remote[i] /\ remote[i] <= start + processed

\* upload! raises only for a reason: the server refuses, the connection or a
\* read of the local file fails, or the file has grown past the announced size.
FailedForAReason ==
    pc = "failed" =>
        \/ lost \/ server = "refusing" \/ reply = "bad"
        \/ raised = "SystemCallError"
        \/ len > start + original

\* A normal return that upload! has no way to tell from a complete copy: there
\* was less to read than the size that was announced, or the server's message
\* came after the last write.
Unnoticed ==
    pc = "finished" /\ (len < start + original \/ reply = "bad")

\* upload! returns or raises: its close and the server wait for each other's
\* end, and the loop ends by an EOFError only.
UploadEnds == <>(pc \in {"finished", "failed"})

\* The copy upload! promises, of the announced number of bytes from where the
\* IO object stands; an unnoticed end is not the end of a copy.
Copy == INSTANCE FileCopy WITH
    sources <- <<[i \in 1..original |-> start + i]>>,
    current <- IF remote = NoFile THEN 0 ELSE 1,
    appends <- FALSE,
    before  <- <<>>,
    target  <- remote,
    outcome <- IF Unnoticed THEN "failed"
               ELSE IF pc \in {"finished", "failed"} THEN pc ELSE "running"

CopiesFile == Copy!CSpec
=============================================================================
