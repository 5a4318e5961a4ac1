---------------------------- MODULE ScpDownload ----------------------------
(***************************************************************************)
(* SSHKit::Backend::Libssh#download!: the loop of pull_request, the read   *)
(* loop of download_file, and what libssh and the remote scp do with the   *)
(* calls of LibSSH::Scp they make.                                         *)
(*                                                                         *)
(* A content is a sequence of bytes.  What matters of a byte is how it     *)
(* counts in a UTF-8 string: "a" is a character, "L" and "C" are the two   *)
(* bytes of one character.                                                 *)
(***************************************************************************)
EXTENDS Integers, Sequences, FiniteSets

CONSTANTS
    Scripts,   \* what the server may have to send: sequences of entries
    MaxChunk,  \* what libssh returns of one read at most
    IntMax,    \* largest value of a C int
    NoFile     \* nothing has been opened to write to

Byte  == {"a", "L", "C"}

\* An entry and what becomes of it on the server: it is sent, it cannot be read
\* to its end, or the remote scp ends in the middle of it.
Entry == [kind : {"file", "dir", "warning"}, content : Seq(Byte),
          fate : {"sent", "unreadable", "cut"}]

ASSUME ScriptsAssumption == Scripts \subseteq Seq(Entry)
ASSUME SizesAssumption == MaxChunk \in Nat \ {0} /\ IntMax \in Nat \ {0}
ASSUME NoFileAssumption == NoFile \notin Seq(Byte)

VARIABLES
    script,    \* the entries the server sends
    entry,     \* the entry it is at
    server,    \* "refusing" (to run scp), "offering", "waiting", "sending",
               \* "confirming" or "ended"
    sent,      \* bytes sent of the entry's content
    headers,   \* announcements on the way to the client
    content,   \* bytes on the way
    status,    \* the verdict sent behind a content: "none", "ok" or "bad"
    lost,      \* whether the connection is lost
    scp,       \* libssh's state of the transfer
    processed, \* bytes libssh has handed out of the current file
    eof,       \* whether libssh has told the server that nothing more comes
    pc,        \* the call download! is in
    current,   \* the entry the local file was opened for, 0 before the first
    size, n,   \* the variables of download_file
    stream,    \* whether local is an object that responds to write
    kept,      \* what it holds in front of the current file
    local,     \* what is stored of the current file
    raised     \* class of the exception on its way, or "none"

remote == <<script, entry, server, sent>>
wire   == <<headers, content, status>>
libssh == <<scp, processed, eof>>
client == <<pc, current, size, n, stream, kept, local, raised>>
vars   == <<remote, wire, lost, libssh, client>>

PcValue == {"init", "pull_request", "accept_request", "deny_request", "open", "read",
            "close", "drain", "finished", "failed"}

TypeOK ==
    /\ script \in Scripts
    /\ entry \in 1..(Len(script) + 1)
    /\ server \in {"refusing", "offering", "waiting", "sending", "confirming", "ended"}
    /\ sent \in Nat
    /\ headers \in Seq(1..Len(script))
    /\ content \in Seq(Byte)
    /\ status \in {"none", "ok", "bad"}
    /\ lost \in BOOLEAN
    /\ scp \in {"new", "inited", "requested", "reading", "terminated", "error"}
    /\ processed \in Nat
    /\ eof \in BOOLEAN
    /\ pc \in PcValue
    /\ current \in 0..Len(script)
    /\ size \in Nat /\ n \in 0..size
    /\ stream \in BOOLEAN
    /\ kept \in Seq(Byte)
    /\ local \in Seq(Byte) \cup {NoFile}
    /\ raised \in {"none", "LibSSH::Error", "RangeError", "SystemCallError"}

Init ==
    /\ script \in Scripts
    /\ entry = 1 /\ server \in {"refusing", "offering"} /\ sent = 0
    /\ headers = <<>> /\ content = <<>> /\ status = "none"
    /\ lost = FALSE
    /\ scp = "new" /\ processed = 0 /\ eof = FALSE
    /\ pc = "init" /\ current = 0 /\ size = 0 /\ n = 0
    /\ stream \in BOOLEAN /\ kept = <<>> /\ local = NoFile
    /\ raised = "none"

-----------------------------------------------------------------------------
(* The remote scp.                                                         *)

Kind(e) == script[e].kind

\* It announces the next entry and waits for an answer; it does not wait
\* behind a warning.
Offer ==
    /\ server = "offering" /\ ~lost
    /\ scp # "new"
    /\ entry <= Len(script)
    /\ headers' = Append(headers, entry)
    /\ IF Kind(entry) = "warning"
       THEN entry' = entry + 1 /\ UNCHANGED server
       ELSE server' = "waiting" /\ UNCHANGED entry
    /\ UNCHANGED <<script, sent, content, status, lost, libssh, client>>

SendContent ==
    /\ server = "sending" /\ ~lost
    /\ sent < Len(script[entry].content)
    /\ content' = Append(content, script[entry].content[sent + 1])
    /\ sent' = sent + 1
    /\ UNCHANGED <<script, entry, server, headers, status, lost, libssh, client>>

\* Behind the content: whether all of it could be read on that side.
SendStatus ==
    /\ server = "sending" /\ ~lost
    /\ sent = Len(script[entry].content)
    /\ status' = IF script[entry].fate = "unreadable" THEN "bad" ELSE "ok"
    /\ server' = "confirming"
    /\ UNCHANGED <<script, entry, sent, headers, content, lost, libssh, client>>

\* It ends, and the channel with it: everything is sent, it was killed, or it
\* waits for an answer and reads the end of its input.
ServerEnds ==
    /\ scp # "new"
    /\ \/ server = "offering" /\ entry > Len(script)
       \/ server \in {"waiting", "sending"} /\ script[entry].fate = "cut"
       \/ server \in {"waiting", "confirming"} /\ eof /\ ~lost
    /\ server' = "ended"
    /\ UNCHANGED <<script, entry, sent, wire, lost, libssh, client>>

ConnectionLost ==
    /\ ~lost /\ pc \notin {"finished", "failed"}
    /\ lost' = TRUE
    /\ UNCHANGED <<remote, wire, libssh, client>>

-----------------------------------------------------------------------------
(* download!                                                               *)

Goto(label) == pc' = label

\* An exception in the block of Scp#init: rb_ensure closes the scp.
Raise(class) == raised' = class /\ Goto("close")

\* scp.init: without a channel there is nothing to close.
ScpInit ==
    /\ pc = "init"
    /\ \/ /\ ~lost /\ server # "refusing"
          /\ scp' = "inited" /\ Goto("pull_request") /\ UNCHANGED raised
       \/ /\ lost \/ server = "refusing"
          /\ scp' = "error" /\ raised' = "LibSSH::Error" /\ Goto("failed")
    /\ UNCHANGED <<remote, wire, lost, processed, eof, current, size, n, stream, kept, local>>

\* case scp.pull_request, without an else: a warning is passed over.
Answer(kind) ==
    Goto(CASE kind = "file" -> "accept_request"
           [] kind = "dir"  -> "deny_request"
           [] OTHER         -> "pull_request")

PullRequest ==
    /\ pc = "pull_request"
    /\ \/ /\ scp = "inited"
          /\ headers # <<>>
          /\ headers' = Tail(headers)
          /\ scp' = IF Kind(Head(headers)) = "warning" THEN "inited" ELSE "requested"
          /\ Answer(Kind(Head(headers)))
          /\ UNCHANGED raised
       \/ /\ scp = "inited"
          /\ headers = <<>> /\ server = "ended"
          /\ scp' = "terminated"
          /\ Goto("close")
          /\ UNCHANGED <<headers, raised>>
       \/ /\ lost \/ scp # "inited"
          /\ Raise("LibSSH::Error")
          /\ UNCHANGED <<headers, scp>>
    /\ UNCHANGED <<remote, content, status, lost, processed, eof, current, size, n,
                   stream, kept, local>>

\* scp.deny_request: the server takes it as a reason to end.
DenyRequest ==
    /\ pc = "deny_request"
    /\ \/ ~lost /\ scp' = "inited" /\ server' = "ended" /\ Goto("pull_request")
          /\ UNCHANGED raised
       \/ lost /\ Raise("LibSSH::Error") /\ UNCHANGED <<scp, server>>
    /\ UNCHANGED <<script, entry, sent, wire, lost, processed, eof, current, size, n,
                   stream, kept, local>>

\* download_file: size = scp.request_size, scp.accept_request, a new n.  A
\* server that has ended meanwhile is not noticed.
AcceptRequest ==
    /\ pc = "accept_request"
    /\ \/ /\ ~lost
          /\ scp' = "reading" /\ processed' = 0
          /\ IF server = "waiting"
             THEN server' = "sending" /\ sent' = 0
             ELSE UNCHANGED <<server, sent>>
          /\ size' = Len(script[entry].content) /\ n' = 0
          /\ Goto("open")
          /\ UNCHANGED raised
       \/ lost /\ Raise("LibSSH::Error")
          /\ UNCHANGED <<scp, processed, server, sent, size, n>>
    /\ UNCHANGED <<script, entry, wire, lost, eof, current, stream, kept, local>>

\* Variant of OpenLocal: a file that is opened is not truncated.
OpenLocalAppending ==
    /\ pc = "open"
    /\ kept' = IF current # 0 THEN kept \o local ELSE <<>>
    /\ local' = <<>> /\ current' = entry
    /\ Goto("read")
    /\ UNCHANGED <<remote, wire, lost, libssh, size, n, stream, raised>>

\* wrap_local_writer: an object that responds to write is written to where it
\* is; a file is opened and truncated (File.open(local, 'wb', mode)).
OpenLocal ==
    /\ pc = "open"
    /\ \/ /\ kept' = IF stream /\ current # 0 THEN kept \o local ELSE <<>>
          /\ local' = <<>> /\ current' = entry
          /\ Goto("read") /\ UNCHANGED raised
       \/ ~stream /\ Raise("SystemCallError") /\ UNCHANGED <<kept, local, current>>
    /\ UNCHANGED <<remote, wire, lost, libssh, size, n, stream>>

\* buf.size of a string libssh returned: characters, not bytes.
Chars(buf) ==
    Len(buf) - Cardinality({i \in 1..(Len(buf) - 1) : buf[i] = "L" /\ buf[i + 1] = "C"})

\* Variant of Count: one too many.
CountOneMore(buf) == Len(buf) + 1

Count(buf) == Chars(buf)

\* What ssh_scp_read may return of the bytes that have arrived.
Chunk(k) == SubSeq(content, 1, k)
Limit == {k \in 1..MaxChunk : k <= Len(content) /\ k <= size - n
                              /\ k <= Len(script[current].content) - processed}

\* Variant of Store: the buffer is written twice.
StoreTwice(buf) == local' = local \o buf \o buf

\* io.write(buf)
Store(buf) == local' = local \o buf

\* A chunk that does not end the file.
ReadSome(k) ==
    /\ processed + k < Len(script[current].content)
    /\ processed' = processed + k
    /\ UNCHANGED <<scp, entry, server, status>>

\* The end of the file: libssh confirms it and waits for the server's verdict.
ReadLast(k) ==
    /\ processed + k = Len(script[current].content)
    /\ status = "ok"
    /\ processed' = 0
    /\ scp' = "inited"
    /\ status' = "none"
    /\ IF server = "confirming"
       THEN entry' = entry + 1 /\ server' = "offering"
       ELSE UNCHANGED <<entry, server>>

\* A round of the loop: buf = scp.read(size - n); io.write(buf); n += buf.size
Read ==
    /\ pc = "read" /\ n < size /\ size - n <= IntMax
    /\ scp = "reading"
    /\ \E k \in Limit :
          /\ ReadSome(k) \/ ReadLast(k)
          /\ content' = SubSeq(content, k + 1, Len(content))
          /\ \/ /\ Store(Chunk(k))
                /\ n' = n + Count(Chunk(k))
                /\ UNCHANGED <<pc, raised>>
             \/ Raise("SystemCallError") /\ UNCHANGED <<local, n>>
    /\ UNCHANGED <<script, sent, headers, lost, eof, current, size, stream, kept>>

\* At the end of a channel that was cut short libssh returns nothing, and
\* no error: the round changes nothing, and neither does any further one.
RunDry ==
    /\ pc = "read" /\ n < size /\ size - n <= IntMax
    /\ scp = "reading"
    /\ content = <<>> /\ server = "ended" /\ processed < Len(script[current].content)

ReadNothing == RunDry /\ UNCHANGED vars

\* The end of the file has come with a bad verdict, or with none.
BadEnd ==
    /\ scp = "reading"
    /\ \E k \in Limit : processed + k = Len(script[current].content)
    /\ status = "bad" \/ (status = "none" /\ server = "ended")

\* Variant of ReadFails: an error is an empty string.
ReadFailsSilently ==
    /\ pc = "read" /\ n < size /\ size - n <= IntMax
    /\ lost \/ BadEnd \/ scp # "reading"
    /\ UNCHANGED vars

\* The call fails: the connection is lost, the verdict is bad, or libssh's
\* state is not the one to read in (the file is complete and n says it is not).
ReadFails ==
    /\ pc = "read" /\ n < size /\ size - n <= IntMax
    /\ lost \/ BadEnd \/ scp # "reading"
    /\ scp' = "error"
    /\ Raise("LibSSH::Error")
    /\ UNCHANGED <<remote, wire, lost, processed, eof, current, size, n, stream, kept, local>>

\* FIX2INT(size) in Scp#read.
ReadRefused ==
    /\ pc = "read" /\ n < size /\ size - n > IntMax
    /\ Raise("RangeError")
    /\ UNCHANGED <<remote, wire, lost, libssh, current, size, n, stream, kept, local>>

ReadEnds ==
    /\ pc = "read" /\ n >= size
    /\ Goto("pull_request")
    /\ UNCHANGED <<remote, wire, lost, libssh, current, size, n, stream, kept, local, raised>>

\* The ensure of Scp#init, scp.close: libssh sends an end of file,
SendEof ==
    /\ pc = "close"
    /\ \/ eof' = TRUE /\ Goto("drain") /\ UNCHANGED raised
       \/ lost /\ raised' = "LibSSH::Error" /\ Goto("failed") /\ UNCHANGED eof
    /\ UNCHANGED <<remote, wire, lost, scp, processed, current, size, n, stream, kept, local>>

\* reads and discards until the server has ended, and closes the channel.
Close ==
    /\ pc = "drain"
    /\ \/ /\ server = "ended" \/ lost
          /\ scp' = "new"
          /\ server' = "ended"
          /\ headers' = <<>> /\ content' = <<>> /\ status' = "none"
          /\ Goto(IF raised = "none" THEN "finished" ELSE "failed")
          /\ UNCHANGED raised
       \/ /\ lost
          /\ raised' = "LibSSH::Error"
          /\ Goto("failed")
          /\ UNCHANGED <<scp, server, wire>>
    /\ UNCHANGED <<script, entry, sent, lost, processed, eof, current, size, n,
                   stream, kept, local>>

Done == pc \in {"finished", "failed"} /\ UNCHANGED vars

-----------------------------------------------------------------------------
Server == Offer \/ SendContent \/ SendStatus \/ ServerEnds

Download ==
    \/ ScpInit \/ PullRequest \/ DenyRequest \/ AcceptRequest \/ OpenLocal
    \/ Read \/ ReadNothing \/ ReadFails \/ ReadRefused \/ ReadEnds
    \/ SendEof \/ Close

Next == Server \/ ConnectionLost \/ Download \/ Done

Spec == Init /\ [][Next]_vars

\* The server goes on sending; the program goes on when a call returns.
FairSpec == Spec /\ WF_vars(Server) /\ WF_vars(Download)

-----------------------------------------------------------------------------
(* Properties.                                                             *)

\* What download_file has no provision for: its loop counts characters, makes no
\* read for an empty file, and passes sizes that are C ints.
Unsupported(c) ==
    \/ c = <<>> \/ Len(c) > IntMax
    \/ \E j \in 1..(Len(c) - 1) : c[j] = "L" /\ c[j + 1] = "C"

\* download! raises only for a reason: the connection is lost, the server does
\* not run scp, cannot read its own file or ends in the middle of it, the local
\* file cannot be written, or the file is one the loop cannot count.
FailedForAReason ==
    pc = "failed" =>
        \/ lost \/ server = "refusing"
        \/ raised = "SystemCallError"
        \/ \E i \in 1..Len(script) :
              /\ Kind(i) = "file"
              /\ script[i].fate # "sent" \/ Unsupported(script[i].content)

\* Whatever the server sends, wherever it stops, and however the bytes are
\* cut into chunks: a local file holds the beginning of one file and nothing
\* of another; and when download! returns normally, the last file it has stored,
\* in a local file or behind others in a stream, is not a part of it only.
NeverPartial ==
    current # 0 =>
        /\ local = SubSeq(script[current].content, 1, Len(local))
        /\ ~stream => kept = <<>>
        /\ pc = "finished" => local = script[current].content

\* download! returns, or the remote scp has ended in the middle of a file and
\* the read loop has run dry.
DownloadEnds == <>(pc \in {"finished", "failed"} \/ RunDry)

\* Files behind a directory: the answer to it makes the remote scp end, and
\* download! returns as if nothing more had been there.
Skipped ==
    \E i, j \in 1..Len(script) : i < j /\ Kind(i) = "dir" /\ Kind(j) = "file"

\* The copy download! promises: each file the server sends replaces the one
\* before or, in a stream, follows it, and none is left out; a normal return that skipped files is not the end
\* of a copy.
Copy == INSTANCE FileCopy WITH
    sources <- [i \in {j \in 1..Len(script) : Kind(j) = "file"} |-> script[i].content],
    appends <- stream,
    before  <- kept,
    target  <- local,
    outcome <- IF pc = "finished" /\ Skipped THEN "failed"
               ELSE IF pc \in {"finished", "failed"} THEN pc ELSE "running"

CopiesFile == Copy!CSpec
=============================================================================
