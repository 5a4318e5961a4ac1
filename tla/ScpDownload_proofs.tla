------------------------- MODULE ScpDownload_proofs -------------------------
(* Proofs about ScpDownload, for any scripts of the server, chunk sizes and  *)
(* widths of an int.                                                         *)
EXTENDS ScpDownload, TLAPS, FiniteSetTheorems, SequenceTheorems

\* The first b bytes of entry e have been handed out: what is on the way are
\* the next ones.
Wire(e, b) ==
    /\ b + Len(content) <= Len(script[e].content)
    /\ \A i \in 1..Len(content) : content[i] = script[e].content[b + i]
    /\ server = "sending" => sent = b + Len(content)

\* The local file is a beginning of entry current, or all of it.
Beginning ==
    /\ Len(local) <= Len(script[current].content)
    /\ \A i \in 1..Len(local) : local[i] = script[current].content[i]
Whole == current # 0 => Beginning /\ Len(local) = Len(script[current].content)

\* How the server, the wire and libssh's state keep pace.
Protocol ==
    /\ server \in {"waiting", "sending", "confirming"} => entry <= Len(script)
    /\ status # "none" => server = "confirming" \/ (server = "ended" /\ eof)
    /\ scp \in {"new", "inited", "requested"} =>
          content = <<>> /\ server \notin {"sending", "confirming"}
    /\ scp = "reading" => server \in {"sending", "confirming", "ended"}
    /\ \A i \in 1..Len(headers) : Kind(headers[i]) # "warning" =>
          i = Len(headers) /\ headers[i] = entry /\ server \in {"waiting", "ended"}
    /\ scp = "requested" => headers = <<>> /\ entry <= Len(script)
                            /\ server \in {"waiting", "ended"}
    /\ pc = "init" => scp = "new"
    /\ pc \in {"accept_request", "deny_request"} => scp = "requested"
    /\ pc = "open" => scp = "reading" /\ entry <= Len(script)
    /\ pc = "read" => scp \in {"reading", "inited"}
    /\ eof => pc \in {"drain", "finished", "failed"}

\* How far the copy is.
Progress ==
    /\ current # 0 => local \in Seq(Byte) /\ Beginning
    /\ ~stream => kept = <<>>
    /\ pc = "open" => /\ n = 0 /\ processed = 0
                      /\ size = Len(script[entry].content)
                      /\ Wire(entry, 0)
    /\ pc = "read" => /\ current # 0 /\ n <= Len(local)
                      /\ size = Len(script[current].content)
                      /\ scp = "reading" =>
                            current = entry /\ processed = Len(local) /\ Wire(entry, processed)
                      /\ scp # "reading" => Whole
    /\ pc \in {"init", "pull_request", "accept_request", "deny_request", "open"} => Whole
    /\ pc \in {"close", "drain", "finished"} /\ raised = "none" => Whole
    /\ pc \in {"init", "pull_request", "accept_request", "deny_request", "open", "read",
               "finished"} => raised = "none"

IInv == TypeOK /\ Protocol /\ Progress

\* An entry of the script has a content of bytes.
LEMMA EntryContent ==
    ASSUME script \in Scripts, NEW e \in 1..Len(script)
    PROVE  /\ script[e].content \in Seq(Byte)
           /\ Len(script) \in Nat /\ Len(script[e].content) \in Nat
           /\ \A i \in 1..Len(script[e].content) : script[e].content[i] \in Byte
<1>1. script \in Seq(Entry)
  BY ScriptsAssumption
<1>2. script[e] \in Entry
  BY <1>1
<1>3. script[e].content \in Seq(Byte)
  BY <1>2 DEF Entry
<1> QED
  BY <1>1, <1>3, LenProperties, ElementOfSeq

\* A string has no more characters than bytes.
LEMMA CharsBound ==
    ASSUME NEW buf \in Seq(Byte)
    PROVE  Chars(buf) \in 0..Len(buf)
<1> DEFINE pairs == {i \in 1..(Len(buf) - 1) : buf[i] = "L" /\ buf[i + 1] = "C"}
<1>1. Len(buf) \in Nat
  OBVIOUS
<1>2. CASE buf = <<>>
  <2>1. pairs = {}
    BY <1>2
  <2>2. Cardinality(pairs) = 0
    BY <2>1, FS_EmptySet
  <2> QED
    BY <1>2, <2>2 DEF Chars
<1>3. CASE buf # <<>>
  <2>1. Len(buf) >= 1
    BY <1>3, EmptySeq
  <2>2. IsFiniteSet(1..(Len(buf) - 1)) /\ Cardinality(1..(Len(buf) - 1)) = Len(buf) - 1
    BY <1>1, <2>1, FS_Interval, SMTT(30)
  <2>3. pairs \in SUBSET (1..(Len(buf) - 1))
    OBVIOUS
  <2>4. IsFiniteSet(pairs) /\ Cardinality(pairs) <= Len(buf) - 1
    BY <2>2, <2>3, FS_Subset
  <2>5. Cardinality(pairs) \in Nat
    BY <2>4, FS_CardinalityType
  <2> QED
    BY <1>1, <2>4, <2>5 DEF Chars
<1> QED
  BY <1>2, <1>3

\* The first k bytes on the way, and what is left.
LEMMA CutContent ==
    ASSUME content \in Seq(Byte), NEW k \in 1..Len(content)
    PROVE  /\ Chunk(k) \in Seq(Byte) /\ Len(Chunk(k)) = k
           /\ \A i \in 1..k : Chunk(k)[i] = content[i]
           /\ SubSeq(content, k + 1, Len(content)) \in Seq(Byte)
           /\ Len(SubSeq(content, k + 1, Len(content))) = Len(content) - k
           /\ \A i \in 1..(Len(content) - k) :
                 SubSeq(content, k + 1, Len(content))[i] = content[k + i]
<1>1. Len(content) \in Nat /\ k \in Nat /\ k <= Len(content)
  OBVIOUS
<1>2. \A i \in 1..Len(content) : content[i] \in Byte
  OBVIOUS
<1> QED
  BY <1>1, <1>2 DEF Chunk

LEMMA InitInv == Init => IInv
<1> SUFFICES ASSUME Init PROVE IInv
  OBVIOUS
<1>1. script \in Seq(Entry) /\ Len(script) \in Nat
  BY ScriptsAssumption DEF Init
<1>2. TypeOK
  <2>1. headers \in Seq(1..Len(script)) /\ content \in Seq(Byte)
    BY DEF Init
  <2>2. entry \in 1..(Len(script) + 1) /\ current \in 0..Len(script) /\ n \in 0..size
        /\ sent \in Nat /\ processed \in Nat /\ size \in Nat
    BY <1>1 DEF Init
  <2> QED
    BY <2>1, <2>2 DEF Init, TypeOK, PcValue
<1>3. Protocol
  BY <1>1 DEF Init, Protocol
<1>4. Progress
  BY DEF Init, Progress, Whole
<1> QED
  BY <1>2, <1>3, <1>4 DEF IInv

\* What a step that leaves the local file alone leaves of it.
LEMMA SameFile ==
    ASSUME UNCHANGED <<script, current, local>>
    PROVE  (Beginning' <=> Beginning) /\ (Whole' <=> Whole)
  BY DEF Beginning, Whole

\* What a step that leaves the wire alone leaves of it.
LEMMA SameWire ==
    ASSUME UNCHANGED <<script, content, server, sent, entry, processed>>
    PROVE  (Wire(entry, 0)' <=> Wire(entry, 0))
           /\ (Wire(entry, processed)' <=> Wire(entry, processed))
  BY DEF Wire

\* The announcements on the way stay in order while none is added.
LEMMA SameHeaders ==
    ASSUME UNCHANGED <<script, headers, entry>>
    PROVE  \A i \in 1..Len(headers') :
              Kind(headers[i])' = Kind(headers[i]) /\ headers'[i] = headers[i]
  BY DEF Kind

-----------------------------------------------------------------------------
(* The remote scp.                                                          *)

LEMMA OfferInv == ASSUME IInv, Offer PROVE IInv'
<1>1. Len(script) \in Nat /\ entry \in 1..Len(script)
  BY ScriptsAssumption DEF IInv, TypeOK, Offer
<1>2. /\ headers \in Seq(1..Len(script)) /\ headers' = Append(headers, entry)
      /\ headers' \in Seq(1..Len(script)) /\ Len(headers') = Len(headers) + 1
      /\ headers'[Len(headers) + 1] = entry
      /\ \A i \in 1..Len(headers) : headers'[i] = headers[i] /\ Kind(headers[i]) = "warning"
  BY <1>1 DEF IInv, TypeOK, Protocol, Offer
<1>3. TypeOK'
  BY <1>1, <1>2 DEF IInv, TypeOK, Offer, wire, libssh, client
<1>4. Protocol'
  <2>1. \A i \in 1..Len(headers') : Kind(headers[i])' # "warning" =>
            i = Len(headers') /\ headers'[i] = entry' /\ server' \in {"waiting", "ended"}
    BY <1>1, <1>2 DEF Offer, Kind, IInv, TypeOK
  <2>2. /\ UNCHANGED <<script, content, status, scp, eof, pc>> /\ server = "offering"
        /\ entry \in Nat /\ scp # "new"
        /\ (entry' = entry /\ server' = "waiting") \/ (entry' = entry + 1 /\ server' = "offering")
    BY <1>1 DEF Offer, libssh, client
  <2>3. server' \in {"waiting", "sending", "confirming"} => entry' <= Len(script')
    BY <1>1, <2>2
  <2> QED
    BY <2>1, <2>2, <2>3 DEF IInv, Protocol
<1>5. Progress'
  <2>1. /\ UNCHANGED <<script, content, sent, processed, eof, scp, pc,
                     current, size, n, stream, kept, local, raised>>
        /\ server = "offering" /\ server' \in {"offering", "waiting"}
        /\ entry' # entry => server' = "offering"
    BY DEF Offer, libssh, client
  <2>2. (Beginning' <=> Beginning) /\ (Whole' <=> Whole)
    BY <2>1, SameFile
  <2>3. scp # "reading"
    BY DEF IInv, Protocol, Offer
  <2> QED
    BY <2>1, <2>2, <2>3 DEF IInv, Protocol, Progress
<1> QED
  BY <1>3, <1>4, <1>5 DEF IInv

LEMMA SendContentInv == ASSUME IInv, SendContent PROVE IInv'
<1>1. Len(script) \in Nat /\ entry \in 1..Len(script)
  BY ScriptsAssumption DEF IInv, TypeOK, Protocol, SendContent
<1> DEFINE c == script[entry].content
<1>2. /\ c \in Seq(Byte) /\ Len(c) \in Nat /\ sent + 1 \in 1..Len(c)
      /\ c[sent + 1] \in Byte
  <2>1. script \in Scripts /\ sent \in Nat /\ sent < Len(c)
    BY DEF IInv, TypeOK, SendContent
  <2>2. c \in Seq(Byte) /\ Len(c) \in Nat /\ \A i \in 1..Len(c) : c[i] \in Byte
    BY <1>1, <2>1, EntryContent
  <2>3. sent + 1 \in 1..Len(c)
    BY <2>1, <2>2
  <2> QED
    BY <2>2, <2>3
<1>3. /\ content' \in Seq(Byte) /\ Len(content') = Len(content) + 1
      /\ content'[Len(content) + 1] = c[sent + 1]
      /\ \A i \in 1..Len(content) : content'[i] = content[i]
  BY <1>2 DEF IInv, TypeOK, SendContent
<1>4. TypeOK'
  BY <1>3 DEF IInv, TypeOK, SendContent, libssh, client
<1>5. Protocol'
  BY DEF IInv, Protocol, SendContent, libssh, client, Kind
<1>6. /\ Wire(entry, 0) => Wire(entry, 0)'
      /\ Wire(entry, processed) => Wire(entry, processed)'
  <2>1. /\ UNCHANGED <<script, entry, server, processed, eof>> /\ sent' = sent + 1
        /\ server = "sending" /\ sent \in Nat /\ processed \in Nat /\ Len(content) \in Nat
    BY DEF SendContent, libssh, IInv, TypeOK
  <2>2. ASSUME NEW b \in Nat, Wire(entry, b)
        PROVE  /\ b + Len(content') <= Len(c) /\ sent' = b + Len(content')
               /\ \A i \in 1..Len(content') : content'[i] = c[b + i]
    <3>1. sent = b + Len(content)
      BY <2>1, <2>2 DEF Wire
    <3>2. ASSUME NEW i \in 1..Len(content') PROVE content'[i] = c[b + i]
      <4>1. CASE i \in 1..Len(content)
        BY <1>3, <2>2, <4>1 DEF Wire
      <4>2. CASE i = Len(content) + 1
        <5>1. sent + 1 = b + i
          BY <2>1, <3>1, <4>2
        <5> QED
          BY <1>3, <4>2, <5>1
      <4> QED
        BY <1>3, <2>1, <4>1, <4>2
    <3>3. Len(content') = Len(content) + 1 /\ Len(content) \in Nat
      BY <1>3, <2>1
    <3>4. sent + 1 <= Len(c)
      BY <1>2
    <3>5. b + Len(content') <= Len(c) /\ sent' = b + Len(content')
      BY <2>1, <3>1, <3>3, <3>4
    <3> QED
      BY <3>2, <3>5
  <2> QED
    BY <2>1, <2>2 DEF Wire
<1>7. Progress'
  <2>1. UNCHANGED <<script, entry, libssh, client>>
    BY DEF SendContent
  <2>2. pc = "open" => Wire(entry, 0)'
    BY <1>6 DEF IInv, Progress
  <2>3. pc = "read" /\ scp = "reading" => Wire(entry, processed)'
    BY <1>6 DEF IInv, Progress, TypeOK
  <2>4. pc = "read" /\ scp = "reading" => current = entry
    BY DEF IInv, Progress
  <2> QED
    BY <2>1, <2>2, <2>3, <2>4, SameFile DEF IInv, Progress, libssh, client
<1> QED
  BY <1>4, <1>5, <1>7 DEF IInv

LEMMA ServerInv == ASSUME IInv, Server PROVE IInv'
<1>1. ASSUME SendStatus PROVE IInv'
  BY <1>1 DEF SendStatus, IInv, TypeOK, Protocol, Progress, Whole, Beginning, Wire, Kind,
     libssh, client
<1>2. ASSUME ServerEnds PROVE IInv'
  BY <1>2 DEF ServerEnds, IInv, TypeOK, Protocol, Progress, Whole, Beginning, Wire, Kind,
     libssh, client, wire
<1> QED
  BY <1>1, <1>2, OfferInv, SendContentInv DEF Server

-----------------------------------------------------------------------------
(* download!                                                                *)

LEMMA PullRequestInv == ASSUME IInv, PullRequest PROVE IInv'
<1> DEFINE h == Head(headers)
<1> USE DEF Goto, Raise, Answer
<1>0. /\ UNCHANGED <<script, entry, server, sent, content, status, lost, processed, eof,
                     current, size, n, stream, kept, local>>
      /\ pc = "pull_request"
      /\ TypeOK /\ Protocol /\ Progress
  BY DEF PullRequest, remote, IInv
<1>1. CASE scp = "inited" /\ headers # <<>> /\ headers' = Tail(headers)
           /\ scp' = (IF Kind(h) = "warning" THEN "inited" ELSE "requested")
           /\ Answer(Kind(h)) /\ UNCHANGED raised
  <2>1. Len(script) \in Nat /\ headers \in Seq(1..Len(script)) /\ Len(headers) >= 1
    BY <1>0, <1>1, ScriptsAssumption, EmptySeq DEF TypeOK
  <2>2. /\ h = headers[1] /\ h \in 1..Len(script)
        /\ headers' \in Seq(1..Len(script)) /\ Len(headers') = Len(headers) - 1
        /\ \A i \in 1..Len(headers') : headers'[i] = headers[i + 1]
    BY <1>1, <2>1
  <2>3. Kind(h) \in {"file", "dir", "warning"}
    <3>1. script[h] \in Entry
      BY <1>0, <2>2, ScriptsAssumption DEF TypeOK
    <3> QED
      BY <3>1 DEF Kind, Entry
  <2>4. \A i \in 1..Len(headers) : Kind(headers[i]) # "warning" =>
            i = Len(headers) /\ headers[i] = entry /\ server \in {"waiting", "ended"}
    BY <1>0 DEF Protocol
  <2>8. Kind(h) # "warning" => /\ Len(headers) = 1 /\ headers' = <<>>
                              /\ entry <= Len(script) /\ server \in {"waiting", "ended"}
    <3>1. Kind(h) # "warning" => /\ Len(headers) = 1 /\ h = entry
                                /\ server \in {"waiting", "ended"}
      BY <2>1, <2>2, <2>4
    <3> QED
      BY <2>1, <2>2, <3>1, EmptySeq
  <2>5. TypeOK'
    BY <1>0, <1>1, <2>2, <2>3 DEF TypeOK, PcValue
  <2>6. Protocol'
    <3>1. \A i \in 1..Len(headers') : Kind(headers[i])' # "warning" =>
              i = Len(headers') /\ headers'[i] = entry' /\ server' \in {"waiting", "ended"}
      <4> SUFFICES ASSUME NEW i \in 1..Len(headers'), Kind(headers'[i]) # "warning"
                   PROVE  /\ i = Len(headers') /\ headers'[i] = entry
                          /\ server \in {"waiting", "ended"}
        BY <1>0 DEF Kind
      <4>1. headers'[i] = headers[i + 1]
        BY <2>2
      <4>3. i \in Nat /\ 1 <= i /\ i <= Len(headers') /\ Len(headers) \in Nat
        BY <2>1, <2>2
      <4>4. i + 1 \in 1..Len(headers)
        BY <2>2, <4>3
      <4>2. /\ i + 1 = Len(headers) /\ headers[i + 1] = entry
            /\ server \in {"waiting", "ended"}
        BY <2>4, <4>1, <4>4
      <4> QED
        BY <2>2, <4>1, <4>2, <4>3
    <3> QED
      BY <1>0, <1>1, <2>3, <2>8, <3>1 DEF Protocol
  <2>7. Progress'
    BY <1>0, <1>1, <2>3, SameFile DEF Progress
  <2> QED
    BY <2>5, <2>6, <2>7 DEF IInv
<1>2. CASE scp = "inited" /\ scp' = "terminated" /\ Goto("close")
           /\ UNCHANGED <<headers, raised>>
  <2>1. TypeOK'
    BY <1>0, <1>2 DEF TypeOK, PcValue
  <2>2. Protocol'
    BY <1>0, <1>2, SameHeaders DEF Protocol
  <2>3. Progress'
    BY <1>0, <1>2, SameFile DEF Progress
  <2> QED
    BY <2>1, <2>2, <2>3 DEF IInv
<1>3. CASE Raise("LibSSH::Error") /\ UNCHANGED <<headers, scp>>
  <2>1. TypeOK'
    BY <1>0, <1>3 DEF TypeOK, PcValue
  <2>2. Protocol'
    BY <1>0, <1>3, SameHeaders DEF Protocol
  <2>3. Progress'
    BY <1>0, <1>3, SameFile DEF Progress
  <2> QED
    BY <2>1, <2>2, <2>3 DEF IInv
<1> QED
  BY <1>1, <1>2, <1>3 DEF PullRequest

LEMMA AcceptRequestInv == ASSUME IInv, AcceptRequest PROVE IInv'
<1> USE DEF AcceptRequest, Goto, Raise, IInv
<1>1. CASE lost /\ Raise("LibSSH::Error") /\ UNCHANGED <<scp, processed, server, sent, size, n>>
  BY <1>1 DEF TypeOK, Protocol, Progress, Whole, Beginning, Wire, Kind, wire, PcValue
<1>2. CASE ~lost /\ Goto("open")
  <2>1. Len(script) \in Nat /\ entry \in 1..Len(script) /\ content = <<>> /\ status = "none"
        /\ headers = <<>> /\ server \in {"waiting", "ended"}
    BY <1>2, ScriptsAssumption DEF TypeOK, Protocol
  <2>2. script[entry].content \in Seq(Byte) /\ Len(script[entry].content) \in Nat
    BY <2>1, EntryContent DEF TypeOK
  <2>3. /\ scp' = "reading" /\ processed' = 0 /\ n' = 0 /\ pc' = "open"
        /\ size' = Len(script[entry].content)
        /\ (server' = "sending" /\ sent' = 0) \/ (server' = "ended" /\ sent' = sent)
        /\ UNCHANGED <<script, entry, headers, content, status, lost, eof, current, stream, kept,
                       local, raised>>
    BY <1>2, <2>1 DEF wire
  <2>4. TypeOK'
    BY <2>2, <2>3 DEF TypeOK, PcValue
  <2>5. Protocol'
    BY <2>1, <2>3 DEF Protocol
  <2>6. Progress'
    BY <1>2, <2>1, <2>2, <2>3 DEF Progress, Whole, Beginning, Wire
  <2> QED
    BY <2>4, <2>5, <2>6
<1> QED
  BY <1>1, <1>2

LEMMA OpenLocalInv == ASSUME IInv, OpenLocal PROVE IInv'
<1> USE DEF OpenLocal, Goto, Raise, IInv
<1>1. CASE Raise("SystemCallError") /\ UNCHANGED <<kept, local, current>>
  BY <1>1 DEF TypeOK, Protocol, Progress, Whole, Beginning, Wire, Kind, wire, remote, libssh,
     PcValue
<1>2. CASE /\ kept' = IF stream /\ current # 0 THEN kept \o local ELSE <<>>
           /\ local' = <<>> /\ current' = entry /\ Goto("read") /\ UNCHANGED raised
  <2>6. kept' \in Seq(Byte) /\ (~stream => kept' = <<>>)
    <3>1. kept \in Seq(Byte) /\ (current # 0 => local \in Seq(Byte))
      BY DEF TypeOK, Progress
    <3> QED
      BY <1>2, <3>1, ConcatProperties
  <2>1. Len(script) \in Nat /\ entry \in 1..Len(script)
    BY <1>2, ScriptsAssumption DEF TypeOK, Protocol
  <2>2. Len(script[entry].content) \in Nat
    BY <2>1, EntryContent DEF TypeOK
  <2>3. TypeOK'
    BY <1>2, <2>1, <2>6 DEF TypeOK, PcValue, remote, wire, libssh
  <2>4. Protocol'
    BY <1>2 DEF Protocol, remote, wire, libssh, Kind
  <2>5. Progress'
    BY <1>2, <2>1, <2>2, <2>6
    DEF Protocol, Progress, Whole, Beginning, Wire, remote, wire, libssh
  <2> QED
    BY <2>3, <2>4, <2>5
<1> QED
  BY <1>1, <1>2

\* A chunk comes next in the file, on the wire as in the local copy.
LEMMA ReadInv == ASSUME IInv, Read PROVE IInv'
<1> DEFINE c == script[current].content
<1> USE DEF IInv
<1>1. PICK k \in Limit :
          /\ ReadSome(k) \/ ReadLast(k)
          /\ content' = SubSeq(content, k + 1, Len(content))
          /\ \/ Store(Chunk(k)) /\ n' = n + Count(Chunk(k)) /\ UNCHANGED <<pc, raised>>
             \/ Raise("SystemCallError") /\ UNCHANGED <<local, n>>
  BY DEF Read
<1>2. /\ UNCHANGED <<script, sent, headers, lost, eof, current, size, stream, kept>>
      /\ pc = "read" /\ scp = "reading" /\ raised = "none"
  BY DEF Read, Progress
<1>3. /\ Len(script) \in Nat /\ current \in 1..Len(script) /\ current = entry
      /\ processed = Len(local) /\ Wire(current, processed) /\ Beginning
      /\ size = Len(c) /\ n <= Len(local) /\ local \in Seq(Byte) /\ n \in Nat
  BY <1>2, ScriptsAssumption DEF Progress, TypeOK
<1>4. c \in Seq(Byte) /\ Len(c) \in Nat
  BY <1>3, EntryContent DEF TypeOK
<1>5. /\ content \in Seq(Byte) /\ Len(content) \in Nat /\ Len(local) \in Nat
      /\ k \in 1..Len(content) /\ k <= size - n /\ k <= Len(c) - processed
  BY <1>3 DEF Limit, TypeOK
<1>6. /\ content' \in Seq(Byte) /\ Len(content') = Len(content) - k
      /\ \A i \in 1..(Len(content) - k) : content'[i] = content[k + i]
  BY <1>1, <1>5, CutContent
<1>7. /\ Chunk(k) \in Seq(Byte) /\ Len(Chunk(k)) = k
      /\ \A i \in 1..k : Chunk(k)[i] = content[i]
      /\ Count(Chunk(k)) \in 0..k
  BY <1>5, CutContent, CharsBound DEF Count
<1>8. CASE Raise("SystemCallError") /\ UNCHANGED <<local, n>>
  <2>1. ReadSome(k) => IInv'
    BY <1>2, <1>3, <1>5, <1>6, <1>8
    DEF ReadSome, Raise, Goto, TypeOK, Protocol, Progress, Whole, Beginning, Kind, PcValue
  <2>2. ASSUME ReadLast(k) PROVE IInv'
    <3>1. processed + k = Len(c) /\ content' = <<>>
      BY <1>3, <1>5, <1>6, <2>2 DEF ReadLast, Wire
    <3>2. server = "confirming" /\ entry' = entry + 1 /\ server' = "offering"
          /\ scp' = "inited" /\ status' = "none" /\ processed' = 0
      BY <1>2, <2>2 DEF ReadLast, Protocol
    <3>3. pc' = "close" /\ raised' = "SystemCallError" /\ UNCHANGED <<local, n>>
      BY <1>8 DEF Raise, Goto
    <3>4. TypeOK'
      BY <1>2, <1>3, <1>6, <3>2, <3>3 DEF TypeOK, PcValue
    <3>5. Protocol'
      BY <1>2, <3>1, <3>2, <3>3 DEF Protocol, Kind
    <3>6. Progress'
      BY <1>2, <1>3, <3>3 DEF Progress, Beginning
    <3> QED
      BY <3>4, <3>5, <3>6
  <2> QED
    BY <1>1, <2>1, <2>2
<1>9. CASE Store(Chunk(k)) /\ n' = n + Count(Chunk(k)) /\ UNCHANGED <<pc, raised>>
  <2>1. /\ local' \in Seq(Byte) /\ Len(local') = Len(local) + k
        /\ \A i \in 1..Len(local') :
              local'[i] = IF i <= Len(local) THEN local[i] ELSE content[i - Len(local)]
    <3> DEFINE b == Chunk(k)
    <3>1. local' = local \o b
      BY <1>9 DEF Store
    <3> HIDE DEF b
    <3>2. b \in Seq(Byte) /\ Len(b) = k /\ \A i \in 1..k : b[i] = content[i]
      BY <1>7 DEF b
    <3>3. local \o b \in Seq(Byte) /\ Len(local \o b) = Len(local) + k
      BY <1>3, <1>5, <3>2, SMTT(30)
    <3>4. ASSUME NEW i \in 1..(Len(local) + k)
          PROVE  (local \o b)[i] = IF i <= Len(local) THEN local[i] ELSE content[i - Len(local)]
      <4>1. CASE i <= Len(local)
        BY <1>3, <1>5, <3>2, <4>1
      <4>2. CASE i > Len(local)
        <5>1. i - Len(local) \in 1..k
          BY <1>5, <4>2
        <5>2. (local \o b)[i] = b[i - Len(local)]
          BY <1>3, <1>5, <3>2, <4>2, SMTT(30)
        <5> QED
          BY <1>5, <3>2, <4>2, <5>1, <5>2
      <4>3. i <= Len(local) \/ i > Len(local)
        BY <1>5
      <4> QED
        BY <4>1, <4>2, <4>3
    <3> QED
      BY <3>1, <3>3, <3>4
  <2>2. Len(local') <= Len(c) /\ \A i \in 1..Len(local') : local'[i] = c[i]
    <3>1. Len(local) + k <= Len(c)
      BY <1>3, <1>4, <1>5
    <3>2. ASSUME NEW i \in 1..(Len(local) + k) PROVE local'[i] = c[i]
      <4>1. CASE i <= Len(local)
        BY <1>3, <1>5, <2>1, <4>1, SMTT(30) DEF Beginning
      <4>2. CASE i > Len(local)
        <5>1. i - Len(local) \in 1..Len(content) /\ Len(local) + (i - Len(local)) = i
          BY <1>5, <4>2
        <5>2. content[i - Len(local)] = c[Len(local) + (i - Len(local))]
          BY <1>3, <5>1 DEF Wire
        <5> QED
          BY <1>5, <2>1, <4>2, <5>1, <5>2, SMTT(30)
      <4> QED
        BY <1>5, <4>1, <4>2
    <3> QED
      BY <2>1, <3>1, <3>2
  <2>3. n' \in Nat /\ n' <= size /\ n' <= Len(local')
    <3> DEFINE m == Count(Chunk(k))
    <3>1. m \in 0..k /\ n' = n + m
      BY <1>7, <1>9
    <3> HIDE DEF m
    <3>2. /\ k \in Nat /\ n \in Nat /\ size \in Nat /\ k <= size - n
          /\ Len(local) \in Nat /\ n <= Len(local) /\ Len(local') = Len(local) + k
      BY <1>3, <1>4, <1>5, <2>1
    <3> QED
      BY <3>1, <3>2
  <2>4. ASSUME ReadSome(k) PROVE IInv'
    <3>1. processed' = Len(local') /\ UNCHANGED <<scp, entry, server, status>>
      BY <1>3, <2>1, <2>4 DEF ReadSome
    <3>2. TypeOK'
      BY <1>2, <1>3, <1>6, <1>9, <2>1, <2>3, <3>1 DEF TypeOK, PcValue
    <3>3. Protocol'
      BY <1>2, <1>9, <3>1 DEF Protocol, Kind
    <3>4. Wire(current, processed)'
      <4>1. processed' = processed + k /\ processed \in Nat /\ k \in Nat
            /\ UNCHANGED <<script, current, server, sent>>
        BY <1>2, <1>3, <1>5, <2>4, <3>1 DEF ReadSome
      <4>2. ASSUME NEW i \in 1..Len(content') PROVE content'[i] = c[processed + k + i]
        <5>1. k + i \in 1..Len(content) /\ i \in 1..(Len(content) - k) /\ i \in Nat
          BY <1>5, <1>6, <4>1, SMTT(30)
        <5>2. content'[i] = content[k + i]
          BY <1>6, <5>1
        <5>3. content[k + i] = c[processed + (k + i)]
          BY <1>3, <5>1 DEF Wire
        <5> QED
          BY <4>1, <5>1, <5>2, <5>3
      <4>3. processed + k + Len(content') <= Len(c)
            /\ (server = "sending" => sent = processed + k + Len(content'))
        BY <1>3, <1>4, <1>5, <1>6, <4>1, SMTT(30) DEF Wire
      <4> QED
        BY <4>1, <4>2, <4>3 DEF Wire
    <3>5. Progress'
      BY <1>2, <1>3, <1>9, <2>1, <2>2, <2>3, <3>1, <3>4 DEF Progress, Beginning, Wire
    <3> QED
      BY <3>2, <3>3, <3>5
  <2>5. ASSUME ReadLast(k) PROVE IInv'
    <3>1. processed + k = Len(c) /\ content' = <<>> /\ Len(local') = Len(c)
      BY <1>3, <1>5, <1>6, <2>1, <2>5 DEF ReadLast, Wire
    <3>2. server = "confirming" /\ entry' = entry + 1 /\ server' = "offering"
          /\ scp' = "inited" /\ status' = "none" /\ processed' = 0
      BY <1>2, <2>5 DEF ReadLast, Protocol
    <3>3. TypeOK'
      <4>1. entry' \in 1..(Len(script) + 1)
        BY <1>3, <3>2
      <4> QED
        BY <1>2, <1>3, <1>6, <1>9, <2>1, <2>3, <3>2, <4>1 DEF TypeOK, PcValue
    <3>4. Protocol'
      BY <1>2, <1>9, <3>1, <3>2 DEF Protocol, Kind
    <3>5. Progress'
      BY <1>2, <1>3, <1>9, <2>1, <2>2, <2>3, <3>1, <3>2 DEF Progress, Beginning, Whole
    <3> QED
      BY <3>3, <3>4, <3>5
  <2> QED
    BY <1>1, <2>4, <2>5
<1> QED
  BY <1>1, <1>8, <1>9

\* The loop is left with no byte missing: n counts no more than there is.
LEMMA ReadEndsInv == ASSUME IInv, ReadEnds PROVE IInv'
<1>1. Len(script) \in Nat /\ current \in 1..Len(script)
  BY ScriptsAssumption DEF IInv, TypeOK, ReadEnds, Progress
<1>2. Len(script[current].content) \in Nat
  BY <1>1, EntryContent DEF IInv, TypeOK
<1>3. Whole
  <2>1. pc = "read" /\ n >= size /\ n \in 0..size /\ size \in Nat
    BY DEF IInv, TypeOK, ReadEnds
  <2>2. /\ current # 0 => local \in Seq(Byte) /\ Beginning
        /\ current # 0 /\ n <= Len(local) /\ size = Len(script[current].content)
    BY <2>1 DEF IInv, Progress
  <2>3. Len(local) \in Nat /\ Len(local) <= Len(script[current].content)
    BY <2>2 DEF Beginning
  <2> QED
    BY <1>2, <2>1, <2>2, <2>3 DEF Whole
<1> QED
  BY <1>3 DEF IInv, TypeOK, Protocol, Progress, Whole, Beginning, ReadEnds, Goto, Kind, remote,
     wire, libssh, PcValue

\* Nothing but whether the connection is lost has changed.
LEMMA UnchangedInv ==
    ASSUME IInv, UNCHANGED <<remote, wire, libssh, client>>, lost' \in BOOLEAN
    PROVE  IInv'
<1>1. UNCHANGED <<script, entry, server, sent, headers, content, status, scp, processed, eof,
                  pc, current, size, n, stream, kept, local, raised>>
  BY DEF remote, wire, libssh, client
<1>2. TypeOK'
  BY <1>1 DEF IInv, TypeOK
<1>3. Protocol'
  BY <1>1, SameHeaders DEF IInv, Protocol
<1>4. Progress'
  BY <1>1, SameFile, SameWire DEF IInv, Progress
<1> QED
  BY <1>2, <1>3, <1>4 DEF IInv

LEMMA DownloadInv == ASSUME IInv, Download PROVE IInv'
<1> USE DEF Goto, Raise
<1>1. ASSUME ScpInit PROVE IInv'
  <2>1. UNCHANGED <<script, entry, server, sent, headers, content, status, lost, processed, eof,
                  current, size, n, stream, kept, local>>
    BY <1>1 DEF ScpInit, remote, wire
  <2>2. TypeOK'
    BY <1>1, <2>1 DEF IInv, TypeOK, PcValue, ScpInit
  <2>3. Protocol'
    BY <1>1, <2>1, SameHeaders DEF IInv, Protocol, ScpInit
  <2>4. Progress'
    BY <1>1, <2>1, SameFile DEF IInv, Protocol, Progress, ScpInit
  <2> QED
    BY <2>2, <2>3, <2>4 DEF IInv
<1>2. ASSUME DenyRequest PROVE IInv'
  <2>1. UNCHANGED <<script, entry, sent, headers, content, status, lost, processed, eof,
                  current, size, n, stream, kept, local>>
    BY <1>2 DEF DenyRequest, wire
  <2>2. TypeOK'
    BY <1>2, <2>1 DEF IInv, TypeOK, PcValue, DenyRequest
  <2>3. Protocol'
    BY <1>2, <2>1, SameHeaders DEF IInv, Protocol, DenyRequest
  <2>4. Progress'
    BY <1>2, <2>1, SameFile DEF IInv, Protocol, Progress, DenyRequest
  <2> QED
    BY <2>2, <2>3, <2>4 DEF IInv
<1>3. ASSUME ReadFails PROVE IInv'
  <2>1. UNCHANGED <<script, entry, server, sent, headers, content, status, lost, processed, eof,
                  current, size, n, stream, kept, local>>
    BY <1>3 DEF ReadFails, remote, wire
  <2>2. TypeOK'
    BY <1>3, <2>1 DEF IInv, TypeOK, PcValue, ReadFails
  <2>3. Protocol'
    BY <1>3, <2>1, SameHeaders DEF IInv, Protocol, ReadFails
  <2>4. Progress'
    BY <1>3, <2>1, SameFile DEF IInv, Protocol, Progress, ReadFails
  <2> QED
    BY <2>2, <2>3, <2>4 DEF IInv
<1>4. ASSUME ReadRefused PROVE IInv'
  <2>1. UNCHANGED <<script, entry, server, sent, headers, content, status, lost, scp,
                  processed, eof, current, size, n, stream, kept, local>>
    BY <1>4 DEF ReadRefused, remote, wire, libssh
  <2>2. TypeOK'
    BY <1>4, <2>1 DEF IInv, TypeOK, PcValue, ReadRefused
  <2>3. Protocol'
    BY <1>4, <2>1, SameHeaders DEF IInv, Protocol, ReadRefused
  <2>4. Progress'
    BY <1>4, <2>1, SameFile DEF IInv, Protocol, Progress, ReadRefused
  <2> QED
    BY <2>2, <2>3, <2>4 DEF IInv
<1>5. ASSUME Close PROVE IInv'
  <2>1. UNCHANGED <<script, entry, sent, lost, processed, eof, current, size, n, stream, kept,
                  local>>
        /\ (headers' = headers \/ headers' = <<>>)
    BY <1>5 DEF Close, wire
  <2>2. TypeOK'
    <3>1. /\ headers' \in Seq(1..Len(script)) /\ content' \in Seq(Byte)
          /\ status' \in {"none", "ok", "bad"}
      <4>1. <<>> \in Seq(1..Len(script)) /\ <<>> \in Seq(Byte)
        OBVIOUS
      <4>2. /\ headers \in Seq(1..Len(script)) /\ content \in Seq(Byte)
            /\ status \in {"none", "ok", "bad"}
        BY DEF IInv, TypeOK
      <4>3. \/ headers' = <<>> /\ content' = <<>> /\ status' = "none"
            \/ headers' = headers /\ content' = content /\ status' = status
        BY <1>5 DEF Close, wire
      <4> QED
        BY <4>1, <4>2, <4>3
    <3>2. scp' \in {scp, "new"} /\ server' \in {server, "ended"}
          /\ pc' \in {"finished", "failed"} /\ raised' \in {raised, "LibSSH::Error"}
      BY <1>5 DEF Close
    <3> QED
      BY <2>1, <3>1, <3>2 DEF IInv, TypeOK, PcValue
  <2>3. Protocol'
    BY <1>5, <2>1, SameHeaders DEF IInv, Protocol, Close, wire
  <2>4. Progress'
    BY <1>5, <2>1, SameFile DEF IInv, Protocol, Progress, Close, wire
  <2> QED
    BY <2>2, <2>3, <2>4 DEF IInv
<1>6. ASSUME SendEof PROVE IInv'
  <2>1. UNCHANGED <<script, entry, server, sent, headers, content, status, lost, scp, processed,
                  current, size, n, stream, kept, local>>
    BY <1>6 DEF SendEof, remote, wire
  <2>2. TypeOK'
    BY <1>6, <2>1 DEF IInv, TypeOK, PcValue, SendEof
  <2>3. Protocol'
    BY <1>6, <2>1, SameHeaders DEF IInv, Protocol, SendEof
  <2>4. Progress'
    BY <1>6, <2>1, SameFile DEF IInv, Protocol, Progress, SendEof
  <2> QED
    BY <2>2, <2>3, <2>4 DEF IInv
<1>7. ASSUME UNCHANGED vars PROVE IInv'
  BY <1>7, UnchangedInv DEF vars, IInv, TypeOK
<1> QED
  BY <1>1, <1>2, <1>3, <1>4, <1>5, <1>6, <1>7, PullRequestInv, AcceptRequestInv, OpenLocalInv,
     ReadInv, ReadEndsInv DEF Download, ReadNothing

LEMMA NextInv == IInv /\ [Next]_vars => IInv'
<1> SUFFICES ASSUME IInv, [Next]_vars PROVE IInv'
  OBVIOUS
<1>1. ASSUME ConnectionLost PROVE IInv'
  BY <1>1, UnchangedInv DEF ConnectionLost
<1> QED
  BY <1>1, UnchangedInv, ServerInv, DownloadInv DEF Next, Done, vars, IInv, TypeOK

\* The types of ScpDownload hold for any scripts, chunks and widths; in
\* particular n never passes size, although it counts characters.
THEOREM TypeCorrect == Spec => []TypeOK
<1>1. IInv => TypeOK
  BY DEF IInv
<1> QED
  BY InitInv, NextInv, <1>1, PTL DEF Spec

\* The local file as a part of its source, and as all of it.
Stored ==
    /\ current # 0 =>
          /\ Len(local) \in Nat /\ Len(local) <= Len(script[current].content)
          /\ local = SubSeq(script[current].content, 1, Len(local))
          /\ pc = "open" \/ (pc \in {"close", "drain", "finished"} /\ raised = "none")
                => local = script[current].content

LEMMA InvStored == IInv => Stored
<1> SUFFICES ASSUME IInv PROVE Stored
  OBVIOUS
<1>1. ASSUME current # 0
      PROVE  /\ Len(local) \in Nat /\ Len(local) <= Len(script[current].content)
             /\ local = SubSeq(script[current].content, 1, Len(local))
             /\ pc = "open" \/ (pc \in {"close", "drain", "finished"} /\ raised = "none")
                => local = script[current].content
  <2> DEFINE c == script[current].content
  <2>1. Len(script) \in Nat /\ current \in 1..Len(script)
    BY <1>1, ScriptsAssumption DEF IInv, TypeOK
  <2>2. c \in Seq(Byte) /\ Len(c) \in Nat /\ \A i \in 1..Len(c) : c[i] \in Byte
    BY <2>1, EntryContent DEF IInv, TypeOK
  <2>3. local \in Seq(Byte) /\ Len(local) \in Nat /\ Beginning
    BY <1>1 DEF IInv, Progress
  <2> HIDE DEF c
  <2>4. /\ SubSeq(c, 1, Len(local)) \in Seq(Byte)
        /\ Len(SubSeq(c, 1, Len(local))) = Len(local)
        /\ \A i \in 1..Len(local) : SubSeq(c, 1, Len(local))[i] = c[i]
    BY <2>2, <2>3 DEF Beginning, c
  <2>5. local = SubSeq(c, 1, Len(local))
    BY <2>3, <2>4, SeqEqual DEF Beginning, c
  <2>6. ASSUME pc = "open" \/ (pc \in {"close", "drain", "finished"} /\ raised = "none")
        PROVE  local = c
    <3>1. Len(local) = Len(c) /\ \A i \in 1..Len(local) : local[i] = c[i]
      BY <1>1, <2>6 DEF IInv, Progress, Whole, Beginning, c
    <3> QED
      BY <2>2, <2>3, <3>1, SeqEqual
  <2> QED
    BY <2>3, <2>5, <2>6 DEF c, Beginning
<1> QED
  BY <1>1 DEF Stored

\* download_file stores a beginning of one file, and when download! returns
\* normally it has stored all of it, whatever the server sends, wherever it
\* stops and however the bytes are cut into chunks.
THEOREM StoresNoPart == Spec => []NeverPartial
<1>1. IInv => NeverPartial
  BY InvStored DEF NeverPartial, Stored, IInv, Progress
<1> QED
  BY InitInv, NextInv, <1>1, PTL DEF Spec

-----------------------------------------------------------------------------
(* Why download! raises.                                                    *)

\* A two-byte character lies whole in the content.
Paired(c) == \E j \in 1..(Len(c) - 1) : c[j] = "L" /\ c[j + 1] = "C"

\* The server has a file it cannot send whole or the loop cannot count.
BadFile ==
    \E i \in 1..Len(script) :
       Kind(i) = "file" /\ (script[i].fate # "sent" \/ Unsupported(script[i].content))

Reason == lost \/ server = "refusing" \/ raised = "SystemCallError" \/ BadFile

\* What the server has done to the file that is asked for.
Fate ==
    /\ status = "bad" => script[entry].fate = "unreadable"
    /\ server = "ended" /\ ~eof /\ scp \in {"requested", "reading"} => script[entry].fate = "cut"
    /\ \A i \in 1..Len(headers) :
          server = "ended" /\ ~eof /\ Kind(headers[i]) # "warning" => script[entry].fate = "cut"

\* Where the read loop is in the file, and that it is one.
Loop ==
    /\ current # 0 => Kind(current) = "file"
    /\ pc \in {"accept_request", "open"} => Kind(entry) = "file"
    /\ pc = "read" => n = Len(local) \/ Paired(script[current].content)
    /\ pc = "read" /\ scp = "reading" =>
          script[current].content = <<>> \/ processed < Len(script[current].content)

\* An exception on its way has a reason, and so does one to come.
Blame ==
    /\ raised # "none" => Reason
    /\ pc = "failed" => raised # "none"
    /\ server = "refusing" => pc \in {"init", "failed"}
    /\ pc = "pull_request" => scp = "inited" \/ BadFile

\* A string without a two-byte character has as many characters as bytes.
LEMMA CharsWhole ==
    ASSUME NEW buf \in Seq(Byte), ~Paired(buf)
    PROVE  Chars(buf) = Len(buf)
<1>1. {i \in 1..(Len(buf) - 1) : buf[i] = "L" /\ buf[i + 1] = "C"} = {}
  BY DEF Paired
<1>2. Chars(buf) = Len(buf) - 0
  BY <1>1, FS_EmptySet DEF Chars
<1> QED
  BY <1>2, LenProperties

LEMMA InitReasons == Init => Fate /\ Loop /\ Blame
  BY DEF Init, Fate, Loop, Blame

\* A step that leaves the server's side alone.
LEMMA SameFate ==
    ASSUME Fate, UNCHANGED <<script, entry, server, headers, status>>, eof => eof',
           scp' \in {"requested", "reading"} => scp \in {"requested", "reading"}
    PROVE  Fate'
  BY SameHeaders DEF Fate

LEMMA ServerFate == ASSUME IInv, Fate, Server PROVE Fate'
<1>0. TypeOK /\ Protocol
  BY DEF IInv
<1>1. UNCHANGED <<script, scp, eof>>
  BY DEF Server, Offer, SendContent, SendStatus, ServerEnds, libssh
<1>2. CASE Offer
  <2>1. server = "offering" /\ server' # "ended" /\ status = "none" /\ status' = "none"
    BY <1>0, <1>2 DEF Offer, Protocol, TypeOK
  <2> QED
    BY <2>1 DEF Fate
<1>3. CASE SendContent
  BY <1>1, <1>3, SameFate DEF SendContent
<1>4. CASE SendStatus
  <2>1. /\ UNCHANGED <<entry, headers>> /\ server' = "confirming"
        /\ status' = "bad" => script[entry].fate = "unreadable"
    BY <1>4 DEF SendStatus
  <2> QED
    BY <1>1, <2>1 DEF Fate
<1>5. CASE ServerEnds
  <2>1. UNCHANGED <<entry, headers, status>>
    BY <1>5 DEF ServerEnds, wire
  <2>2. CASE server = "offering"
    <3>1. scp \notin {"requested", "reading"}
      BY <1>0, <2>2 DEF Protocol
    <3>2. \A i \in 1..Len(headers) : Kind(headers[i]) = "warning"
      BY <1>0, <2>2 DEF Protocol
    <3> QED
      BY <1>1, <2>1, <3>1, <3>2, SameHeaders DEF Fate
  <2>3. CASE script[entry].fate = "cut"
    BY <1>1, <2>1, <2>3 DEF Fate
  <2>4. CASE eof
    BY <1>1, <2>1, <2>4 DEF Fate
  <2> QED
    BY <1>5, <2>2, <2>3, <2>4 DEF ServerEnds
<1> QED
  BY <1>2, <1>3, <1>4, <1>5 DEF Server

LEMMA PullRequestFate == ASSUME IInv, Fate, PullRequest PROVE Fate'
<1>0. TypeOK /\ Protocol
  BY DEF IInv
<1>1. UNCHANGED <<script, entry, server, status, eof>>
  BY DEF PullRequest, remote
<1>2. CASE /\ headers # <<>> /\ headers' = Tail(headers)
           /\ scp' = IF Kind(Head(headers)) = "warning" THEN "inited" ELSE "requested"
  <2>1. /\ Len(headers) >= 1 /\ Len(headers) \in Nat /\ Head(headers) = headers[1]
        /\ Len(headers') = Len(headers) - 1
        /\ \A i \in 1..Len(headers') : headers'[i] = headers[i + 1]
    <3>1. headers \in Seq(1..Len(script))
      BY <1>0 DEF TypeOK
    <3> QED
      BY <1>2, <3>1, EmptySeq
  <2>2. scp' = "requested" /\ server = "ended" /\ ~eof => script[entry].fate = "cut"
    <3>1. 1 \in 1..Len(headers)
      BY <2>1
    <3>2. scp' = "requested" => Kind(headers[1]) # "warning"
      BY <1>2, <2>1
    <3> QED
      BY <3>1, <3>2 DEF Fate
  <2>3. ASSUME NEW i \in 1..Len(headers'), server = "ended", ~eof, Kind(headers'[i]) # "warning"
        PROVE  script[entry].fate = "cut"
    <3>1. i + 1 \in 1..Len(headers)
      BY <2>1
    <3>2. Kind(headers[i + 1]) # "warning"
      BY <2>1, <2>3
    <3> QED
      BY <2>3, <3>1, <3>2 DEF Fate
  <2>4. scp' \in {"inited", "requested"}
    BY <1>2
  <2>5. \A i \in 1..Len(headers') : Kind(headers[i])' = Kind(headers'[i])
    BY <1>1 DEF Kind
  <2> QED
    BY <1>1, <2>2, <2>3, <2>4, <2>5 DEF Fate
<1>3. CASE UNCHANGED headers /\ scp' \in {scp, "terminated"}
  BY <1>1, <1>3, SameFate
<1> QED
  BY <1>2, <1>3 DEF PullRequest

LEMMA DownloadFate == ASSUME IInv, Fate, Download PROVE Fate'
<1>0. TypeOK /\ Protocol
  BY DEF IInv
<1>1. CASE \/ ScpInit \/ OpenLocal \/ ReadFails \/ ReadRefused \/ ReadEnds \/ ReadNothing
           \/ SendEof
  BY <1>1, SameFate DEF ScpInit, OpenLocal, ReadFails, ReadRefused, ReadEnds, ReadNothing, SendEof,
                        vars, remote, wire, libssh
<1>2. CASE DenyRequest
  <2>1. headers = <<>> /\ UNCHANGED <<script, entry, headers, status, eof>>
        /\ (scp' = "inited" \/ UNCHANGED <<scp, server>>)
    BY <1>0, <1>2 DEF DenyRequest, Protocol, wire
  <2> QED
    BY <2>1 DEF Fate
<1>3. CASE AcceptRequest
  <2>1. /\ scp = "requested" /\ UNCHANGED <<script, entry, headers, status, eof>> /\ headers = <<>>
        /\ server' = "ended" => server = "ended"
    BY <1>0, <1>3 DEF AcceptRequest, Protocol, wire
  <2> QED
    BY <2>1 DEF Fate
<1>4. CASE Read
  <2>1. PICK k \in Limit : ReadSome(k) \/ ReadLast(k)
    BY <1>4 DEF Read
  <2>2. UNCHANGED <<script, headers, eof>> /\ scp = "reading" /\ pc = "read"
    BY <1>4 DEF Read
  <2>3. CASE ReadSome(k)
    BY <2>2, <2>3, SameFate DEF ReadSome
  <2>4. CASE ReadLast(k)
    <3>1. server = "confirming" /\ server' = "offering" /\ status' = "none"
      BY <1>0, <2>2, <2>4 DEF ReadLast, Protocol
    <3> QED
      BY <3>1 DEF Fate
  <2> QED
    BY <2>1, <2>3, <2>4
<1>5. CASE Close
  <2>1. CASE scp' = "new" /\ headers' = <<>> /\ status' = "none"
    BY <2>1 DEF Fate
  <2>2. CASE UNCHANGED <<scp, server, wire>>
    BY <1>5, <2>2, SameFate DEF Close, wire
  <2> QED
    BY <1>5, <2>1, <2>2 DEF Close
<1> QED
  BY <1>1, <1>2, <1>3, <1>4, <1>5, PullRequestFate DEF Download

\* A step that leaves the read loop where it is.
LEMMA SameLoop ==
    ASSUME Loop, UNCHANGED <<script, entry, current, n, local, processed>>,
           pc' \in {"accept_request", "open", "read"} => pc' = pc, scp' = "reading" => scp' = scp
    PROVE  Loop'
  BY DEF Loop, Kind, Paired

LEMMA ReadLoop == ASSUME IInv, Loop, Read PROVE Loop'
<1>0. TypeOK /\ Protocol /\ Progress
  BY DEF IInv
<1>1. PICK k \in Limit :
          /\ ReadSome(k) \/ ReadLast(k)
          /\ \/ Store(Chunk(k)) /\ n' = n + Count(Chunk(k)) /\ UNCHANGED <<pc, raised>>
             \/ Raise("SystemCallError") /\ UNCHANGED <<local, n>>
  BY DEF Read
<1>2. UNCHANGED <<script, current>> /\ pc = "read" /\ scp = "reading"
  BY DEF Read
<1>3. PICK c : c = script[current].content
  OBVIOUS
<1>4. /\ processed = Len(local) /\ processed \in Nat /\ local \in Seq(Byte)
      /\ content \in Seq(Byte) /\ current # 0
      /\ \A i \in 1..Len(content) : content[i] = c[processed + i]
      /\ processed + Len(content) <= Len(c)
  BY <1>0, <1>2, <1>3 DEF Progress, TypeOK, Wire
<1>5. k \in 1..Len(content) /\ k \in Nat /\ Len(content) \in Nat /\ Len(c) \in Nat
  <2>1. Len(script) \in Nat /\ current \in 1..Len(script)
    BY <1>0, <1>4, ScriptsAssumption DEF TypeOK
  <2> QED
    BY <1>0, <1>3, <1>4, <2>1, EntryContent DEF TypeOK, Limit
<1>6. /\ Chunk(k) \in Seq(Byte) /\ Len(Chunk(k)) = k
      /\ \A i \in 1..k : Chunk(k)[i] = content[i]
  BY <1>4, <1>5, CutContent
<1>7. pc' = "read" => n' = Len(local') \/ Paired(c)
  <2> SUFFICES ASSUME pc' = "read", ~Paired(c) PROVE n' = Len(local')
    OBVIOUS
  <2>1. local' = local \o Chunk(k) /\ n' = n + Count(Chunk(k))
    BY <1>1 DEF Raise, Goto, Store
  <2>2. ~Paired(Chunk(k))
    <3> SUFFICES ASSUME NEW j \in 1..(Len(Chunk(k)) - 1),
                        Chunk(k)[j] = "L", Chunk(k)[j + 1] = "C"
                 PROVE  FALSE
      BY DEF Paired
    <3>1. j \in 1..k /\ j + 1 \in 1..k /\ j \in 1..Len(content) /\ j + 1 \in 1..Len(content)
          /\ j \in Nat
      BY <1>5, <1>6
    <3>2. c[processed + j] = "L" /\ c[processed + (j + 1)] = "C"
      BY <1>4, <1>6, <3>1
    <3>3. processed + (j + 1) = processed + j + 1 /\ processed + j \in 1..(Len(c) - 1)
      <4>1. PICK l \in Nat, m \in Nat : l = Len(content) /\ m = Len(c)
        BY <1>5
      <4>2. j + 1 \in 1..l /\ j >= 1 /\ processed + l <= m
        BY <1>4, <3>1, <4>1
      <4>3. processed + j \in 1..(m - 1)
        BY <1>4, <3>1, <4>2
      <4> QED
        BY <1>4, <3>1, <4>1, <4>3
    <3> QED
      BY <3>2, <3>3 DEF Paired
  <2>3. Count(Chunk(k)) = k
    BY <1>6, <2>2, CharsWhole DEF Count
  <2>4. n = Len(local)
    BY <1>2, <1>3 DEF Loop
  <2>5. PICK b : b = Chunk(k)
    OBVIOUS
  <2>6. Len(local \o b) = Len(local) + Len(b)
    BY <1>4, <1>6, <2>5, ConcatProperties
  <2> QED
    BY <1>6, <2>1, <2>3, <2>4, <2>5, <2>6
<1>8. scp' = "reading" => processed' < Len(c)
  BY <1>1, <1>3 DEF ReadSome, ReadLast
<1>9. pc' \in {"read", "close"}
  BY <1>1, <1>2 DEF Raise, Goto
<1> QED
  BY <1>2, <1>3, <1>7, <1>8, <1>9 DEF Loop, Kind

LEMMA NextLoop == ASSUME IInv, Loop, Next PROVE Loop'
<1>0. TypeOK /\ Protocol /\ Progress
  BY DEF IInv
<1>1. CASE Server
  <2>1. CASE Offer
    <3>1. UNCHANGED <<script, current, n, stream, kept, local, processed, eof, pc, scp>>
      BY <2>1 DEF Offer, libssh, client
    <3>2. server = "offering"
      BY <2>1 DEF Offer
    <3>3. pc \notin {"accept_request", "open"}
      BY <1>0, <3>2 DEF Protocol
    <3> QED
      BY <3>1, <3>3 DEF Loop, Kind, Paired
  <2>2. CASE SendContent \/ SendStatus \/ ServerEnds
    BY <2>2, SameLoop DEF SendContent, SendStatus, ServerEnds, libssh, client
  <2> QED
    BY <1>1, <2>1, <2>2 DEF Server
<1>2. CASE ConnectionLost \/ Done \/ ReadNothing
  BY <1>2, SameLoop DEF ConnectionLost, Done, ReadNothing, vars, remote, libssh, client
<1>3. CASE \/ ScpInit \/ DenyRequest \/ ReadFails \/ ReadRefused \/ ReadEnds
           \/ SendEof \/ Close
  BY <1>3, SameLoop DEF ScpInit, DenyRequest, ReadFails, ReadRefused, ReadEnds, SendEof, Close,
                        Goto, Raise, remote, libssh
<1>4. CASE PullRequest
  <2>1. UNCHANGED <<script, entry, current, n, local, processed>> /\ pc = "pull_request"
    BY <1>4 DEF PullRequest, remote
  <2>2. CASE headers # <<>> /\ Answer(Kind(Head(headers)))
    <3>1. Len(headers) >= 1 /\ Head(headers) = headers[1] /\ 1 \in 1..Len(headers)
      <4>1. headers \in Seq(1..Len(script))
        BY <1>0 DEF TypeOK
      <4> QED
        BY <2>2, <4>1, EmptySeq
    <3>2. pc' = "accept_request" => Kind(Head(headers)) = "file"
      BY <2>2 DEF Answer, Goto
    <3>3. pc' \in {"accept_request", "deny_request", "pull_request"}
      BY <2>2 DEF Answer, Goto
    <3>4. Kind(headers[1]) = "file" => headers[1] = entry
      BY <1>0, <3>1 DEF Protocol
    <3> QED
      BY <2>1, <3>1, <3>2, <3>3, <3>4 DEF Loop, Kind
  <2>3. CASE pc' = "close"
    BY <2>1, <2>3 DEF Loop, Kind
  <2> QED
    BY <1>4, <2>2, <2>3 DEF PullRequest, Goto, Raise
<1>5. CASE AcceptRequest
  <2>1. UNCHANGED <<script, entry, current>> /\ pc = "accept_request" /\ pc' \in {"open", "close"}
    BY <1>5 DEF AcceptRequest, Goto, Raise
  <2> QED
    BY <2>1 DEF Loop, Kind
<1>6. CASE OpenLocal
  <2>1. UNCHANGED <<script, entry, n, processed, eof>> /\ pc = "open" /\ n = 0 /\ processed = 0
    BY <1>0, <1>6 DEF OpenLocal, remote, libssh, Progress
  <2>2. CASE local' = <<>> /\ current' = entry /\ pc' = "read"
    <3>1. Len(script) \in Nat /\ entry \in 1..Len(script)
      BY <1>0, <2>1, ScriptsAssumption DEF TypeOK, Protocol
    <3>2. script[entry].content \in Seq(Byte)
      BY <1>0, <3>1, EntryContent DEF TypeOK
    <3>3. script[entry].content = <<>> \/ 0 < Len(script[entry].content)
      BY <3>2, EmptySeq, LenProperties
    <3>4. Len(local') = 0
      BY <2>2
    <3> QED
      BY <2>1, <2>2, <3>3, <3>4 DEF Loop, Kind
  <2>3. CASE pc' = "close" /\ UNCHANGED <<kept, local, current>>
    BY <2>1, <2>3 DEF Loop, Kind
  <2> QED
    BY <1>6, <2>2, <2>3 DEF OpenLocal, Goto, Raise
<1> QED
  BY <1>1, <1>2, <1>3, <1>4, <1>5, <1>6, ReadLoop DEF Next, Download

\* A reason does not go away.
LEMMA SameReason ==
    ASSUME UNCHANGED <<script, raised>>, lost => lost', server = "refusing" => server' = "refusing"
    PROVE  (BadFile' <=> BadFile) /\ (Reason => Reason')
  BY DEF BadFile, Reason, Kind

\* The file that is being read is one of the server's.
LEMMA FileRead ==
    ASSUME IInv, Loop, pc = "read"
    PROVE  /\ current \in 1..Len(script) /\ Kind(current) = "file"
           /\ script[current].content \in Seq(Byte)
           /\ size = Len(script[current].content) /\ size \in Nat
<1>1. Len(script) \in Nat
  BY ScriptsAssumption DEF IInv, TypeOK
<1>2. current # 0 /\ size = Len(script[current].content)
  BY DEF IInv, Progress
<1>3. current \in 1..Len(script) /\ size \in Nat
  BY <1>1, <1>2 DEF IInv, TypeOK
<1>4. script[current].content \in Seq(Byte)
  BY <1>3, EntryContent DEF IInv, TypeOK
<1>5. Kind(current) = "file"
  BY <1>2 DEF Loop
<1> QED
  BY <1>2, <1>3, <1>4, <1>5

\* The three ways of libssh to fail a read: the connection, the verdict, and a
\* read after the last byte because n counts characters.
LEMMA ReadFailsReason == ASSUME IInv, Fate, Loop, ReadFails PROVE lost \/ BadFile
<1>0. TypeOK /\ Protocol /\ Progress
  BY DEF IInv
<1>1. pc = "read" /\ n < size
  BY DEF ReadFails
<1>2. /\ current \in 1..Len(script) /\ Kind(current) = "file"
      /\ script[current].content \in Seq(Byte) /\ size = Len(script[current].content)
      /\ size \in Nat
  BY <1>1, FileRead
<1>3. CASE BadEnd
  <2>1. scp = "reading" /\ current = entry /\ ~eof
    BY <1>0, <1>1, <1>3 DEF BadEnd, Progress, Protocol
  <2>2. script[entry].fate # "sent"
    BY <1>3, <2>1 DEF BadEnd, Fate
  <2> QED
    BY <1>2, <2>1, <2>2 DEF BadFile
<1>4. CASE scp # "reading"
  <2>1. Len(local) = Len(script[current].content)
    BY <1>0, <1>1, <1>2, <1>4 DEF Progress, Whole
  <2>2. n # Len(local)
    BY <1>0, <1>1, <1>2, <2>1 DEF TypeOK
  <2>3. Paired(script[current].content)
    BY <1>1, <2>2 DEF Loop
  <2>4. Unsupported(script[current].content)
    BY <2>3 DEF Paired, Unsupported
  <2> QED
    BY <1>2, <2>4 DEF BadFile
<1> QED
  BY <1>3, <1>4 DEF ReadFails

LEMMA ReadRefusedReason == ASSUME IInv, Loop, ReadRefused PROVE BadFile
<1>1. pc = "read" /\ size - n > IntMax /\ n \in Nat /\ IntMax \in Nat
  BY SizesAssumption DEF ReadRefused, IInv, TypeOK
<1>2. /\ current \in 1..Len(script) /\ Kind(current) = "file"
      /\ size = Len(script[current].content) /\ size \in Nat
  BY <1>1, FileRead
<1>3. size > IntMax
  BY <1>1, <1>2
<1> QED
  BY <1>2, <1>3 DEF BadFile, Unsupported

\* The loop has ended with libssh still in its reading state: no read was made.
LEMMA ReadEndsEmpty == ASSUME IInv, Loop, ReadEnds PROVE scp = "inited" \/ BadFile
<1>0. TypeOK /\ Protocol /\ Progress
  BY DEF IInv
<1>1. pc = "read" /\ n >= size
  BY DEF ReadEnds
<1>2. /\ current \in 1..Len(script) /\ Kind(current) = "file"
      /\ script[current].content \in Seq(Byte) /\ size = Len(script[current].content)
      /\ size \in Nat
  BY <1>1, FileRead
<1>3. CASE scp = "reading"
  <2>1. processed = Len(local) /\ n <= Len(local) /\ n \in Nat /\ processed \in Nat
    BY <1>0, <1>1, <1>3 DEF Progress, TypeOK
  <2>2. ~(processed < Len(script[current].content))
    BY <1>1, <1>2, <2>1
  <2>3. Unsupported(script[current].content)
    BY <1>1, <1>3, <2>2 DEF Loop, Unsupported
  <2> QED
    BY <1>2, <2>3 DEF BadFile
<1> QED
  BY <1>0, <1>1, <1>3 DEF Protocol

LEMMA NextBlame == ASSUME IInv, Fate, Loop, Blame, Next PROVE Blame'
<1>0. TypeOK /\ Protocol /\ Progress
  BY DEF IInv
<1>1. CASE Server \/ ConnectionLost
  <2>1. UNCHANGED <<script, raised, pc, scp>> /\ (lost => lost')
    BY <1>1 DEF Server, Offer, SendContent, SendStatus, ServerEnds, ConnectionLost, remote,
                libssh, client
  <2>2. UNCHANGED server \/ (server # "refusing" /\ server' # "refusing")
    BY <1>1 DEF Server, Offer, SendContent, SendStatus, ServerEnds, ConnectionLost, remote
  <2> QED
    BY <2>1, <2>2, SameReason DEF Blame
<1>2. CASE Done \/ ReadNothing
  BY <1>2, SameReason DEF Done, ReadNothing, vars, remote, libssh, client, Blame
<1>3. CASE ScpInit
  <2>1. UNCHANGED <<script, server, lost>> /\ pc = "init" /\ raised = "none"
    BY <1>0, <1>3 DEF ScpInit, remote, Progress
  <2>2. \/ pc' = "pull_request" /\ scp' = "inited" /\ raised' = "none" /\ server # "refusing"
        \/ pc' = "failed" /\ raised' = "LibSSH::Error" /\ (lost \/ server = "refusing")
    BY <1>3, <2>1 DEF ScpInit, Goto
  <2> QED
    BY <2>1, <2>2 DEF Blame, Reason
<1>4. CASE PullRequest
  <2>1. UNCHANGED <<script, server, lost>> /\ pc = "pull_request" /\ raised = "none"
    BY <1>0, <1>4 DEF PullRequest, remote, Progress
  <2>2. BadFile' <=> BadFile
    BY <2>1 DEF BadFile, Kind
  <2>3. CASE /\ scp' = IF Kind(Head(headers)) = "warning" THEN "inited" ELSE "requested"
             /\ Answer(Kind(Head(headers))) /\ UNCHANGED raised
    <3>1. Kind(Head(headers)) \in {"file", "dir", "warning"}
      <4>1. headers \in Seq(1..Len(script)) /\ headers # <<>>
        BY <1>0, <1>4, <2>1, <2>3 DEF TypeOK, PullRequest, Goto, Raise
      <4>2. Head(headers) \in 1..Len(script)
        BY <4>1
      <4>3. script[Head(headers)] \in Entry
        BY <1>0, <4>2, ScriptsAssumption DEF TypeOK
      <4> QED
        BY <4>3 DEF Kind, Entry
    <3>2. pc' \in {"accept_request", "deny_request"} \/ (pc' = "pull_request" /\ scp' = "inited")
      BY <2>3, <3>1 DEF Answer, Goto
    <3> QED
      BY <2>1, <2>3, <3>2 DEF Blame
  <2>4. CASE pc' = "close" /\ UNCHANGED raised
    BY <2>1, <2>4 DEF Blame
  <2>5. CASE (lost \/ scp # "inited") /\ Raise("LibSSH::Error")
    <3>1. lost \/ BadFile
      BY <2>1, <2>5 DEF Blame
    <3> QED
      BY <2>1, <2>2, <2>5, <3>1 DEF Blame, Reason, Raise, Goto
  <2> QED
    BY <1>4, <2>3, <2>4, <2>5 DEF PullRequest, Goto
<1>5. CASE DenyRequest \/ AcceptRequest
  <2>1. raised = "none" /\ server # "refusing"
    BY <1>0, <1>5 DEF DenyRequest, AcceptRequest, Progress, Blame
  <2>2. \/ pc' = "pull_request" /\ scp' = "inited" /\ raised' = raised
        \/ pc' = "open" /\ raised' = raised
        \/ pc' = "close" /\ lost /\ lost' /\ raised' = "LibSSH::Error"
    BY <1>5 DEF DenyRequest, AcceptRequest, Goto, Raise
  <2>3. server' # "refusing"
    BY <1>5, <2>1 DEF DenyRequest, AcceptRequest
  <2> QED
    BY <2>1, <2>2, <2>3 DEF Blame, Reason
<1>6. CASE OpenLocal \/ Read
  <2>1. raised = "none" /\ server # "refusing"
    BY <1>0, <1>6 DEF OpenLocal, Read, Progress, Blame
  <2>2. \/ pc' = "read" /\ raised' = raised
        \/ pc' = "close" /\ raised' = "SystemCallError"
    BY <1>6 DEF OpenLocal, Read, Goto, Raise
  <2>3. server' # "refusing"
    BY <1>6, <2>1 DEF OpenLocal, remote, Read, ReadSome, ReadLast
  <2> QED
    BY <2>1, <2>2, <2>3 DEF Blame, Reason
<1>7. CASE ReadFails \/ ReadRefused
  <2>1. /\ UNCHANGED <<script, server, lost>> /\ pc' = "close" /\ server # "refusing"
        /\ raised' \in {"LibSSH::Error", "RangeError"}
    BY <1>7 DEF ReadFails, ReadRefused, remote, Raise, Goto, Blame
  <2>2. BadFile' <=> BadFile
    BY <2>1 DEF BadFile, Kind
  <2> QED
    BY <1>7, <2>1, <2>2, ReadFailsReason, ReadRefusedReason DEF Blame, Reason
<1>8. CASE ReadEnds
  <2>1. /\ UNCHANGED <<script, server, lost, scp, raised>> /\ pc' = "pull_request"
        /\ server # "refusing" /\ raised = "none"
    BY <1>0, <1>8 DEF ReadEnds, remote, libssh, Goto, Blame, Progress
  <2>2. BadFile' <=> BadFile
    BY <2>1 DEF BadFile, Kind
  <2> QED
    BY <1>8, <2>1, <2>2, ReadEndsEmpty DEF Blame
<1>9. CASE SendEof \/ Close
  <2>1. UNCHANGED <<script, lost>> /\ server # "refusing"
    BY <1>9 DEF SendEof, Close, remote, Blame
  <2>2. \/ UNCHANGED <<server, raised>> /\ pc' = "drain"
        \/ server' = "ended" /\ UNCHANGED raised /\ pc' \in {"finished", "failed"}
           /\ (pc' = "failed" => raised # "none")
        \/ lost /\ raised' = "LibSSH::Error" /\ pc' = "failed" /\ UNCHANGED server
    BY <1>9 DEF SendEof, Close, remote, Goto
  <2>3. BadFile' <=> BadFile
    BY <2>1 DEF BadFile, Kind
  <2> QED
    BY <2>1, <2>2, <2>3 DEF Blame, Reason
<1> QED
  BY <1>1, <1>2, <1>3, <1>4, <1>5, <1>6, <1>7, <1>8, <1>9 DEF Next, Download

\* A step that does nothing, and the three parts together.
LEMMA NextReasons ==
    IInv /\ Fate /\ Loop /\ Blame /\ [Next]_vars => Fate' /\ Loop' /\ Blame'
<1> SUFFICES ASSUME IInv, Fate, Loop, Blame, [Next]_vars PROVE Fate' /\ Loop' /\ Blame'
  OBVIOUS
<1>1. CASE UNCHANGED vars
  <2>1. UNCHANGED <<script, entry, server, headers, status, lost, scp, processed, eof, pc, current,
                    n, stream, kept, local, raised>>
    BY <1>1 DEF vars, remote, wire, libssh, client
  <2> QED
    BY <2>1, SameFate, SameLoop, SameReason DEF Blame
<1>2. CASE ConnectionLost \/ Done
  <2>1. UNCHANGED <<script, entry, server, headers, status, scp, eof>>
    BY <1>2 DEF ConnectionLost, Done, vars, remote, wire, libssh
  <2>2. Fate'
    BY <2>1, SameFate
  <2> QED
    BY <1>2, <2>2, NextLoop, NextBlame DEF Next
<1>3. CASE Server
  BY <1>3, ServerFate, NextLoop, NextBlame DEF Next
<1>4. CASE Download
  BY <1>4, DownloadFate, NextLoop, NextBlame DEF Next
<1> QED
  BY <1>1, <1>2, <1>3, <1>4 DEF Next

\* download! raises only when the connection is lost, the server does not run
\* scp, the local file cannot be written, or the server has a file it cannot send
\* whole or the loop cannot count: whatever is sent, in whatever chunks.
THEOREM RaisesForAReason == Spec => []FailedForAReason
<1>1. Blame => FailedForAReason
  BY DEF Blame, Reason, BadFile, FailedForAReason
<1> QED
  BY InitInv, NextInv, InitReasons, NextReasons, <1>1, PTL DEF Spec

-----------------------------------------------------------------------------
(* download! implements FileCopy, step by step.                             *)

\* No file the server has been at is left out, and none is copied twice.
Reached == \A i \in 1..Len(script) : Kind(i) = "file" /\ i < entry => i <= current

Order ==
    /\ current <= entry /\ Reached
    /\ scp \in {"inited", "requested"} \/ pc \in {"init", "open"} => current < entry

AllCopied == \A i \in 1..Len(script) : Kind(i) = "file" => i <= current

\* What is to come while libssh waits for an announcement: the server ends only
\* behind its last entry, behind an announcement that is still to be read, or
\* because of the answer to a directory.
Announced ==
    /\ pc = "init" => server \in {"refusing", "offering"}
    /\ pc = "deny_request" => Kind(entry) = "dir"
    /\ server \in {"waiting", "ended"} /\ scp = "inited" /\ entry <= Len(script) =>
          Kind(entry) = "dir" \/ \E i \in 1..Len(headers) : Kind(headers[i]) # "warning"
    /\ pc \in {"close", "drain"} /\ raised = "none" => AllCopied \/ Skipped

LEMMA InitPlaces == Init => Order /\ Announced
<1> SUFFICES ASSUME Init PROVE Order /\ Announced
  OBVIOUS
<1>1. entry = 1 /\ current = 0 /\ scp = "new" /\ pc = "init" /\ server \in {"refusing", "offering"}
  BY DEF Init
<1>2. Reached
  <2>1. \A i \in 1..Len(script) : ~(i < 1)
    OBVIOUS
  <2> QED
    BY <1>1, <2>1 DEF Reached
<1> QED
  BY <1>1, <1>2 DEF Order, Announced

\* The places in the script are numbers.
LEMMA Places ==
    ASSUME TypeOK
    PROVE  /\ Len(script) \in Nat /\ entry \in Nat /\ current \in Nat
           /\ current <= Len(script) /\ entry >= 1
<1>1. Len(script) \in Nat
  BY ScriptsAssumption DEF TypeOK
<1> QED
  BY <1>1 DEF TypeOK

LEMMA SameOrder ==
    ASSUME Order, UNCHANGED <<script, entry, current>>,
           scp' \in {"inited", "requested"} => scp' = scp \/ current < entry,
           pc' \in {"init", "open"} => current < entry
    PROVE  Order'
  BY DEF Order, Reached, Kind

\* The next entry is at hand: the one before was passed, or is no file.
LEMMA NextEntry ==
    ASSUME TypeOK, Order, UNCHANGED <<script, current>>, entry' = entry + 1,
           Kind(entry) = "file" => current = entry
    PROVE  Order'
<1>1. entry \in Nat /\ current \in Nat /\ Len(script) \in Nat
  BY Places
<1>2. current' < entry'
  BY <1>1 DEF Order
<1>3. ASSUME NEW i \in 1..Len(script), Kind(i) = "file", i < entry + 1 PROVE i <= current
  <2>1. i < entry \/ i = entry
    BY <1>1, <1>3
  <2> QED
    BY <1>1, <1>3, <2>1 DEF Order, Reached
<1>4. Reached'
  BY <1>3 DEF Reached, Kind
<1> QED
  BY <1>1, <1>2, <1>4 DEF Order

LEMMA NextOrder == ASSUME IInv, Order, Next PROVE Order'
<1>0. TypeOK /\ Protocol /\ Progress
  BY DEF IInv
<1>1. CASE Offer
  <2>1. UNCHANGED <<script, current, scp, pc>>
    BY <1>1 DEF Offer, libssh, client
  <2>2. CASE entry' = entry + 1 /\ Kind(entry) = "warning"
    BY <1>0, <2>1, <2>2, NextEntry
  <2>3. CASE UNCHANGED entry
    BY <2>1, <2>3, SameOrder DEF Order
  <2> QED
    BY <1>1, <2>2, <2>3 DEF Offer
<1>2. CASE SendContent \/ SendStatus \/ ServerEnds \/ ConnectionLost \/ Done \/ ReadNothing
  <2>1. UNCHANGED <<script, entry, current, scp, pc>>
    BY <1>2 DEF SendContent, SendStatus, ServerEnds, ConnectionLost, Done, ReadNothing, vars,
                remote, libssh, client
  <2> QED
    BY <2>1 DEF Order, Reached, Kind
<1>3. CASE ScpInit \/ PullRequest \/ DenyRequest
  <2>1. /\ UNCHANGED <<script, entry, current>> /\ pc' \notin {"init", "open"}
        /\ scp' \in {"inited", "requested"} => current < entry
    <3>1. CASE ScpInit
      BY <3>1 DEF ScpInit, remote, Goto, Order
    <3>2. CASE PullRequest
      <4>1. UNCHANGED <<script, entry, current>>
        BY <3>2 DEF PullRequest, remote
      <4>2. pc' \notin {"init", "open"}
        <5>1. CASE Answer(Kind(Head(headers)))
          <6>1. pc' \in {"accept_request", "deny_request", "pull_request"}
            BY <5>1 DEF Answer, Goto
          <6> QED
            BY <6>1
        <5> QED
          BY <3>2, <5>1 DEF PullRequest, Goto, Raise
      <4>3. scp' \in {"inited", "requested"} => scp \in {"inited", "requested"}
        BY <3>2 DEF PullRequest
      <4> QED
        BY <4>1, <4>2, <4>3 DEF Order
    <3>3. CASE DenyRequest
      BY <1>0, <3>3 DEF DenyRequest, Goto, Raise, Order, Protocol
    <3> QED
      BY <1>3, <3>1, <3>2, <3>3
  <2> QED
    BY <2>1, SameOrder
<1>4. CASE AcceptRequest
  <2>1. /\ UNCHANGED <<script, entry, current>> /\ scp = "requested"
        /\ scp' = "reading" \/ scp' = scp
    BY <1>0, <1>4 DEF AcceptRequest, Protocol
  <2> QED
    BY <2>1, SameOrder DEF Order
<1>5. CASE OpenLocal
  <2>1. /\ UNCHANGED <<script, entry, scp>> /\ scp = "reading" /\ pc' \notin {"init", "open"}
        /\ current' = entry \/ current' = current
    BY <1>0, <1>5 DEF OpenLocal, remote, libssh, Protocol, Goto, Raise
  <2>2. current < entry
    BY <1>5 DEF OpenLocal, Order
  <2>3. Reached' /\ current' <= entry'
    BY <1>0, <2>1, <2>2, Places DEF Order, Reached, Kind
  <2> QED
    BY <2>1, <2>3 DEF Order
<1>6. CASE Read
  <2>1. PICK k \in Limit : ReadSome(k) \/ ReadLast(k)
    BY <1>6 DEF Read
  <2>2. UNCHANGED <<script, current>> /\ pc' \notin {"init", "open"} /\ current = entry
        /\ scp = "reading" /\ pc = "read"
    BY <1>0, <1>6 DEF Read, Goto, Raise, Progress
  <2>3. CASE ReadSome(k)
    BY <2>2, <2>3, SameOrder DEF ReadSome
  <2>4. CASE ReadLast(k)
    <3>1. entry' = entry + 1
      BY <1>0, <2>2, <2>4 DEF ReadLast, Protocol
    <3> QED
      BY <1>0, <2>2, <3>1, NextEntry
  <2> QED
    BY <2>1, <2>3, <2>4
<1>7. CASE ReadFails \/ ReadRefused \/ ReadEnds \/ SendEof \/ Close
  <2>1. /\ UNCHANGED <<script, entry, current>> /\ pc' \notin {"init", "open"}
        /\ scp' \in {"inited", "requested"} => scp' = scp
    BY <1>7 DEF ReadFails, ReadRefused, ReadEnds, SendEof, Close, Goto, Raise, remote, libssh
  <2> QED
    BY <2>1, SameOrder
<1> QED
  BY <1>1, <1>2, <1>3, <1>4, <1>5, <1>6, <1>7 DEF Next, Server, Download

LEMMA SameAnnounced ==
    ASSUME Announced, UNCHANGED <<script, entry, current, headers, raised>>,
           server' \in {"waiting", "ended"} /\ scp' = "inited" =>
               server \in {"waiting", "ended"} /\ scp = "inited",
           pc' \in {"init", "deny_request"} => pc' = pc /\ UNCHANGED server,
           pc' \in {"close", "drain"} => pc \in {"close", "drain"} \/ raised # "none"
    PROVE  Announced'
<1>1. /\ AllCopied' <=> AllCopied
      /\ Skipped' <=> Skipped
      /\ Kind(entry)' = Kind(entry)
      /\ \A i \in 1..Len(headers) : Kind(headers[i])' = Kind(headers[i])
  BY DEF AllCopied, Skipped, Kind
<1> QED
  BY <1>1 DEF Announced

\* Nothing is to come when libssh says that there is no more.
LEMMA NoMoreFiles ==
    ASSUME TypeOK, Order, Announced, scp = "inited", server = "ended", headers = <<>>
    PROVE  AllCopied \/ Skipped
<1>1. Len(script) \in Nat /\ entry \in Nat /\ current \in Nat /\ entry >= 1
  BY Places
<1>2. CASE entry > Len(script)
  <2>1. \A i \in 1..Len(script) : i < entry
    BY <1>1, <1>2
  <2> QED
    BY <2>1 DEF Order, Reached, AllCopied
<1>3. CASE entry <= Len(script)
  <2>1. \A i \in 1..Len(headers) : FALSE
    OBVIOUS
  <2>2. Kind(entry) = "dir" /\ entry \in 1..Len(script)
    BY <1>1, <1>3, <2>1 DEF Announced
  <2>3. ASSUME NEW i \in 1..Len(script), Kind(i) = "file", ~Skipped PROVE i <= current
    <3>1. i # entry
      BY <2>2, <2>3
    <3>2. ~(entry < i)
      BY <2>2, <2>3 DEF Skipped
    <3>3. i < entry
      BY <1>1, <3>1, <3>2
    <3> QED
      BY <2>3, <3>3 DEF Order, Reached
  <2> QED
    BY <2>3 DEF AllCopied
<1> QED
  BY <1>1, <1>2, <1>3

LEMMA PullRequestAnnounced ==
    ASSUME IInv, Order, Announced, PullRequest
    PROVE  Announced'
<1>0. TypeOK /\ Protocol /\ Progress
  BY DEF IInv
<1>1. UNCHANGED <<script, entry, server, current>> /\ pc = "pull_request" /\ raised = "none"
  BY <1>0 DEF PullRequest, remote, Progress
<1>2. CASE /\ scp = "inited" /\ headers # <<>> /\ headers' = Tail(headers)
           /\ scp' = IF Kind(Head(headers)) = "warning" THEN "inited" ELSE "requested"
           /\ Answer(Kind(Head(headers)))
  <2>1. /\ Len(headers) >= 1 /\ Len(headers) \in Nat /\ Head(headers) = headers[1]
        /\ 1 \in 1..Len(headers) /\ Len(headers') = Len(headers) - 1
        /\ \A i \in 1..Len(headers') : headers'[i] = headers[i + 1]
        /\ headers[1] \in 1..Len(script)
    <3>1. headers \in Seq(1..Len(script))
      BY <1>0 DEF TypeOK
    <3> QED
      BY <1>2, <3>1, EmptySeq
  <2>2. Kind(headers[1]) \in {"file", "dir", "warning"}
    <3>1. script[headers[1]] \in Entry
      BY <1>0, <2>1, ScriptsAssumption DEF TypeOK
    <3> QED
      BY <3>1 DEF Kind, Entry
  <2>3. /\ pc' \in {"accept_request", "deny_request", "pull_request"}
        /\ pc' = "deny_request" => Kind(headers[1]) = "dir"
        /\ scp' = "inited" => Kind(headers[1]) = "warning"
    BY <1>2, <2>1, <2>2 DEF Answer, Goto
  <2>4. pc' = "deny_request" => Kind(entry) = "dir"
    <3>1. Kind(headers[1]) = "dir" => headers[1] = entry
      BY <1>0, <2>1 DEF Protocol
    <3> QED
      BY <2>3, <3>1
  <2>5. ASSUME server \in {"waiting", "ended"}, scp' = "inited", entry <= Len(script),
               Kind(entry) # "dir"
        PROVE  \E i \in 1..Len(headers') : Kind(headers'[i]) # "warning"
    <3>1. PICK i \in 1..Len(headers) : Kind(headers[i]) # "warning"
      BY <1>2, <2>5 DEF Announced
    <3>2. i # 1
      BY <2>3, <2>5, <3>1
    <3>3. PICK j \in 1..Len(headers') : j + 1 = i
      <4>1. i - 1 \in 1..Len(headers') /\ (i - 1) + 1 = i
        BY <2>1, <3>2
      <4> QED
        BY <4>1
    <3>4. headers'[j] = headers[i]
      BY <2>1, <3>3
    <3> QED
      BY <3>1, <3>4
  <2>6. Kind(entry)' = Kind(entry) /\ \A i \in 1..Len(headers') : Kind(headers[i])' = Kind(headers'[i])
    BY <1>1 DEF Kind
  <2> QED
    BY <1>1, <2>3, <2>4, <2>5, <2>6 DEF Announced
<1>3. CASE scp = "inited" /\ headers = <<>> /\ server = "ended" /\ scp' = "terminated"
           /\ pc' = "close"
  <2>1. (AllCopied' <=> AllCopied) /\ (Skipped' <=> Skipped)
    BY <1>1 DEF AllCopied, Skipped, Kind
  <2> QED
    BY <1>0, <1>3, <2>1, NoMoreFiles DEF Announced
<1>4. CASE Raise("LibSSH::Error") /\ UNCHANGED <<headers, scp>>
  <2>1. pc' = "close" /\ raised' = "LibSSH::Error"
    BY <1>4 DEF Raise, Goto
  <2>2. Kind(entry)' = Kind(entry) /\ \A i \in 1..Len(headers) : Kind(headers[i])' = Kind(headers[i])
    BY <1>1, <1>4 DEF Kind
  <2> QED
    BY <1>1, <1>4, <2>1, <2>2 DEF Announced
<1> QED
  BY <1>2, <1>3, <1>4 DEF PullRequest, Goto

LEMMA NextAnnounced == ASSUME IInv, Order, Announced, Next PROVE Announced'
<1>0. TypeOK /\ Protocol /\ Progress
  BY DEF IInv
<1>1. CASE Offer
  <2>1. /\ UNCHANGED <<script, current, raised, pc, scp>> /\ server = "offering" /\ scp # "new"
        /\ headers' = Append(headers, entry) /\ entry <= Len(script)
    BY <1>1 DEF Offer, libssh, client
  <2>2. (AllCopied' <=> AllCopied) /\ (Skipped' <=> Skipped)
    BY <2>1 DEF AllCopied, Skipped, Kind
  <2>3. pc \notin {"init", "deny_request"}
    BY <1>0, <2>1 DEF Protocol
  <2>4. server' \in {"waiting", "ended"} =>
            entry' = entry /\ \E i \in 1..Len(headers') : Kind(headers'[i]) # "warning"
    <3>1. server' \in {"waiting", "ended"} => entry' = entry /\ Kind(entry) # "warning"
      BY <1>1, <2>1 DEF Offer
    <3>2. Len(headers') \in 1..Len(headers') /\ headers'[Len(headers')] = entry
      <4>1. headers \in Seq(1..Len(script)) /\ entry \in 1..Len(script)
        BY <1>0, <2>1, Places DEF TypeOK
      <4>2. /\ Len(headers') = Len(headers) + 1 /\ headers'[Len(headers) + 1] = entry
            /\ Len(headers) \in Nat
        BY <2>1, <4>1, AppendProperties, LenProperties
      <4> QED
        BY <4>2
    <3> QED
      BY <3>1, <3>2
  <2>5. \A i \in 1..Len(headers') : Kind(headers[i])' = Kind(headers'[i])
    BY <2>1 DEF Kind
  <2> QED
    BY <2>1, <2>2, <2>3, <2>4, <2>5 DEF Announced
<1>2. CASE ServerEnds
  <2>1. /\ UNCHANGED <<script, entry, current, headers, raised, pc, scp>> /\ scp # "new"
        /\ server' = "ended"
    BY <1>2 DEF ServerEnds, wire, libssh, client
  <2>2. pc # "init"
    BY <1>0, <2>1 DEF Protocol
  <2>3. CASE server = "offering" /\ entry > Len(script)
    <3>1. ~(entry <= Len(script))
      BY <1>0, <2>3, Places
    <3>2. pc # "deny_request"
      BY <1>0, <2>3 DEF Protocol
    <3>3. (AllCopied' <=> AllCopied) /\ (Skipped' <=> Skipped)
      BY <2>1 DEF AllCopied, Skipped, Kind
    <3> QED
      BY <2>1, <2>2, <3>1, <3>2, <3>3 DEF Announced
  <2>4. CASE server \in {"waiting", "sending", "confirming"}
    <3>1. server \in {"sending", "confirming"} => scp # "inited"
      BY <1>0 DEF Protocol
    <3>2. /\ (AllCopied' <=> AllCopied) /\ (Skipped' <=> Skipped)
          /\ Kind(entry)' = Kind(entry)
          /\ \A i \in 1..Len(headers) : Kind(headers[i])' = Kind(headers[i])
      BY <2>1 DEF AllCopied, Skipped, Kind
    <3> QED
      BY <2>1, <2>2, <2>4, <3>1, <3>2 DEF Announced
  <2> QED
    BY <1>2, <2>3, <2>4 DEF ServerEnds
<1>3. CASE SendContent \/ SendStatus \/ ConnectionLost \/ Done \/ ReadNothing
  <2>1. /\ UNCHANGED <<script, entry, current, headers, raised, scp, pc>>
        /\ UNCHANGED server \/ (server' = "confirming" /\ server = "sending")
    BY <1>3 DEF SendContent, SendStatus, ConnectionLost, Done, ReadNothing, vars, remote, wire,
                libssh, client
  <2>2. server = "sending" => pc \notin {"init", "deny_request"}
    BY <1>0 DEF Protocol, Announced
  <2> QED
    BY <2>1, <2>2, SameAnnounced
<1>4. CASE ScpInit
  <2>1. /\ UNCHANGED <<script, entry, current, headers, server>> /\ pc = "init"
        /\ server \notin {"waiting", "ended"}
    BY <1>4 DEF ScpInit, remote, wire, Announced
  <2>2. pc' \in {"pull_request", "failed"}
    BY <1>4 DEF ScpInit, Goto
  <2> QED
    BY <2>1, <2>2 DEF Announced
<1>5. CASE DenyRequest
  <2>1. /\ UNCHANGED <<script, entry, current, headers>> /\ Kind(entry) = "dir"
        /\ scp = "requested"
        /\ \/ pc' = "pull_request"
           \/ pc' = "close" /\ raised' = "LibSSH::Error" /\ UNCHANGED scp
    BY <1>0, <1>5 DEF DenyRequest, wire, Goto, Raise, Announced, Protocol
  <2>2. Kind(entry)' = "dir"
    BY <2>1 DEF Kind
  <2> QED
    BY <2>1, <2>2 DEF Announced
<1>6. CASE AcceptRequest \/ OpenLocal
  <2>1. /\ scp' \in {"reading", "requested"} /\ pc' \in {"open", "read", "close"}
        /\ pc' = "close" => raised' # "none"
    BY <1>0, <1>6 DEF AcceptRequest, OpenLocal, libssh, Goto, Raise, Protocol
  <2> QED
    BY <2>1 DEF Announced
<1>7. CASE Read
  <2>1. PICK k \in Limit : ReadSome(k) \/ ReadLast(k)
    BY <1>7 DEF Read
  <2>2. /\ pc' \in {"read", "close"} /\ (pc' = "close" => raised' # "none")
        /\ scp = "reading" /\ pc = "read"
    BY <1>7 DEF Read, Goto, Raise
  <2>3. scp' = "reading" \/ server' = "offering"
    BY <1>0, <2>1, <2>2 DEF ReadSome, ReadLast, Protocol
  <2> QED
    BY <2>2, <2>3 DEF Announced
<1>8. CASE ReadFails \/ ReadRefused
  <2>1. /\ pc' = "close" /\ raised' # "none"
        /\ scp' = "error" \/ UNCHANGED <<script, entry, server, headers, scp>>
    BY <1>8 DEF ReadFails, ReadRefused, Goto, Raise, remote, wire, libssh
  <2>2. UNCHANGED <<script, entry, headers>> =>
            /\ Kind(entry)' = Kind(entry)
            /\ \A i \in 1..Len(headers) : Kind(headers[i])' = Kind(headers[i])
    BY DEF Kind
  <2> QED
    BY <2>1, <2>2 DEF Announced
<1>9. CASE ReadEnds
  <2>1. UNCHANGED <<script, entry, current, headers, raised, server, scp>> /\ pc' = "pull_request"
    BY <1>9 DEF ReadEnds, remote, wire, libssh, Goto
  <2> QED
    BY <2>1, SameAnnounced
<1>10. CASE Close
  <2>1. /\ pc' \in {"finished", "failed"}
        /\ scp' = "new" \/ UNCHANGED <<script, entry, server, headers, scp>>
    BY <1>10 DEF Close, Goto, wire
  <2>2. UNCHANGED <<script, entry, headers>> =>
            /\ Kind(entry)' = Kind(entry)
            /\ \A i \in 1..Len(headers) : Kind(headers[i])' = Kind(headers[i])
    BY DEF Kind
  <2> QED
    BY <2>1, <2>2 DEF Announced
<1>11. CASE SendEof
  <2>1. /\ UNCHANGED <<script, entry, current, headers, server, scp>> /\ pc = "close"
        /\ \/ pc' = "drain" /\ UNCHANGED raised
           \/ pc' = "failed"
    BY <1>11 DEF SendEof, remote, wire, Goto
  <2>2. /\ (AllCopied' <=> AllCopied) /\ (Skipped' <=> Skipped)
        /\ Kind(entry)' = Kind(entry)
        /\ \A i \in 1..Len(headers) : Kind(headers[i])' = Kind(headers[i])
    BY <2>1 DEF AllCopied, Skipped, Kind
  <2> QED
    BY <2>1, <2>2 DEF Announced
<1> QED
  BY <1>1, <1>2, <1>3, <1>4, <1>5, <1>6, <1>7, <1>8, <1>9, <1>10, <1>11, PullRequestAnnounced
  DEF Next, Server, Download

LEMMA NextPlaces == IInv /\ Order /\ Announced /\ [Next]_vars => Order' /\ Announced'
<1> SUFFICES ASSUME IInv, Order, Announced, [Next]_vars PROVE Order' /\ Announced'
  OBVIOUS
<1>1. CASE UNCHANGED vars
  <2>1. UNCHANGED <<script, entry, current, headers, raised, server, scp, pc>>
    BY <1>1 DEF vars, remote, wire, libssh, client
  <2>2. Order'
    BY <2>1 DEF Order, Reached, Kind
  <2> QED
    BY <2>1, <2>2, SameAnnounced
<1>2. CASE Next
  BY <1>2, NextOrder, NextAnnounced
<1> QED
  BY <1>1, <1>2

\* What FileCopy sees of download!.
Files == {j \in 1..Len(script) : Kind(j) = "file"}
Sources == [i \in Files |-> script[i].content]
Terminal == {"finished", "failed"}
Outcome == IF pc = "finished" /\ Skipped THEN "failed" ELSE IF pc \in Terminal THEN pc ELSE "running"

LEMMA SameSources ==
    ASSUME UNCHANGED script
    PROVE  Sources' = Sources /\ (Skipped' <=> Skipped)
  BY DEF Sources, Files, Skipped, Kind

\* Nothing the copy depends on changes.
LEMMA Stutters ==
    ASSUME UNCHANGED <<script, current, stream, kept, local>>,
           pc' = pc \/ (pc \notin Terminal /\ pc' \notin Terminal)
    PROVE  UNCHANGED Copy!cvars
<1>1. Sources' = Sources /\ Outcome' = Outcome
  BY SameSources DEF Outcome, Terminal
<1> QED
  BY <1>1 DEF Copy!cvars, Sources, Files, Outcome, Terminal

\* The call is under way before and after.
LEMMA UnderWay ==
    ASSUME pc \notin Terminal, pc' \notin Terminal
    PROVE  Outcome = "running" /\ Outcome' = "running"
  BY DEF Outcome, Terminal

LEMMA OpenLocalStep ==
    ASSUME IInv, Order, Loop, Stored, OpenLocal
    PROVE  [Copy!CNext]_Copy!cvars
<1>1. /\ UNCHANGED script /\ pc = "open" /\ pc' \in {"read", "close"}
      /\ UNCHANGED stream
      /\ \/ /\ kept' = IF stream /\ current # 0 THEN kept \o local ELSE <<>>
            /\ local' = <<>> /\ current' = entry
         \/ UNCHANGED <<kept, local, current>>
  BY DEF OpenLocal, remote, Goto, Raise
<1>2. pc \notin Terminal /\ pc' \notin Terminal
  BY <1>1 DEF Terminal
<1>3. Outcome = "running" /\ Outcome' = "running"
  BY <1>2, UnderWay
<1>4. CASE /\ kept' = IF stream /\ current # 0 THEN kept \o local ELSE <<>>
           /\ local' = <<>> /\ current' = entry
  <2>1. entry \in Files /\ Len(script) \in Nat /\ current < entry
    BY <1>1, Places DEF IInv, Protocol, Loop, Order, Files
  <2>2. \A j \in Files : j < entry => j <= current
    BY DEF Order, Reached, Files
  <2>3. DOMAIN Sources = Files /\ Sources' = Sources
    BY <1>1, SameSources DEF Sources
  <2>4. \E i \in DOMAIN Sources :
           /\ current < i
           /\ \A j \in DOMAIN Sources : j < i => j <= current
           /\ current' = i
    BY <1>4, <2>1, <2>2, <2>3
  <2>6. current > 0 => local = Sources[current]
    <3>1. current > 0 => current \in Files
      BY Places DEF IInv, Loop, Files
    <3>2. current > 0 => local = script[current].content
      BY <1>1, Places DEF IInv, Stored
    <3> QED
      BY <3>1, <3>2 DEF Sources
  <2>7. kept' = IF stream /\ current > 0 THEN kept \o local ELSE <<>>
    BY <1>4, Places DEF IInv
  <2>5. Copy!CopyNext
    BY <1>1, <1>3, <1>4, <2>3, <2>4, <2>6, <2>7
    DEF Copy!CopyNext, Sources, Files, Outcome, Terminal
  <2> QED
    BY <2>5 DEF Copy!CNext
<1>5. CASE UNCHANGED <<kept, local, current>>
  BY <1>1, <1>2, <1>5, Stutters
<1> QED
  BY <1>1, <1>4, <1>5

LEMMA ReadStep ==
    ASSUME IInv, Loop, Stored', Read
    PROVE  [Copy!CNext]_Copy!cvars
<1>0. TypeOK /\ Protocol /\ Progress
  BY DEF IInv
<1>1. PICK k \in Limit : Store(Chunk(k)) \/ UNCHANGED local
  BY DEF Read
<1>2. /\ UNCHANGED <<script, current, stream, kept>> /\ pc = "read" /\ pc' \in {"read", "close"}
      /\ current # 0
  BY <1>0 DEF Read, Goto, Raise, Progress
<1>3. pc \notin Terminal /\ pc' \notin Terminal
  BY <1>2 DEF Terminal
<1>4. Outcome = "running" /\ Outcome' = "running"
  BY <1>3, UnderWay
<1>5. CASE Store(Chunk(k))
  <2>1. local \in Seq(Byte) /\ content \in Seq(Byte) /\ k \in 1..Len(content)
    BY <1>0, <1>2, SizesAssumption DEF TypeOK, Progress, Limit
  <2>2. Chunk(k) \in Seq(Byte) /\ Len(Chunk(k)) = k
    BY <2>1, CutContent
  <2>3. Len(local') = Len(local) + k /\ Len(local) \in Nat /\ k \in Nat /\ k >= 1
    <3>1. PICK buf \in Seq(Byte) : buf = Chunk(k)
      BY <2>2
    <3>2. Len(local \o buf) = Len(local) + Len(buf)
      BY <2>1
    <3> QED
      BY <1>5, <2>1, <2>2, <3>1, <3>2, LenProperties DEF Store
  <2>4. current \in Files /\ current > 0
    BY <1>0, <1>2, Places DEF Loop, Files, TypeOK
  <2>5. Sources' = Sources /\ Sources[current] = script[current].content
    BY <1>2, <2>4, SameSources DEF Sources
  <2>6. Len(local') <= Len(Sources[current]) /\ local' = SubSeq(Sources[current], 1, Len(local'))
    BY <1>2, <2>5 DEF Stored
  <2>7. Len(Sources[current]) \in Nat
    BY <1>0, <1>2, <2>5, EntryContent, Places DEF TypeOK
  <2>8. PICK m : m = Len(local')
    OBVIOUS
  <2>9. m \in (Len(local) + 1)..Len(Sources[current]) /\ local' = SubSeq(Sources[current], 1, m)
    BY <2>3, <2>6, <2>7, <2>8
  <2>10. Copy!CopyMore
    BY <1>2, <1>4, <2>4, <2>5, <2>9 DEF Copy!CopyMore, Sources, Files, Outcome, Terminal
  <2> QED
    BY <2>10 DEF Copy!CNext
<1>6. CASE UNCHANGED local
  BY <1>2, <1>3, <1>6, Stutters
<1> QED
  BY <1>1, <1>5, <1>6

\* A normal return comes when the copy is complete, or it skipped files.
LEMMA EndStep ==
    ASSUME TypeOK, Stored, Announced, Loop, ScpInit \/ SendEof \/ Close
    PROVE  [Copy!CNext]_Copy!cvars
<1>1. UNCHANGED <<script, current, stream, kept, local>> /\ pc \in {"init", "close", "drain"}
  BY DEF ScpInit, SendEof, Close, remote
<1>2. CASE pc' \notin Terminal
  BY <1>1, <1>2, Stutters DEF Terminal
<1>3. CASE pc' \in Terminal
  <2>1. Outcome = "running"
    BY <1>1 DEF Outcome, Terminal
  <2>2. PICK o \in {"finished", "failed"} : o = Outcome'
    BY <1>3 DEF Outcome, Terminal
  <2>3. Sources' = Sources /\ (Skipped' <=> Skipped)
    BY <1>1, SameSources
  <2>4. o = "finished" => pc = "drain" /\ raised = "none" /\ ~Skipped
    BY <2>2, <2>3 DEF Outcome, Terminal, ScpInit, SendEof, Close, Goto
  <2>5. o = "finished" =>
           /\ \A i \in DOMAIN Sources : i <= current
           /\ current > 0 => local = script[current].content
    BY <2>4 DEF Announced, AllCopied, Sources, Files, Stored
  <2>6. o = "finished" /\ current > 0 => local = Sources[current]
    <3>1. current > 0 => current \in Files
      BY Places DEF TypeOK, Loop, Files
    <3> QED
      BY <2>5, <3>1 DEF Sources
  <2>7. Copy!Conclude(o)
    BY <1>1, <2>1, <2>2, <2>3, <2>5, <2>6 DEF Copy!Conclude, Sources, Files, Outcome, Terminal
  <2> QED
    BY <2>7 DEF Copy!CNext
<1> QED
  BY <1>2, <1>3

\* The steps that store nothing and end nothing.
LEMMA OtherStep ==
    ASSUME \/ Server \/ ConnectionLost
           \/ PullRequest \/ DenyRequest \/ AcceptRequest
           \/ ReadNothing \/ ReadFails \/ ReadRefused \/ ReadEnds \/ Done
    PROVE  UNCHANGED Copy!cvars
<1>1. CASE Server \/ ConnectionLost \/ ReadNothing \/ Done
  <2>1. UNCHANGED <<script, current, stream, kept, local, pc>>
    BY <1>1 DEF Server, Offer, SendContent, SendStatus, ServerEnds, ConnectionLost, ReadNothing,
                Done, vars, remote, client
  <2> QED
    BY <2>1, Stutters
<1>2. CASE PullRequest
  <2>1. UNCHANGED <<script, current, stream, kept, local>> /\ pc = "pull_request"
    BY <1>2 DEF PullRequest, remote
  <2>2. pc' \notin Terminal
    <3>1. Answer(Kind(Head(headers))) => pc' \in {"accept_request", "deny_request", "pull_request"}
      BY DEF Answer, Goto
    <3> QED
      BY <1>2, <3>1 DEF PullRequest, Goto, Raise, Terminal
  <2> QED
    BY <2>1, <2>2, Stutters DEF Terminal
<1>3. CASE DenyRequest \/ AcceptRequest \/ ReadFails \/ ReadRefused \/ ReadEnds
  <2>1. /\ UNCHANGED <<script, current, stream, kept, local>>
        /\ pc \notin Terminal /\ pc' \notin Terminal
    BY <1>3 DEF DenyRequest, AcceptRequest, ReadFails, ReadRefused, ReadEnds, Goto, Raise,
                remote, Terminal
  <2> QED
    BY <2>1, Stutters
<1> QED
  BY <1>1, <1>2, <1>3

LEMMA NextStep ==
    ASSUME IInv, Order, Announced, Loop, Stored, Stored', [Next]_vars
    PROVE  [Copy!CNext]_Copy!cvars
<1>1. CASE UNCHANGED vars
  BY <1>1, Stutters DEF vars, remote, client
<1>2. CASE Next
  BY <1>2, OpenLocalStep, ReadStep, EndStep, OtherStep DEF Next, Download, IInv
<1> QED
  BY <1>1, <1>2

LEMMA InitStep == Init => Copy!CInit
  BY DEF Init, Copy!CInit

\* Every step of download! and of what happens around it is a step of the copy
\* it promises, or none: the files come in the order of the server's, none is
\* left out, each grows as a prefix of its source, and a normal return comes
\* when the last one is complete, or when a directory made the remote scp end.
THEOREM CopiesSafely == Spec => CopiesFile
<1>1. IInv /\ Order /\ Announced /\ Loop /\ Stored /\ Stored' /\ [Next]_vars
      => [Copy!CNext]_Copy!cvars
  BY NextStep
<1>2. Spec => Copy!CInit /\ [][Copy!CNext]_Copy!cvars
  BY InitInv, NextInv, InitReasons, NextReasons, InitPlaces, NextPlaces, InvStored, InitStep,
     <1>1, PTL DEF Spec
<1> QED
  BY <1>2 DEF CopiesFile, Copy!CSpec
=============================================================================
