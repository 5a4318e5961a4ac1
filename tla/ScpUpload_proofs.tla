--------------------------- MODULE ScpUpload_proofs ---------------------------
(* Proofs about ScpUpload, for any lengths, chunks and faults.                *)
EXTENDS TLAPS, SequenceTheorems, ScpUpload

\* How many bytes are stored, and how many are on the way.
Stored   == Len(remote)
OnTheWay == Len(net)

\* Where upload! is, and what that says of libssh and the server.
Stage ==
    /\ pc \in {"open", "init", "push_file"} =>
          /\ processed = 0 /\ net = <<>> /\ remote = NoFile /\ pos = start
          /\ ~eof /\ raised = "none" /\ server # "storing"
    /\ pc = "write" =>
          /\ remote # NoFile /\ raised = "none" /\ ~eof
          /\ scp \in {"writing", "inited"}
          /\ scp = "writing" => pos = start + processed
          /\ scp = "inited" => processed = original
    /\ pc \in {"send_eof", "drain", "finished"} /\ raised = "none" =>
          remote # NoFile /\ (len < start + original \/ processed = original)
    /\ pc = "finished" => raised = "none" /\ server = "ended" /\ ~lost
    /\ pc = "failed" => lost \/ server # "storing"
    /\ eof => pc \in {"drain", "finished", "failed"}
    /\ lost => net = <<>>
    /\ server = "ended" => net = <<>> /\ (eof \/ lost)
    /\ remote = NoFile => net = <<>> /\ server # "storing"

\* The stored bytes, then those on the way, are the file from where the IO
\* object stood, unless the server has given up storing.
Contents ==
    remote # NoFile =>
        /\ Stored + OnTheWay <= processed
        /\ \A i \in 1..Stored : remote[i] = start + i
        /\ reply # "bad" => \A i \in 1..OnTheWay : net[i] = start + Stored + i
        /\ reply # "bad" /\ ~lost => Stored + OnTheWay = processed

IInv == TypeOK /\ Stage /\ Contents

LEMMA Sizes ==
    ASSUME TypeOK
    PROVE  /\ MaxLen \in Nat /\ BUFSIZ \in Nat
           /\ original \in Nat /\ original <= MaxLen /\ len \in Nat /\ len <= MaxLen
           /\ pos \in Nat /\ pos <= MaxLen /\ start \in Nat /\ start <= original
           /\ processed \in Nat /\ processed <= original
           /\ net \in Seq(1..MaxLen) /\ OnTheWay \in Nat
           /\ remote # NoFile => remote \in Seq(1..MaxLen) /\ Stored \in Nat
<1>1. MaxLen \in Nat /\ BUFSIZ \in Nat
  BY SizesAssumption
<1>2. /\ original \in 0..MaxLen /\ len \in 0..MaxLen /\ pos \in 0..MaxLen
      /\ start \in 0..original /\ processed \in 0..original
  BY DEF TypeOK
<1>3. net \in Seq(1..MaxLen) /\ (remote # NoFile => remote \in Seq(1..MaxLen))
  BY DEF TypeOK
<1>4. OnTheWay \in Nat /\ (remote # NoFile => Stored \in Nat)
  BY <1>3, LenProperties DEF OnTheWay, Stored
<1> QED
  BY <1>1, <1>2, <1>3, <1>4

\* What upload! reads of the file: bytes p + 1 to p + k, of which s are sent.
LEMMA ReadBytes ==
    ASSUME NEW p \in Nat, NEW k \in Nat, NEW s \in Nat, s <= k, NEW m \in Nat, p + k <= m
    PROVE  /\ SubSeq(SubSeq(Content(p + k), p + 1, p + k), 1, s) \in Seq(1..m)
           /\ Len(SubSeq(SubSeq(Content(p + k), p + 1, p + k), 1, s)) = s
           /\ \A i \in 1..s : SubSeq(SubSeq(Content(p + k), p + 1, p + k), 1, s)[i] = p + i
<1> DEFINE chunk == SubSeq(Content(p + k), p + 1, p + k)
           front == SubSeq(chunk, 1, s)
<1>1. chunk \in Seq(1..m) /\ Len(chunk) = k /\ \A i \in 1..k : chunk[i] = p + i
  <2>1. p + 1 \in Int /\ p + k \in Int
    OBVIOUS
  <2>2. \A i \in (p + 1)..(p + k) : Content(p + k)[i] \in 1..m
    BY DEF Content
  <2>3. /\ chunk \in Seq(1..m) /\ Len(chunk) = IF p + 1 <= p + k THEN p + k - (p + 1) + 1 ELSE 0
        /\ \A i \in 1..(p + k - (p + 1) + 1) : chunk[i] = Content(p + k)[p + 1 + i - 1]
    BY <2>1, <2>2, SubSeqProperties
  <2>4. (IF p + 1 <= p + k THEN p + k - (p + 1) + 1 ELSE 0) = k
    OBVIOUS
  <2>5. ASSUME NEW i \in 1..k PROVE chunk[i] = p + i
    <3>1. i \in 1..(p + k - (p + 1) + 1) /\ p + 1 + i - 1 = p + i /\ p + i \in 1..(p + k)
      OBVIOUS
    <3>2. chunk[i] = Content(p + k)[p + i]
      BY <2>3, <3>1
    <3> QED
      BY <3>1, <3>2 DEF Content
  <2> QED
    BY <2>3, <2>4, <2>5
<1> HIDE DEF chunk
<1>2. front \in Seq(1..m) /\ Len(front) = s /\ \A i \in 1..s : front[i] = chunk[i]
  <2>1. 1 \in Int /\ s \in Int /\ \A i \in 1..s : chunk[i] \in 1..m
    <3>1. \A i \in 1..s : i \in 1..Len(chunk)
      BY <1>1
    <3> QED
      BY <1>1, <3>1, ElementOfSeq
  <2>2. /\ front \in Seq(1..m) /\ Len(front) = IF 1 <= s THEN s - 1 + 1 ELSE 0
        /\ \A i \in 1..(s - 1 + 1) : front[i] = chunk[1 + i - 1]
    BY <2>1, SubSeqProperties
  <2>3. ASSUME NEW i \in 1..s PROVE i \in 1..(s - 1 + 1) /\ 1 + i - 1 = i
    OBVIOUS
  <2>4. (IF 1 <= s THEN s - 1 + 1 ELSE 0) = s
    OBVIOUS
  <2> QED
    BY <2>2, <2>3, <2>4
<1>3. \A i \in 1..s : i \in 1..k
  OBVIOUS
<1> QED
  BY <1>1, <1>2, <1>3 DEF chunk

\* Bytes b go behind the bytes a.
Appends(S, a, b) ==
    /\ a \o b \in Seq(S) /\ Len(a \o b) = Len(a) + Len(b)
    /\ \A i \in 1..Len(a) : (a \o b)[i] = a[i]
    /\ \A i \in 1..Len(b) : (a \o b)[Len(a) + i] = b[i]

\* Concatenation keeps both parts in place.
LEMMA Behind ==
    ASSUME NEW S, NEW a \in Seq(S), NEW b \in Seq(S)
    PROVE  Appends(S, a, b)
<1>1. Len(a) \in Nat /\ Len(b) \in Nat
  BY LenProperties
<1>2. /\ a \o b \in Seq(S) /\ Len(a \o b) = Len(a) + Len(b)
      /\ \A i \in 1..(Len(a) + Len(b)) :
             (a \o b)[i] = IF i <= Len(a) THEN a[i] ELSE b[i - Len(a)]
  BY ConcatProperties
<1>3. ASSUME NEW i \in 1..Len(a) PROVE (a \o b)[i] = a[i]
  <2>1. i \in 1..(Len(a) + Len(b)) /\ i <= Len(a)
    BY <1>1
  <2> QED
    BY <1>2, <2>1
<1>4. ASSUME NEW i \in 1..Len(b) PROVE (a \o b)[Len(a) + i] = b[i]
  <2>1. Len(a) + i \in 1..(Len(a) + Len(b)) /\ ~(Len(a) + i <= Len(a)) /\ Len(a) + i - Len(a) = i
    BY <1>1
  <2>2. (a \o b)[Len(a) + i] = b[Len(a) + i - Len(a)]
    BY <1>2, <2>1
  <2> QED
    BY <2>1, <2>2
<1> QED
  BY <1>2, <1>3, <1>4 DEF Appends

\* The first byte of a non-empty sequence and what is behind it.
LEMMA FirstByte ==
    ASSUME NEW S, NEW q \in Seq(S), q # <<>>
    PROVE  /\ Tail(q) \in Seq(S) /\ Head(q) = q[1] /\ Head(q) \in S
           /\ Len(q) >= 1 /\ Len(Tail(q)) = Len(q) - 1
           /\ \A i \in 1..(Len(q) - 1) : Tail(q)[i] = q[i + 1]
<1>1. Len(q) \in Nat /\ Len(q) # 0
  BY LenProperties, EmptySeq
<1>2. Tail(q) \in Seq(S) /\ Len(Tail(q)) = Len(q) - 1
  BY HeadTailProperties
<1>3. Head(q) = q[1] /\ Head(q) \in S
  BY HeadTailProperties
<1>4. \A i \in 1..Len(Tail(q)) : Tail(q)[i] = q[i + 1]
  BY HeadTailProperties
<1>5. Len(q) >= 1
  BY <1>1
<1> QED
  BY <1>2, <1>3, <1>4, <1>5

\* A file on the server is not the absence of one.
LEMMA IsFile == ASSUME NEW q \in Seq(1..MaxLen) PROVE q # NoFile
<1>1. MaxLen \in Nat
  BY SizesAssumption
<1>2. Len(q) \in Nat /\ \A i \in 1..Len(q) : q[i] \in 1..MaxLen
  BY LenProperties, ElementOfSeq
<1>3. \A i \in 1..Len(q) : q[i] \in Nat
  BY <1>1, <1>2
<1>4. q = [i \in 1..Len(q) |-> q[i]]
  BY LenProperties
<1>5. q \in Seq(Nat)
  BY <1>2, <1>3, <1>4, IsASeq
<1> QED
  BY <1>5, NoFileAssumption

\* s more bytes are sent, and are on the way.
LEMMA MoreSent ==
    ASSUME NEW a \in Nat, NEW b \in Nat, NEW c \in Nat, NEW s \in Nat
    PROVE  /\ a + b <= c => a + (b + s) <= c + s /\ a + b <= c + s
           /\ a + b = c => a + (b + s) = c + s
  OBVIOUS

LEMMA InitInv == Init => IInv
<1> SUFFICES ASSUME Init PROVE IInv
  OBVIOUS
<1>1. TypeOK
  <2>1. MaxLen \in Nat
    BY SizesAssumption
  <2>2. original \in 0..MaxLen /\ start \in 0..original
    BY <2>1 DEF Init
  <2>3. start \in 0..MaxLen
    BY <2>1, <2>2
  <2>4. 0 \in 0..original
    BY <2>1, <2>2
  <2>5. <<>> \in Seq(1..MaxLen)
    OBVIOUS
  <2>6. {original, len, pos} \subseteq 0..MaxLen /\ start \in 0..original
    BY <2>2, <2>3 DEF Init
  <2>7. processed \in 0..original /\ net \in Seq(1..MaxLen) /\ remote = NoFile
    BY <2>4, <2>5 DEF Init
  <2>8. /\ pc = "open" /\ raised = "none" /\ scp = "new" /\ eof = FALSE /\ lost = FALSE
        /\ server \in {"refusing", "ready"} /\ reply = "none"
    BY DEF Init
  <2> QED
    BY <2>6, <2>7, <2>8 DEF TypeOK, PcValue
<1>2. Stage
  BY DEF Init, Stage
<1>3. Contents
  BY DEF Init, Contents
<1> QED
  BY <1>1, <1>2, <1>3 DEF IInv

\* A step that leaves the bytes alone, and does not undo a loss.
LEMMA SameContents ==
    ASSUME Contents, UNCHANGED <<remote, net, processed, start, reply>>, lost => lost'
    PROVE  Contents'
  BY DEF Contents, Stored, OnTheWay

-----------------------------------------------------------------------------
(* The file, the connection, the server.                                    *)

LEMMA FileInv == ASSUME IInv, Grow \/ Shrink PROVE IInv'
<1>1. /\ UNCHANGED <<original, start, client, libssh, net, lost, sink>> /\ pc = "write"
      /\ len' \in 0..MaxLen
  <2>1. len \in 0..MaxLen /\ MaxLen \in Nat
    BY SizesAssumption DEF IInv, TypeOK
  <2>2. CASE Grow
    BY <2>1, <2>2 DEF Grow
  <2>3. CASE Shrink
    BY <2>1, <2>3 DEF Shrink
  <2> QED
    BY <2>2, <2>3
<1>2. TypeOK'
  BY <1>1 DEF IInv, TypeOK, client, libssh, sink
<1>3. Stage'
  BY <1>1 DEF IInv, Stage, client, libssh, sink
<1>4. Contents'
  BY <1>1, SameContents DEF IInv, client, libssh, sink
<1> QED
  BY <1>2, <1>3, <1>4 DEF IInv

LEMMA ConnectionLostInv == ASSUME IInv, ConnectionLost PROVE IInv'
<1>1. /\ UNCHANGED <<original, len, start, pos, pc, raised, scp, processed, eof,
                     server, reply, remote>>
      /\ lost' = TRUE /\ net' = <<>> /\ pc \notin {"finished", "failed"} /\ ~lost
  BY DEF ConnectionLost, file, client, libssh, sink
<1>2. TypeOK'
  BY <1>1 DEF IInv, TypeOK
<1>3. Stage'
  BY <1>1 DEF IInv, Stage
<1>4. Contents'
  <2>1. OnTheWay' = 0
    BY <1>1 DEF OnTheWay
  <2>2. remote # NoFile => Stored + OnTheWay <= processed /\ Stored \in Nat /\ OnTheWay \in Nat
                           /\ processed \in Nat
    BY Sizes DEF IInv, Contents
  <2>3. remote # NoFile => Stored + 0 <= processed
    BY <2>2
  <2>4. Stored' = Stored
    BY <1>1 DEF Stored
  <2> QED
    BY <1>1, <2>1, <2>3, <2>4 DEF IInv, Contents
<1> QED
  BY <1>2, <1>3, <1>4 DEF IInv

LEMMA StoreByteInv == ASSUME IInv, StoreByte PROVE IInv'
<1>0. TypeOK /\ Stage /\ Contents
  BY DEF IInv
<1>1. /\ UNCHANGED <<original, len, start, pos, pc, raised, scp, processed, eof, lost, server>>
      /\ server = "storing" /\ net # <<>> /\ net' = Tail(net) /\ remote # NoFile /\ ~lost
  BY <1>0 DEF StoreByte, file, client, libssh, Stage
<1>2. /\ net \in Seq(1..MaxLen) /\ OnTheWay \in Nat /\ Stored \in Nat /\ processed \in Nat
      /\ remote \in Seq(1..MaxLen) /\ start \in Nat
  BY <1>0, <1>1, Sizes
<1>3. /\ net' \in Seq(1..MaxLen) /\ Head(net) = net[1] /\ Head(net) \in 1..MaxLen
      /\ OnTheWay >= 1 /\ OnTheWay' = OnTheWay - 1
      /\ \A i \in 1..(OnTheWay - 1) : net'[i] = net[i + 1]
  <2>1. /\ Tail(net) \in Seq(1..MaxLen) /\ Head(net) = net[1] /\ Head(net) \in 1..MaxLen
        /\ Len(net) >= 1 /\ Len(Tail(net)) = Len(net) - 1
        /\ \A i \in 1..(Len(net) - 1) : Tail(net)[i] = net[i + 1]
    BY <1>1, <1>2, FirstByte
  <2> QED
    BY <1>1, <2>1 DEF OnTheWay
<1>4. CASE reply # "bad" /\ remote' = Append(remote, Head(net))
           /\ reply' = IF Len(remote) + 1 = original THEN "ok" ELSE reply
  <2>1. /\ remote' \in Seq(1..MaxLen) /\ Stored' = Stored + 1 /\ remote' # NoFile
        /\ \A i \in 1..Stored : remote'[i] = remote[i]
        /\ remote'[Stored + 1] = net[1]
    <3>1. /\ remote' \in Seq(1..MaxLen) /\ Len(remote') = Len(remote) + 1
          /\ \A i \in 1..Len(remote) : remote'[i] = remote[i]
          /\ remote'[Len(remote) + 1] = Head(net)
      BY <1>2, <1>3, <1>4, AppendProperties
    <3>2. remote' # NoFile
      BY <3>1, IsFile
    <3> QED
      BY <1>3, <3>1, <3>2 DEF Stored
  <2>2. reply' \in {"none", "ok"}
    BY <1>0, <1>4 DEF TypeOK
  <2>3. TypeOK'
    BY <1>0, <1>1, <1>3, <2>1, <2>2 DEF TypeOK
  <2>4. Stage'
    BY <1>0, <1>1, <2>1 DEF Stage
  <2>5. Stored + OnTheWay = processed
    BY <1>0, <1>1, <1>4 DEF Contents
  <2>6. Stored' + OnTheWay' = processed'
    BY <1>1, <1>2, <1>3, <2>1, <2>5
  <2>7. ASSUME NEW i \in 1..Stored' PROVE remote'[i] = start' + i
    <3>1. CASE i \in 1..Stored
      BY <1>0, <1>1, <2>1, <3>1 DEF Contents
    <3>2. CASE i = Stored + 1
      <4>1. 1 \in 1..OnTheWay
        BY <1>2, <1>3
      <4>2. net[1] = start + Stored + 1
        BY <1>0, <1>1, <1>4, <4>1 DEF Contents
      <4>3. start + Stored + 1 = start + i
        BY <1>2, <3>2
      <4> QED
        BY <1>1, <2>1, <3>2, <4>2, <4>3
    <3>3. i \in 1..Stored \/ i = Stored + 1
      BY <1>2, <2>1
    <3> QED
      BY <3>1, <3>2, <3>3
  <2>8. ASSUME NEW i \in 1..OnTheWay' PROVE net'[i] = start' + Stored' + i
    <3>1. i + 1 \in 1..OnTheWay /\ i \in 1..(OnTheWay - 1)
      BY <1>2, <1>3
    <3>2. net[i + 1] = start + Stored + (i + 1)
      BY <1>0, <1>1, <1>4, <3>1 DEF Contents
    <3>3. start + Stored + (i + 1) = start + (Stored + 1) + i
      BY <1>2
    <3> QED
      BY <1>1, <1>3, <2>1, <3>1, <3>2, <3>3
  <2>9. Stored' + OnTheWay' <= processed'
    BY <1>1, <1>2, <2>6
  <2>10. Contents'
    BY <2>6, <2>7, <2>8, <2>9 DEF Contents
  <2> QED
    BY <2>3, <2>4, <2>10 DEF IInv
<1>5. CASE reply' = "bad" /\ UNCHANGED remote
  <2>1. TypeOK'
    BY <1>0, <1>1, <1>3, <1>5 DEF TypeOK
  <2>2. Stage'
    BY <1>0, <1>1, <1>5 DEF Stage
  <2>3. Stored' = Stored
    BY <1>5 DEF Stored
  <2>4. Stored + OnTheWay <= processed
    BY <1>0, <1>1 DEF Contents
  <2>5. Stored' + OnTheWay' <= processed'
    BY <1>1, <1>2, <1>3, <2>3, <2>4
  <2>6. Contents'
    BY <1>0, <1>1, <1>5, <2>3, <2>5 DEF Contents
  <2> QED
    BY <2>1, <2>2, <2>6 DEF IInv
<1> QED
  BY <1>4, <1>5 DEF StoreByte

LEMMA ServerEndsInv == ASSUME IInv, ServerEnds PROVE IInv'
<1>1. /\ UNCHANGED <<original, len, start, pos, pc, raised, scp, processed, eof, net, lost,
                     reply, remote>>
      /\ server' = "ended" /\ net = <<>> /\ (eof \/ lost) /\ server \in {"ready", "storing"}
  BY DEF ServerEnds, file, client, libssh
<1>2. TypeOK' /\ Stage'
  BY <1>1 DEF IInv, TypeOK, Stage
<1>3. Contents'
  BY <1>1, SameContents DEF IInv
<1> QED
  BY <1>2, <1>3 DEF IInv

-----------------------------------------------------------------------------
(* upload!                                                                  *)

\* The steps that move no bytes.
LEMMA QuietInv ==
    ASSUME IInv, OpenLocal \/ ScpInit \/ EndOfFile \/ SendEof \/ Drain
    PROVE  IInv'
<1>0. TypeOK /\ Stage /\ Contents
  BY DEF IInv
<1>1. UNCHANGED <<original, len, start, pos, processed, net, lost, server, reply, remote>>
  BY DEF OpenLocal, ScpInit, EndOfFile, SendEof, Drain, file, libssh, sink
<1>2. Contents'
  BY <1>0, <1>1, SameContents
<1>3. CASE OpenLocal
  BY <1>0, <1>1, <1>2, <1>3
  DEF OpenLocal, Goto, libssh, IInv, TypeOK, PcValue, Stage
<1>4. CASE ScpInit
  BY <1>0, <1>1, <1>2, <1>4 DEF ScpInit, Goto, IInv, TypeOK, PcValue, Stage
<1>5. CASE EndOfFile
  <2>1. /\ pc = "write" /\ pos >= len /\ pc' = "send_eof" /\ UNCHANGED <<raised, scp, eof>>
    BY <1>5 DEF EndOfFile, Goto, libssh
  <2>2. len < start + original \/ processed = original
    <3>1. scp = "writing" => pos = start + processed
      BY <1>0, <2>1 DEF Stage
    <3>2. scp # "writing" => processed = original
      BY <1>0, <2>1 DEF Stage
    <3>3. scp = "writing" /\ len >= start + original => processed = original
      BY <1>0, <2>1, <3>1, Sizes
    <3>4. len < start + original \/ len >= start + original
      BY <1>0, Sizes
    <3> QED
      BY <3>2, <3>3, <3>4
  <2>3. TypeOK'
    BY <1>0, <1>1, <2>1 DEF TypeOK, PcValue
  <2>4. Stage'
    BY <1>0, <1>1, <2>1, <2>2 DEF Stage
  <2> QED
    BY <1>2, <2>3, <2>4 DEF IInv
<1>6. CASE SendEof
  <2>1. /\ pc = "send_eof" /\ UNCHANGED scp
        /\ \/ ~lost /\ eof' = TRUE /\ pc' = "drain" /\ UNCHANGED raised
           \/ lost /\ raised' = "LibSSH::Error" /\ pc' = "failed" /\ UNCHANGED eof
    BY <1>6 DEF SendEof, Goto
  <2>2. TypeOK'
    BY <1>0, <1>1, <2>1 DEF TypeOK, PcValue
  <2>3. Stage'
    BY <1>0, <1>1, <2>1 DEF Stage
  <2> QED
    BY <1>2, <2>2, <2>3 DEF IInv
<1>7. CASE Drain
  BY <1>0, <1>1, <1>2, <1>7 DEF Drain, Goto, libssh, IInv, TypeOK, PcValue, Stage
<1> QED
  BY <1>3, <1>4, <1>5, <1>6, <1>7

LEMMA PushFileInv == ASSUME IInv, PushFile PROVE IInv'
<1>0. TypeOK /\ Stage /\ Contents
  BY DEF IInv
<1>1. /\ UNCHANGED <<original, len, start, pos, eof, net, lost>>
      /\ pc = "push_file" /\ processed = 0 /\ net = <<>> /\ remote = NoFile /\ pos = start
      /\ ~eof /\ raised = "none" /\ server # "storing"
  BY <1>0 DEF PushFile, file, Stage
<1>2. CASE ~lost /\ server = "ready" /\ scp' = "writing" /\ processed' = 0
           /\ server' = "storing" /\ remote' = <<>> /\ pc' = "write" /\ UNCHANGED <<raised, reply>>
  <2>1. remote' # NoFile /\ remote' \in Seq(1..MaxLen)
    <3>1. <<>> \in Seq(Nat) /\ <<>> \in Seq(1..MaxLen)
      OBVIOUS
    <3> QED
      BY <1>2, <3>1, NoFileAssumption
  <2>2. start + 0 = start
    BY <1>0, Sizes
  <2>3. 0 \in 0..original
    BY <1>0, Sizes
  <2>4. TypeOK'
    BY <1>0, <1>1, <1>2, <2>1, <2>3 DEF TypeOK, PcValue
  <2>5. Stage'
    BY <1>0, <1>1, <1>2, <2>1, <2>2 DEF Stage
  <2>6. Contents'
    <3>1. Stored' = 0 /\ OnTheWay' = 0
      BY <1>1, <1>2 DEF Stored, OnTheWay
    <3> QED
      BY <1>2, <3>1 DEF Contents
  <2> QED
    BY <2>4, <2>5, <2>6 DEF IInv
<1>3. CASE /\ scp' = "error" /\ reply' \in {reply, "bad"} /\ raised' = "LibSSH::Error"
           /\ pc' = "send_eof" /\ UNCHANGED <<processed, server, remote>>
  BY <1>0, <1>1, <1>3 DEF IInv, TypeOK, PcValue, Stage, Contents
<1> QED
  BY <1>2, <1>3 DEF PushFile, Raise, Goto

LEMMA WriteInv == ASSUME IInv, Write PROVE IInv'
<1>0. TypeOK /\ Stage /\ Contents
  BY DEF IInv
<1>1. /\ UNCHANGED <<original, len, start, eof, lost, server, reply, remote>>
      /\ pc = "write" /\ remote # NoFile /\ ~eof /\ raised = "none"
  BY <1>0 DEF Write, file, sink, Stage
<1>2. PICK k \in 1..BUFSIZ :
          /\ k <= len - pos
          /\ pos' = pos + k
          /\ \/ /\ scp = "writing"
                /\ processed' = processed + Sent(k)
                /\ scp' = IF processed' = original THEN "inited" ELSE scp
                /\ net' = IF lost THEN net ELSE net \o SubSeq(Buffer(k), 1, Sent(k))
                /\ UNCHANGED <<pc, raised>>
             \/ /\ scp # "writing" \/ lost \/ reply = "bad"
                /\ scp' = "error"
                /\ Raise("LibSSH::Error")
                /\ UNCHANGED <<processed, net>>
             \/ /\ Raise("SystemCallError")
                /\ UNCHANGED <<scp, processed, net>>
  BY DEF Write
<1>3. /\ MaxLen \in Nat /\ BUFSIZ \in Nat /\ len \in Nat /\ len <= MaxLen
      /\ pos \in Nat /\ processed \in Nat /\ original \in Nat /\ processed <= original
      /\ start \in Nat /\ net \in Seq(1..MaxLen) /\ OnTheWay \in Nat /\ Stored \in Nat
  BY <1>0, <1>1, Sizes
<1>4. k \in Nat /\ pos + k <= MaxLen /\ pos' \in 0..MaxLen
  BY <1>2, <1>3
<1>5. CASE /\ scp = "writing"
           /\ processed' = processed + Sent(k)
           /\ scp' = IF processed' = original THEN "inited" ELSE scp
           /\ net' = IF lost THEN net ELSE net \o SubSeq(Buffer(k), 1, Sent(k))
           /\ UNCHANGED <<pc, raised>>
  <2>1. PICK s \in Nat : /\ s = Sent(k) /\ s <= k
                         /\ processed + s <= original
                         /\ s = k \/ processed + s = original
    <3>1. CASE processed + k > original
      BY <1>3, <1>4, <3>1 DEF Sent
    <3>2. CASE ~(processed + k > original)
      BY <1>3, <1>4, <3>2 DEF Sent
    <3> QED
      BY <3>1, <3>2
  <2>2. PICK b : b = SubSeq(Buffer(k), 1, s)
    OBVIOUS
  <2>3. b \in Seq(1..MaxLen) /\ Len(b) = s /\ \A i \in 1..s : b[i] = pos + i
    <3>1. PICK p \in Nat : p = pos
      BY <1>3
    <3>2. p + k <= MaxLen /\ s <= k /\ MaxLen \in Nat /\ k \in Nat /\ s \in Nat
      BY <1>3, <1>4, <2>1, <3>1
    <3>3. b = SubSeq(SubSeq(Content(p + k), p + 1, p + k), 1, s)
      BY <2>2, <3>1 DEF Buffer
    <3>4. /\ SubSeq(SubSeq(Content(p + k), p + 1, p + k), 1, s) \in Seq(1..MaxLen)
          /\ Len(SubSeq(SubSeq(Content(p + k), p + 1, p + k), 1, s)) = s
          /\ \A i \in 1..s : SubSeq(SubSeq(Content(p + k), p + 1, p + k), 1, s)[i] = p + i
      BY <3>2, ReadBytes
    <3> QED
      BY <3>1, <3>3, <3>4
  <2>4. processed' = processed + s /\ net' = IF lost THEN net ELSE net \o b
    BY <1>5, <2>1, <2>2
  <2>5. net \o b \in Seq(1..MaxLen) /\ Len(net \o b) = OnTheWay + s
        /\ (\A i \in 1..OnTheWay : (net \o b)[i] = net[i])
        /\ (\A i \in 1..s : (net \o b)[OnTheWay + i] = b[i])
    <3>1. /\ net \o b \in Seq(1..MaxLen) /\ Len(net \o b) = Len(net) + Len(b)
          /\ \A i \in 1..Len(net) : (net \o b)[i] = net[i]
          /\ \A i \in 1..Len(b) : (net \o b)[Len(net) + i] = b[i]
      <4>1. net \in Seq(1..MaxLen) /\ b \in Seq(1..MaxLen)
        BY <1>3, <2>3
      <4>2. Appends(1..MaxLen, net, b)
        BY <4>1, Behind
      <4> QED
        BY <4>2 DEF Appends
    <3>2. Len(b) = s
      BY <2>3
    <3> QED
      BY <3>1, <3>2 DEF OnTheWay
  <2>6. pos = start + processed
    BY <1>0, <1>1, <1>5 DEF Stage
  <2>7. TypeOK'
    <3>1. processed' \in 0..original
      BY <1>3, <2>1, <2>4
    <3>4. net' \in Seq(1..MaxLen)
      <4>1. CASE lost
        BY <1>3, <2>4, <4>1
      <4>2. CASE ~lost
        BY <2>4, <2>5, <4>2
      <4> QED
        BY <4>1, <4>2
    <3>2. scp' \in {"new", "inited", "writing", "error"}
      BY <1>5
    <3> QED
      BY <1>0, <1>1, <1>4, <1>5, <3>1, <3>2, <3>4 DEF TypeOK
  <2>8. Stage'
    <3>1. scp' = "writing" => pos' = start + processed'
      <4>1. scp' = "writing" => processed' # original
        BY <1>5
      <4>2. scp' = "writing" => s = k
        BY <2>1, <2>4, <4>1
      <4>3. pos + k = start + (processed + k)
        BY <1>3, <1>4, <2>6
      <4> QED
        BY <1>2, <2>4, <4>2, <4>3
    <3>2. scp' \in {"writing", "inited"} /\ (scp' = "inited" => processed' = original)
      BY <1>5
    <3>3. server # "ended" \/ lost
      BY <1>0, <1>1 DEF Stage
    <3>4. lost => net' = <<>>
      BY <1>0, <2>4 DEF Stage
    <3> QED
      BY <1>0, <1>1, <1>5, <3>1, <3>2, <3>3, <3>4 DEF Stage
  <2>9. Contents'
    <3>1. Stored' = Stored
      BY <1>1 DEF Stored
    <3>2. CASE lost
      <4>1. OnTheWay' = OnTheWay /\ net' = net
        BY <2>4, <3>2 DEF OnTheWay
      <4>2. Stored + OnTheWay <= processed
        BY <1>0, <1>1 DEF Contents
      <4>3. Stored' + OnTheWay' <= processed'
        BY <1>3, <2>1, <2>4, <3>1, <4>1, <4>2, MoreSent
      <4> QED
        BY <1>0, <1>1, <3>1, <3>2, <4>1, <4>3 DEF Contents
    <3>3. CASE ~lost
      <4>1. OnTheWay' = OnTheWay + s /\ net' = net \o b
        BY <2>4, <2>5, <3>3 DEF OnTheWay
      <4>2. Stored + OnTheWay <= processed
        BY <1>0, <1>1 DEF Contents
      <4>3. Stored' + OnTheWay' <= processed'
        BY <1>3, <2>1, <2>4, <3>1, <4>1, <4>2, MoreSent
      <4>4. reply # "bad" => Stored + OnTheWay = processed
        BY <1>0, <1>1, <3>3 DEF Contents
      <4>5. reply # "bad" => Stored' + OnTheWay' = processed'
        <5>1. Stored + OnTheWay = processed => Stored + (OnTheWay + s) = processed + s
          BY <1>3, <2>1, MoreSent
        <5>2. processed' = processed + s
          BY <2>4
        <5> QED
          BY <3>1, <4>1, <4>4, <5>1, <5>2
      <4>6. ASSUME reply # "bad", NEW i \in 1..(OnTheWay + s)
            PROVE  (net \o b)[i] = start + Stored + i
        <5>1. CASE i \in 1..OnTheWay
          BY <1>0, <1>1, <2>5, <4>6, <5>1 DEF Contents
        <5>2. CASE ~(i \in 1..OnTheWay)
          <6>1. PICK j \in 1..s : OnTheWay + j = i
            <7>1. i - OnTheWay \in 1..s /\ OnTheWay + (i - OnTheWay) = i
              BY <1>3, <2>1, <5>2
            <7> QED
              BY <7>1
          <6>2. (net \o b)[i] = pos + j
            BY <2>3, <2>5, <6>1
          <6>3. pos + j = start + Stored + i
            BY <1>3, <2>6, <4>4, <4>6, <6>1
          <6> QED
            BY <6>2, <6>3
        <5> QED
          BY <5>1, <5>2
      <4> QED
        BY <1>0, <1>1, <3>1, <4>1, <4>3, <4>5, <4>6 DEF Contents
    <3> QED
      BY <3>2, <3>3
  <2> QED
    BY <2>7, <2>8, <2>9 DEF IInv
<1>6. CASE /\ pc' = "send_eof" /\ raised' \in {"LibSSH::Error", "SystemCallError"}
           /\ scp' \in {scp, "error"} /\ UNCHANGED <<processed, net>>
  <2>1. TypeOK'
    BY <1>0, <1>1, <1>4, <1>6 DEF TypeOK, PcValue
  <2>2. Stage'
    BY <1>0, <1>1, <1>6 DEF Stage
  <2>3. Contents'
    BY <1>0, <1>1, <1>6, SameContents
  <2> QED
    BY <2>1, <2>2, <2>3 DEF IInv
<1> QED
  BY <1>2, <1>5, <1>6 DEF Raise, Goto

LEMMA NextInv == IInv /\ [Next]_vars => IInv'
<1> SUFFICES ASSUME IInv, [Next]_vars PROVE IInv'
  OBVIOUS
<1>1. CASE UNCHANGED vars
  <2>1. Contents'
    BY <1>1, SameContents DEF IInv, vars, file, client, libssh, sink
  <2> QED
    BY <1>1, <2>1 DEF IInv, TypeOK, Stage, vars, file, client, libssh, sink
<1> QED
  BY <1>1, FileInv, ConnectionLostInv, StoreByteInv, ServerEndsInv, QuietInv, PushFileInv, WriteInv
  DEF Next, Server, Upload, Done

-----------------------------------------------------------------------------
(* The theorems.                                                            *)

\* The types of ScpUpload hold; in particular no more is sent than was
\* announced.
THEOREM TypeCorrect == Spec => []TypeOK
<1>1. IInv => TypeOK
  BY DEF IInv
<1> QED
  BY InitInv, NextInv, <1>1, PTL DEF Spec

\* What the server stores are bytes of the file, in order, each at most once,
\* whatever happens to the file, the connection and the disk.
THEOREM StoresOnlyFile == Spec => []StoresAnnouncedBytes
<1>1. IInv => StoresAnnouncedBytes
  <2> SUFFICES ASSUME IInv, remote # NoFile
               PROVE  /\ Len(remote) + Len(net) <= processed
                      /\ \A i, j \in 1..Len(remote) : i < j => remote[i] < remote[j]
                      /\ \A i \in 1..Len(remote) :
                             start < remote[i] /\ remote[i] <= start + processed
    BY DEF StoresAnnouncedBytes
  <2>1. /\ Stored + OnTheWay <= processed
        /\ \A i \in 1..Stored : remote[i] = start + i
    BY DEF IInv, Contents
  <2>2. Stored \in Nat /\ OnTheWay \in Nat /\ processed \in Nat /\ start \in Nat
    BY Sizes DEF IInv
  <2>3. ASSUME NEW i \in 1..Stored
        PROVE  start < remote[i] /\ remote[i] <= start + processed
    <3>1. remote[i] = start + i
      BY <2>1
    <3> QED
      BY <2>1, <2>2, <3>1
  <2>4. ASSUME NEW i \in 1..Stored, NEW j \in 1..Stored, i < j PROVE remote[i] < remote[j]
    <3>1. remote[i] = start + i /\ remote[j] = start + j
      BY <2>1
    <3> QED
      BY <2>2, <2>4, <3>1
  <2> QED
    BY <2>1, <2>3, <2>4 DEF Stored, OnTheWay
<1> QED
  BY InitInv, NextInv, <1>1, PTL DEF Spec

-----------------------------------------------------------------------------
(* Why upload! raises.                                                      *)

Reason ==
    \/ lost \/ server = "refusing" \/ reply = "bad" \/ raised = "SystemCallError"
    \/ len > start + original

\* An exception on its way has a reason, and libssh has left its writing state
\* only when all that was announced has been read: one more round of the loop
\* means that the file is longer.
Blame ==
    /\ raised # "none" => Reason
    /\ pc = "failed" => raised # "none"
    /\ pc = "write" /\ scp = "inited" => pos >= start + original

LEMMA InitBlame == Init => Blame
  BY DEF Init, Blame

\* The file changes while nothing is on its way; a connection that is lost, and
\* a message that tells of a failure, remain.
LEMMA OutsideBlame ==
    ASSUME IInv, Blame, Grow \/ Shrink \/ ConnectionLost \/ StoreByte \/ ServerEnds
    PROVE  Blame'
<1>1. UNCHANGED <<pos, pc, raised, scp, original, start>>
  BY DEF Grow, Shrink, ConnectionLost, StoreByte, ServerEnds, file, client, libssh
<1>2. raised # "none" => Reason'
  <2>1. CASE Grow \/ Shrink
    <3>1. raised = "none"
      BY <2>1 DEF Grow, Shrink, IInv, Stage
    <3> QED
      BY <3>1
  <2>2. CASE ConnectionLost
    BY <2>2 DEF ConnectionLost, Reason
  <2>3. CASE StoreByte
    <3>1. UNCHANGED <<len, lost, server>> /\ (reply = "bad" => reply' = "bad")
      BY <2>3 DEF StoreByte, file
    <3> QED
      BY <1>1, <3>1 DEF Blame, Reason
  <2>4. CASE ServerEnds
    <3>1. UNCHANGED <<len, lost, reply>> /\ server # "refusing"
      BY <2>4 DEF ServerEnds, file
    <3> QED
      BY <1>1, <3>1 DEF Blame, Reason
  <2> QED
    BY <2>1, <2>2, <2>3, <2>4
<1> QED
  BY <1>1, <1>2 DEF Blame

LEMMA WriteBlame == ASSUME IInv, Blame, Write PROVE Blame'
<1>0. TypeOK /\ Stage
  BY DEF IInv
<1>1. /\ UNCHANGED <<original, len, start, lost, server, reply>>
      /\ pc = "write" /\ pos < len /\ raised = "none"
  BY <1>0 DEF Write, file, sink, Stage
<1>2. PICK k \in 1..BUFSIZ :
         /\ k <= len - pos /\ pos' = pos + k
         /\ \/ /\ scp = "writing" /\ processed' = processed + Sent(k)
               /\ scp' = IF processed' = original THEN "inited" ELSE scp
               /\ UNCHANGED <<pc, raised>>
            \/ /\ scp # "writing" \/ lost \/ reply = "bad"
               /\ scp' = "error" /\ Raise("LibSSH::Error")
            \/ Raise("SystemCallError")
  BY DEF Write
<1>3. /\ len \in Nat /\ pos \in Nat /\ start \in Nat /\ original \in Nat
      /\ processed \in Nat /\ processed <= original /\ k \in Nat /\ k >= 1
  BY <1>0, Sizes
<1>4. CASE /\ scp = "writing" /\ processed' = processed + Sent(k)
           /\ scp' = IF processed' = original THEN "inited" ELSE scp
           /\ UNCHANGED <<pc, raised>>
  <2>1. pos = start + processed
    BY <1>0, <1>1, <1>4 DEF Stage
  <2>2. ASSUME scp' = "inited" PROVE pos' >= start + original
    <3>1. processed + Sent(k) = original
      BY <1>4, <2>2
    <3>2. processed + k >= original
      BY <1>3, <3>1 DEF Sent
    <3> QED
      BY <1>2, <1>3, <2>1, <3>2
  <2> QED
    BY <1>1, <1>4, <2>2 DEF Blame
<1>5. CASE (scp # "writing" \/ lost \/ reply = "bad") /\ Raise("LibSSH::Error")
  <2>1. pc' = "send_eof" /\ raised' = "LibSSH::Error"
    BY <1>5 DEF Raise, Goto
  <2>2. CASE scp # "writing"
    <3>1. pos >= start + original
      BY <1>0, <1>1, <2>2 DEF Stage, Blame
    <3>2. len > start + original
      BY <1>1, <1>3, <3>1
    <3> QED
      BY <1>1, <2>1, <3>2 DEF Blame, Reason
  <2>3. CASE lost \/ reply = "bad"
    BY <1>1, <2>1, <2>3 DEF Blame, Reason
  <2> QED
    BY <1>5, <2>2, <2>3
<1>6. CASE Raise("SystemCallError")
  BY <1>6 DEF Raise, Goto, Blame, Reason
<1> QED
  BY <1>2, <1>4, <1>5, <1>6

\* The other calls of upload!.
LEMMA CallBlame ==
    ASSUME IInv, Blame,
           OpenLocal \/ ScpInit \/ PushFile \/ EndOfFile \/ SendEof \/ Drain
    PROVE  Blame'
<1>1. UNCHANGED <<original, len, start, pos>>
  BY DEF OpenLocal, ScpInit, PushFile, EndOfFile, SendEof, Drain, file
<1>2. CASE OpenLocal
  BY <1>1, <1>2 DEF OpenLocal, Goto, IInv, Stage, Blame, Reason
<1>3. CASE ScpInit
  BY <1>1, <1>3 DEF ScpInit, sink, Goto, IInv, Stage, Blame, Reason
<1>4. CASE PushFile
  BY <1>1, <1>4 DEF PushFile, Goto, Raise, IInv, Stage, Blame, Reason
<1>5. CASE EndOfFile
  BY <1>1, <1>5 DEF EndOfFile, sink, libssh, Goto, IInv, Stage, Blame, Reason
<1>6. CASE SendEof
  BY <1>1, <1>6 DEF SendEof, sink, Goto, Blame, Reason
<1>7. CASE Drain
  BY <1>1, <1>7 DEF Drain, sink, libssh, Goto, Blame, Reason
<1> QED
  BY <1>2, <1>3, <1>4, <1>5, <1>6, <1>7

LEMMA NextBlame == IInv /\ Blame /\ [Next]_vars => Blame'
<1> SUFFICES ASSUME IInv, Blame, [Next]_vars PROVE Blame'
  OBVIOUS
<1>1. CASE UNCHANGED vars
  BY <1>1 DEF vars, file, client, libssh, sink, Blame, Reason
<1>2. CASE Next
  BY <1>1, <1>2, OutsideBlame, WriteBlame, CallBlame DEF Next, Server, Upload, Done
<1> QED
  BY <1>1, <1>2

\* upload! raises only when the server refuses, the connection or a read of the
\* local file fails, or the file has grown past the size that was announced:
\* that libssh refuses a write it takes for one too many happens in no other
\* case.
THEOREM RaisesForAReason == Spec => []FailedForAReason
<1>1. Blame => FailedForAReason
  BY DEF Blame, Reason, FailedForAReason
<1> QED
  BY InitInv, NextInv, InitBlame, NextBlame, <1>1, PTL DEF Spec

-----------------------------------------------------------------------------
(* upload! implements FileCopy, step by step.                               *)

Terminal == {"finished", "failed"}

\* What is to be copied, and how far the copy is.
Source == [i \in 1..original |-> start + i]
Index  == IF remote = NoFile THEN 0 ELSE 1

Outcome == IF Unnoticed THEN "failed" ELSE IF pc \in Terminal THEN pc ELSE "running"

\* Whatever q holds of the bytes of the file, in their place, is the file.
LEMMA Prefix ==
    ASSUME TypeOK, NEW q \in Seq(1..MaxLen), NEW n \in 0..original, Len(q) = n,
           \A i \in 1..n : q[i] = start + i
    PROVE  /\ q = SubSeq(Source, 1, n)
           /\ n = original => q = Source
<1>1. n \in Nat /\ original \in Nat /\ n <= original
  BY Sizes
<1>2. q = [i \in 1..n |-> start + i]
  BY LenProperties
<1>3. SubSeq(Source, 1, n) = [i \in 1..n |-> start + i]
  <2>1. \A i \in 1..n : i \in 1..original
    BY <1>1
  <2>2. 1 \in Int /\ n \in Int /\ \A i \in 1..n : Source[i] \in Nat
    <3>1. start \in Nat
      BY Sizes
    <3> QED
      BY <1>1, <2>1, <3>1 DEF Source
  <2>3. PICK w : w = SubSeq(Source, 1, n)
    OBVIOUS
  <2>4. /\ w \in Seq(Nat) /\ Len(w) = IF 1 <= n THEN n - 1 + 1 ELSE 0
        /\ \A i \in 1..(n - 1 + 1) : w[i] = Source[1 + i - 1]
    BY <2>2, <2>3, SubSeqProperties
  <2>5. Len(w) = n
    BY <1>1, <2>4
  <2>6. \A i \in 1..n : w[i] = start + i
    <3>1. ASSUME NEW i \in 1..n PROVE i \in 1..(n - 1 + 1) /\ 1 + i - 1 = i
      BY <1>1
    <3> QED
      BY <2>1, <2>4, <3>1 DEF Source
  <2>7. w = [i \in 1..Len(w) |-> w[i]]
    BY <2>4, LenProperties
  <2> QED
    BY <2>3, <2>5, <2>6, <2>7
<1> QED
  BY <1>2, <1>3 DEF Source

\* What IInv says of the copy: it is a prefix of its source, and complete when
\* upload! has returned and could tell.
Copied ==
    /\ original \in Nat
    /\ remote # NoFile => Stored \in 0..original /\ remote = SubSeq(Source, 1, Stored)
    /\ Outcome = "finished" => remote # NoFile /\ remote = Source

LEMMA InvCopied == IInv => Copied
<1> SUFFICES ASSUME IInv PROVE Copied
  OBVIOUS
<1>0. TypeOK /\ Stage /\ Contents
  BY DEF IInv
<1>1. /\ original \in Nat /\ start \in Nat /\ len \in Nat
      /\ processed \in Nat /\ processed <= original
      /\ OnTheWay \in Nat
  BY <1>0, Sizes
<1>2. remote # NoFile => remote \in Seq(1..MaxLen) /\ Stored \in Nat
  BY <1>0, Sizes
<1>3. ASSUME remote # NoFile
      PROVE  /\ Stored \in 0..original /\ remote = SubSeq(Source, 1, Stored)
             /\ Stored = original => remote = Source
  <2>1. Stored + OnTheWay <= processed /\ \A i \in 1..Stored : remote[i] = start + i
    BY <1>0, <1>3 DEF Contents
  <2>2. Stored \in 0..original
    BY <1>1, <1>2, <1>3, <2>1
  <2>3. remote \in Seq(1..MaxLen) /\ Len(remote) = Stored
    BY <1>2, <1>3 DEF Stored
  <2> QED
    BY <1>0, <2>1, <2>2, <2>3, Prefix
<1>4. ASSUME Outcome = "finished" PROVE remote # NoFile /\ Stored = original
  <2>1. pc = "finished" /\ ~Unnoticed
    BY <1>4 DEF Outcome, Terminal
  <2>2. ~(len < start + original) /\ reply # "bad"
    BY <2>1 DEF Unnoticed
  <2>3. raised = "none" /\ server = "ended" /\ ~lost
    BY <1>0, <2>1 DEF Stage
  <2>4. remote # NoFile /\ processed = original /\ net = <<>>
    BY <1>0, <2>1, <2>2, <2>3 DEF Stage
  <2>5. Stored + OnTheWay = processed
    BY <1>0, <2>2, <2>3, <2>4 DEF Contents
  <2>6. OnTheWay = 0
    BY <2>4 DEF OnTheWay
  <2> QED
    BY <1>1, <1>2, <2>4, <2>5, <2>6
<1> QED
  BY <1>1, <1>3, <1>4 DEF Copied

\* Nothing the copy depends on changes.
LEMMA Stutters ==
    ASSUME UNCHANGED <<original, start, remote>>, Outcome' = Outcome
    PROVE  UNCHANGED Copy!cvars
  BY DEF Copy!cvars, Outcome, Terminal

\* The call is under way before and after.
LEMMA UnderWay ==
    ASSUME pc \notin Terminal, pc' \notin Terminal
    PROVE  Outcome = "running" /\ Outcome' = "running"
  BY DEF Outcome, Unnoticed, Terminal

\* At the end the copy is complete, or the end is not that of a copy.
LEMMA EndStep ==
    ASSUME Copied', UNCHANGED <<original, start, remote>>,
           pc \notin Terminal, pc' \in Terminal
    PROVE  Copy!CNext
<1>1. Outcome = "running"
  BY DEF Outcome, Unnoticed, Terminal
<1>2. PICK o \in {"finished", "failed"} : o = Outcome'
  BY DEF Outcome, Terminal
<1>3. o = "finished" => remote # NoFile /\ remote = Source
  BY <1>2 DEF Copied, Source
<1>4. \A i \in DOMAIN <<Source>> : i <= 1
  BY DEF Source
<1>5. o = "finished" => \A i \in DOMAIN <<Source>> : i <= Index
  BY <1>3, <1>4 DEF Index
<1>6. Copy!Conclude(o)
  BY <1>1, <1>2, <1>3, <1>5 DEF Copy!Conclude, Outcome, Terminal, Source, Index
<1> QED
  BY <1>6 DEF Copy!CNext

LEMMA PushFileStep ==
    ASSUME IInv, PushFile
    PROVE  [Copy!CNext]_Copy!cvars
<1>1. /\ UNCHANGED <<original, start>> /\ pc = "push_file" /\ pc' \in {"write", "send_eof"}
      /\ remote = NoFile
  BY DEF PushFile, file, Raise, Goto, IInv, Stage
<1>2. pc \notin Terminal /\ pc' \notin Terminal
  BY <1>1 DEF Terminal
<1>3. Outcome = "running" /\ Outcome' = "running"
  BY <1>2, UnderWay
<1>4. CASE remote' = <<>>
  <2>1. <<>> # NoFile
    <3>1. <<>> \in Seq(1..MaxLen)
      OBVIOUS
    <3> QED
      BY <3>1, IsFile
  <2>2. Copy!CopyNext
    BY <1>1, <1>3, <1>4, <2>1 DEF Copy!CopyNext, Outcome, Terminal
  <2> QED
    BY <2>2 DEF Copy!CNext
<1>5. CASE UNCHANGED remote
  BY <1>1, <1>3, <1>5, Stutters
<1> QED
  BY <1>4, <1>5 DEF PushFile

LEMMA StoreByteStep ==
    ASSUME IInv, Copied', StoreByte
    PROVE  [Copy!CNext]_Copy!cvars
<1>0. TypeOK /\ Stage
  BY DEF IInv
<1>1. /\ UNCHANGED <<original, start, pc>> /\ server = "storing" /\ net # <<>>
      /\ remote # NoFile
  BY <1>0 DEF StoreByte, file, client, Stage
<1>2. pc \notin Terminal /\ pc' \notin Terminal
  BY <1>0, <1>1 DEF Stage, Terminal
<1>3. Outcome = "running" /\ Outcome' = "running"
  BY <1>2, UnderWay
<1>4. CASE remote' = Append(remote, Head(net))
  <2>1. remote \in Seq(1..MaxLen) /\ net \in Seq(1..MaxLen) /\ Stored \in Nat
    BY <1>0, <1>1, Sizes
  <2>2. Head(net) \in 1..MaxLen
    BY <1>1, <2>1, FirstByte
  <2>3. remote' \in Seq(1..MaxLen) /\ Len(remote') = Len(remote) + 1
    BY <1>4, <2>1, <2>2, AppendProperties
  <2>4. remote' # NoFile
    BY <2>3, IsFile
  <2>5. PICK n : n = Len(remote')
    OBVIOUS
  <2>6. n \in 0..original /\ original \in Nat /\ remote' = SubSeq(Source, 1, n)
    BY <1>1, <2>4, <2>5 DEF Copied, Stored, Source
  <2>7. n \in (Len(remote) + 1)..original
    BY <2>1, <2>3, <2>5, <2>6 DEF Stored
  <2>8. Len(Source) = original
    BY <2>6 DEF Source
  <2>9. <<Source>>[1] = Source /\ Index = 1 /\ Index' = 1 /\ <<Source>>' = <<Source>>
    BY <1>1, <2>4 DEF Index, Source
  <2>10. PICK src : src = <<Source>>
    OBVIOUS
  <2>11. Len(src[Index]) = original /\ remote' = SubSeq(src[Index], 1, n)
    BY <2>6, <2>8, <2>9, <2>10
  <2>12. \E m \in (Len(remote) + 1)..Len(src[Index]) : remote' = SubSeq(src[Index], 1, m)
    BY <2>7, <2>11
  <2>13. Index > 0 /\ src' = src
    BY <2>9, <2>10
  <2>14. Copy!CopyMore
    BY <1>1, <1>3, <2>9, <2>10, <2>12, <2>13 DEF Copy!CopyMore, Outcome, Terminal, Source, Index
  <2> QED
    BY <2>14 DEF Copy!CNext
<1>5. CASE UNCHANGED remote
  BY <1>1, <1>3, <1>5, Stutters
<1> QED
  BY <1>4, <1>5 DEF StoreByte

\* The steps that store nothing.
LEMMA OtherStep ==
    ASSUME Copied',
           \/ Grow \/ Shrink \/ ConnectionLost \/ ServerEnds
           \/ OpenLocal \/ ScpInit \/ Write \/ EndOfFile \/ SendEof \/ Drain
    PROVE  [Copy!CNext]_Copy!cvars
<1>1. CASE ServerEnds
  <2>1. UNCHANGED <<original, start, remote, len, pc, reply>>
    BY <1>1 DEF ServerEnds, file, client
  <2>2. Outcome' = Outcome
    BY <2>1 DEF Outcome, Unnoticed
  <2> QED
    BY <2>1, <2>2, Stutters
<1>2. CASE Grow \/ Shrink \/ ConnectionLost
  <2>1. UNCHANGED <<original, start, remote, pc>> /\ pc \notin Terminal
    BY <1>2 DEF Grow, Shrink, ConnectionLost, file, client, sink, Terminal
  <2> QED
    BY <2>1, UnderWay, Stutters
<1>3. CASE OpenLocal \/ ScpInit \/ Write \/ EndOfFile \/ SendEof \/ Drain
  <2>1. UNCHANGED <<original, start, remote>> /\ pc \notin Terminal
    BY <1>3 DEF OpenLocal, ScpInit, Write, EndOfFile, SendEof, Drain, file, sink, Terminal
  <2>2. CASE pc' \in Terminal
    BY <2>1, <2>2, EndStep
  <2>3. CASE pc' \notin Terminal
    BY <2>1, <2>3, UnderWay, Stutters
  <2> QED
    BY <2>2, <2>3
<1> QED
  BY <1>1, <1>2, <1>3

LEMMA NextStep ==
    ASSUME IInv, Copied', [Next]_vars
    PROVE  [Copy!CNext]_Copy!cvars
<1>1. CASE UNCHANGED vars
  <2>1. UNCHANGED <<original, start, remote, len, pc, reply>>
    BY <1>1 DEF vars, file, client, sink
  <2>2. Outcome' = Outcome
    BY <2>1 DEF Outcome, Unnoticed
  <2> QED
    BY <2>1, <2>2, Stutters
<1>2. CASE Next
  BY <1>1, <1>2, PushFileStep, StoreByteStep, OtherStep DEF Next, Server, Upload, Done
<1> QED
  BY <1>1, <1>2

LEMMA InitStep == Init => Copy!CInit
  BY DEF Init, Copy!CInit, Unnoticed

\* Every step of upload! and of what happens around it is a step of the copy
\* it promises, or none: the copy grows as a prefix of the announced bytes, and
\* a return that is not an unnoticed end comes when the copy is complete.
THEOREM CopiesSafely == Spec => CopiesFile
<1>1. IInv /\ Copied' /\ [Next]_vars => [Copy!CNext]_Copy!cvars
  BY NextStep
<1>2. Spec => Copy!CInit /\ [][Copy!CNext]_Copy!cvars
  BY InitInv, NextInv, InvCopied, InitStep, <1>1, PTL DEF Spec
<1> QED
  BY <1>2 DEF CopiesFile, Copy!CSpec
=============================================================================
