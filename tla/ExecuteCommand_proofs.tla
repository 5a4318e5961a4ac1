------------------------ MODULE ExecuteCommand_proofs ------------------------
(* Proofs about ExecuteCommand, for any statuses, output lengths, buffer size *)
(* and window.                                                                *)
EXTENDS TLAPS, SequenceTheorems, ExecuteCommand

\* How many units are handed over, buffered, received, and what message m carries.
Given(st) == Len(handed[st])
Held(st) == Len(buffer[st])
Got(st) == Given(st) + Held(st)
Carries(m, st, u) == m.type = "data" /\ m.unit[1] = st /\ m.unit[2] = u

\* Units are counted in four places.
Sums ==
    /\ \A st \in Stream : Got(st) <= written[st] /\ written[st] <= output[st]
    /\ window + (written[Stdout] - Given(Stdout)) + (written[Stderr] - Given(Stderr)) = Window

\* On the way are the units after those received, each stream in its order.
InFlight ==
    /\ \A i \in 1..Len(net), st \in Stream, u \in Nat :
          Carries(net[i], st, u) => Got(st) < u /\ u <= written[st]
    /\ \A i, j \in 1..Len(net), st \in Stream, u, v \in Nat :
          i < j /\ Carries(net[i], st, u) /\ Carries(net[j], st, v) => u < v
    /\ lost => net = <<>>
    /\ ~lost => \A st \in Stream, u \in Nat : Got(st) < u /\ u <= written[st] =>
                   \E i \in 1..Len(net) : Carries(net[i], st, u)

\* What was handed over and what is buffered are the units in their order.
Contents ==
    \A st \in Stream :
        /\ \A i \in 1..Given(st) : handed[st][i] = <<st, i>>
        /\ \A i \in 1..Held(st) : buffer[st][i] = <<st, Given(st) + i>>

\* Behind the end of the output there is none.
Ends ==
    /\ eofSent \/ closeSent => written = output
    /\ \A i \in 1..Len(net) : net[i].type \in {"eof", "close"} =>
          /\ eofSent \/ closeSent
          /\ \A j \in i..Len(net) : net[j].type # "data"
    /\ remoteEof => (eofSent \/ closeSent) /\ \A st \in Stream : Got(st) = output[st]
    /\ pc = "get_exit_status" \/ reported # NoStatus => IsEof

\* The status goes before the close.
Verdict ==
    /\ statusSent => ended \in Status
    /\ \A i \in 1..Len(net) : net[i].type = "status" => statusSent /\ net[i].status = ended
    /\ exitStatus # NoStatus => statusSent /\ exitStatus = ended
    /\ statusSent /\ ~lost =>
          exitStatus # NoStatus \/ \E j \in 1..Len(net) : net[j].type = "status"
    /\ \A i \in 1..Len(net) : net[i].type = "close" =>
          ended = Unknown \/ exitStatus # NoStatus
          \/ \E j \in 1..(i - 1) : net[j].type = "status"
    /\ remoteClosed => ended = Unknown \/ exitStatus # NoStatus

\* Where the program is in its block.
Block ==
    /\ pc = "open_session" => channel = "new"
    /\ pc \notin {"close", "finished", "failed"} => ~raised /\ reported = NoStatus
    /\ pc \in {"close", "finished"} /\ ~raised => reported # NoStatus
    /\ pc = "finished" => ~raised

IInv == /\ TypeOK /\ Sums /\ InFlight /\ Contents /\ Ends /\ Verdict /\ Block
        /\ ExitStatusFaithful /\ ChannelClosed

\* Types of the maps from streams, one stream at a time.
LEMMA Streams ==
    ASSUME TypeOK
    PROVE  /\ Stdout \in Stream /\ Stderr \in Stream
           /\ \A st \in Stream :
                 /\ output[st] \in 0..MaxUnits /\ written[st] \in 0..MaxUnits
                 /\ handed[st] \in Seq(Stream \X (1..MaxUnits)) /\ Given(st) \in Nat
                 /\ buffer[st] \in Seq(Stream \X (1..MaxUnits)) /\ Held(st) \in Nat
                 /\ Got(st) \in Nat
           /\ {BUFSIZ, Window, MaxUnits} \subseteq Nat \ {0}
           /\ window \in Nat
<1>1. Stream = {Stdout, Stderr} /\ {BUFSIZ, Window, MaxUnits} \subseteq Nat \ {0}
  BY ExecuteTypes
<1>2. \A st \in Stream : /\ handed[st] \in Seq(Stream \X (1..MaxUnits))
                        /\ buffer[st] \in Seq(Stream \X (1..MaxUnits))
  BY DEF TypeOK
<1>3. \A st \in Stream : Given(st) \in Nat /\ Held(st) \in Nat
  BY <1>2, LenProperties DEF Given, Held
<1>4. \A st \in Stream : output[st] \in 0..MaxUnits /\ written[st] \in 0..MaxUnits
  BY DEF TypeOK
<1>5. window \in Nat
  BY <1>1 DEF TypeOK
<1> QED
  <2>1. Stdout \in Stream /\ Stderr \in Stream
    BY <1>1
  <2>2. \A st \in Stream : Got(st) \in Nat
    BY <1>3 DEF Got
  <2> QED
    BY <1>1, <1>2, <1>3, <1>4, <1>5, <2>1, <2>2

\* What a message is.
LEMMA MessageShape ==
    ASSUME NEW m \in Message
    PROVE  /\ m.type \in {"data", "status", "eof", "close"}
           /\ m.type = "data" => /\ m.unit \in Stream \X (1..MaxUnits)
                                 /\ m.unit[1] \in Stream /\ m.unit[2] \in 1..MaxUnits
                                 /\ m.unit = <<m.unit[1], m.unit[2]>>
           /\ m.type = "status" => m.status \in Status
  BY DEF Message

LEMMA NetShape ==
    ASSUME TypeOK
    PROVE  Len(net) \in Nat /\ \A i \in 1..Len(net) : net[i] \in Message
  BY LenProperties, ElementOfSeq DEF TypeOK

\* A message is sent.
LEMMA AppendNet ==
    ASSUME TypeOK, NEW m \in Message, net' = Append(net, m)
    PROVE  /\ net' \in Seq(Message) /\ Len(net) \in Nat /\ Len(net') = Len(net) + 1
           /\ \A i \in 1..Len(net) : net'[i] = net[i]
           /\ net'[Len(net) + 1] = m
           /\ \A i \in 1..Len(net') : i \in 1..Len(net) \/ i = Len(net) + 1
<1>1. net \in Seq(Message)
  BY DEF TypeOK
<1>2. net' \in Seq(Message) /\ Len(net) \in Nat /\ Len(net') = Len(net) + 1
  BY <1>1, AppendProperties, LenProperties
<1>3. (\A i \in 1..Len(net) : net'[i] = net[i]) /\ net'[Len(net) + 1] = m
  BY <1>1, AppendProperties
<1> QED
  BY <1>2, <1>3

\* A message is taken from the connection.
LEMMA TailNet ==
    ASSUME TypeOK, net # <<>>, net' = Tail(net)
    PROVE  /\ net' \in Seq(Message) /\ Head(net) = net[1] /\ Head(net) \in Message
           /\ Len(net) \in Nat /\ 1 \in 1..Len(net) /\ Len(net') = Len(net) - 1
           /\ \A i \in 1..Len(net') : i + 1 \in 1..Len(net) /\ net'[i] = net[i + 1]
           /\ \A i \in 1..Len(net) : i = 1 \/ (i - 1 \in 1..Len(net') /\ net'[i - 1] = net[i])
<1>1. net \in Seq(Message)
  BY DEF TypeOK
<1>2. /\ net' \in Seq(Message) /\ Head(net) = net[1] /\ Head(net) \in Message
      /\ Len(net) \in Nat /\ Len(net) >= 1 /\ Len(net') = Len(net) - 1
  BY <1>1, HeadTailProperties, LenProperties, EmptySeq
<1>3. \A i \in 1..Len(net') : net'[i] = net[i + 1]
  BY <1>1, HeadTailProperties
<1>4. \A i \in 1..Len(net') : i + 1 \in 1..Len(net)
  BY <1>2
<1>5. ASSUME NEW i \in 1..Len(net), i # 1
      PROVE  i - 1 \in 1..Len(net') /\ net'[i - 1] = net[i]
  <2>1. i - 1 \in 1..Len(net') /\ (i - 1) + 1 = i
    BY <1>2, <1>5
  <2> QED
    BY <1>3, <2>1
<1> QED
  BY <1>2, <1>3, <1>4, <1>5

\* A step that leaves what a part speaks of keeps the part.
LEMMA SameSums ==
    ASSUME Sums, UNCHANGED <<output, written, window, buffer, handed>>
    PROVE  Sums'
  BY DEF Sums, Got, Given, Held

LEMMA SameInFlight ==
    ASSUME InFlight, UNCHANGED <<net, lost, written, buffer, handed>>
    PROVE  InFlight'
<1>1. \A st : Got(st)' = Got(st)
  BY DEF Got, Given, Held
<1> QED
  BY <1>1 DEF InFlight, Carries

LEMMA SameContents ==
    ASSUME Contents, UNCHANGED <<buffer, handed>>
    PROVE  Contents'
  BY DEF Contents, Given, Held

LEMMA SameEnds ==
    ASSUME Ends, UNCHANGED <<eofSent, closeSent, written, output, net, buffer, handed, remoteEof>>,
           (pc' = "get_exit_status" \/ reported' # NoStatus) =>
               IsEof \/ pc = "get_exit_status" \/ reported # NoStatus
    PROVE  Ends'
  BY DEF Ends, Got, Given, Held, IsEof

LEMMA SameVerdict ==
    ASSUME Verdict, UNCHANGED <<statusSent, ended, net, exitStatus, lost, remoteClosed>>
    PROVE  Verdict'
  BY DEF Verdict

LEMMA InitInv == Init => IInv
<1> SUFFICES ASSUME Init PROVE IInv
  OBVIOUS
<1>1. Stream = {Stdout, Stderr} /\ Stdout # Stderr /\ Stdout \in Stream /\ Stderr \in Stream
      /\ {BUFSIZ, Window, MaxUnits} \subseteq Nat \ {0}
      /\ Unknown \notin Status /\ NoStatus \notin Status /\ Unknown # NoStatus
  BY ExecuteTypes
<1>2. \A st \in Stream : Given(st) = 0 /\ Held(st) = 0 /\ Got(st) = 0
                        /\ written[st] = 0 /\ output[st] \in 0..MaxUnits
  <2>1. ASSUME NEW st \in Stream
        PROVE  /\ handed[st] = <<>> /\ buffer[st] = <<>>
               /\ written[st] = 0 /\ output[st] \in 0..MaxUnits
    BY DEF Init
  <2>2. \A st \in Stream : Given(st) = 0 /\ Held(st) = 0
    BY <2>1 DEF Given, Held
  <2>3. \A st \in Stream : Got(st) = 0
    BY <2>2 DEF Got
  <2> QED
    BY <2>1, <2>2, <2>3
<1>3. TypeOK
  <2>1. /\ written \in [Stream -> 0..MaxUnits] /\ window \in 0..Window
        /\ net \in Seq(Message)
        /\ handed \in [Stream -> Seq(Stream \X (1..MaxUnits))]
        /\ buffer \in [Stream -> Seq(Stream \X (1..MaxUnits))]
    BY <1>1 DEF Init
  <2> QED
    BY <2>1 DEF Init, TypeOK
<1>4. Sums
  BY <1>1, <1>2 DEF Init, Sums
<1>5. InFlight
  <2>1. Len(net) = 0
    BY DEF Init
  <2>2. \A st \in Stream, u \in Nat : ~(Got(st) < u /\ u <= written[st])
    BY <1>2
  <2> QED
    BY <2>1, <2>2 DEF InFlight
<1>6. Contents
  BY <1>2 DEF Contents
<1>7. Ends /\ Verdict /\ Block
  BY <1>1 DEF Init, Ends, Verdict, Block
<1>8. ExitStatusFaithful /\ ChannelClosed
  BY <1>1 DEF Init, ExitStatusFaithful, ChannelClosed
<1> QED
  BY <1>3, <1>4, <1>5, <1>6, <1>7, <1>8 DEF IInv

-----------------------------------------------------------------------------
(* Parts that a message sent or received does not concern.                  *)

LEMMA InFlightAppend ==
    ASSUME TypeOK, InFlight, NEW m \in Message, net' = Append(net, m), m.type # "data", ~lost,
           UNCHANGED <<lost, written, buffer, handed>>
    PROVE  InFlight'
<1>1. /\ \A i \in 1..Len(net) : net'[i] = net[i]
      /\ net'[Len(net) + 1] = m /\ Len(net) \in Nat /\ Len(net') = Len(net) + 1
      /\ \A i \in 1..Len(net') : i \in 1..Len(net) \/ i = Len(net) + 1
  BY AppendNet
<1>2. \A st : Got(st)' = Got(st)
  BY DEF Got, Given, Held
<1>3. \A st, u : ~Carries(m, st, u)
  BY DEF Carries
<1>4. \A i \in 1..Len(net'), st \in Stream, u \in Nat : Carries(net'[i], st, u) =>
          i \in 1..Len(net) /\ Carries(net[i], st, u)
  BY <1>1, <1>3
<1>5. \A i \in 1..Len(net) : i \in 1..Len(net')
  BY <1>1
<1>6. \A i \in 1..Len(net'), st \in Stream, u \in Nat :
          Carries(net'[i], st, u) => Got(st)' < u /\ u <= written'[st]
  BY <1>2, <1>4 DEF InFlight
<1>7. \A i, j \in 1..Len(net'), st \in Stream, u, v \in Nat :
          i < j /\ Carries(net'[i], st, u) /\ Carries(net'[j], st, v) => u < v
  BY <1>4 DEF InFlight
<1>8. \A st \in Stream, u \in Nat : Got(st)' < u /\ u <= written'[st] =>
          \E i \in 1..Len(net') : Carries(net'[i], st, u)
  <2> SUFFICES ASSUME NEW st \in Stream, NEW u \in Nat, Got(st) < u, u <= written[st]
               PROVE  \E i \in 1..Len(net') : Carries(net'[i], st, u)
    BY <1>2
  <2>1. PICK i \in 1..Len(net) : Carries(net[i], st, u)
    BY DEF InFlight
  <2> QED
    BY <1>1, <1>5, <2>1
<1> QED
  BY <1>6, <1>7, <1>8 DEF InFlight, Carries

LEMMA InFlightTail ==
    ASSUME TypeOK, InFlight, net # <<>>, net' = Tail(net), Head(net).type # "data",
           UNCHANGED <<lost, written, buffer, handed>>
    PROVE  InFlight'
<1>1. /\ Head(net) = net[1] /\ Len(net) \in Nat /\ Len(net') = Len(net) - 1
      /\ \A i \in 1..Len(net') : i + 1 \in 1..Len(net) /\ net'[i] = net[i + 1]
      /\ \A i \in 1..Len(net) : i = 1 \/ (i - 1 \in 1..Len(net') /\ net'[i - 1] = net[i])
  BY TailNet
<1>2. \A st : Got(st)' = Got(st)
  BY DEF Got, Given, Held
<1>3. \A st, u : ~Carries(net[1], st, u)
  BY <1>1 DEF Carries
<1>4. ~lost
  BY DEF InFlight
<1>5. \A i \in 1..Len(net'), st \in Stream, u \in Nat :
          Carries(net'[i], st, u) => Got(st)' < u /\ u <= written'[st]
  BY <1>1, <1>2 DEF InFlight
<1>6. \A i, j \in 1..Len(net'), st \in Stream, u, v \in Nat :
          i < j /\ Carries(net'[i], st, u) /\ Carries(net'[j], st, v) => u < v
  <2> SUFFICES ASSUME NEW i \in 1..Len(net'), NEW j \in 1..Len(net'), NEW st \in Stream,
                      NEW u \in Nat, NEW v \in Nat,
                      i < j, Carries(net'[i], st, u), Carries(net'[j], st, v)
               PROVE  u < v
    OBVIOUS
  <2>1. i + 1 < j + 1
    OBVIOUS
  <2> QED
    BY <1>1, <2>1 DEF InFlight
<1>7. \A st \in Stream, u \in Nat : Got(st)' < u /\ u <= written'[st] =>
          \E i \in 1..Len(net') : Carries(net'[i], st, u)
  <2> SUFFICES ASSUME NEW st \in Stream, NEW u \in Nat, Got(st) < u, u <= written[st]
               PROVE  \E i \in 1..Len(net') : Carries(net'[i], st, u)
    BY <1>2
  <2>1. PICK i \in 1..Len(net) : Carries(net[i], st, u)
    BY <1>4 DEF InFlight
  <2>2. i - 1 \in 1..Len(net') /\ net'[i - 1] = net[i]
    BY <1>1, <1>3, <2>1
  <2> QED
    BY <2>1, <2>2
<1> QED
  BY <1>4, <1>5, <1>6, <1>7 DEF InFlight, Carries

LEMMA VerdictAppend ==
    ASSUME TypeOK, Verdict, NEW m \in Message, net' = Append(net, m), m.type \in {"data", "eof"},
           UNCHANGED <<statusSent, ended, exitStatus, lost, remoteClosed>>
    PROVE  Verdict'
<1>1. /\ \A i \in 1..Len(net) : net'[i] = net[i]
      /\ net'[Len(net) + 1] = m /\ Len(net) \in Nat /\ Len(net') = Len(net) + 1
      /\ \A i \in 1..Len(net') : i \in 1..Len(net) \/ i = Len(net) + 1
  BY AppendNet
<1>2. \A i \in 1..Len(net') : net'[i].type \in {"status", "close"} =>
          i \in 1..Len(net) /\ net'[i] = net[i]
  BY <1>1
<1>3. (\E j \in 1..Len(net) : net[j].type = "status") =>
          \E j \in 1..Len(net') : net'[j].type = "status"
  BY <1>1
<1>4. ASSUME NEW i \in 1..Len(net'), net'[i].type = "close"
      PROVE  ended = Unknown \/ exitStatus # NoStatus
             \/ \E j \in 1..(i - 1) : net'[j].type = "status"
  <2>1. i \in 1..Len(net) /\ net[i].type = "close"
    BY <1>2, <1>4
  <2>2. \A j \in 1..(i - 1) : net'[j] = net[j]
    BY <1>1, <2>1
  <2> QED
    BY <2>1, <2>2 DEF Verdict
<1> QED
  BY <1>2, <1>3, <1>4 DEF Verdict

LEMMA VerdictTail ==
    ASSUME TypeOK, Verdict, net # <<>>, net' = Tail(net), Head(net).type \in {"data", "eof"},
           UNCHANGED <<statusSent, ended, exitStatus, lost, remoteClosed>>
    PROVE  Verdict'
<1>1. /\ Head(net) = net[1] /\ Len(net) \in Nat /\ Len(net') = Len(net) - 1
      /\ \A i \in 1..Len(net') : i + 1 \in 1..Len(net) /\ net'[i] = net[i + 1]
      /\ \A i \in 1..Len(net) : i = 1 \/ (i - 1 \in 1..Len(net') /\ net'[i - 1] = net[i])
  BY TailNet
<1>2. (\E j \in 1..Len(net) : net[j].type = "status") =>
          \E j \in 1..Len(net') : net'[j].type = "status"
  BY <1>1
<1>3. ASSUME NEW i \in 1..Len(net'), net'[i].type = "close"
      PROVE  ended = Unknown \/ exitStatus # NoStatus
             \/ \E j \in 1..(i - 1) : net'[j].type = "status"
  <2>1. i + 1 \in 1..Len(net) /\ net[i + 1].type = "close" /\ i \in Nat
    BY <1>1, <1>3
  <2>2. ASSUME NEW j \in 1..((i + 1) - 1), net[j].type = "status"
        PROVE  j - 1 \in 1..(i - 1) /\ net'[j - 1].type = "status"
    <3>1. j \in 1..Len(net) /\ j # 1
      BY <1>1, <2>1, <2>2
    <3> QED
      BY <1>1, <2>1, <2>2, <3>1
  <2> QED
    BY <2>1, <2>2 DEF Verdict
<1>4. \A i \in 1..Len(net') : net'[i].type = "status" => statusSent /\ net'[i].status = ended
  BY <1>1 DEF Verdict
<1> QED
  BY <1>2, <1>3, <1>4 DEF Verdict

-----------------------------------------------------------------------------
(* The server and the connection.                                           *)

LEMMA ServerWriteInv == ASSUME IInv, NEW st \in Stream, ServerWrite(st) PROVE IInv'
<1> DEFINE m == [type |-> "data", unit |-> <<st, written[st] + 1>>]
<1>0. /\ TypeOK /\ Sums /\ InFlight /\ Contents /\ Ends /\ Verdict /\ Block
      /\ ExitStatusFaithful /\ ChannelClosed
  BY DEF IInv
<1>1. /\ UNCHANGED <<output, eofSent, ended, statusSent, closeSent, lost, channel, buffer,
                     remoteEof, remoteClosed, exitStatus, pc, raised, handed, reported>>
      /\ ~lost /\ written[st] < output[st] /\ window > 0 /\ window' = window - 1
      /\ written' = [written EXCEPT ![st] = @ + 1] /\ net' = Append(net, m)
  BY DEF ServerWrite, Send, libssh, client
<1>2. /\ Stdout \in Stream /\ Stderr \in Stream /\ window \in Nat
      /\ \A x \in Stream : /\ output[x] \in 0..MaxUnits /\ written[x] \in 0..MaxUnits
                            /\ Given(x) \in Nat /\ Got(x) \in Nat
      /\ MaxUnits \in Nat /\ Stream = {Stdout, Stderr} /\ Stdout # Stderr
      /\ Window \in Nat
  BY <1>0, Streams, ExecuteTypes
<1>3. /\ written'[st] = written[st] + 1 /\ written[st] + 1 \in 1..MaxUnits
      /\ \A x \in Stream : x # st => written'[x] = written[x]
  <2>1. /\ written[st] \in 0..MaxUnits /\ output[st] \in 0..MaxUnits
        /\ written[st] < output[st] /\ MaxUnits \in Nat
    BY <1>1, <1>2
  <2>2. written[st] + 1 \in 1..MaxUnits
    BY <2>1
  <2>3. written \in [Stream -> 0..MaxUnits]
    BY <1>0 DEF TypeOK
  <2> QED
    BY <1>1, <2>2, <2>3
<1>4. m \in Message
  BY <1>3 DEF Message
<1> HIDE DEF m
<1>5. /\ net' \in Seq(Message)
      /\ \A i \in 1..Len(net) : net'[i] = net[i]
      /\ net'[Len(net) + 1] = m /\ Len(net) \in Nat /\ Len(net') = Len(net) + 1
      /\ \A i \in 1..Len(net') : i \in 1..Len(net) \/ i = Len(net) + 1
  BY <1>0, <1>1, <1>4, AppendNet
<1>6. \A x : Given(x)' = Given(x) /\ Got(x)' = Got(x)
  BY <1>1 DEF Got, Given, Held
<1>7. m.type = "data" /\ \A x, u : Carries(m, x, u) <=> x = st /\ u = written[st] + 1
  BY DEF Carries, m
<1>8. TypeOK'
  <2>1. written' \in [Stream -> 0..MaxUnits] /\ window' \in 0..Window
    BY <1>0, <1>1, <1>2, <1>3 DEF TypeOK
  <2> QED
    BY <1>0, <1>1, <1>5, <2>1 DEF TypeOK
<1>9. Sums'
  <2>1. ASSUME NEW x \in Stream PROVE Got(x)' <= written'[x] /\ written'[x] <= output'[x]
    <3>1. /\ Got(x)' = Got(x) /\ output'[x] = output[x]
          /\ Got(x) <= written[x] /\ written[x] <= output[x]
      BY <1>0, <1>1, <1>6 DEF Sums
    <3>2. {Got(x), written[x], output[x]} \subseteq Nat
      BY <1>2
    <3>3. written'[x] = written[x] \/ (x = st /\ written'[x] = written[x] + 1)
      BY <1>3
    <3> QED
      BY <1>1, <3>1, <3>2, <3>3
  <2>2. window' + (written'[Stdout] - Given(Stdout)') + (written'[Stderr] - Given(Stderr)') = Window
    <3>1. window + (written[Stdout] - Given(Stdout)) + (written[Stderr] - Given(Stderr)) = Window
      BY <1>0 DEF Sums
    <3>2. \/ written'[Stdout] = written[Stdout] + 1 /\ written'[Stderr] = written[Stderr]
          \/ written'[Stdout] = written[Stdout] /\ written'[Stderr] = written[Stderr] + 1
      BY <1>2, <1>3
    <3>3. /\ written[Stdout] \in Nat /\ written[Stderr] \in Nat /\ window \in Nat
          /\ Given(Stdout) \in Nat /\ Given(Stderr) \in Nat /\ Window \in Nat
      BY <1>2
    <3>4. Given(Stdout)' = Given(Stdout) /\ Given(Stderr)' = Given(Stderr)
      BY <1>6
    <3>5. window' = window - 1
      BY <1>1
    <3> QED
      BY <3>1, <3>2, <3>3, <3>4, <3>5
  <2> QED
    BY <2>1, <2>2 DEF Sums
<1>10. InFlight'
  <2>1. ASSUME NEW i \in 1..Len(net'), NEW x \in Stream, NEW u \in Nat, Carries(net'[i], x, u)
        PROVE  /\ i \in 1..Len(net) => Carries(net[i], x, u) /\ u <= written[x]
               /\ i = Len(net) + 1 => x = st /\ u = written[st] + 1
               /\ Got(x) < u /\ u <= written'[x]
    <3>1. i \in 1..Len(net) => /\ Carries(net[i], x, u)
                              /\ Got(x) < u /\ u <= written[x]
      BY <1>0, <1>5, <2>1 DEF InFlight
    <3>2. i = Len(net) + 1 => x = st /\ u = written[st] + 1
      BY <1>5, <1>7, <2>1
    <3>3. Got(st) <= written[st]
      BY <1>0 DEF Sums
    <3>4. i = Len(net) + 1 => Got(x) < u /\ u <= written'[x]
      BY <1>2, <1>3, <3>2, <3>3
    <3>5. u <= written[x] => u <= written'[x]
      BY <1>2, <1>3
    <3> QED
      BY <1>5, <3>1, <3>2, <3>4, <3>5
  <2>2. ASSUME NEW i \in 1..Len(net'), NEW j \in 1..Len(net'), NEW x \in Stream,
               NEW u \in Nat, NEW v \in Nat,
               i < j, Carries(net'[i], x, u), Carries(net'[j], x, v)
        PROVE  u < v
    <3>1. i \in 1..Len(net)
      BY <1>5, <2>2
    <3>2. CASE j \in 1..Len(net)
      BY <1>0, <2>1, <2>2, <3>1, <3>2 DEF InFlight
    <3>3. CASE j = Len(net) + 1
      <4>1. u <= written[x] /\ x = st /\ v = written[st] + 1
        BY <2>1, <2>2, <3>1, <3>3
      <4> QED
        BY <1>2, <4>1
    <3> QED
      BY <1>5, <3>2, <3>3
  <2>3. ASSUME NEW x \in Stream, NEW u \in Nat, Got(x) < u, u <= written'[x]
        PROVE  \E i \in 1..Len(net') : Carries(net'[i], x, u)
    <3>1. CASE u <= written[x]
      <4>1. PICK i \in 1..Len(net) : Carries(net[i], x, u)
        BY <1>0, <1>1, <2>3, <3>1 DEF InFlight
      <4> QED
        BY <1>5, <4>1
    <3>2. CASE ~(u <= written[x])
      <4>1. x = st /\ u = written[st] + 1
        BY <1>2, <1>3, <2>3, <3>2
      <4>2. Len(net) + 1 \in 1..Len(net')
        BY <1>5
      <4> QED
        BY <1>5, <1>7, <4>1, <4>2
    <3> QED
      BY <3>1, <3>2
  <2> QED
    BY <1>1, <1>6, <2>1, <2>2, <2>3 DEF InFlight, Carries
<1>11. Contents'
  BY <1>0, <1>1, SameContents
<1>12. Ends'
  <2>1. ~eofSent /\ ~closeSent /\ ~remoteEof
    <3>1. written # output
      BY <1>1, <1>2
    <3> QED
      BY <1>0, <3>1 DEF Ends
  <2>2. pc # "get_exit_status" /\ reported = NoStatus
    BY <1>0, <2>1 DEF Ends, IsEof
  <2>3. \A i \in 1..Len(net') : net'[i].type \notin {"eof", "close"}
    BY <1>0, <1>5, <1>7, <2>1 DEF Ends
  <2> QED
    BY <1>1, <2>1, <2>2, <2>3 DEF Ends
<1>13. Verdict'
  BY <1>0, <1>1, <1>4, <1>7, VerdictAppend
<1>14. Block' /\ ExitStatusFaithful' /\ ChannelClosed'
  BY <1>0, <1>1 DEF Block, ExitStatusFaithful, ChannelClosed
<1> QED
  BY <1>8, <1>9, <1>10, <1>11, <1>12, <1>13, <1>14 DEF IInv

\* An end of the output or a close is sent.
LEMMA EndsAppend ==
    ASSUME TypeOK, Sums, InFlight, Ends, NEW m \in Message, net' = Append(net, m),
           m.type \in {"status", "eof", "close"},
           m.type \in {"eof", "close"} => (eofSent' \/ closeSent') /\ written = output,
           eofSent \/ closeSent => eofSent' \/ closeSent',
           eofSent' \/ closeSent' => eofSent \/ closeSent \/ written = output,
           UNCHANGED <<output, written, buffer, handed, remoteEof, pc, reported>>
    PROVE  Ends'
<1>1. /\ \A i \in 1..Len(net) : net'[i] = net[i]
      /\ net'[Len(net) + 1] = m /\ Len(net) \in Nat /\ Len(net') = Len(net) + 1
      /\ \A i \in 1..Len(net') : i \in 1..Len(net) \/ i = Len(net) + 1
  BY AppendNet
<1>2. (\A st : Got(st)' = Got(st)) /\ (IsEof' <=> IsEof)
  BY DEF Got, Given, Held, IsEof
<1>3. ASSUME NEW i \in 1..Len(net'), net'[i].type \in {"eof", "close"}
      PROVE  (eofSent' \/ closeSent') /\ \A j \in i..Len(net') : net'[j].type # "data"
  <2>1. CASE i \in 1..Len(net)
    <3>1. (eofSent \/ closeSent) /\ \A j \in i..Len(net) : net[j].type # "data"
      BY <1>1, <1>3, <2>1 DEF Ends
    <3>2. ASSUME NEW j \in i..Len(net') PROVE net'[j].type # "data"
      <4>1. j \in i..Len(net) \/ j = Len(net) + 1
        BY <1>1, <2>1
      <4>2. j \in i..Len(net) => j \in 1..Len(net)
        BY <2>1
      <4> QED
        BY <1>1, <3>1, <4>1, <4>2
    <3> QED
      BY <3>1, <3>2
  <2>2. CASE i = Len(net) + 1
    <3>1. \A j \in i..Len(net') : j = Len(net) + 1
      BY <1>1, <2>2
    <3> QED
      BY <1>1, <1>3, <2>2, <3>1
  <2> QED
    BY <1>1, <2>1, <2>2
<1> QED
  BY <1>2, <1>3 DEF Ends

LEMMA ServerInv == ASSUME IInv, Server PROVE IInv'
<1>0. /\ TypeOK /\ Sums /\ InFlight /\ Contents /\ Ends /\ Verdict /\ Block
      /\ ExitStatusFaithful /\ ChannelClosed
  BY DEF IInv
<1>1. ASSUME ServerEof PROVE IInv'
  <2> DEFINE m == [type |-> "eof"]
  <2>1. /\ UNCHANGED <<output, written, ended, statusSent, closeSent, window, lost, channel,
                       buffer, remoteEof, remoteClosed, exitStatus, pc, raised, handed, reported>>
        /\ ~lost /\ written = output /\ eofSent' = TRUE /\ net' = Append(net, m)
    BY <1>1 DEF ServerEof, Send, libssh, client
  <2>2. m \in Message /\ m.type = "eof"
    BY DEF Message
  <2> HIDE DEF m
  <2>3. TypeOK'
    <3>1. net' \in Seq(Message)
      BY <1>0, <2>1, <2>2, AppendNet
    <3> QED
      BY <1>0, <2>1, <3>1 DEF TypeOK
  <2>4. Ends'
    BY <1>0, <2>1, <2>2, EndsAppend
  <2>5. Sums' /\ InFlight' /\ Contents' /\ Verdict'
    BY <1>0, <2>1, <2>2, SameSums, InFlightAppend, SameContents, VerdictAppend
  <2>6. Block' /\ ExitStatusFaithful' /\ ChannelClosed'
    BY <1>0, <2>1 DEF Block, ExitStatusFaithful, ChannelClosed
  <2> QED
    BY <2>3, <2>4, <2>5, <2>6 DEF IInv
<1>2. ASSUME CommandEnds PROVE IInv'
  <2>1. /\ UNCHANGED <<output, written, eofSent, statusSent, closeSent, window, net, lost, channel,
                       buffer, remoteEof, remoteClosed, exitStatus, pc, raised, handed, reported>>
        /\ ended = NoStatus /\ ended' \in Status \cup {Unknown}
    BY <1>2 DEF CommandEnds, libssh, client
  <2>2. ~statusSent /\ exitStatus = NoStatus /\ Unknown # NoStatus /\ NoStatus \notin Status
        /\ Unknown \notin Status
    BY <1>0, <2>1, ExecuteTypes DEF Verdict
  <2>3. TypeOK'
    BY <1>0, <2>1 DEF TypeOK
  <2>4. Verdict'
    BY <1>0, <2>1, <2>2 DEF Verdict
  <2>5. Sums' /\ InFlight' /\ Contents' /\ Ends'
    BY <1>0, <2>1, SameSums, SameInFlight, SameContents, SameEnds
  <2>6. ExitStatusFaithful'
    <3>1. reported \in Status \cup {Unknown, NoStatus}
      BY <1>0 DEF TypeOK
    <3>2. reported \notin Status /\ (reported = Unknown => lost)
      BY <1>0, <2>1, <2>2 DEF ExitStatusFaithful
    <3> QED
      BY <2>1, <3>2 DEF ExitStatusFaithful
  <2>7. Block' /\ ChannelClosed'
    BY <1>0, <2>1 DEF Block, ChannelClosed
  <2> QED
    BY <2>3, <2>4, <2>5, <2>6, <2>7 DEF IInv
<1>3. ASSUME ServerStatus PROVE IInv'
  <2> DEFINE m == [type |-> "status", status |-> ended]
  <2>1. /\ UNCHANGED <<output, written, eofSent, ended, closeSent, window, lost, channel,
                       buffer, remoteEof, remoteClosed, exitStatus, pc, raised, handed, reported>>
        /\ ~lost /\ ended \in Status /\ ~closeSent /\ statusSent' = TRUE
        /\ net' = Append(net, m)
    BY <1>3 DEF ServerStatus, Send, libssh, client
  <2>2. m \in Message /\ m.type = "status" /\ m.status = ended
    BY <2>1 DEF Message
  <2> HIDE DEF m
  <2>3. /\ net' \in Seq(Message)
        /\ \A i \in 1..Len(net) : net'[i] = net[i]
        /\ net'[Len(net) + 1] = m /\ Len(net) \in Nat /\ Len(net') = Len(net) + 1
        /\ \A i \in 1..Len(net') : i \in 1..Len(net) \/ i = Len(net) + 1
    BY <1>0, <2>1, <2>2, AppendNet
  <2>4. TypeOK'
    BY <1>0, <2>1, <2>3 DEF TypeOK
  <2>5. Ends'
    BY <1>0, <2>1, <2>2, EndsAppend
  <2>6. Sums' /\ InFlight' /\ Contents'
    BY <1>0, <2>1, <2>2, SameSums, InFlightAppend, SameContents
  <2>7. Verdict'
    <3>1. Len(net) + 1 \in 1..Len(net')
      BY <2>3
    <3>2. ASSUME NEW i \in 1..Len(net'), net'[i].type = "close"
          PROVE  ended = Unknown \/ exitStatus # NoStatus
                 \/ \E j \in 1..(i - 1) : net'[j].type = "status"
      <4>1. i \in 1..Len(net) /\ net[i].type = "close"
        BY <2>2, <2>3, <3>2
      <4>2. \A j \in 1..(i - 1) : net'[j] = net[j]
        BY <2>3, <4>1
      <4> QED
        BY <1>0, <4>1, <4>2 DEF Verdict
    <3>3. \A i \in 1..Len(net') : net'[i].type = "status" => net'[i].status = ended
      BY <1>0, <2>2, <2>3 DEF Verdict
    <3> QED
      BY <1>0, <2>1, <2>2, <2>3, <3>1, <3>2, <3>3 DEF Verdict
  <2>8. Block' /\ ExitStatusFaithful' /\ ChannelClosed'
    BY <1>0, <2>1 DEF Block, ExitStatusFaithful, ChannelClosed
  <2> QED
    BY <2>4, <2>5, <2>6, <2>7, <2>8 DEF IInv
<1>4. ASSUME ServerClose PROVE IInv'
  <2> DEFINE m == [type |-> "close"]
  <2>1. /\ UNCHANGED <<output, written, eofSent, ended, statusSent, window, lost, channel,
                       buffer, remoteEof, remoteClosed, exitStatus, pc, raised, handed, reported>>
        /\ ~lost /\ written = output /\ closeSent' = TRUE
        /\ ended = Unknown \/ statusSent
        /\ net' = Append(net, m)
    BY <1>4 DEF ServerClose, Send, libssh, client
  <2>2. m \in Message /\ m.type = "close"
    BY DEF Message
  <2> HIDE DEF m
  <2>3. /\ net' \in Seq(Message)
        /\ \A i \in 1..Len(net) : net'[i] = net[i]
        /\ net'[Len(net) + 1] = m /\ Len(net) \in Nat /\ Len(net') = Len(net) + 1
        /\ \A i \in 1..Len(net') : i \in 1..Len(net) \/ i = Len(net) + 1
    BY <1>0, <2>1, <2>2, AppendNet
  <2>4. TypeOK'
    BY <1>0, <2>1, <2>3 DEF TypeOK
  <2>5. Ends'
    BY <1>0, <2>1, <2>2, EndsAppend
  <2>6. Sums' /\ InFlight' /\ Contents'
    BY <1>0, <2>1, <2>2, SameSums, InFlightAppend, SameContents
  <2>7. Verdict'
    <3>1. ASSUME NEW i \in 1..Len(net'), net'[i].type = "close"
          PROVE  ended = Unknown \/ exitStatus # NoStatus
                 \/ \E j \in 1..(i - 1) : net'[j].type = "status"
      <4>1. CASE i \in 1..Len(net)
        <5>1. net[i].type = "close" /\ \A j \in 1..(i - 1) : net'[j] = net[j]
          BY <2>3, <3>1, <4>1
        <5> QED
          BY <1>0, <4>1, <5>1 DEF Verdict
      <4>2. CASE i = Len(net) + 1
        <5>1. (i - 1) = Len(net) /\ \A j \in 1..Len(net) : net'[j] = net[j]
          BY <2>3, <4>2
        <5> QED
          BY <1>0, <2>1, <5>1 DEF Verdict
      <4> QED
        BY <2>3, <4>1, <4>2
    <3>2. \A i \in 1..Len(net') : net'[i].type = "status" => statusSent /\ net'[i].status = ended
      BY <1>0, <2>2, <2>3 DEF Verdict
    <3>3. (\E j \in 1..Len(net) : net[j].type = "status") =>
              \E j \in 1..Len(net') : net'[j].type = "status"
      BY <2>3
    <3> QED
      BY <1>0, <2>1, <3>1, <3>2, <3>3 DEF Verdict
  <2>8. Block' /\ ExitStatusFaithful' /\ ChannelClosed'
    BY <1>0, <2>1 DEF Block, ExitStatusFaithful, ChannelClosed
  <2> QED
    BY <2>4, <2>5, <2>6, <2>7, <2>8 DEF IInv
<1> QED
  BY <1>1, <1>2, <1>3, <1>4, ServerWriteInv DEF Server

LEMMA ConnectionLostInv == ASSUME IInv, ConnectionLost PROVE IInv'
<1>1. /\ UNCHANGED <<output, written, eofSent, ended, statusSent, closeSent, window, channel,
                     buffer, remoteEof, remoteClosed, exitStatus, pc, raised, handed, reported>>
      /\ lost' = TRUE /\ net' = <<>> /\ Len(net') = 0 /\ net' \in Seq(Message)
  BY DEF ConnectionLost, server, libssh, client
<1>2. (\A st : Got(st)' = Got(st)) /\ (IsEof' <=> IsEof)
  BY <1>1 DEF Got, Given, Held, IsEof
<1>3. TypeOK'
  BY <1>1 DEF IInv, TypeOK
<1>4. Sums' /\ Contents'
  BY <1>1, SameSums, SameContents DEF IInv
<1>5. InFlight'
  BY <1>1 DEF InFlight
<1>6. Ends'
  BY <1>1, <1>2 DEF IInv, Ends
<1>7. Verdict'
  BY <1>1 DEF IInv, Verdict
<1>8. Block' /\ ExitStatusFaithful' /\ ChannelClosed'
  BY <1>1 DEF IInv, Block, ExitStatusFaithful, ChannelClosed
<1> QED
  BY <1>3, <1>4, <1>5, <1>6, <1>7, <1>8 DEF IInv

-----------------------------------------------------------------------------
(* libssh.                                                                  *)

\* What is behind the first message stays behind an end of the output.
LEMMA EndsTail ==
    ASSUME TypeOK, Ends, net # <<>>, net' = Tail(net)
    PROVE  \A i \in 1..Len(net') : net'[i].type \in {"eof", "close"} =>
               (eofSent \/ closeSent) /\ \A j \in i..Len(net') : net'[j].type # "data"
<1>1. /\ Len(net) \in Nat /\ Len(net') = Len(net) - 1
      /\ \A i \in 1..Len(net') : i + 1 \in 1..Len(net) /\ net'[i] = net[i + 1]
  BY TailNet
<1> SUFFICES ASSUME NEW i \in 1..Len(net'), net'[i].type \in {"eof", "close"}
             PROVE  (eofSent \/ closeSent) /\ \A j \in i..Len(net') : net'[j].type # "data"
  OBVIOUS
<1>2. i + 1 \in 1..Len(net) /\ net[i + 1].type \in {"eof", "close"}
  BY <1>1
<1>3. (eofSent \/ closeSent) /\ \A j \in (i + 1)..Len(net) : net[j].type # "data"
  BY <1>2 DEF Ends
<1>4. \A j \in i..Len(net') : j \in 1..Len(net') /\ j + 1 \in (i + 1)..Len(net)
  BY <1>1
<1> QED
  BY <1>1, <1>3, <1>4

\* The next unit of a stream is received.
LEMMA ReceiveDataInv ==
    ASSUME IInv, Receive, Head(net).type = "data"
    PROVE  IInv'
<1>0. /\ TypeOK /\ Sums /\ InFlight /\ Contents /\ Ends /\ Verdict /\ Block
      /\ ExitStatusFaithful /\ ChannelClosed
  BY DEF IInv
<1>1. /\ UNCHANGED <<output, written, eofSent, ended, statusSent, closeSent, window, lost,
                     channel, remoteEof, remoteClosed, exitStatus, pc, raised, handed, reported>>
      /\ net # <<>> /\ net' = Tail(net)
      /\ buffer' = [buffer EXCEPT ![Head(net).unit[1]] = Append(@, Head(net).unit)]
  BY DEF Receive, server, client
<1>2. /\ net' \in Seq(Message) /\ Head(net) = net[1] /\ Head(net) \in Message
      /\ Len(net) \in Nat /\ 1 \in 1..Len(net) /\ Len(net') = Len(net) - 1
      /\ \A i \in 1..Len(net') : i + 1 \in 1..Len(net) /\ net'[i] = net[i + 1]
      /\ \A i \in 1..Len(net) : i = 1 \/ (i - 1 \in 1..Len(net') /\ net'[i - 1] = net[i])
  BY <1>0, <1>1, TailNet
<1>3. PICK st \in Stream, k \in 1..MaxUnits : Head(net).unit = <<st, k>>
  BY <1>2, MessageShape
<1>4. /\ \A x \in Stream : /\ output[x] \in 0..MaxUnits /\ written[x] \in 0..MaxUnits
                            /\ buffer[x] \in Seq(Stream \X (1..MaxUnits))
                            /\ Given(x) \in Nat /\ Held(x) \in Nat /\ Got(x) \in Nat
      /\ MaxUnits \in Nat
  BY <1>0, Streams
<1>5. Carries(net[1], st, k) /\ k \in Nat
  BY <1>2, <1>3, <1>4 DEF Carries
<1>6. ~lost
  BY <1>0, <1>1 DEF InFlight
<1>7. k = Got(st) + 1 /\ k <= written[st]
  <2>1. Got(st) < k /\ k <= written[st]
    BY <1>0, <1>2, <1>3, <1>5 DEF InFlight
  <2>2. ASSUME Got(st) + 1 # k PROVE FALSE
    <3>1. /\ Got(st) < Got(st) + 1 /\ Got(st) + 1 <= written[st] /\ Got(st) + 1 \in Nat
          /\ Got(st) + 1 < k
      BY <1>3, <1>4, <1>5, <2>1, <2>2
    <3>2. PICK i \in 1..Len(net) : Carries(net[i], st, Got(st) + 1)
      BY <1>0, <1>3, <1>6, <3>1 DEF InFlight
    <3>3. i # 1
      BY <1>5, <2>2, <3>2 DEF Carries
    <3>4. k < Got(st) + 1
      BY <1>0, <1>2, <1>3, <1>5, <3>1, <3>2, <3>3 DEF InFlight
    <3> QED
      BY <1>4, <1>3, <1>5, <3>1, <3>4
  <2> QED
    BY <2>1, <2>2
<1>8. /\ \A x \in Stream : x # st => buffer'[x] = buffer[x]
      /\ buffer'[st] = Append(buffer[st], <<st, k>>)
      /\ buffer' \in [Stream -> Seq(Stream \X (1..MaxUnits))]
  <2>1. buffer \in [Stream -> Seq(Stream \X (1..MaxUnits))]
    BY <1>0 DEF TypeOK
  <2>2. Append(buffer[st], <<st, k>>) \in Seq(Stream \X (1..MaxUnits))
    BY <1>3, <1>4, AppendProperties
  <2>3. Head(net).unit[1] = st
    BY <1>3
  <2>4. buffer' = [buffer EXCEPT ![st] = Append(buffer[st], <<st, k>>)]
    BY <1>1, <1>3, <2>3
  <2> QED
    BY <2>1, <2>2, <2>4
<1>9. /\ Held(st)' = Held(st) + 1
      /\ \A i \in 1..Held(st) : buffer'[st][i] = buffer[st][i]
      /\ buffer'[st][Held(st) + 1] = <<st, k>>
  BY <1>3, <1>4, <1>8, AppendProperties DEF Held
<1>10. /\ \A x \in Stream : Given(x)' = Given(x)
       /\ \A x \in Stream : x # st => Held(x)' = Held(x) /\ Got(x)' = Got(x)
       /\ Got(st)' = Got(st) + 1
  <2>1. /\ \A x \in Stream : Given(x)' = Given(x)
        /\ \A x \in Stream : x # st => Held(x)' = Held(x)
    BY <1>1, <1>8 DEF Given, Held
  <2>2. \A x \in Stream : x # st => Got(x)' = Got(x)
    BY <2>1 DEF Got
  <2>3. Got(st)' = Got(st) + 1
    BY <1>3, <1>4, <1>9, <2>1 DEF Got
  <2> QED
    BY <2>1, <2>2, <2>3
<1>11. TypeOK'
  BY <1>0, <1>1, <1>2, <1>8 DEF TypeOK
<1>12. Sums'
  <2>1. \A x \in Stream : Got(x)' <= written'[x] /\ written'[x] <= output'[x]
    BY <1>0, <1>1, <1>7, <1>10 DEF Sums
  <2>2. Given(Stdout)' = Given(Stdout) /\ Given(Stderr)' = Given(Stderr)
    BY <1>10, ExecuteTypes
  <2> QED
    BY <1>0, <1>1, <2>1, <2>2 DEF Sums
<1>13. InFlight'
  <2>1. ASSUME NEW i \in 1..Len(net'), NEW x \in Stream, NEW u \in Nat, Carries(net'[i], x, u)
        PROVE  Got(x)' < u /\ u <= written'[x]
    <3>1. i + 1 \in 1..Len(net) /\ Carries(net[i + 1], x, u) /\ 1 < i + 1
      BY <1>2, <2>1
    <3>2. Got(x) < u /\ u <= written[x]
      BY <1>0, <3>1 DEF InFlight
    <3>3. x = st => k < u
      BY <1>0, <1>2, <1>5, <3>1 DEF InFlight
    <3> QED
      BY <1>1, <1>3, <1>7, <1>10, <3>2, <3>3
  <2>2. ASSUME NEW i \in 1..Len(net'), NEW j \in 1..Len(net'), NEW x \in Stream,
               NEW u \in Nat, NEW v \in Nat,
               i < j, Carries(net'[i], x, u), Carries(net'[j], x, v)
        PROVE  u < v
    <3>1. i + 1 < j + 1
      BY <2>2
    <3> QED
      BY <1>0, <1>2, <2>2, <3>1 DEF InFlight
  <2>3. ASSUME NEW x \in Stream, NEW u \in Nat, Got(x)' < u, u <= written'[x]
        PROVE  \E i \in 1..Len(net') : Carries(net'[i], x, u)
    <3>1. Got(x) < u /\ (x = st => u # k)
      BY <1>3, <1>4, <1>7, <1>10, <2>3
    <3>2. PICK i \in 1..Len(net) : Carries(net[i], x, u)
      BY <1>0, <1>1, <1>6, <2>3, <3>1 DEF InFlight
    <3>3. i # 1
      BY <1>5, <3>1, <3>2 DEF Carries
    <3> QED
      BY <1>2, <3>2, <3>3
  <2>4. ~lost'
    BY <1>1, <1>6
  <2> QED
    BY <2>1, <2>2, <2>3, <2>4 DEF InFlight, Carries
<1>14. Contents'
  <2>1. ASSUME NEW x \in Stream
        PROVE  /\ \A i \in 1..Given(x)' : handed'[x][i] = <<x, i>>
               /\ \A i \in 1..Held(x)' : buffer'[x][i] = <<x, Given(x)' + i>>
    <3>1. \A i \in 1..Given(x)' : handed'[x][i] = <<x, i>>
      BY <1>0, <1>1, <1>10 DEF Contents
    <3>2. CASE x # st
      BY <1>0, <1>8, <1>10, <3>1, <3>2 DEF Contents
    <3>3. CASE x = st
      <4>1. k = Given(st) + (Held(st) + 1)
        BY <1>3, <1>4, <1>7 DEF Got
      <4>2. \A i \in 1..(Held(st) + 1) : i \in 1..Held(st) \/ i = Held(st) + 1
        BY <1>3, <1>4
      <4>3. \A i \in 1..Held(st) : buffer'[st][i] = <<st, Given(st) + i>>
        BY <1>0, <1>3, <1>9 DEF Contents
      <4> QED
        BY <1>9, <1>10, <3>1, <3>3, <4>1, <4>2, <4>3
    <3> QED
      BY <3>2, <3>3
  <2> QED
    BY <2>1 DEF Contents
<1>15. Ends'
  <2>1. ~remoteEof
    <3>1. ASSUME remoteEof PROVE FALSE
      <4>1. Got(st) = output[st] /\ written[st] <= output[st]
        BY <1>0, <1>3, <3>1 DEF Ends, Sums
      <4> QED
        BY <1>3, <1>4, <1>7, <4>1
    <3> QED
      BY <3>1
  <2>2. pc # "get_exit_status" /\ reported = NoStatus
    BY <1>0, <2>1 DEF Ends, IsEof
  <2>3. ASSUME NEW i \in 1..Len(net'), net'[i].type \in {"eof", "close"}
        PROVE  (eofSent \/ closeSent) /\ \A j \in i..Len(net') : net'[j].type # "data"
    BY <1>0, <1>1, <2>3, EndsTail
  <2>4. /\ UNCHANGED <<eofSent, closeSent, written, output>> /\ ~remoteEof'
        /\ pc' # "get_exit_status" /\ reported' = NoStatus
    BY <1>1, <2>1, <2>2
  <2>5. eofSent \/ closeSent => written = output
    BY <1>0 DEF Ends
  <2> QED
    BY <2>3, <2>4, <2>5 DEF Ends
<1>16. Verdict'
  BY <1>0, <1>1, VerdictTail
<1>17. Block' /\ ExitStatusFaithful' /\ ChannelClosed'
  BY <1>0, <1>1 DEF Block, ExitStatusFaithful, ChannelClosed
<1> QED
  BY <1>11, <1>12, <1>13, <1>14, <1>15, <1>16, <1>17 DEF IInv

\* The exit status is received.
LEMMA ReceiveStatusInv ==
    ASSUME IInv, Receive, Head(net).type = "status"
    PROVE  IInv'
<1>0. /\ TypeOK /\ Sums /\ InFlight /\ Contents /\ Ends /\ Verdict /\ Block
      /\ ExitStatusFaithful /\ ChannelClosed
  BY DEF IInv
<1>1. /\ UNCHANGED <<output, written, eofSent, ended, statusSent, closeSent, window, lost, buffer,
                     channel, remoteEof, remoteClosed, pc, raised, handed, reported>>
      /\ net # <<>> /\ net' = Tail(net) /\ exitStatus' = Head(net).status
  BY DEF Receive, server, client
<1>2. /\ net' \in Seq(Message) /\ Head(net) = net[1] /\ Head(net) \in Message
      /\ 1 \in 1..Len(net)
      /\ \A i \in 1..Len(net') : i + 1 \in 1..Len(net) /\ net'[i] = net[i + 1]
  BY <1>0, <1>1, TailNet
<1>3. statusSent /\ exitStatus' = ended /\ ended \in Status /\ ended # NoStatus
  BY <1>0, <1>1, <1>2, ExecuteTypes DEF Verdict
<1>4. TypeOK'
  BY <1>0, <1>1, <1>2, <1>3 DEF TypeOK
<1>5. Sums' /\ InFlight' /\ Contents'
  BY <1>0, <1>1, SameSums, InFlightTail, SameContents
<1>6. Ends'
  <2>1. (\A st : Got(st)' = Got(st)) /\ (IsEof' <=> IsEof)
    BY <1>1 DEF Got, Given, Held, IsEof
  <2>2. \A i \in 1..Len(net') : net'[i].type \in {"eof", "close"} =>
            (eofSent \/ closeSent) /\ \A j \in i..Len(net') : net'[j].type # "data"
    BY <1>0, <1>1, EndsTail
  <2> QED
    BY <1>0, <1>1, <2>1, <2>2 DEF Ends
<1>7. Verdict'
  <2>1. \A i \in 1..Len(net') : net'[i].type = "status" => net'[i].status = ended
    BY <1>0, <1>2 DEF Verdict
  <2> QED
    BY <1>0, <1>1, <1>3, <2>1 DEF Verdict
<1>8. Block' /\ ExitStatusFaithful' /\ ChannelClosed'
  BY <1>0, <1>1 DEF Block, ExitStatusFaithful, ChannelClosed
<1> QED
  BY <1>4, <1>5, <1>6, <1>7, <1>8 DEF IInv

\* The end of the output, or the close, is received: everything before it has
\* been.
LEMMA ReceiveEndInv ==
    ASSUME IInv, Receive, Head(net).type \in {"eof", "close"}
    PROVE  IInv'
<1>0. /\ TypeOK /\ Sums /\ InFlight /\ Contents /\ Ends /\ Verdict /\ Block
      /\ ExitStatusFaithful /\ ChannelClosed
  BY DEF IInv
<1>1. /\ UNCHANGED <<output, written, eofSent, ended, statusSent, closeSent, window, lost, buffer,
                     channel, exitStatus, pc, raised, handed, reported>>
      /\ net # <<>> /\ net' = Tail(net) /\ remoteEof' = TRUE
      /\ remoteClosed' = (remoteClosed \/ Head(net).type = "close")
  BY DEF Receive, server, client
<1>2. /\ net' \in Seq(Message) /\ Head(net) = net[1] /\ Head(net) \in Message
      /\ Len(net) \in Nat /\ 1 \in 1..Len(net) /\ Len(net') = Len(net) - 1
      /\ \A i \in 1..Len(net') : i + 1 \in 1..Len(net) /\ net'[i] = net[i + 1]
      /\ \A i \in 1..Len(net) : i = 1 \/ (i - 1 \in 1..Len(net') /\ net'[i - 1] = net[i])
  BY <1>0, <1>1, TailNet
<1>3. TypeOK'
  BY <1>0, <1>1, <1>2 DEF TypeOK
<1>4. Sums' /\ InFlight' /\ Contents'
  BY <1>0, <1>1, SameSums, InFlightTail, SameContents
<1>5. (eofSent \/ closeSent) /\ written = output /\ \A j \in 1..Len(net) : net[j].type # "data"
  BY <1>0, <1>2 DEF Ends
<1>6. ASSUME NEW st \in Stream PROVE Got(st) = output[st]
  <2>1. /\ Got(st) \in Nat /\ written[st] \in Nat /\ Got(st) <= written[st]
    <3>1. Got(st) \in Nat /\ written[st] \in 0..MaxUnits /\ MaxUnits \in Nat
      BY <1>0, Streams
    <3>2. Got(st) <= written[st]
      BY <1>0 DEF Sums
    <3> QED
      BY <3>1, <3>2
  <2>2. ~lost
    BY <1>0, <1>1 DEF InFlight
  <2>3. ASSUME Got(st) < written[st] PROVE FALSE
    <3>1. /\ Got(st) + 1 \in Nat /\ Got(st) < Got(st) + 1 /\ Got(st) + 1 <= written[st]
      BY <2>1, <2>3
    <3>2. PICK i \in 1..Len(net) : Carries(net[i], st, Got(st) + 1)
      BY <1>0, <2>2, <3>1 DEF InFlight
    <3> QED
      BY <1>5, <3>2 DEF Carries
  <2> QED
    BY <1>5, <2>1, <2>3
<1>7. Ends'
  <2>1. \A st : Got(st)' = Got(st)
    BY <1>1 DEF Got, Given, Held
  <2>2. \A i \in 1..Len(net') : net'[i].type \in {"eof", "close"} =>
            (eofSent \/ closeSent) /\ \A j \in i..Len(net') : net'[j].type # "data"
    BY <1>0, <1>1, EndsTail
  <2>3. IsEof => IsEof'
    BY <1>1 DEF IsEof
  <2> QED
    BY <1>0, <1>1, <1>5, <1>6, <2>1, <2>2, <2>3 DEF Ends
<1>8. Verdict'
  <2>1. CASE Head(net).type = "eof"
    <3>1. UNCHANGED remoteClosed
      BY <1>0, <1>1, <2>1 DEF TypeOK
    <3> QED
      BY <1>0, <1>1, <2>1, <3>1, VerdictTail
  <2>2. CASE Head(net).type = "close"
    <3>1. ended = Unknown \/ exitStatus # NoStatus
      <4>1. ~\E j \in 1..(1 - 1) : net[j].type = "status"
        OBVIOUS
      <4> QED
        BY <1>0, <1>2, <2>2, <4>1 DEF Verdict
    <3>2. \A i \in 1..Len(net') :
              net'[i].type = "status" => statusSent /\ net'[i].status = ended
      BY <1>0, <1>2 DEF Verdict
    <3>3. (\E j \in 1..Len(net) : net[j].type = "status") =>
              \E j \in 1..Len(net') : net'[j].type = "status"
      BY <1>2, <2>2
    <3> QED
      BY <1>0, <1>1, <3>1, <3>2, <3>3 DEF Verdict
  <2> QED
    BY <2>1, <2>2
<1>9. Block' /\ ExitStatusFaithful' /\ ChannelClosed'
  BY <1>0, <1>1 DEF Block, ExitStatusFaithful, ChannelClosed
<1> QED
  BY <1>3, <1>4, <1>7, <1>8, <1>9 DEF IInv

LEMMA ReceiveInv == ASSUME IInv, Receive PROVE IInv'
<1>1. Head(net) \in Message
  <2>1. net \in Seq(Message) /\ net # <<>>
    BY DEF IInv, TypeOK, Receive
  <2> QED
    BY <2>1, HeadTailProperties
<1> QED
  BY <1>1, MessageShape, ReceiveDataInv, ReceiveStatusInv, ReceiveEndInv

-----------------------------------------------------------------------------
(* execute_command.                                                         *)

\* The oldest n of the buffered units b go behind the units h.
LEMMA HandOver ==
    ASSUME NEW S, NEW h \in Seq(S), NEW b \in Seq(S), NEW g \in Nat, NEW k \in Nat, NEW n \in Nat,
           Len(h) = g, Len(b) = k, n <= k
    PROVE  /\ h \o SubSeq(b, 1, n) \in Seq(S) /\ Len(h \o SubSeq(b, 1, n)) = g + n
           /\ \A i \in 1..g : (h \o SubSeq(b, 1, n))[i] = h[i]
           /\ \A i \in 1..n : (h \o SubSeq(b, 1, n))[g + i] = b[i]
           /\ SubSeq(b, n + 1, k) \in Seq(S) /\ Len(SubSeq(b, n + 1, k)) = k - n
           /\ \A i \in 1..(k - n) : SubSeq(b, n + 1, k)[i] = b[n + i]
<1> DEFINE front == SubSeq(b, 1, n)
           rest  == SubSeq(b, n + 1, k)
<1>1. \A i \in 1..k : b[i] \in S
  BY ElementOfSeq
<1>2. front \in Seq(S) /\ Len(front) = n /\ \A i \in 1..n : front[i] = b[i]
  <2>1. 1 \in Int /\ n \in Int /\ \A i \in 1..n : b[i] \in S
    BY <1>1
  <2>2. /\ front \in Seq(S) /\ Len(front) = IF 1 <= n THEN n - 1 + 1 ELSE 0
        /\ \A i \in 1..(n - 1 + 1) : front[i] = b[1 + i - 1]
    BY <2>1, SubSeqProperties
  <2>3. ASSUME NEW i \in 1..n PROVE i \in 1..(n - 1 + 1) /\ 1 + i - 1 = i
    OBVIOUS
  <2>4. (IF 1 <= n THEN n - 1 + 1 ELSE 0) = n
    OBVIOUS
  <2> QED
    BY <2>2, <2>3, <2>4
<1>3. rest \in Seq(S) /\ Len(rest) = k - n /\ \A i \in 1..(k - n) : rest[i] = b[n + i]
  <2>1. n + 1 \in Int /\ k \in Int /\ \A i \in (n + 1)..k : b[i] \in S
    BY <1>1
  <2>2. /\ rest \in Seq(S) /\ Len(rest) = IF n + 1 <= k THEN k - (n + 1) + 1 ELSE 0
        /\ \A i \in 1..(k - (n + 1) + 1) : rest[i] = b[n + 1 + i - 1]
    BY <2>1, SubSeqProperties
  <2>3. ASSUME NEW i \in 1..(k - n) PROVE i \in 1..(k - (n + 1) + 1) /\ n + 1 + i - 1 = n + i
    OBVIOUS
  <2>4. (IF n + 1 <= k THEN k - (n + 1) + 1 ELSE 0) = k - n
    OBVIOUS
  <2> QED
    BY <2>2, <2>3, <2>4
<1>4. /\ h \o front \in Seq(S) /\ Len(h \o front) = g + n
      /\ \A i \in 1..(g + n) : (h \o front)[i] = IF i <= g THEN h[i] ELSE front[i - g]
  <2> HIDE DEF front
  <2>1. /\ h \o front \in Seq(S) /\ Len(h \o front) = Len(h) + Len(front)
        /\ \A i \in 1..(Len(h) + Len(front)) :
               (h \o front)[i] = IF i <= Len(h) THEN h[i] ELSE front[i - Len(h)]
    BY <1>2, ConcatProperties
  <2> QED
    BY <1>2, <2>1
<1> HIDE DEF front, rest
<1>5. ASSUME NEW i \in 1..g PROVE (h \o front)[i] = h[i]
  <2>1. i \in 1..(g + n) /\ i <= g
    OBVIOUS
  <2> QED
    BY <1>4, <2>1
<1>6. ASSUME NEW i \in 1..n PROVE (h \o front)[g + i] = b[i]
  <2>1. g + i \in 1..(g + n) /\ ~(g + i <= g) /\ (g + i) - g = i
    OBVIOUS
  <2>2. (h \o front)[g + i] = front[(g + i) - g]
    BY <1>4, <2>1
  <2> QED
    BY <1>2, <2>1, <2>2
<1> QED
  BY <1>2, <1>3, <1>4, <1>5, <1>6 DEF front, rest

HandsOver(S, h, b, n) ==
    /\ h \o SubSeq(b, 1, n) \in Seq(S) /\ Len(h \o SubSeq(b, 1, n)) = Len(h) + n
    /\ \A i \in 1..Len(h) : (h \o SubSeq(b, 1, n))[i] = h[i]
    /\ \A i \in 1..n : (h \o SubSeq(b, 1, n))[Len(h) + i] = b[i]
    /\ SubSeq(b, n + 1, Len(b)) \in Seq(S) /\ Len(SubSeq(b, n + 1, Len(b))) = Len(b) - n
    /\ \A i \in 1..(Len(b) - n) : SubSeq(b, n + 1, Len(b))[i] = b[n + i]

LEMMA HandOverAll ==
    ASSUME NEW S, NEW h \in Seq(S), NEW b \in Seq(S), NEW n \in 0..Len(b)
    PROVE  HandsOver(S, h, b, n)
<1>1. Len(h) \in Nat /\ Len(b) \in Nat
  BY LenProperties
<1>2. n \in Nat /\ n <= Len(b)
  BY <1>1
<1> QED
  BY <1>1, <1>2, HandOver DEF HandsOver

\* A read hands the oldest buffered units over.
LEMMA ReadInv ==
    ASSUME IInv, NEW st \in Stream, NEW label, NEW next, ReadNonblocking(st, label, next),
           <<label, next>> \in {<<"read_stdout", "read_stderr">>, <<"read_stderr", "eof?">>}
    PROVE  IInv'
<1>0. /\ TypeOK /\ Sums /\ InFlight /\ Contents /\ Ends /\ Verdict /\ Block
      /\ ExitStatusFaithful /\ ChannelClosed
  BY DEF IInv
<1>1. /\ UNCHANGED <<output, written, eofSent, ended, statusSent, closeSent, net, lost, channel,
                     remoteEof, remoteClosed, exitStatus, reported>>
      /\ pc = label
  BY DEF ReadNonblocking, others, server
<1>2. /\ label \in {"read_stdout", "read_stderr"} /\ next \in {"read_stderr", "eof?"}
      /\ pc \in {"read_stdout", "read_stderr"} /\ ~raised /\ reported = NoStatus
  BY <1>0, <1>1 DEF Block
<1>3. \/ pc' = next /\ UNCHANGED raised
      \/ pc' = "close" /\ raised' = TRUE
  BY DEF ReadNonblocking, Goto, Raise
<1>4. /\ Stdout \in Stream /\ Stderr \in Stream
      /\ \A x \in Stream :
             /\ output[x] \in 0..MaxUnits /\ written[x] \in 0..MaxUnits
             /\ handed[x] \in Seq(Stream \X (1..MaxUnits)) /\ Given(x) \in Nat
             /\ buffer[x] \in Seq(Stream \X (1..MaxUnits)) /\ Held(x) \in Nat
             /\ Got(x) \in Nat
      /\ BUFSIZ \in Nat /\ Window \in Nat /\ MaxUnits \in Nat /\ window \in Nat
      /\ Stream = {Stdout, Stderr} /\ Stdout # Stderr
  BY <1>0, Streams, ExecuteTypes
<1>5. Size(st) \in Nat /\ Size(st) <= Held(st) /\ Len(buffer[st]) = Held(st) /\ Len(handed[st]) = Given(st)
  BY <1>4 DEF Size, Held, Given
<1>6. CASE UNCHANGED <<handed, buffer, window>>
  <2>1. TypeOK'
    BY <1>0, <1>1, <1>2, <1>3, <1>6 DEF TypeOK
  <2>2. Sums' /\ InFlight' /\ Contents' /\ Verdict'
    BY <1>0, <1>1, <1>6, SameSums, SameInFlight, SameContents, SameVerdict
  <2>3. Ends'
    BY <1>0, <1>1, <1>2, <1>3, <1>6, SameEnds
  <2>4. Block' /\ ExitStatusFaithful' /\ ChannelClosed'
    BY <1>0, <1>1, <1>2, <1>3 DEF Block, ExitStatusFaithful, ChannelClosed
  <2> QED
    BY <2>1, <2>2, <2>3, <2>4 DEF IInv
<1>7. CASE /\ handed' = [handed EXCEPT ![st] = @ \o Taken(st)]
           /\ buffer' = [buffer EXCEPT ![st] = SubSeq(@, Size(st) + 1, Len(@))]
           /\ window' = window + Size(st)
  <2>1. PICK c \in Nat : c = Size(st) /\ c <= Held(st)
    BY <1>5
  <2>2. PICK g \in Nat : g = Given(st)
    BY <1>4
  <2>3. PICK k \in Nat : k = Held(st)
    BY <1>4
  <2>4. PICK taken : taken = handed[st] \o SubSeq(buffer[st], 1, c)
    OBVIOUS
  <2>5. PICK rest : rest = SubSeq(buffer[st], c + 1, k)
    OBVIOUS
  <2>6. c <= k /\ Len(handed[st]) = g /\ Len(buffer[st]) = k
    BY <1>5, <2>1, <2>2, <2>3
  <2>7. /\ taken \in Seq(Stream \X (1..MaxUnits)) /\ Len(taken) = g + c
        /\ \A i \in 1..g : taken[i] = handed[st][i]
        /\ \A i \in 1..c : taken[g + i] = buffer[st][i]
        /\ rest \in Seq(Stream \X (1..MaxUnits)) /\ Len(rest) = k - c
        /\ \A i \in 1..(k - c) : rest[i] = buffer[st][c + i]
    <3>1. handed[st] \in Seq(Stream \X (1..MaxUnits)) /\ buffer[st] \in Seq(Stream \X (1..MaxUnits))
      BY <1>4
    <3>2. PICK S : S = Stream \X (1..MaxUnits)
      OBVIOUS
    <3>3. PICK h : h = handed[st]
      OBVIOUS
    <3>4. PICK b : b = buffer[st]
      OBVIOUS
    <3>5. h \in Seq(S) /\ b \in Seq(S) /\ Len(h) = g /\ Len(b) = k /\ c <= k
          /\ c \in Nat /\ g \in Nat /\ k \in Nat
      BY <2>1, <2>2, <2>3, <2>6, <3>1, <3>2, <3>3, <3>4
    <3>6. /\ h \o SubSeq(b, 1, c) \in Seq(S) /\ Len(h \o SubSeq(b, 1, c)) = g + c
          /\ \A i \in 1..g : (h \o SubSeq(b, 1, c))[i] = h[i]
          /\ \A i \in 1..c : (h \o SubSeq(b, 1, c))[g + i] = b[i]
          /\ SubSeq(b, c + 1, k) \in Seq(S) /\ Len(SubSeq(b, c + 1, k)) = k - c
          /\ \A i \in 1..(k - c) : SubSeq(b, c + 1, k)[i] = b[c + i]
      <4>1. c \in 0..Len(b)
        BY <3>5
      <4>2. HandsOver(S, h, b, c)
        BY <3>5, <4>1, HandOverAll
      <4> QED
        BY <3>5, <4>2 DEF HandsOver
    <3> QED
      BY <2>4, <2>5, <3>2, <3>3, <3>4, <3>6, Zenon
  <2>8. /\ handed' = [handed EXCEPT ![st] = taken]
        /\ buffer' = [buffer EXCEPT ![st] = rest]
        /\ window' = window + c
    BY <1>7, <2>1, <2>4, <2>5, <2>6 DEF Taken
  <2>9. /\ handed' \in [Stream -> Seq(Stream \X (1..MaxUnits))]
        /\ buffer' \in [Stream -> Seq(Stream \X (1..MaxUnits))]
        /\ handed'[st] = taken /\ buffer'[st] = rest
        /\ \A x \in Stream : x # st => handed'[x] = handed[x] /\ buffer'[x] = buffer[x]
    BY <1>0, <2>7, <2>8 DEF TypeOK
  <2>10. /\ Given(st)' = g + c /\ Held(st)' = k - c
         /\ \A x \in Stream : x # st => Given(x)' = Given(x) /\ Held(x)' = Held(x)
    BY <2>7, <2>9 DEF Given, Held
  <2>11. ASSUME NEW x \in Stream
         PROVE  Got(x)' = Got(x) /\ Given(x)' \in Nat /\ Held(x)' \in Nat
    <3>1. CASE x = st
      <4>1. g + c \in Nat /\ k - c \in Nat /\ (g + c) + (k - c) = g + k
        BY <2>6
      <4> QED
        BY <2>2, <2>3, <2>10, <3>1, <4>1 DEF Got
    <3>2. CASE x # st
      BY <1>4, <2>10, <3>2 DEF Got
    <3> QED
      BY <3>1, <3>2
  <2>12. Sums'
    <3>1. window + (written[Stdout] - Given(Stdout)) + (written[Stderr] - Given(Stderr)) = Window
      BY <1>0 DEF Sums
    <3>2. \/ Given(Stdout)' = Given(Stdout) + c /\ Given(Stderr)' = Given(Stderr)
          \/ Given(Stdout)' = Given(Stdout) /\ Given(Stderr)' = Given(Stderr) + c
      <4>1. CASE st = Stdout
        BY <1>4, <2>2, <2>10, <4>1
      <4>2. CASE st = Stderr
        BY <1>4, <2>2, <2>10, <4>2
      <4> QED
        BY <1>4, <4>1, <4>2
    <3>3. /\ written[Stdout] \in 0..MaxUnits /\ written[Stderr] \in 0..MaxUnits /\ window \in Nat
          /\ Given(Stdout) \in Nat /\ Given(Stderr) \in Nat /\ Window \in Nat /\ MaxUnits \in Nat
      BY <1>4
    <3>4. window' = window + c
      BY <2>8
    <3>5. window' + (written[Stdout] - Given(Stdout)') + (written[Stderr] - Given(Stderr)')
              = Window
      BY <3>1, <3>2, <3>3, <3>4
    <3>6. \A x \in Stream : Got(x)' <= written'[x] /\ written'[x] <= output'[x]
      BY <1>0, <1>1, <2>11 DEF Sums
    <3> QED
      BY <1>1, <3>5, <3>6 DEF Sums
  <2>13. TypeOK'
    <3>1. ASSUME NEW x \in Stream PROVE Given(x)' <= written[x]
      <4>1. Given(x)' \in Nat /\ Held(x)' \in Nat /\ Given(x)' + Held(x)' = Got(x)
        BY <2>11 DEF Got
      <4>2. Got(x) <= written[x] /\ written[x] \in 0..MaxUnits /\ MaxUnits \in Nat
        BY <1>0, <1>4 DEF Sums
      <4> QED
        BY <4>1, <4>2
    <3>2. window' + (written[Stdout] - Given(Stdout)') + (written[Stderr] - Given(Stderr)')
              = Window
      BY <1>1, <2>12 DEF Sums
    <3>3. /\ written[Stdout] \in 0..MaxUnits /\ written[Stderr] \in 0..MaxUnits
          /\ MaxUnits \in Nat /\ Window \in Nat /\ window \in Nat
      BY <1>4
    <3>4. Given(Stdout)' \in Nat /\ Given(Stderr)' \in Nat
      BY <1>4, <2>11
    <3>5. Given(Stdout)' <= written[Stdout] /\ Given(Stderr)' <= written[Stderr]
      BY <1>4, <3>1
    <3>6. window' \in Nat
      BY <2>8, <3>3
    <3>7. window' \in 0..Window
      BY <3>2, <3>3, <3>4, <3>5, <3>6
    <3> QED
      BY <1>0, <1>1, <1>2, <1>3, <2>9, <3>7 DEF TypeOK
  <2>14. InFlight'
    BY <1>0, <1>1, <2>11 DEF InFlight, Carries
  <2>15. Contents'
    <3>1. ASSUME NEW i \in 1..(g + c) PROVE taken[i] = <<st, i>>
      <4>1. CASE i <= g
        <5>1. i \in 1..g
          BY <4>1
        <5> QED
          BY <1>0, <2>2, <2>7, <5>1 DEF Contents
      <4>2. CASE ~(i <= g)
        <5>1. PICK j \in 1..c : j \in 1..k /\ g + j = i
          <6>1. i - g \in 1..c /\ i - g \in 1..k /\ g + (i - g) = i
            BY <2>6, <4>2
          <6> QED
            BY <6>1
        <5>2. buffer[st][j] = <<st, g + j>>
          BY <1>0, <2>2, <2>3, <5>1 DEF Contents
        <5> QED
          BY <2>7, <5>1, <5>2
      <4> QED
        BY <4>1, <4>2
    <3>2. ASSUME NEW i \in 1..(k - c) PROVE rest[i] = <<st, (g + c) + i>>
      <4>1. c + i \in 1..k /\ g + (c + i) = (g + c) + i
        BY <2>6
      <4>2. buffer[st][c + i] = <<st, g + (c + i)>>
        BY <1>0, <2>2, <2>3, <4>1 DEF Contents
      <4> QED
        BY <2>7, <4>1, <4>2
    <3>3. ASSUME NEW x \in Stream
          PROVE  /\ \A i \in 1..Given(x)' : handed'[x][i] = <<x, i>>
                 /\ \A i \in 1..Held(x)' : buffer'[x][i] = <<x, Given(x)' + i>>
      <4>1. CASE x = st
        BY <2>9, <2>10, <3>1, <3>2, <4>1
      <4>2. CASE x # st
        BY <1>0, <2>9, <2>10, <4>2 DEF Contents
      <4> QED
        BY <4>1, <4>2
    <3> QED
      BY <3>3 DEF Contents
  <2>16. Ends'
    <3>1. pc' # "get_exit_status" /\ reported' = NoStatus
      BY <1>1, <1>2, <1>3
    <3> QED
      BY <1>0, <1>1, <2>11, <3>1 DEF Ends
  <2>17. Verdict'
    BY <1>0, <1>1, SameVerdict
  <2>18. Block' /\ ExitStatusFaithful' /\ ChannelClosed'
    BY <1>0, <1>1, <1>2, <1>3 DEF Block, ExitStatusFaithful, ChannelClosed
  <2> QED
    BY <2>12, <2>13, <2>14, <2>15, <2>16, <2>17, <2>18 DEF IInv
<1> QED
  BY <1>6, <1>7 DEF ReadNonblocking

\* A step of the program that reads nothing.
LEMMA QuietInv ==
    ASSUME IInv,
           UNCHANGED <<output, written, eofSent, ended, statusSent, closeSent, window, net, lost,
                       buffer, remoteEof, remoteClosed, exitStatus, handed>>,
           channel' \in {"new", "open", "closed"},
           pc' \in {"open_session", "request_pty", "request_exec", "eof?", "select",
                    "read_stdout", "read_stderr", "get_exit_status", "close", "finished", "failed"},
           raised' \in BOOLEAN, reported' \in Status \cup {Unknown, NoStatus},
           (pc' = "get_exit_status" \/ reported' # NoStatus) =>
               IsEof \/ pc = "get_exit_status" \/ reported # NoStatus,
           Block', ExitStatusFaithful', ChannelClosed'
    PROVE  IInv'
<1>1. TypeOK'
  BY DEF IInv, TypeOK
<1>2. Sums' /\ InFlight' /\ Contents' /\ Ends' /\ Verdict'
  BY SameSums, SameInFlight, SameContents, SameEnds, SameVerdict DEF IInv
<1> QED
  BY <1>1, <1>2 DEF IInv

LEMMA ClientInv == ASSUME IInv, Client PROVE IInv'
<1>0. TypeOK /\ Ends /\ Verdict /\ Block /\ ExitStatusFaithful /\ ChannelClosed
  BY DEF IInv
<1> USE DEF Goto, Raise, others, server, libssh
<1>1. ASSUME OpenSession PROVE IInv'
  <2>1. Block' /\ ExitStatusFaithful' /\ ChannelClosed'
    BY <1>0, <1>1 DEF OpenSession, Block, ExitStatusFaithful, ChannelClosed
  <2> QED
    BY <1>0, <1>1, <2>1, QuietInv DEF OpenSession, TypeOK
<1>2. ASSUME NEW label, NEW next, Request(label, next),
             <<label, next>> \in {<<"request_pty", "request_exec">>, <<"request_exec", "eof?">>}
      PROVE  IInv'
  <2>1. label \in {"request_pty", "request_exec"} /\ next \in {"request_exec", "eof?"}
    BY <1>2
  <2>2. Block' /\ ExitStatusFaithful' /\ ChannelClosed'
    BY <1>0, <1>2, <2>1 DEF Request, Block, ExitStatusFaithful, ChannelClosed
  <2> QED
    BY <1>0, <1>2, <2>1, <2>2, QuietInv DEF Request, TypeOK
<1>3. ASSUME CheckEof PROVE IInv'
  <2>1. Block' /\ ExitStatusFaithful' /\ ChannelClosed'
    BY <1>0, <1>3 DEF CheckEof, Block, ExitStatusFaithful, ChannelClosed
  <2> QED
    BY <1>0, <1>3, <2>1, QuietInv DEF CheckEof, TypeOK
<1>4. ASSUME Select PROVE IInv'
  <2>1. Block' /\ ExitStatusFaithful' /\ ChannelClosed'
    BY <1>0, <1>4 DEF Select, Block, ExitStatusFaithful, ChannelClosed
  <2> QED
    BY <1>0, <1>4, <2>1, QuietInv DEF Select, TypeOK
<1>5. ASSUME GetExitStatus PROVE IInv'
  <2>1. /\ reported' = StatusOrNil /\ reported' # NoStatus
        /\ reported' \in Status \cup {Unknown}
    BY <1>0, <1>5, ExecuteTypes DEF GetExitStatus, StatusOrNil, TypeOK
  <2>2. ExitStatusFaithful'
    <3>1. CASE exitStatus # NoStatus
      BY <1>0, <1>5, <3>1, ExecuteTypes
      DEF GetExitStatus, StatusOrNil, ExitStatusFaithful, Verdict, TypeOK
    <3>2. CASE exitStatus = NoStatus
      <4>1. reported' = Unknown /\ (remoteClosed \/ lost) /\ UNCHANGED <<ended, lost>>
        BY <1>5, <3>2 DEF GetExitStatus, StatusOrNil, StatusSettled
      <4> QED
        BY <1>0, <3>2, <4>1, ExecuteTypes DEF ExitStatusFaithful, Verdict
    <3> QED
      BY <3>1, <3>2
  <2>3. Block' /\ ChannelClosed'
    BY <1>0, <1>5, <2>1 DEF GetExitStatus, Block, ChannelClosed
  <2> QED
    <3>1. /\ UNCHANGED <<output, written, eofSent, ended, statusSent, closeSent, window, net, lost,
                          buffer, remoteEof, remoteClosed, exitStatus, handed, channel>>
          /\ pc = "get_exit_status" /\ pc' = "close" /\ raised' \in BOOLEAN
      BY <1>5 DEF GetExitStatus
    <3>2. channel' \in {"new", "open", "closed"}
      BY <1>0, <3>1 DEF TypeOK
    <3> QED
      BY <2>1, <2>2, <2>3, <3>1, <3>2, QuietInv
<1>6. ASSUME Close PROVE IInv'
  <2>1. Block' /\ ExitStatusFaithful' /\ ChannelClosed'
    BY <1>0, <1>6 DEF Close, Block, ExitStatusFaithful, ChannelClosed, TypeOK
  <2> QED
    BY <1>0, <1>6, <2>1, QuietInv DEF Close, TypeOK
<1>7. Stdout \in Stream /\ Stderr \in Stream
  BY ExecuteTypes
<1> QED
  BY <1>1, <1>2, <1>3, <1>4, <1>5, <1>6, <1>7, ReadInv
  DEF Client, RequestPty, RequestExec, ReadStdout, ReadStderr

LEMMA NextInv == IInv /\ [Next]_vars => IInv'
<1> SUFFICES ASSUME IInv, [Next]_vars PROVE IInv'
  OBVIOUS
<1>1. ASSUME UNCHANGED vars PROVE IInv'
  <2>1. Block' /\ ExitStatusFaithful' /\ ChannelClosed'
    BY <1>1 DEF vars, server, libssh, IInv, Block, ExitStatusFaithful, ChannelClosed
  <2> QED
    BY <1>1, <2>1, QuietInv DEF vars, server, libssh, IInv, TypeOK
<1> QED
  BY <1>1, ServerInv, ConnectionLostInv, ReceiveInv, ClientInv DEF Next, Done

-----------------------------------------------------------------------------
(* The theorems.                                                            *)

\* The types of ExecuteCommand hold; in particular the window is never
\* exceeded.
THEOREM TypeCorrect == Spec => []TypeOK
<1>1. IInv => TypeOK
  BY DEF IInv
<1> QED
  BY InitInv, NextInv, <1>1, PTL DEF Spec

\* Whatever the order of data, end of output, status and close: when
\* cmd.exit_status is set, on_stdout and on_stderr have been given the whole
\* output of the command.
THEOREM OutputBeforeStatus == Spec => []StatusAfterOutput
<1>1. IInv => StatusAfterOutput
  <2> SUFFICES ASSUME IInv, reported # NoStatus, NEW st \in Stream
               PROVE  Len(handed[st]) = output[st]
    BY DEF StatusAfterOutput
  <2>1. Got(st) = output[st] /\ buffer[st] = <<>>
    BY DEF IInv, Ends, IsEof
  <2>2. Held(st) = 0 /\ Given(st) \in Nat
    BY <2>1, Streams DEF IInv, Held
  <2> QED
    BY <2>1, <2>2 DEF Got, Given
<1> QED
  BY InitInv, NextInv, <1>1, PTL DEF Spec

\* get_exit_status gives the command's own status, and nil only when there is
\* none or the connection is lost.
THEOREM StatusIsOwn == Spec => []ExitStatusFaithful
<1>1. IInv => ExitStatusFaithful
  BY DEF IInv
<1> QED
  BY InitInv, NextInv, <1>1, PTL DEF Spec

\* The block of open_session leaves no channel open on a live connection.
THEOREM ClosesChannel == Spec => []ChannelClosed
<1>1. IInv => ChannelClosed
  BY DEF IInv
<1> QED
  BY InitInv, NextInv, <1>1, PTL DEF Spec

-----------------------------------------------------------------------------
(* Each step of ExecuteCommand is a step of RemoteCommand, or none.         *)

\* A stream that holds its units in their order is those units.
LEMMA InOrder ==
    ASSUME NEW S, NEW s \in Seq(S), NEW st, NEW n \in Nat, Len(s) = n,
           \A i \in 1..n : s[i] = <<st, i>>
    PROVE  s = Command!Units(st, n)
<1>1. s \in [1..n -> S]
  BY LenProperties
<1>2. s = [i \in 1..n |-> s[i]]
  BY <1>1
<1> QED
  BY <1>2 DEF Command!Units

\* What the handlers were given, in terms of RemoteCommand.
HandedInOrder ==
    \A st \in Stream : /\ handed[st] = Command!Units(st, Given(st))
                       /\ Given(st) \in Nat /\ Given(st) <= written[st]

LEMMA HandsInOrder == IInv => HandedInOrder
<1> SUFFICES ASSUME IInv, NEW st \in Stream
             PROVE  /\ handed[st] = Command!Units(st, Given(st))
                    /\ Given(st) \in Nat /\ Given(st) <= written[st]
  BY DEF HandedInOrder
<1>1. PICK s : s = handed[st]
  OBVIOUS
<1>2. PICK n : n = Given(st)
  OBVIOUS
<1>3. s \in Seq(Stream \X (1..MaxUnits)) /\ n \in Nat
  BY <1>1, <1>2, Streams DEF IInv
<1>4. Len(s) = n /\ \A i \in 1..n : s[i] = <<st, i>>
  BY <1>1, <1>2 DEF IInv, Contents, Given
<1>5. s = Command!Units(st, n)
  BY <1>3, <1>4, InOrder
<1>6. n <= written[st]
  <2>1. n + Held(st) <= written[st]
    BY <1>2 DEF IInv, Sums, Got
  <2>2. Held(st) \in Nat /\ written[st] \in 0..MaxUnits /\ MaxUnits \in Nat
    BY Streams DEF IInv
  <2> QED
    BY <1>3, <2>1, <2>2
<1> QED
  BY <1>1, <1>2, <1>3, <1>5, <1>6

LEMMA HandsInOrderNext == IInv' => HandedInOrder'
  BY HandsInOrder, PTL

\* A read takes nothing back.
LEMMA ReadGrows ==
    ASSUME IInv, NEW st \in Stream, handed' = [handed EXCEPT ![st] = @ \o Taken(st)]
    PROVE  Given(st) <= Given(st)'
<1>1. /\ handed[st] \in Seq(Stream \X (1..MaxUnits)) /\ Given(st) \in Nat
      /\ buffer[st] \in Seq(Stream \X (1..MaxUnits)) /\ Held(st) \in Nat
      /\ BUFSIZ \in Nat
  BY Streams DEF IInv
<1>2. Size(st) \in Nat /\ Size(st) <= Held(st)
  BY <1>1 DEF Size, Held
<1>3. PICK c : c = Size(st)
  OBVIOUS
<1>4. PICK b : b = buffer[st]
  OBVIOUS
<1>5. PICK h : h = handed[st]
  OBVIOUS
<1>6. PICK S : S = Stream \X (1..MaxUnits)
  OBVIOUS
<1>7. h \in Seq(S) /\ b \in Seq(S) /\ c \in 0..Len(b)
  BY <1>1, <1>2, <1>3, <1>4, <1>5, <1>6 DEF Held
<1>8. HandsOver(S, h, b, c)
  BY <1>7, HandOverAll
<1>9. Len(h \o SubSeq(b, 1, c)) = Len(h) + c
  BY <1>8 DEF HandsOver
<1>10. handed'[st] = h \o SubSeq(b, 1, c)
  BY <1>3, <1>4, <1>5 DEF IInv, TypeOK, Taken
<1>11. Given(st)' = Given(st) + c
  BY <1>5, <1>9, <1>10 DEF Given
<1> QED
  BY <1>1, <1>2, <1>3, <1>11

LEMMA ReadStep ==
    ASSUME IInv, IInv', NEW st \in Stream, NEW label, NEW next, ReadNonblocking(st, label, next),
           <<label, next>> \in {<<"read_stdout", "read_stderr">>, <<"read_stderr", "eof?">>}
    PROVE  [Command!RNext]_Command!rvars
<1>1. label \in {"read_stdout", "read_stderr"} /\ next \in {"read_stderr", "eof?"}
  OBVIOUS
<1>2. /\ UNCHANGED <<written, eofSent, closeSent, ended, reported>>
      /\ pc \notin {"finished", "failed", "close"} /\ pc' \notin {"finished", "failed"}
  BY <1>1 DEF ReadNonblocking, others, server, Goto, Raise
<1>3. reported = NoStatus
  BY <1>2 DEF IInv, Block
<1>4. CASE handed' = handed
  BY <1>2, <1>4 DEF Command!rvars
<1>5. CASE handed' # handed
  <2>1. handed' = [handed EXCEPT ![st] = @ \o Taken(st)]
    BY <1>5 DEF ReadNonblocking
  <2>2. handed \in [Stream -> Seq(Stream \X (1..MaxUnits))]
    BY DEF IInv, TypeOK
  <2>3. handed' = [handed EXCEPT ![st] = handed'[st]] /\ handed'[st] # handed[st]
    BY <1>5, <2>1, <2>2
  <2>4. /\ handed'[st] = Command!Units(st, Given(st)')
        /\ Given(st)' \in Nat /\ Given(st)' <= written[st]
    BY <1>2, HandsInOrderNext DEF HandedInOrder
  <2>5. handed[st] = Command!Units(st, Given(st)) /\ Given(st) \in Nat
    BY HandsInOrder DEF HandedInOrder
  <2>6. Given(st) <= Given(st)' /\ Given(st) # Given(st)'
    BY <2>1, <2>3, <2>4, <2>5, ReadGrows
  <2>7. PICK n : n = Given(st)'
    OBVIOUS
  <2>8. written[st] \in 0..MaxUnits /\ MaxUnits \in Nat
    BY Streams DEF IInv
  <2>9. n \in (Len(handed[st]) + 1)..written[st]
    BY <2>4, <2>5, <2>6, <2>7, <2>8 DEF Given
  <2>10. handed' = [handed EXCEPT ![st] = Command!Units(st, n)]
    BY <2>3, <2>4, <2>7
  <2>11. Command!HandOver(st)
    BY <1>2, <1>3, <2>9, <2>10 DEF Command!HandOver
  <2> QED
    BY <2>11 DEF Command!RNext
<1> QED
  BY <1>4, <1>5

LEMMA StatusStep ==
    ASSUME IInv, IInv', GetExitStatus
    PROVE  Command!RNext
<1>1. /\ UNCHANGED <<written, eofSent, closeSent, ended, handed, lost>>
      /\ pc = "get_exit_status" /\ pc' = "close" /\ reported' = StatusOrNil
  BY DEF GetExitStatus, others, server, Goto
<1>2. reported = NoStatus
  BY <1>1 DEF IInv, Block
<1>3. /\ reported' \in Status \cup {Unknown} /\ reported' # NoStatus
  BY <1>1, ExecuteTypes DEF StatusOrNil, IInv, TypeOK
<1>4. reported' \in {ended, Unknown} \ {NoStatus}
  BY <1>1, <1>3 DEF IInv, ExitStatusFaithful
<1>5. remoteEof /\ \A st \in Stream : buffer[st] = <<>>
  BY <1>1 DEF IInv, Ends, IsEof
<1>6. (eofSent \/ closeSent) /\ written = output /\ \A st \in Stream : Got(st) = output[st]
  BY <1>5 DEF IInv, Ends
<1>7. ASSUME NEW st \in Stream PROVE handed[st] = Command!Units(st, written[st])
  <2>1. Held(st) = 0
    BY <1>5 DEF Held
  <2>2. Given(st) \in Nat /\ handed[st] = Command!Units(st, Given(st))
    BY HandsInOrder DEF HandedInOrder
  <2>3. Given(st) = written[st]
    BY <1>6, <2>1, <2>2 DEF Got
  <2> QED
    BY <2>2, <2>3
<1>8. Command!Report(reported')
  BY <1>1, <1>2, <1>4, <1>6, <1>7 DEF Command!Report
<1> QED
  BY <1>3, <1>8 DEF Command!RNext

LEMMA ClientStep ==
    ASSUME IInv, IInv', Client
    PROVE  [Command!RNext]_Command!rvars
<1> USE DEF others, server, Goto, Raise
<1>1. CASE OpenSession
  <2>1. CASE pc' = "failed"
    <3>1. Command!Conclude("failed")
      BY <1>1, <2>1 DEF OpenSession, Command!Conclude
    <3> QED
      BY <3>1 DEF Command!RNext
  <2>2. CASE pc' # "failed"
    BY <1>1, <2>2 DEF OpenSession, Command!rvars
  <2> QED
    BY <2>1, <2>2
<1>2. CASE RequestPty \/ RequestExec
  BY <1>2 DEF RequestPty, RequestExec, Request, Command!rvars
<1>3. CASE CheckEof \/ Select
  BY <1>3 DEF CheckEof, Select, Command!rvars
<1>4. CASE ReadStdout \/ ReadStderr
  BY <1>4, ReadStep, ExecuteTypes DEF ReadStdout, ReadStderr
<1>5. CASE GetExitStatus
  BY <1>5, StatusStep
<1>6. CASE Close
  <2>1. /\ pc = "close" /\ pc' \in {"finished", "failed"}
        /\ pc' = "finished" => ~raised
        /\ UNCHANGED <<written, eofSent, closeSent, ended, handed, reported>>
    BY <1>6 DEF Close
  <2>2. pc' = "finished" => reported # NoStatus
    BY <2>1 DEF IInv, Block
  <2>3. Command!Conclude(pc')
    BY <2>1, <2>2 DEF Command!Conclude
  <2> QED
    BY <2>1, <2>3 DEF Command!RNext
<1> QED
  BY <1>1, <1>2, <1>3, <1>4, <1>5, <1>6 DEF Client

LEMMA ServerStep ==
    ASSUME IInv, Server
    PROVE  [Command!RNext]_Command!rvars
<1> USE DEF client
<1>1. ASSUME NEW st \in Stream, ServerWrite(st) PROVE Command!RNext
  <2>1. ~(eofSent \/ closeSent)
    <3>1. written[st] < output[st] /\ written[st] \in 0..MaxUnits /\ MaxUnits \in Nat
      BY <1>1, Streams DEF ServerWrite, IInv
    <3>2. written # output
      BY <3>1
    <3> QED
      BY <3>2 DEF IInv, Ends
  <2>2. Command!WriteUnit(st)
    BY <1>1, <2>1 DEF ServerWrite, Command!WriteUnit
  <2> QED
    BY <2>2 DEF Command!RNext
<1>2. ASSUME ServerEof \/ ServerClose PROVE Command!RNext
  <2>1. Command!ShutOutput
    BY <1>2 DEF ServerEof, ServerClose, Command!ShutOutput
  <2> QED
    BY <2>1 DEF Command!RNext
<1>3. ASSUME CommandEnds PROVE Command!RNext
  <2>1. Command!End(ended') /\ ended' \in Status \cup {Unknown}
    BY <1>3 DEF CommandEnds, Command!End
  <2> QED
    BY <2>1 DEF Command!RNext
<1>4. ASSUME ServerStatus PROVE UNCHANGED Command!rvars
  BY <1>4 DEF ServerStatus, Command!rvars
<1> QED
  BY <1>1, <1>2, <1>3, <1>4 DEF Server

LEMMA NextStep ==
    ASSUME IInv, IInv', [Next]_vars
    PROVE  [Command!RNext]_Command!rvars
<1>1. CASE ConnectionLost \/ Receive
  BY <1>1 DEF ConnectionLost, Receive, server, client, Command!rvars
<1>2. CASE UNCHANGED vars
  BY <1>2 DEF vars, server, libssh, Command!rvars
<1> QED
  BY <1>1, <1>2, ClientStep, ServerStep DEF Next, Done

LEMMA InitStep == Init => Command!RInit
  BY DEF Init, Command!RInit

\* execute_command keeps what SSHKit is promised: every unit of output is
\* handed over once, in its order and to its own handler, and the exit
\* status is reported when all of the output is.
THEOREM KeepsPromise == Spec => RunsCommand
<1>1. IInv /\ IInv' /\ [Next]_vars => [Command!RNext]_Command!rvars
  BY NextStep
<1>2. Spec => Command!RInit /\ [][Command!RNext]_Command!rvars
  BY InitInv, NextInv, InitStep, <1>1, PTL DEF Spec
<1> QED
  BY <1>2 DEF RunsCommand, Command!RSpec
=============================================================================
