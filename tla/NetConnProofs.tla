--------------------------- MODULE NetConnProofs ---------------------------
(***************************************************************************)
(* The theorems of NetConn, for any sizes.  The first part has the types,  *)
(* with the bounds that bytes received and bytes flushed obey and what a   *)
(* call leaves behind, and who changes what.  The second has what a        *)
(* connection keeps: the three locks - the operator's state and the keys   *)
(* flushing and finalizing - with the stages in which Close waits for each *)
(* before it gives anything up; and the bytes that are sent, by the writer *)
(* and the poller in turn.                                                 *)
(***************************************************************************)
EXTENDS NetConn, TLAPS

DialAt == {"idle", "waiting", "detached", "refused", "cancelled", "panic", "up"}
ReaderAt == {"idle", "take", "store", "length", "active", "closed", "fill", "filling",
             "wait", "stop", "fail", "giveUp", "check", "reset"}
WriterLabels == {"idle", "lock", "send", "skip", "arm", "wait", "late", "return"}
PollerLabels == {"idle", "read", "ack", "compare", "trigger", "done", "send", "sent",
                 "rw2r", "answer", "hup", "hupRead", "hupWrite"}
CloserAt == {"idle", "triggerRead", "triggerWrite", "callback", "detach",
             "stopFlushing", "stopFinalizing", "free", "close", "buffers"}

DialT == [at : DialAt, closeTrigger : BOOLEAN]
KeysT == [{"flushing", "finalizing"} -> 0..2]
InputT == [len : Nat, open : BOOLEAN]
OutputT == [head : Nat, tail : Nat, open : BOOLEAN]
NetT == [coming : Nat, received : Nat, sending : Nat, closed : BOOLEAN]
WireT == [sent : Nat, garbled : BOOLEAN]
ReaderT == [at : ReaderAt, need : Nat, until : BOOLEAN]
WriterT == [at : WriterLabels, n : Nat, head : Nat, tail : Nat, err : BOOLEAN]
PollerT == [at : PollerLabels, n : Nat, head : Nat, tail : Nat]

\* Every variable, whatever the sizes.
CloseTypes ==
  /\ closing \in {"none", "user", "poller"} /\ keys \in KeysT
  /\ called \in BOOLEAN /\ fdClosed \in BOOLEAN /\ freed \in BOOLEAN
  /\ opState \in 0..2 /\ interest \in {"none", "R", "RW"}
ReadTypes ==
  /\ input \in InputT
  /\ waitReadSize \in Nat /\ readTrigger \in BOOLEAN /\ readTimer \in Timers
WriteTypes ==
  /\ output \in OutputT
  /\ writeTrigger \in {"empty", "nil", "closed"} /\ writeTimer \in Timers
  /\ wire \in WireT /\ late \in BOOLEAN
Types ==
  /\ dial \in DialT /\ CloseTypes /\ ReadTypes /\ WriteTypes
  /\ uses \in Uses /\ timed \subseteq {"read", "write"} /\ net \in NetT
  /\ reader \in ReaderT /\ writer \in WriterT /\ closer \in CloserAt /\ poller \in PollerT

\* The bytes of the peer are to come, in the kernel, with the poller, or in the
\* buffer; those that are flushed are no more than was asked for.
Booking == IF poller.at = "ack" THEN poller.n ELSE 0
Arrived == net.coming + net.received + Booking + input.len <= MaxIn
Flushed ==
  /\ net.sending <= Capacity
  /\ output.head <= output.tail /\ output.tail <= uses.write
  /\ writer.at = "lock" => output.tail + writer.n <= uses.write
Asked == {reader.need, waitReadSize} \subseteq Needs \cup 0..MaxIn + 1
Sizes == Arrived /\ Flushed /\ Asked

\* The size waited for and the timers are those of a call that waits.
Waited ==
  /\ reader.at \in {"idle", "store", "take", "giveUp", "check", "reset"} =>
       readTimer = "off" /\ waitReadSize = 0
  /\ writer.at # "wait" => writeTimer = "off"

-----------------------------------------------------------------------------
(* Who changes what. *)

\* The other actors: the dialer, the kernel and the peer, and the timers.
OtherNext ==
  \/ Dial \/ Arrive \/ PeerReads \/ PeerCloses \/ ReadTimerFires \/ WriteTimerFires
  \/ \E side \in {"read", "write"} : SetTimeout(side)

\* Next has these actors.
LEMMA NextBy ==
  Next => OtherNext \/ ReaderNext \/ WriterNext \/ PollerNext \/ CloserNext
  BY DEF Next, OtherNext

\* Two and three fields of a record at once.
LEMMA Records ==
  /\ \A r \in ReaderT, l \in ReaderAt, n \in Nat : [r EXCEPT !.at = l, !.need = n] \in ReaderT
  /\ \A r \in WriterT, l \in WriterLabels, n \in Nat : [r EXCEPT !.at = l, !.n = n] \in WriterT
  /\ \A r \in WriterT, l \in WriterLabels, h, t \in Nat :
       [r EXCEPT !.at = l, !.head = h, !.tail = t] \in WriterT
  /\ \A r \in PollerT, l \in PollerLabels, n \in Nat : [r EXCEPT !.at = l, !.n = n] \in PollerT
  /\ \A r \in PollerT, l \in PollerLabels, h, t \in Nat :
       [r EXCEPT !.at = l, !.head = h, !.tail = t] \in PollerT
  /\ \A r \in NetT, c, n \in Nat : [r EXCEPT !.coming = c, !.received = n] \in NetT
<1>1. \A r \in ReaderT, l \in ReaderAt, n \in Nat : [r EXCEPT !.at = l, !.need = n] \in ReaderT
  BY Zenon DEF ReaderT
<1>2. \A r \in WriterT, l \in WriterLabels, n \in Nat : [r EXCEPT !.at = l, !.n = n] \in WriterT
  BY Zenon DEF WriterT
<1>3. \A r \in WriterT, l \in WriterLabels, h, t \in Nat :
        [r EXCEPT !.at = l, !.head = h, !.tail = t] \in WriterT
  BY Zenon DEF WriterT
<1>4. \A r \in PollerT, l \in PollerLabels, n \in Nat : [r EXCEPT !.at = l, !.n = n] \in PollerT
  BY Zenon DEF PollerT
<1>5. \A r \in PollerT, l \in PollerLabels, h, t \in Nat :
        [r EXCEPT !.at = l, !.head = h, !.tail = t] \in PollerT
  BY Zenon DEF PollerT
<1>6. \A r \in NetT, c, n \in Nat : [r EXCEPT !.coming = c, !.received = n] \in NetT
  BY Zenon DEF NetT
<1>. QED
  BY <1>1, <1>2, <1>3, <1>4, <1>5, <1>6

\* The reader goes on at a label, or sets out.
LEMMA ReaderMoves ==
  ASSUME reader \in ReaderT, input \in InputT, ReaderNext
  PROVE  /\ reader' \in ReaderT
         /\ UNCHANGED <<dial, wvars, closing, called, fdClosed, freed, interest, uses,
                        timed, writer, closer, poller>>
<1>1. ASSUME NEW l \in ReaderAt, Reader(l)
      PROVE  /\ reader' \in ReaderT
             /\ UNCHANGED <<dial, wvars, closing, called, fdClosed, freed, interest, uses,
                            timed, writer, closer, poller>>
  BY <1>1 DEF Reader, ReaderT, Idle, ReaderAt
<1>2. CASE WaitRead \/ ReadLength \/ ReadActive \/ ReadClosed \/ ReadWakes
  BY <1>1, <1>2 DEF WaitRead, ReadLength, ReadActive, ReadClosed, ReadWakes, ReaderOnly, ReaderAt
<1>3. CASE ReadTimesOut \/ FillLock \/ FillEnd \/ WaitReadEnd \/ UntilCheck
  BY <1>1, <1>3 DEF ReadTimesOut, FillLock, FillEnd, WaitReadEnd, UntilCheck, ReaderOnly, ReaderAt
<1>4. CASE GiveUp \/ Release \/ ResetTail \/ \E n \in 0..MaxIn : FillRead(n) \/ Take(n)
  BY <1>1, <1>4 DEF GiveUp, Release, ResetTail, FillRead, Take, ReaderAt
<1>5. ASSUME NEW need \in Needs, NEW until \in BOOLEAN, ReadCall(need, until)
      PROVE  /\ reader' \in ReaderT
             /\ UNCHANGED <<dial, wvars, closing, called, fdClosed, freed, interest, uses,
                            timed, writer, closer, poller>>
  BY <1>5, NetAssumption DEF ReadCall, ReaderT, ReaderAt, cvars
<1>6. CASE UntilMore
  <2>1. input.len + 1 \in Nat /\ "check" \in ReaderAt
    BY DEF InputT, ReaderAt
  <2>. QED
    BY <1>6, <2>1, Records DEF UntilMore, cvars
<1>. QED
  BY <1>2, <1>3, <1>4, <1>5, <1>6 DEF ReaderNext

\* What sendmsg may take fits in the kernel, and is there.
LEMMA SendableType ==
  ASSUME net \in NetT, net.sending <= Capacity, NEW v \in WriterT \cup PollerT, NEW n \in Sendable(v)
  PROVE  n \in Nat /\ net.sending + n <= Capacity /\ (v.head <= v.tail => v.head + n <= v.tail)
<1>1. /\ net.sending \in Nat /\ Capacity \in Nat /\ v.head \in Nat /\ v.tail \in Nat
  BY NetAssumption DEF NetT, WriterT, PollerT
<1>. DEFINE room == Capacity - net.sending
            k == v.tail - v.head
<1>2. n \in (IF room = 0 THEN {0} ELSE IF k < room THEN 1..k ELSE 1..room)
  BY DEF Sendable
<1>. QED
  BY <1>1, <1>2

\* The writer too.
LEMMA WriterMoves ==
  ASSUME writer \in WriterT, output \in OutputT, WriterNext
  PROVE  /\ writer' \in WriterT
         /\ UNCHANGED <<dial, rvars, closing, called, fdClosed, freed, opState, uses, timed,
                        reader, closer, poller>>
<1>1. \A l \in WriterLabels, err \in BOOLEAN :
        [at |-> l, n |-> 0, head |-> 0, tail |-> 0, err |-> err] \in WriterT
  BY DEF WriterT
<1>2. {"idle", "lock", "send", "skip", "arm", "wait", "late", "return"} \subseteq WriterLabels
  BY DEF WriterLabels
<1>3. CASE \E n \in Writes : FlushCall(n)
  <2>1. PICK n \in Writes : FlushCall(n)
    BY <1>3
  <2>2. [writer EXCEPT !.at = "lock", !.n = n] \in WriterT
    BY <1>2, Records, NetAssumption
  <2>. QED
    BY <2>1, <2>2 DEF FlushCall, Writer
<1>4. CASE FlushLock
  <2>1. /\ output.head \in Nat
        /\ output' = [output EXCEPT !.tail = @ + writer.n] => output'.tail \in Nat
    BY DEF OutputT, WriterT
  <2>2. output' = [output EXCEPT !.tail = @ + writer.n] =>
          [writer EXCEPT !.at = "send", !.head = output.head, !.tail = output'.tail] \in WriterT
    BY <1>2, <2>1, Records
  <2>. QED
    BY <1>1, <1>2, <1>4, <2>2 DEF FlushLock, WriterAt, Answer, Writer
<1>5. CASE FlushSend
  <2>1. ASSUME NEW n \in Nat PROVE [writer EXCEPT !.at = "skip", !.n = n] \in WriterT
    BY <1>2, <2>1, Records
  <2>2. Sendable(writer) \subseteq Nat
    BY DEF Sendable
  <2>. QED
    BY <1>1, <1>2, <1>5, <2>1, <2>2 DEF FlushSend, Answer, Writer
<1>6. CASE FlushSkip
  BY <1>1, <1>2, <1>6 DEF FlushSkip, WriterAt, Answer, Writer
<1>7. CASE FlushArm
  BY <1>1, <1>2, <1>7 DEF FlushArm, WriterAt, Answer, Writer
<1>8. CASE FlushWakes
  BY <1>1, <1>2, <1>8 DEF FlushWakes, Answer, Writer
<1>9. CASE FlushTimesOut \/ FlushReturn
  BY <1>1, <1>2, <1>9 DEF FlushTimesOut, FlushReturn, WriterAt, Writer
<1>10. CASE FlushLate
  BY <1>1, <1>2, <1>10 DEF FlushLate, Answer, Writer
<1>. QED
  BY <1>3, <1>4, <1>5, <1>6, <1>7, <1>8, <1>9, <1>10 DEF WriterNext

\* And the poller.
LEMMA PollerMoves ==
  ASSUME poller \in PollerT, output \in OutputT, input \in InputT, PollerNext
  PROVE  /\ poller' \in PollerT
         /\ UNCHANGED <<dial, waitReadSize, readTimer, writeTimer, late, keys, called,
                        fdClosed, freed, uses, timed, reader, writer, closer>>
<1>1. \A l \in PollerLabels : [poller EXCEPT !.at = l] \in PollerT
  BY DEF PollerT
<1>2. {"idle", "read", "ack", "compare", "trigger", "done", "send", "sent", "rw2r", "answer",
       "hup", "hupRead", "hupWrite"} \subseteq PollerLabels
  BY DEF PollerLabels
<1>3. CASE PollRead \/ PollCompare \/ triggerRead
  BY <1>1, <1>2, <1>3 DEF PollRead, PollCompare, triggerRead, PollerAt, Poller, rvars
<1>4. CASE rw2r \/ triggerWrite
  BY <1>1, <1>2, <1>4 DEF rw2r, triggerWrite, PollerAt, Poller
<1>5. CASE outputAck \/ PollHup \/ onHup
  BY <1>1, <1>2, <1>5 DEF outputAck, PollHup, onHup, Detached, PollerAt, Poller
<1>6. CASE PollDone
  <2>1. [at |-> "idle", n |-> 0, head |-> 0, tail |-> 0] \in PollerT
    BY DEF PollerT, PollerLabels
  <2>. QED
    BY <1>6, <2>1 DEF PollDone, Poller
<1>7. CASE \E n \in 0..MaxIn : PollReads(n)
  <2>1. PICK n \in 0..MaxIn : PollReads(n)
    BY <1>7
  <2>2. n \in Nat
    BY NetAssumption
  <2>3. [poller EXCEPT !.at = "ack", !.n = n] \in PollerT
    BY <1>2, <2>2, Records
  <2>. QED
    BY <2>1, <2>3 DEF PollReads, Poller
<1>8. CASE inputAck
  <2>1. input' = [input EXCEPT !.len = @ + poller.n] => input'.len \in Nat
    BY DEF InputT, PollerT
  <2>2. input' = [input EXCEPT !.len = @ + poller.n] =>
          [poller EXCEPT !.at = "compare", !.n = input'.len] \in PollerT
    BY <1>2, <2>1, Records
  <2>. QED
    BY <1>1, <1>2, <1>8, <2>2 DEF inputAck, PollerAt, Poller
<1>9. CASE outputs
  <2>1. output.head \in Nat /\ output.tail \in Nat
    BY DEF OutputT
  <2>2. [poller EXCEPT !.at = "send", !.head = output.head, !.tail = output.tail] \in PollerT
    BY <1>2, <2>1, Records
  <2>. QED
    BY <1>1, <1>2, <1>9, <2>2 DEF outputs, PollerAt, Poller
<1>10. CASE PollSends
  <2>1. ASSUME NEW n \in Nat PROVE [poller EXCEPT !.at = "sent", !.n = n] \in PollerT
    BY <1>2, <2>1, Records
  <2>2. Sendable(poller) \subseteq Nat
    BY DEF Sendable
  <2>3. CASE Detached("hup")
    BY <1>1, <1>2, <2>3 DEF Detached, PollerAt, Poller
  <2>4. ASSUME NEW n \in Sendable(poller),
               Poller([poller EXCEPT !.at = "sent", !.n = n])
        PROVE  /\ poller' \in PollerT
               /\ UNCHANGED <<dial, waitReadSize, readTimer, writeTimer, late, keys, called,
                              fdClosed, freed, uses, timed, reader, writer, closer>>
    BY <2>1, <2>2, <2>4 DEF Poller
  <2>. QED
    BY <1>10, <2>3, <2>4 DEF PollSends
<1>. QED
  BY <1>3, <1>4, <1>5, <1>6, <1>7, <1>8, <1>9, <1>10 DEF PollerNext

\* And who closes.
LEMMA CloserMoves ==
  ASSUME CloserNext
  PROVE  /\ closer' \in CloserAt
         /\ UNCHANGED <<dial, waitReadSize, readTimer, writeTimer, wire, late, uses, timed, net,
                        reader, writer, poller>>
<1>1. ASSUME NEW l \in CloserAt, Closer(l)
      PROVE  /\ closer' \in CloserAt
             /\ UNCHANGED <<dial, waitReadSize, readTimer, writeTimer, wire, late, uses, timed,
                            net, reader, writer, poller>>
  BY <1>1 DEF Closer
<1>2. CASE onClose \/ CloseTriggersRead \/ CloseTriggersWrite \/ closeCallback \/ unused
  BY <1>1, <1>2 DEF onClose, CloseTriggersRead, CloseTriggersWrite, closeCallback, unused, CloserAt
<1>3. CASE StopFlushing \/ StopFinalizing \/ Free \/ CloseFD \/ closeBuffer
  BY <1>1, <1>3 DEF StopFlushing, StopFinalizing, Stop, Free, CloseFD, closeBuffer, CloserAt
<1>. QED
  BY <1>2, <1>3 DEF CloserNext

-----------------------------------------------------------------------------
(* The types. *)

\* The other actors keep the types.
LEMMA OtherTypes == Types /\ OtherNext => Types'
<1>. SUFFICES ASSUME Types, OtherNext PROVE Types'
  OBVIOUS
<1>1. ASSUME NEW d \in DialT, DialStep(d) PROVE Types'
  BY <1>1 DEF DialStep, Types, CloseTypes, ReadTypes, WriteTypes, rvars, wvars, cvars
<1>2. \A l \in DialAt, b \in BOOLEAN : /\ [dial EXCEPT !.at = l] \in DialT
                                       /\ [dial EXCEPT !.closeTrigger = b] \in DialT
  BY DEF Types, DialT
<1>3. CASE ConnectNow
  <2>1. dial' \in DialT
    BY <1>2, <1>3 DEF ConnectNow, Established, DialAt
  <2>2. CloseTypes'
    BY <1>3 DEF ConnectNow, Established, Types, CloseTypes
  <2>. QED
    BY <1>3, <2>1, <2>2 DEF ConnectNow, Established, Types, ReadTypes, WriteTypes, rvars, wvars
<1>4. CASE ConnectLater \/ WaitWrite \/ DialDone \/ DoubleCheck \/ OnWrite \/ OnHupDialing
  BY <1>1, <1>2, <1>4 DEF ConnectLater, WaitWrite, DialDone, DoubleCheck, OnWrite, OnHupDialing, DialAt
<1>5. ASSUME NEW n \in NetT, Net(n) PROVE Types'
  BY <1>5 DEF Net, Types, CloseTypes, ReadTypes, WriteTypes, rvars, wvars, cvars
<1>6. CASE Arrive
  <2>1. net.coming > 0 => [net EXCEPT !.coming = @ - 1, !.received = @ + 1] \in NetT
    <3>1. net \in NetT /\ net.received + 1 \in Nat /\ (net.coming > 0 => net.coming - 1 \in Nat)
      BY DEF Types, NetT
    <3>. QED
      BY <3>1, Records
  <2>. QED
    BY <1>5, <1>6, <2>1 DEF Arrive
<1>7. CASE PeerReads
  <2>1. net.sending > 0 => [net EXCEPT !.sending = @ - 1] \in NetT
    BY DEF Types, NetT
  <2>. QED
    BY <1>5, <1>7, <2>1 DEF PeerReads
<1>8. CASE PeerCloses
  <2>1. [net EXCEPT !.closed = TRUE] \in NetT
    BY DEF Types, NetT
  <2>. QED
    BY <1>5, <1>8, <2>1 DEF PeerCloses
<1>9. CASE ReadTimerFires \/ WriteTimerFires
  <2>1. ReadTypes' /\ WriteTypes'
    BY <1>9 DEF ReadTimerFires, WriteTimerFires, Timers, Types, ReadTypes, WriteTypes, rvars, wvars
  <2>. QED
    BY <1>9, <2>1 DEF ReadTimerFires, WriteTimerFires, Types, CloseTypes, cvars
<1>10. CASE \E side \in {"read", "write"} : SetTimeout(side)
  BY <1>10 DEF SetTimeout, Types, CloseTypes, ReadTypes, WriteTypes, rvars, wvars, cvars
<1>. QED
  BY <1>3, <1>4, <1>6, <1>7, <1>8, <1>9, <1>10 DEF OtherNext, Dial

\* The reader, whose record ReaderMoves gives.
LEMMA ReaderTypes == Types /\ ReaderNext => Types'
<1>. SUFFICES ASSUME Types, ReaderNext PROVE Types'
  OBVIOUS
<1>1. CloseTypes /\ ReadTypes /\ net \in NetT /\ reader \in ReaderT /\ input \in InputT
  BY DEF Types, ReadTypes
<1>2. [keys EXCEPT !.finalizing = 1] \in KeysT /\ [keys EXCEPT !.finalizing = 0] \in KeysT
  BY <1>1 DEF CloseTypes, KeysT
<1>3. UNCHANGED <<closing, called, fdClosed, freed, interest>>
  BY <1>1, ReaderMoves
<1>4. ASSUME WaitRead \/ ReadWakes \/ ReadTimesOut \/ WaitReadEnd
      PROVE  CloseTypes' /\ ReadTypes' /\ net' \in NetT
  <2>1. reader.need \in Nat
    BY DEF Types, ReaderT
  <2>2. /\ UNCHANGED input /\ waitReadSize' \in {reader.need, waitReadSize, 0}
        /\ readTrigger' \in {readTrigger, FALSE}
        /\ readTimer' \in {"off", "running", "fired", readTimer}
    BY <1>4 DEF WaitRead, ReadWakes, ReadTimesOut, WaitReadEnd, Started
  <2>3. ReadTypes'
    <3>1. waitReadSize' \in Nat
      BY <1>1, <2>1, <2>2 DEF ReadTypes
    <3>2. readTrigger' \in BOOLEAN /\ readTimer' \in Timers
      BY <1>1, <2>2, Zenon DEF Timers, ReadTypes
    <3>. QED
      BY <1>1, <2>2, <3>1, <3>2 DEF ReadTypes
  <2>. QED
    BY <1>1, <1>3, <1>4, <2>3 DEF WaitRead, ReadWakes, ReadTimesOut, WaitReadEnd, CloseTypes
<1>5. ASSUME ReadLength \/ ReadActive \/ ReadClosed \/ UntilCheck \/ UntilMore
      PROVE  CloseTypes' /\ ReadTypes' /\ net' \in NetT
  BY <1>1, <1>5 DEF ReadLength, ReadActive, ReadClosed, UntilCheck, UntilMore, ReaderOnly, Reader,
       CloseTypes, ReadTypes, rvars, cvars
<1>6. ASSUME FillLock \/ FillEnd \/ Release \/ ResetTail PROVE CloseTypes' /\ ReadTypes' /\ net' \in NetT
  <2>1. keys' \in KeysT
    BY <1>1, <1>2, <1>6 DEF FillLock, FillEnd, Release, ResetTail, CloseTypes
  <2>. QED
    BY <1>1, <1>3, <1>6, <2>1 DEF FillLock, FillEnd, Release, ResetTail, CloseTypes, ReadTypes, rvars
<1>7. ASSUME GiveUp PROVE CloseTypes' /\ ReadTypes' /\ net' \in NetT
  <2>1. input' \in InputT
    BY <1>1, <1>7 DEF GiveUp, ReadTypes, InputT
  <2>. QED
    BY <1>1, <1>3, <1>7, <2>1 DEF GiveUp, CloseTypes, ReadTypes
<1>8. ASSUME \E n \in 0..MaxIn : Take(n) PROVE CloseTypes' /\ ReadTypes' /\ net' \in NetT
  <2>1. PICK n \in 0..input.len : input' = [input EXCEPT !.len = @ - n]
    BY <1>8 DEF Take
  <2>2. input' \in InputT
    BY <1>1, <2>1 DEF ReadTypes, InputT
  <2>. QED
    BY <1>1, <1>3, <1>8, <2>2 DEF Take, CloseTypes, ReadTypes
<1>9. ASSUME \E n \in 0..MaxIn : FillRead(n) PROVE CloseTypes' /\ ReadTypes' /\ net' \in NetT
  <2>1. PICK n \in 1..net.received : FillRead(n)
    BY <1>9 DEF FillRead
  <2>2. [input EXCEPT !.len = @ + n] \in InputT
    BY <1>1, <2>1 DEF ReadTypes, InputT, NetT
  <2>3. [net EXCEPT !.received = @ - n] \in NetT
    BY <1>1, <2>1 DEF NetT
  <2>4. input.len \in Nat /\ n \in Nat /\ waitReadSize \in Nat
    BY <1>1, <2>1 DEF ReadTypes, InputT, NetT
  <2>. QED
    BY <1>1, <1>3, <2>1, <2>2, <2>3, <2>4 DEF FillRead, CloseTypes, ReadTypes
<1>10. ASSUME \E need \in Needs, until \in BOOLEAN : ReadCall(need, until)
      PROVE  CloseTypes' /\ ReadTypes' /\ net' \in NetT
  BY <1>1, <1>10 DEF ReadCall, CloseTypes, ReadTypes, rvars, cvars
<1>11. CloseTypes' /\ ReadTypes' /\ net' \in NetT
  BY <1>4, <1>5, <1>6, <1>7, <1>8, <1>9, <1>10 DEF ReaderNext
<1>. QED
  BY <1>1, <1>11, ReaderMoves DEF Types, WriteTypes, wvars

\* The writer.
LEMMA WriterTypes == Types /\ WriterNext => Types'
<1>. SUFFICES ASSUME Types, WriterNext PROVE Types'
  OBVIOUS
<1>1. /\ CloseTypes /\ WriteTypes /\ net \in NetT
      /\ writer \in WriterT /\ output \in OutputT /\ wire \in WireT
  BY DEF Types, WriteTypes
<1>2. UNCHANGED <<closing, called, fdClosed, freed, opState>>
  BY <1>1, WriterMoves
<1>3. ASSUME \E n \in Writes : FlushCall(n)
      PROVE  CloseTypes' /\ WriteTypes' /\ net' \in NetT
  BY <1>1, <1>2, <1>3 DEF FlushCall, CloseTypes, WriteTypes, wvars
<1>4. ASSUME FlushLock \/ FlushReturn PROVE CloseTypes' /\ WriteTypes' /\ net' \in NetT
  <2>1. [keys EXCEPT !.flushing = 1] \in KeysT /\ [keys EXCEPT !.flushing = 0] \in KeysT
    BY <1>1 DEF CloseTypes, KeysT
  <2>2. [output EXCEPT !.tail = @ + writer.n] \in OutputT
    BY <1>1 DEF OutputT, WriterT
  <2>3. keys' \in KeysT /\ output' \in OutputT
    BY <1>1, <1>4, <2>1, <2>2 DEF FlushLock, FlushReturn, CloseTypes, wvars
  <2>. QED
    BY <1>1, <1>2, <1>4, <2>3 DEF FlushLock, FlushReturn, CloseTypes, WriteTypes, wvars
<1>5. ASSUME FlushSend PROVE CloseTypes' /\ WriteTypes' /\ net' \in NetT
  <2>1. \A n \in Sendable(writer) : n \in Nat
    BY DEF Sendable
  <2>2. \A n \in Nat : [net EXCEPT !.sending = @ + n] \in NetT
    BY <1>1 DEF NetT
  <2>3. \A n \in Nat : [sent |-> wire.sent + n,
                        garbled |-> wire.garbled \/ (n > 0 /\ writer.head # wire.sent)] \in WireT
    BY <1>1 DEF WireT
  <2>4. net' \in NetT /\ wire' \in WireT
    BY <1>1, <1>5, <2>1, <2>2, <2>3 DEF FlushSend, Sent
  <2>. QED
    BY <1>1, <1>2, <1>5, <2>4 DEF FlushSend, CloseTypes, WriteTypes
<1>6. ASSUME FlushSkip PROVE CloseTypes' /\ WriteTypes' /\ net' \in NetT
  <2>1. Skipped(writer.n) \in OutputT
    BY <1>1 DEF Skipped, CanSkip, OutputT, WriterT
  <2>2. /\ output' \in OutputT
        /\ UNCHANGED <<writeTrigger, writeTimer, wire, late, keys, interest, net>>
    BY <1>6, <2>1 DEF FlushSkip
  <2>. QED
    BY <1>1, <1>2, <2>2 DEF CloseTypes, WriteTypes
<1>7. ASSUME FlushArm \/ FlushWakes \/ FlushTimesOut \/ FlushLate
      PROVE  CloseTypes' /\ WriteTypes' /\ net' \in NetT
  <2>1. /\ UNCHANGED <<output, wire, keys, net>> /\ interest' \in {interest, "RW", "R"}
        /\ writeTrigger' \in {writeTrigger, "empty"} /\ late' \in {late, TRUE}
        /\ writeTimer' \in {"off", "running", "fired", writeTimer}
    BY <1>7 DEF FlushArm, FlushWakes, FlushTimesOut, FlushLate, Started, RW2R
  <2>2. CloseTypes'
    BY <1>1, <1>2, <2>1 DEF CloseTypes
  <2>3. WriteTypes'
    BY <1>1, <2>1 DEF WriteTypes, Timers
  <2>. QED
    BY <1>1, <2>1, <2>2, <2>3
<1>8. CloseTypes' /\ WriteTypes' /\ net' \in NetT
  BY <1>3, <1>4, <1>5, <1>6, <1>7 DEF WriterNext
<1>. QED
  BY <1>1, <1>8, WriterMoves DEF Types, ReadTypes, rvars

\* The poller.
LEMMA PollerTypes == Types /\ PollerNext => Types'
<1>. SUFFICES ASSUME Types, PollerNext PROVE Types'
  OBVIOUS
<1>1. /\ CloseTypes /\ ReadTypes /\ WriteTypes /\ net \in NetT
      /\ poller \in PollerT /\ output \in OutputT /\ input \in InputT /\ wire \in WireT
  BY DEF Types, ReadTypes, WriteTypes
<1>. DEFINE Same == UNCHANGED <<input, output, wire, net>>
<1>2. ASSUME Same \/ /\ input' \in InputT /\ output' \in OutputT /\ wire' \in WireT /\ net' \in NetT,
             closing' \in {closing, "poller"}, opState' \in {opState, 0, 1, 2},
             interest' \in {interest, "none", "R"}, readTrigger' \in {readTrigger, TRUE},
             writeTrigger' \in {writeTrigger, "nil", "closed"}
      PROVE  Types'
  <2>1. input' \in InputT /\ output' \in OutputT /\ wire' \in WireT /\ net' \in NetT
    BY <1>1, <1>2
  <2>2. CloseTypes'
    BY <1>1, <1>2, PollerMoves DEF CloseTypes
  <2>3. ReadTypes' /\ WriteTypes'
    BY <1>1, <1>2, <2>1, PollerMoves DEF ReadTypes, WriteTypes
  <2>. QED
    BY <1>1, <2>1, <2>2, <2>3, PollerMoves DEF Types
<1>3. CASE PollRead \/ PollCompare \/ triggerRead
  BY <1>2, <1>3 DEF PollRead, PollCompare, triggerRead, rvars
<1>4. CASE outputs \/ rw2r \/ triggerWrite
  BY <1>2, <1>4 DEF outputs, rw2r, triggerWrite, RW2R, Put
<1>5. CASE PollDone \/ PollHup \/ onHup
  BY <1>2, <1>5 DEF PollDone, PollHup, onHup, Detached
<1>6. CASE \E n \in 0..MaxIn : PollReads(n)
  <2>1. PICK n \in 0..MaxIn : PollReads(n)
    BY <1>6
  <2>2. n \in 0..net.received
    BY <1>1, <2>1 DEF PollReads, NetT
  <2>3. [net EXCEPT !.received = @ - n] \in NetT
    BY <1>1, <2>2 DEF NetT
  <2>. QED
    BY <1>1, <1>2, <2>1, <2>3 DEF PollReads
<1>7. CASE inputAck
  <2>1. [input EXCEPT !.len = @ + poller.n] \in InputT
    BY <1>1 DEF InputT, PollerT
  <2>. QED
    BY <1>1, <1>2, <1>7, <2>1 DEF inputAck
<1>8. CASE PollSends
  <2>1. \A n \in Sendable(poller) : n \in Nat
    BY DEF Sendable
  <2>2. \A n \in Nat : [net EXCEPT !.sending = @ + n] \in NetT
    BY <1>1 DEF NetT
  <2>3. \A n \in Nat : [sent |-> wire.sent + n,
                        garbled |-> wire.garbled \/ (n > 0 /\ poller.head # wire.sent)] \in WireT
    BY <1>1 DEF WireT
  <2>4. net' \in NetT /\ wire' \in WireT
    BY <1>1, <1>8, <2>1, <2>2, <2>3 DEF PollSends, Sent
  <2>. QED
    BY <1>1, <1>2, <1>8, <2>4 DEF PollSends, Detached
<1>9. CASE outputAck
  <2>1. Skipped(poller.n) \in OutputT
    BY <1>1 DEF Skipped, CanSkip, OutputT, PollerT
  <2>. QED
    BY <1>1, <1>2, <1>9, <2>1 DEF outputAck
<1>. QED
  BY <1>3, <1>4, <1>5, <1>6, <1>7, <1>8, <1>9 DEF PollerNext

\* Who closes.
LEMMA CloserTypes == Types /\ CloserNext => Types'
<1>. SUFFICES ASSUME Types, CloserNext PROVE Types'
  OBVIOUS
<1>1. CloseTypes /\ ReadTypes /\ WriteTypes /\ output \in OutputT /\ input \in InputT
  BY DEF Types, ReadTypes, WriteTypes
<1>2. \A k \in {"flushing", "finalizing"} : [keys EXCEPT ![k] = 2] \in KeysT
  BY <1>1 DEF CloseTypes, KeysT
<1>3. ASSUME UNCHANGED <<input, output>> \/ (input' \in InputT /\ output' \in OutputT),
             closing' \in {closing, "user"}, opState' \in {opState, 0},
             interest' \in {interest, "none"}, readTrigger' \in {readTrigger, TRUE},
             writeTrigger' \in {writeTrigger, "closed"}, keys' \in KeysT,
             called' \in {called, TRUE}, fdClosed' \in {fdClosed, TRUE}, freed' \in {freed, TRUE}
      PROVE  Types'
  <2>1. input' \in InputT /\ output' \in OutputT
    BY <1>1, <1>3
  <2>2. CloseTypes'
    <3>1. opState' \in 0..2
      BY <1>1, <1>3 DEF CloseTypes
    <3>. QED
      BY <1>1, <1>3, <3>1, Zenon DEF CloseTypes
  <2>3. ReadTypes' /\ WriteTypes'
    BY <1>1, <1>3, <2>1, CloserMoves DEF ReadTypes, WriteTypes
  <2>. QED
    BY <2>2, <2>3, CloserMoves DEF Types
<1>4. keys \in KeysT
  BY <1>1 DEF CloseTypes
<1>5. CASE onClose \/ CloseTriggersRead \/ CloseTriggersWrite
  BY <1>3, <1>4, <1>5 DEF onClose, CloseTriggersRead, CloseTriggersWrite, Put
<1>6. CASE closeCallback \/ unused \/ Free \/ CloseFD
  BY <1>3, <1>4, <1>6 DEF closeCallback, unused, Free, CloseFD
<1>7. CASE StopFlushing \/ StopFinalizing
  BY <1>2, <1>3, <1>7 DEF StopFlushing, StopFinalizing, Stop
<1>8. CASE closeBuffer
  <2>1. input' \in InputT /\ output' \in OutputT
    BY <1>1, <1>8 DEF closeBuffer, InputT, OutputT
  <2>. QED
    BY <1>3, <1>4, <1>8, <2>1 DEF closeBuffer
<1>. QED
  BY <1>5, <1>6, <1>7, <1>8 DEF CloserNext

-----------------------------------------------------------------------------
(* The sizes. *)

\* Every size is a number.
LEMMA Numbers ==
  ASSUME Types
  PROVE  /\ net.coming \in Nat /\ net.received \in Nat /\ net.sending \in Nat
         /\ input.len \in Nat /\ poller.n \in Nat /\ Booking \in Nat
         /\ output.head \in Nat /\ output.tail \in Nat /\ writer.n \in Nat
         /\ reader.need \in Nat /\ waitReadSize \in Nat
         /\ uses.write \in 0..MaxOut /\ uses.read \in 0..MaxIn
         /\ MaxIn \in Nat /\ Capacity \in Nat
<1>1. net.coming \in Nat /\ net.received \in Nat /\ net.sending \in Nat
  BY DEF Types, NetT
<1>2. /\ input.len \in Nat /\ output.head \in Nat /\ output.tail \in Nat /\ waitReadSize \in Nat
  BY DEF Types, ReadTypes, WriteTypes, InputT, OutputT
<1>3. poller.n \in Nat /\ writer.n \in Nat /\ reader.need \in Nat
  BY DEF Types, PollerT, WriterT, ReaderT
<1>4. uses.write \in 0..MaxOut /\ uses.read \in 0..MaxIn /\ MaxIn \in Nat /\ Capacity \in Nat
  BY NetAssumption DEF Types
<1>. QED
  BY <1>1, <1>2, <1>3, <1>4 DEF Booking

\* Where a step leaves its actor.
LEMMA Labels ==
  ASSUME reader \in ReaderT, poller \in PollerT
  PROVE  /\ \A l : Reader(l) => reader'.at = l /\ reader'.need \in {reader.need, 0}
         /\ \A l : PollerAt(l) => poller'.at = l
         /\ \A l : WriterAt(l) => writer'.at = l /\ writer'.err = FALSE
         /\ \A err : Answer(err) => writer'.at = "return" /\ writer'.err = err
<1>1. ASSUME NEW l, Reader(l) PROVE reader'.at = l /\ reader'.need \in {reader.need, 0}
  BY <1>1 DEF Reader, Idle, ReaderT
<1>2. ASSUME NEW l, PollerAt(l) PROVE poller'.at = l
  BY <1>2 DEF PollerAt, Poller, PollerT
<1>3. ASSUME NEW l, WriterAt(l) PROVE writer'.at = l /\ writer'.err = FALSE
  BY <1>3 DEF WriterAt, Writer
<1>4. ASSUME NEW err, Answer(err) PROVE writer'.at = "return" /\ writer'.err = err
  BY <1>4 DEF Answer, Writer
<1>. QED
  BY <1>1, <1>2, <1>3, <1>4

\* Bytes move on towards the reader, and none appear.
LEMMA ArrivedStep == Types /\ Arrived /\ Next => Arrived'
<1>. SUFFICES ASSUME Types, Arrived, Next PROVE Arrived'
  OBVIOUS
<1>1. /\ net \in NetT /\ poller \in PollerT /\ input \in InputT /\ output \in OutputT
      /\ reader \in ReaderT /\ writer \in WriterT
  BY DEF Types, ReadTypes, WriteTypes
<1>. USE Numbers
<1>2. CASE OtherNext
  <2>1. UNCHANGED <<input, poller>>
    BY <1>2 DEF OtherNext, Dial, ConnectNow, Established, ConnectLater, WaitWrite, DialDone, DoubleCheck,
         OnWrite, OnHupDialing, DialStep, Arrive, PeerReads, PeerCloses, Net, ReadTimerFires,
         WriteTimerFires, SetTimeout, rvars
  <2>2. CASE Arrive
    BY <1>1, <2>1, <2>2 DEF Arrive, Net, Arrived, Booking, NetT
  <2>3. CASE ~ Arrive
    <3>1. net'.coming = net.coming /\ net'.received = net.received
      BY <1>1, <1>2, <2>3 DEF OtherNext, Dial, ConnectNow, Established, ConnectLater, WaitWrite, DialDone, DoubleCheck,
           OnWrite, OnHupDialing, DialStep, PeerReads, PeerCloses, Net, ReadTimerFires,
           WriteTimerFires, SetTimeout, NetT
    <3>. QED
      BY <2>1, <3>1 DEF Arrived, Booking
  <2>. QED
    BY <2>2, <2>3
<1>3. CASE ReaderNext
  <2>1. poller' = poller
    BY <1>1, <1>3, ReaderMoves
  <2>2. CASE \E n \in 0..MaxIn : FillRead(n)
    <3>1. PICK n \in 1..net.received : FillRead(n)
      BY <2>2 DEF FillRead
    <3>2. net'.coming = net.coming /\ net'.received = net.received - n /\ input'.len = input.len + n
      BY <1>1, <3>1 DEF FillRead, NetT, InputT
    <3>. QED
      BY <2>1, <3>2 DEF Arrived, Booking
  <2>3. CASE \E n \in 0..MaxIn : Take(n)
    <3>1. PICK n \in 0..input.len : Take(n)
      BY <2>3 DEF Take
    <3>2. net' = net /\ input'.len = input.len - n
      BY <1>1, <3>1 DEF Take, InputT
    <3>. QED
      BY <2>1, <3>2 DEF Arrived, Booking
  <2>4. CASE GiveUp
    <3>1. net' = net /\ input'.len \in {input.len, 0}
      BY <1>1, <2>4 DEF GiveUp, InputT
    <3>. QED
      BY <2>1, <3>1 DEF Arrived, Booking
  <2>5. CASE ~ ((\E n \in 0..MaxIn : FillRead(n) \/ Take(n)) \/ GiveUp)
    <3>1. UNCHANGED <<net, input>>
      BY <1>3, <2>5 DEF ReaderNext, ReadCall, WaitRead, ReadLength, ReadActive, ReadClosed, ReadWakes,
           ReadTimesOut, FillLock, FillEnd, WaitReadEnd, UntilMore, UntilCheck, Release, ResetTail, ReaderOnly, rvars
    <3>. QED
      BY <2>1, <3>1 DEF Arrived, Booking
  <2>. QED
    BY <2>2, <2>3, <2>4, <2>5
<1>4. CASE WriterNext
  <2>1. UNCHANGED <<input, poller>>
    BY <1>1, <1>4, WriterMoves DEF rvars
  <2>2. net'.coming = net.coming /\ net'.received = net.received
    BY <1>1, <1>4 DEF WriterNext, FlushCall, FlushLock, FlushSend, FlushSkip, FlushArm, FlushWakes,
         FlushTimesOut, FlushLate, FlushReturn, Sent, NetT
  <2>. QED
    BY <2>1, <2>2 DEF Arrived, Booking
<1>5. CASE PollerNext
  <2>1. CASE \E n \in 0..MaxIn : PollReads(n)
    <3>1. PICK n \in 0..MaxIn : PollReads(n)
      BY <2>1
    <3>2. /\ n \in 0..net.received /\ input' = input
          /\ net'.coming = net.coming /\ net'.received = net.received - n
          /\ poller'.at = "ack" /\ poller'.n = n
      BY <1>1, <3>1 DEF PollReads, Poller, NetT, PollerT
    <3>. QED
      BY <3>2 DEF Arrived, Booking
  <2>2. CASE inputAck
    <3>1. net' = net /\ input'.len = input.len + poller.n /\ poller'.at \in {"done", "compare"}
      BY <1>1, <2>2 DEF inputAck, PollerAt, Poller, InputT, PollerT
    <3>. QED
      BY <2>2, <3>1 DEF inputAck, Arrived, Booking
  <2>3. CASE PollSends
    <3>1. input' = input /\ poller'.at \in {"hup", "sent"}
      BY <1>1, <2>3 DEF PollSends, Detached, PollerAt, Poller, PollerT
    <3>2. net'.coming = net.coming /\ net'.received = net.received
      BY <1>1, <2>3 DEF PollSends, Sent, NetT
    <3>. QED
      BY <3>1, <3>2 DEF Arrived, Booking
  <2>4. CASE ~ ((\E n \in 0..MaxIn : PollReads(n)) \/ inputAck \/ PollSends)
    <3>1. UNCHANGED <<net, input>>
      BY <1>5, <2>4 DEF PollerNext, PollRead, PollCompare, triggerRead, outputs, outputAck, rw2r,
           triggerWrite, PollDone, PollHup, onHup, rvars
    <3>2. CASE PollRead \/ PollCompare \/ triggerRead \/ PollDone \/ PollHup \/ onHup
      <4>1. poller'.at # "ack"
        <5>1. CASE PollRead \/ PollCompare \/ triggerRead \/ PollHup \/ onHup
          BY <1>1, <5>1, Labels DEF PollRead, PollCompare, triggerRead, PollHup, onHup, Detached
        <5>2. CASE PollDone
          BY <5>2 DEF PollDone, Poller
        <5>. QED
          BY <3>2, <5>1, <5>2
      <4>. QED
        BY <3>1, <4>1 DEF Arrived, Booking
    <3>3. CASE outputs \/ outputAck \/ rw2r \/ triggerWrite
      <4>1. poller'.at # "ack"
        <5>1. ASSUME NEW h, NEW t, Poller([poller EXCEPT !.at = "send", !.head = h, !.tail = t])
              PROVE  poller'.at # "ack"
          BY <1>1, <5>1 DEF Poller, PollerT
        <5>. QED
          BY <1>1, <3>3, <5>1, Labels DEF outputs, outputAck, rw2r, triggerWrite
      <4>. QED
        BY <3>1, <4>1 DEF Arrived, Booking
    <3>. QED
      BY <1>5, <2>4, <3>2, <3>3 DEF PollerNext
  <2>. QED
    BY <2>1, <2>2, <2>3, <2>4
<1>6. CASE CloserNext
  <2>1. UNCHANGED <<net, poller>>
    BY <1>6, CloserMoves
  <2>2. input'.len = input.len
    BY <1>1, <1>6 DEF CloserNext, onClose, CloseTriggersRead, CloseTriggersWrite, closeCallback, unused,
         StopFlushing, StopFinalizing, Stop, Free, CloseFD, closeBuffer, InputT
  <2>. QED
    BY <2>1, <2>2 DEF Arrived, Booking
<1>. QED
  BY <1>2, <1>3, <1>4, <1>5, <1>6, NextBy

\* No more is sent than fits, and no more is flushed than was asked for.
LEMMA FlushedStep == Types /\ Flushed /\ Next => Flushed'
<1>. SUFFICES ASSUME Types, Flushed, Next PROVE Flushed'
  OBVIOUS
<1>1. /\ net \in NetT /\ poller \in PollerT /\ input \in InputT /\ output \in OutputT
      /\ reader \in ReaderT /\ writer \in WriterT
  BY DEF Types, ReadTypes, WriteTypes
<1>. USE Numbers
<1>2. \A n \in Nat : LET o == Skipped(n)
                     IN  o.tail = output.tail /\ o.head \in Nat /\ o.head <= o.tail
  BY <1>1 DEF Flushed, Skipped, CanSkip, OutputT
<1>3. CASE OtherNext
  <2>1. UNCHANGED <<output, uses, writer>>
    BY <1>3 DEF OtherNext, Dial, ConnectNow, Established, ConnectLater, WaitWrite, DialDone, DoubleCheck,
         OnWrite, OnHupDialing, DialStep, Arrive, PeerReads, PeerCloses, Net, ReadTimerFires,
         WriteTimerFires, SetTimeout, wvars
  <2>2. CASE PeerReads
    BY <1>1, <2>1, <2>2 DEF PeerReads, Net, Flushed, NetT
  <2>3. CASE ~ PeerReads
    <3>1. net'.sending = net.sending
      BY <1>1, <1>3, <2>3 DEF OtherNext, Dial, ConnectNow, Established, ConnectLater, WaitWrite, DialDone, DoubleCheck,
           OnWrite, OnHupDialing, DialStep, Arrive, PeerCloses, Net, ReadTimerFires,
           WriteTimerFires, SetTimeout, NetT
    <3>. QED
      BY <2>1, <3>1 DEF Flushed
  <2>. QED
    BY <2>2, <2>3
<1>4. CASE ReaderNext
  <2>1. UNCHANGED <<output, uses, writer>>
    BY <1>1, <1>4, ReaderMoves DEF wvars
  <2>2. net'.sending = net.sending
    BY <1>1, <1>4 DEF ReaderNext, ReadCall, WaitRead, ReadLength, ReadActive, ReadClosed, ReadWakes,
         ReadTimesOut, FillLock, FillRead, FillEnd, WaitReadEnd, Take, GiveUp, UntilMore, UntilCheck, Release,
         ResetTail, ReaderOnly, NetT
  <2>. QED
    BY <2>1, <2>2 DEF Flushed
<1>5. CASE WriterNext
  <2>1. uses' = uses
    BY <1>1, <1>5, WriterMoves
  <2>2. CASE \E n \in Writes : FlushCall(n)
    <3>1. PICK n \in Writes : FlushCall(n)
      BY <2>2
    <3>2. UNCHANGED <<output, net>> /\ output.tail + n <= uses.write /\ writer'.n = n
      BY <1>1, <3>1 DEF FlushCall, Writer, WriterT, wvars
    <3>. QED
      BY <2>1, <3>2 DEF Flushed
  <2>3. CASE FlushLock
    <3>0. net' = net
      BY <2>3 DEF FlushLock
    <3>1. writer'.at # "lock"
      <4>1. CASE writer' = [writer EXCEPT !.at = "send", !.head = output.head, !.tail = output'.tail]
        BY <1>1, <4>1 DEF WriterT
      <4>2. CASE WriterAt("idle") \/ Answer(FALSE)
        BY <4>2 DEF WriterAt, Answer, Writer
      <4>. QED
        BY <2>3, <4>1, <4>2 DEF FlushLock, Writer
    <3>2. output'.head = output.head /\ output'.tail \in {output.tail, output.tail + writer.n}
      BY <1>1, <2>3 DEF FlushLock, OutputT
    <3>. QED
      BY <2>1, <2>3, <3>0, <3>1, <3>2 DEF FlushLock, Flushed
  <2>4. CASE FlushSend
    <3>1. output' = output /\ writer'.at # "lock"
      <4>1. ASSUME NEW n, Writer([writer EXCEPT !.at = "skip", !.n = n]) PROVE writer'.at # "lock"
        BY <1>1, <4>1 DEF Writer, WriterT
      <4>. QED
        BY <1>1, <2>4, <4>1, Labels DEF FlushSend
    <3>2. net'.sending <= Capacity
      <4>1. CASE net' = net
        BY <4>1 DEF Flushed
      <4>2. CASE \E n \in Sendable(writer) : Sent(writer, n)
        <5>1. PICK n \in Sendable(writer) : Sent(writer, n)
          BY <4>2
        <5>2. net'.sending = net.sending + n
          BY <1>1, <5>1 DEF Sent, NetT
        <5>. QED
          BY <1>1, <5>1, <5>2, SendableType DEF Flushed
      <4>. QED
        BY <2>4, <4>1, <4>2 DEF FlushSend
    <3>. QED
      BY <2>1, <3>1, <3>2 DEF Flushed
  <2>5. CASE FlushSkip
    <3>1. /\ net' = net /\ output' = Skipped(writer.n)
          /\ writer'.at \in {"return", "arm"}
      BY <1>1, <2>5 DEF FlushSkip, WriterAt, Answer, Writer, WriterT
    <3>. QED
      BY <1>2, <2>1, <3>1 DEF Flushed
  <2>6. CASE FlushArm \/ FlushWakes \/ FlushTimesOut \/ FlushLate \/ FlushReturn
    <3>1. UNCHANGED <<output, net>> /\ writer'.at # "lock"
      BY <1>1, <2>6 DEF FlushArm, FlushWakes, FlushTimesOut, FlushLate, FlushReturn, WriterAt,
           Answer, Writer, WriterT, wvars
    <3>. QED
      BY <2>1, <3>1 DEF Flushed
  <2>. QED
    BY <1>5, <2>2, <2>3, <2>4, <2>5, <2>6 DEF WriterNext
<1>6. CASE PollerNext
  <2>1. UNCHANGED <<uses, writer>>
    BY <1>1, <1>6, PollerMoves
  <2>2. CASE outputAck
    <3>1. net' = net /\ output' = Skipped(poller.n)
      BY <2>2 DEF outputAck
    <3>. QED
      BY <1>2, <2>1, <3>1 DEF Flushed
  <2>3. CASE PollSends
    <3>1. output' = output
      BY <2>3 DEF PollSends
    <3>2. net'.sending <= Capacity
      <4>1. CASE net' = net
        BY <4>1 DEF Flushed
      <4>2. CASE \E n \in Sendable(poller) : Sent(poller, n)
        <5>1. PICK n \in Sendable(poller) : Sent(poller, n)
          BY <4>2
        <5>2. net'.sending = net.sending + n
          BY <1>1, <5>1 DEF Sent, NetT
        <5>. QED
          BY <1>1, <5>1, <5>2, SendableType DEF Flushed
      <4>. QED
        BY <2>3, <4>1, <4>2 DEF PollSends
    <3>. QED
      BY <2>1, <3>1, <3>2 DEF Flushed
  <2>4. CASE ~ (outputAck \/ PollSends)
    <3>1. output' = output /\ net'.sending = net.sending
      BY <1>1, <1>6, <2>4 DEF PollerNext, PollRead, PollReads, inputAck, PollCompare, triggerRead, outputs,
           rw2r, triggerWrite, PollDone, PollHup, onHup, NetT
    <3>. QED
      BY <2>1, <3>1 DEF Flushed
  <2>. QED
    BY <2>2, <2>3, <2>4
<1>7. CASE CloserNext
  <2>1. UNCHANGED <<net, uses, writer>>
    BY <1>7, CloserMoves
  <2>2. output'.head = output.head /\ output'.tail = output.tail
    BY <1>1, <1>7 DEF CloserNext, onClose, CloseTriggersRead, CloseTriggersWrite, closeCallback, unused,
         StopFlushing, StopFinalizing, Stop, Free, CloseFD, closeBuffer, OutputT
  <2>. QED
    BY <2>1, <2>2 DEF Flushed
<1>. QED
  BY <1>3, <1>4, <1>5, <1>6, <1>7, NextBy

\* A reader asks for what its caller needs, or for one byte more than there are.
LEMMA AskedStep == Types /\ Arrived /\ Asked /\ Next => Asked'
<1>. SUFFICES ASSUME Types, Arrived, Asked, Next PROVE Asked'
  OBVIOUS
<1>1. /\ net \in NetT /\ poller \in PollerT /\ input \in InputT /\ output \in OutputT
      /\ reader \in ReaderT /\ writer \in WriterT
  BY DEF Types, ReadTypes, WriteTypes
<1>. USE Numbers
<1>2. 0 \in Needs \cup 0..MaxIn + 1
  OBVIOUS
<1>3. input.len + 1 \in 0..MaxIn + 1
  BY DEF Arrived
<1>4. CASE ~ ReaderNext
  <2>1. UNCHANGED <<reader, waitReadSize>>
    <3>1. CASE OtherNext
      BY <3>1 DEF OtherNext, Dial, ConnectNow, Established, ConnectLater, WaitWrite, DialDone, DoubleCheck,
           OnWrite, OnHupDialing, DialStep, Arrive, PeerReads, PeerCloses, Net, ReadTimerFires,
           WriteTimerFires, SetTimeout, rvars
    <3>2. CASE WriterNext \/ PollerNext \/ CloserNext
      BY <1>1, <3>2, WriterMoves, PollerMoves, CloserMoves DEF rvars
    <3>. QED
      BY <1>4, <3>1, <3>2, NextBy
  <2>. QED
    BY <2>1 DEF Asked
<1>5. CASE ReaderNext
  <2>1. CASE \E need \in Needs, until \in BOOLEAN : ReadCall(need, until)
    BY <2>1 DEF ReadCall, Asked, rvars
  <2>2. CASE UntilMore
    <3>1. reader'.need = input.len + 1 /\ waitReadSize' = waitReadSize
      BY <1>1, <2>2 DEF UntilMore, ReaderT, rvars
    <3>. QED
      BY <1>3, <3>1 DEF Asked
  <2>3. CASE ~ ((\E need \in Needs, until \in BOOLEAN : ReadCall(need, until)) \/ UntilMore)
    <3>2. reader'.need \in {reader.need, 0}
      BY <1>1, <1>5, <2>3, Labels DEF ReaderNext, WaitRead, ReadLength, ReadActive, ReadClosed, ReadWakes,
           ReadTimesOut, FillLock, FillRead, FillEnd, WaitReadEnd, Take, GiveUp, UntilCheck, Release,
           ResetTail, ReaderOnly
    <3>3. waitReadSize' \in {reader.need, waitReadSize, 0}
      BY <1>5, <2>3 DEF ReaderNext, WaitRead, ReadLength, ReadActive, ReadClosed, ReadWakes,
           ReadTimesOut, FillLock, FillRead, FillEnd, WaitReadEnd, Take, GiveUp, UntilCheck, Release,
           ResetTail, ReaderOnly, rvars
    <3>. QED
      BY <1>2, <3>2, <3>3 DEF Asked
  <2>. QED
    BY <2>1, <2>2, <2>3
<1>. QED
  BY <1>4, <1>5

-----------------------------------------------------------------------------
(* The types, the sizes and what a call leaves behind, for any constants. *)

\* A call of the reader or of the writer leaves its timer as it found it.
LEMMA WaitedStep == Types /\ Waited /\ Next => Waited'
<1>. SUFFICES ASSUME Types, Waited, Next PROVE Waited'
  OBVIOUS
<1>1. /\ net \in NetT /\ poller \in PollerT /\ input \in InputT /\ output \in OutputT
      /\ reader \in ReaderT /\ writer \in WriterT
  BY DEF Types, ReadTypes, WriteTypes
<1>2. CASE OtherNext
  <2>1. UNCHANGED <<reader, writer, waitReadSize>>
    BY <1>2 DEF OtherNext, Dial, ConnectNow, Established, ConnectLater, WaitWrite, DialDone, DoubleCheck,
         OnWrite, OnHupDialing, DialStep, Arrive, PeerReads, PeerCloses, Net, ReadTimerFires,
         WriteTimerFires, SetTimeout, rvars
  <2>2. (readTimer = "off" => readTimer' = "off") /\ (writeTimer = "off" => writeTimer' = "off")
    BY <1>2 DEF OtherNext, Dial, ConnectNow, Established, ConnectLater, WaitWrite, DialDone, DoubleCheck,
         OnWrite, OnHupDialing, DialStep, Arrive, PeerReads, PeerCloses, Net, ReadTimerFires,
         WriteTimerFires, SetTimeout, rvars, wvars
  <2>. QED
    BY <2>1, <2>2 DEF Waited
<1>3. CASE ReaderNext
  <2>1. UNCHANGED <<writer, writeTimer>>
    BY <1>1, <1>3, ReaderMoves DEF wvars
  <2>2. CASE WaitRead \/ ReadLength \/ ReadActive \/ ReadClosed \/ ReadWakes \/ FillLock \/ FillEnd
    <3>1. reader'.at \notin {"idle", "store", "take", "giveUp", "check", "reset"}
      <4>1. \E l \in {"length", "fail", "filling", "stop", "active", "wait", "closed", "fill"} : Reader(l)
        BY <2>2 DEF WaitRead, ReadLength, ReadActive, ReadClosed, ReadWakes, FillLock, FillEnd, ReaderOnly
      <4>. QED
        BY <1>1, <4>1, Labels
    <3>. QED
      BY <2>1, <3>1 DEF Waited
  <2>3. CASE \E n \in 0..MaxIn : FillRead(n)
    <3>1. reader'.at = "filling"
      BY <1>1, <2>3, Labels DEF FillRead
    <3>. QED
      BY <2>1, <3>1 DEF Waited
  <2>4. CASE ReadTimesOut \/ WaitReadEnd
    BY <2>1, <2>4 DEF ReadTimesOut, WaitReadEnd, Waited
  <2>5. CASE UntilCheck \/ GiveUp \/ Release \/ ResetTail \/ \E n \in 0..MaxIn : Take(n)
    <3>1. UNCHANGED <<readTimer, waitReadSize>>
          /\ reader.at \in {"idle", "store", "take", "giveUp", "check", "reset"}
      BY <2>5 DEF UntilCheck, GiveUp, Release, ResetTail, Take, ReaderOnly, rvars
    <3>. QED
      BY <2>1, <3>1 DEF Waited
  <2>6. CASE UntilMore \/ \E need \in Needs, until \in BOOLEAN : ReadCall(need, until)
    <3>1. UNCHANGED <<readTimer, waitReadSize>>
          /\ reader.at \in {"idle", "store", "take", "giveUp", "check", "reset"}
      BY <2>6 DEF UntilMore, ReadCall, rvars
    <3>. QED
      BY <2>1, <3>1 DEF Waited
  <2>. QED
    BY <1>3, <2>2, <2>3, <2>4, <2>5, <2>6 DEF ReaderNext
<1>4. CASE WriterNext
  <2>1. UNCHANGED <<reader, readTimer, waitReadSize>>
    BY <1>1, <1>4, WriterMoves DEF rvars
  <2>2. writer'.at = "wait" \/ writeTimer' = "off"
    <3>1. CASE FlushArm
      <4>1. CASE writeTimer' = writeTimer
        BY <3>1, <4>1 DEF FlushArm, Waited
      <4>2. CASE WriterAt("wait")
        BY <1>1, <4>2, Labels
      <4>. QED
        BY <3>1, <4>1, <4>2 DEF FlushArm
    <3>2. CASE FlushWakes \/ FlushTimesOut
      BY <3>2 DEF FlushWakes, FlushTimesOut
    <3>3. CASE FlushLock \/ FlushSend \/ FlushSkip \/ FlushLate \/ FlushReturn \/ \E n \in Writes : FlushCall(n)
      BY <3>3 DEF FlushLock, FlushSend, FlushSkip, FlushLate, FlushReturn, FlushCall, wvars, Waited
    <3>. QED
      BY <1>4, <3>1, <3>2, <3>3 DEF WriterNext
  <2>. QED
    BY <2>1, <2>2 DEF Waited
<1>5. CASE PollerNext \/ CloserNext
  BY <1>1, <1>5, PollerMoves, CloserMoves DEF Waited
<1>. QED
  BY <1>2, <1>3, <1>4, <1>5, NextBy

LEMMA TypesStep == Types /\ Next => Types'
  BY NextBy, OtherTypes, ReaderTypes, WriterTypes, PollerTypes, CloserTypes

TypesInv == Types /\ Sizes /\ Waited

LEMMA TypesInit == Init => TypesInv
<1>. SUFFICES ASSUME Init PROVE TypesInv
  OBVIOUS
<1>1. uses.read \in 0..MaxIn /\ uses.write \in 0..MaxOut /\ MaxIn \in Nat /\ MaxOut \in Nat /\ Capacity \in Nat
  BY NetAssumption DEF Init
<1>2. dial \in DialT /\ closer \in CloserAt
  BY DEF Init, DialT, DialAt, CloserAt
<1>3. CloseTypes
  <2>1. keys \in KeysT
    BY DEF Init, KeysT
  <2>2. opState \in 0..2
    BY DEF Init
  <2>. QED
    BY <2>1, <2>2, Zenon DEF Init, CloseTypes
<1>4. ReadTypes /\ WriteTypes
  BY DEF Init, ReadTypes, WriteTypes, Timers, InputT, OutputT, WireT
<1>5. net \in NetT
  BY <1>1 DEF Init, NetT
<1>6. reader \in ReaderT /\ writer \in WriterT /\ poller \in PollerT
  BY DEF Init, ReaderT, ReaderAt, WriterT, WriterLabels, PollerT, PollerLabels, Idle
<1>7. Types
  BY <1>2, <1>3, <1>4, <1>5, <1>6 DEF Init, Types
<1>8. Arrived
  BY <1>1 DEF Init, Arrived, Booking
<1>9. Flushed
  BY <1>1 DEF Init, Flushed
<1>10. Asked
  BY <1>1 DEF Init, Asked, Idle
<1>. QED
  BY <1>7, <1>8, <1>9, <1>10 DEF Init, TypesInv, Sizes, Waited

LEMMA TypesKept == TypesInv /\ [Next]_vars => TypesInv'
<1>. SUFFICES ASSUME TypesInv, [Next]_vars PROVE TypesInv'
  OBVIOUS
<1>1. CASE Next
  BY <1>1, TypesStep, ArrivedStep, FlushedStep, AskedStep, WaitedStep DEF TypesInv, Sizes
<1>2. CASE UNCHANGED vars
  <2>. USE <1>2 DEF vars, rvars, wvars, cvars
  <2>1. Types'
    BY DEF TypesInv, Types, CloseTypes, ReadTypes, WriteTypes
  <2>2. Sizes' /\ Waited'
    BY DEF TypesInv, Sizes, Waited, Arrived, Booking, Flushed, Asked
  <2>. QED
    BY <2>1, <2>2 DEF TypesInv
<1>. QED
  BY <1>1, <1>2

LEMMA TypesHold == Spec => []TypesInv
  BY TypesInit, TypesKept, PTL DEF Spec

\* The types hold, whatever the sizes: a socket's bytes are never more than the
\* peer sends nor a flush's more than was asked for, in any order in which the
\* kernel, the poller and the goroutines take them.
THEOREM TypeCorrect == Spec => []TypeOK
<1>1. TypesInv => TypeOK
  <2>. SUFFICES ASSUME TypesInv PROVE TypeOK
    OBVIOUS
  <2>1. Types /\ Arrived /\ Flushed /\ Asked
    BY DEF TypesInv, Sizes
  <2>2. dial.at \in {"idle", "waiting", "detached", "refused", "cancelled", "panic", "up"}
    BY <2>1 DEF Types, DialT, DialAt
  <2>3. /\ closing \in {"none", "user", "poller"}
        /\ keys \in [{"flushing", "finalizing"} -> 0..2]
        /\ opState \in 0..2 /\ interest \in {"none", "R", "RW"}
    BY <2>1 DEF Types, CloseTypes, KeysT
  <2>4. /\ {readTimer, writeTimer} \subseteq Timers
        /\ writeTrigger \in {"empty", "nil", "closed"}
    BY <2>1 DEF Types, ReadTypes, WriteTypes
  <2>5. input.len \in 0..MaxIn /\ net.received \in 0..MaxIn /\ net.sending \in 0..Capacity
    BY <2>1, Numbers DEF Arrived, Flushed
  <2>6. 0 <= output.head /\ output.head <= output.tail /\ output.tail <= MaxOut
    BY <2>1, Numbers, NetAssumption DEF Flushed
  <2>7. waitReadSize \in Needs \cup 0..MaxIn + 1
    BY <2>1 DEF Asked
  <2>. QED
    BY <2>2, <2>3, <2>4, <2>5, <2>6, <2>7 DEF TypeOK
<1>. QED
  BY <1>1, TypesHold, PTL

-----------------------------------------------------------------------------
(* The stages of a close. *)

\* The poller is handling the connection.
Handling == poller.at \in {"read", "ack", "compare", "trigger", "done", "send", "sent",
                           "rw2r", "answer"}

\* The operator is detached for good, and nobody is handling it.
Gone == opState = 0 /\ interest = "none" /\ ~ Handling /\ reader.at # "reset"

\* Nobody has the connection before it is made.
Unborn ==
  ~ Up => /\ opState = 0 /\ interest = "none"
          /\ poller.at = "idle" /\ reader.at = "idle" /\ writer.at = "idle" /\ closer = "idle"
          /\ closing = "none" /\ ~ freed

\* The operator's state is 2 while one handles it, and the keys are locked in
\* the sections they are for.
Locked ==
  /\ Handling => opState = 2 /\ reader.at # "reset"
  /\ reader.at = "reset" => opState = 2
  /\ keys.flushing = 1 <=> writer.at \in {"send", "skip", "arm", "wait", "late", "return"}
  /\ keys.finalizing = 1 <=> reader.at = "filling"

\* The poller that closes has detached; a reader that fills by itself saw that
\* somebody closed.
Closing ==
  /\ closing = "poller" => Gone
  /\ poller.at \in {"hup", "hupRead", "hupWrite"} => opState = 0 /\ interest = "none"
  /\ poller.at \in {"hupRead", "hupWrite"} => closing # "none"
  /\ reader.at \in {"closed", "fill", "filling"} => closing # "none"
  /\ closer # "idle" => closing # "none"
  /\ closer \in {"triggerRead", "triggerWrite", "detach"} => closing = "user"

\* Close waits for the operator, then for the keys, and then gives up.
Stages ==
  /\ closer \in {"stopFlushing", "stopFinalizing", "free", "close", "buffers"} => Gone
  /\ closer \in {"stopFinalizing", "free", "close", "buffers"} => keys.flushing = 2
  /\ closer \in {"free", "close", "buffers"} => keys.finalizing = 2
  /\ closer \in {"close", "buffers"} => freed
  /\ freed => Gone /\ keys.flushing = 2 /\ keys.finalizing = 2
  /\ fdClosed \/ ~ input.open \/ ~ output.open => freed

Locks == Unborn /\ Locked /\ Closing /\ Stages

-----------------------------------------------------------------------------
(* The locks. *)

LockTypes ==
  /\ reader \in ReaderT /\ writer \in WriterT /\ poller \in PollerT
  /\ input \in InputT /\ output \in OutputT
  /\ closing \in {"none", "user", "poller"} /\ opState \in 0..2
  /\ keys.flushing \in 0..2 /\ keys.finalizing \in 0..2

\* A key is changed without the other.
LEMMA KeyMoves ==
  ASSUME Types, NEW v \in 0..2
  PROVE  /\ LockTypes
         /\ keys' = [keys EXCEPT !.flushing = v] =>
              keys'.flushing = v /\ keys'.finalizing = keys.finalizing
         /\ keys' = [keys EXCEPT !.finalizing = v] =>
              keys'.finalizing = v /\ keys'.flushing = keys.flushing
<1>1. keys \in KeysT
  BY DEF Types, CloseTypes
<1>2. /\ keys' = [keys EXCEPT !.flushing = v] =>
           keys'.flushing = v /\ keys'.finalizing = keys.finalizing
      /\ keys' = [keys EXCEPT !.finalizing = v] =>
           keys'.finalizing = v /\ keys'.flushing = keys.flushing
  BY <1>1 DEF KeysT
<1>3. keys.flushing \in 0..2 /\ keys.finalizing \in 0..2
  BY <1>1 DEF KeysT
<1>. QED
  BY <1>2, <1>3 DEF Types, CloseTypes, ReadTypes, WriteTypes, LockTypes

\* The other actors.
LEMMA OtherLocks == Types /\ Locks /\ OtherNext => Locks'
<1>. SUFFICES ASSUME Types, Locks, OtherNext PROVE Locks'
  OBVIOUS
<1>1. CASE ConnectNow
  <2>1. dial'.at = "up" /\ ~ Up
    BY <1>1 DEF ConnectNow, Established, Up, Types, DialT
  <2>2. UNCHANGED <<keys, input, output, closing, fdClosed, freed, reader, writer, closer, poller>>
    BY <1>1 DEF ConnectNow, Established, rvars, wvars
  <2>3. Unborn'
    BY <2>1 DEF Unborn, Up
  <2>4. Locked'
    BY <2>1, <2>2 DEF Locks, Unborn, Locked, Handling
  <2>5. Closing' /\ Stages'
    BY <2>1, <2>2 DEF Locks, Unborn, Closing, Stages, Gone
  <2>. QED
    BY <2>3, <2>4, <2>5 DEF Locks
<1>2. ASSUME NEW d, DialStep(d), ~ Up PROVE Locks'
  BY <1>2 DEF DialStep, Up, Locks, Unborn, Locked, Closing, Stages, Gone, Handling, rvars, wvars, cvars
<1>3. CASE Dial /\ ~ ConnectNow
  BY <1>2, <1>3 DEF Dial, ConnectLater, WaitWrite, DialDone, DoubleCheck, OnWrite, OnHupDialing, Up
<1>4. CASE OtherNext /\ ~ Dial
  <2>1. UNCHANGED <<dial, cvars, input, output, reader, writer, closer, poller>>
    BY <1>4 DEF OtherNext, Arrive, PeerReads, PeerCloses, Net, ReadTimerFires,
         WriteTimerFires, SetTimeout, rvars, wvars
  <2>. QED
    BY <2>1 DEF Up, Locks, Unborn, Locked, Closing, Stages, Gone, Handling, cvars
<1>. QED
  BY <1>1, <1>3, <1>4 DEF OtherNext

\* The reader.
LEMMA ReaderLocks == Types /\ Locks /\ ReaderNext => Locks'
<1>. SUFFICES ASSUME Types, Locks, ReaderNext PROVE Locks'
  OBVIOUS
<1>1. /\ reader \in ReaderT /\ poller \in PollerT /\ input \in InputT
      /\ opState \in 0..2 /\ keys.finalizing \in 0..2
  BY KeyMoves DEF LockTypes
<1>2. UNCHANGED <<dial, output, closing, fdClosed, freed, interest, writer, closer, poller>>
  BY <1>1, ReaderMoves DEF wvars
<1>3. ASSUME Up, UNCHANGED <<keys, opState>>, input'.open = input.open,
             reader.at \notin {"reset", "filling"}, reader'.at \notin {"reset", "filling"},
             reader'.at \in {"closed", "fill"} => closing # "none"
      PROVE  Locks'
  BY <1>2, <1>3 DEF Up, Locks, Unborn, Locked, Closing, Stages, Gone, Handling
<1>4. reader.at # "idle" => Up
  BY DEF Locks, Unborn
<1>5. CASE ReadLength \/ ReadActive \/ ReadClosed \/ UntilCheck
  <2>1. UNCHANGED <<keys, opState, input>> /\ reader.at \in {"length", "active", "closed", "check"}
    BY <1>5 DEF ReadLength, ReadActive, ReadClosed, UntilCheck, ReaderOnly, rvars
  <2>2. \E l \in {"stop", "active", "wait", "closed", "fail", "fill", "take", "store"} :
           Reader(l) /\ (l = "closed" => closing # "none") /\ (l = "fill" => reader.at = "closed")
    BY <1>5 DEF ReadLength, ReadActive, ReadClosed, UntilCheck, ReaderOnly, IsActive
  <2>. QED
    BY <1>1, <1>3, <1>4, <2>1, <2>2, Labels DEF Locks, Closing
<1>6. CASE WaitRead \/ ReadWakes \/ ReadTimesOut \/ WaitReadEnd
  <2>1. UNCHANGED <<keys, opState, input>> /\ reader.at \in {"store", "wait", "stop", "fail"}
    BY <1>6 DEF WaitRead, ReadWakes, ReadTimesOut, WaitReadEnd
  <2>2. Reader("length") \/ Reader("take") \/ Reader("giveUp")
    BY <1>6 DEF WaitRead, ReadWakes, ReadTimesOut, WaitReadEnd
  <2>3. reader'.at \in {"length", "take", "giveUp"}
    BY <1>1, <2>2, Labels
  <2>. QED
    BY <1>3, <1>4, <2>1, <2>3
<1>7. CASE GiveUp \/ \E n \in 0..MaxIn : Take(n)
  <2>1. UNCHANGED <<keys, opState>> /\ reader.at \in {"giveUp", "take"} /\ Reader("idle")
    BY <1>7 DEF GiveUp, Take
  <2>2. input'.open = input.open
    BY <1>1, <1>7 DEF GiveUp, Take, InputT
  <2>. QED
    BY <1>1, <1>3, <1>4, <2>1, <2>2, Labels
<1>8. CASE UntilMore
  <2>1. reader'.at = "check"
    BY <1>1, <1>8 DEF UntilMore, ReaderT
  <2>. QED
    BY <1>3, <1>4, <1>8, <2>1 DEF UntilMore, rvars, cvars
<1>9. CASE \E need \in Needs, until \in BOOLEAN : ReadCall(need, until)
  BY <1>3, <1>9 DEF ReadCall, rvars, cvars
<1>10. CASE FillLock
  <2>1. CASE keys' = [keys EXCEPT !.finalizing = 1] /\ Reader("filling") /\ keys.finalizing = 0
    <3>1. /\ reader.at = "fill" /\ reader'.at = "filling" /\ UNCHANGED <<input, opState>>
          /\ keys'.finalizing = 1 /\ keys'.flushing = keys.flushing
      BY <1>1, <1>10, <2>1, Labels, KeyMoves DEF FillLock, rvars
    <3>2. Unborn' /\ Locked'
      BY <1>2, <1>4, <2>1, <3>1 DEF Up, Locks, Unborn, Locked, Handling
    <3>3. Closing'
      BY <1>2, <3>1 DEF Locks, Closing, Gone, Handling
    <3>4. ~ freed /\ closer \notin {"free", "close", "buffers"}
      BY <1>1, <2>1 DEF Locks, Stages
    <3>5. Stages'
      BY <1>2, <3>1, <3>4 DEF Locks, Stages, Gone, Handling
    <3>. QED
      BY <3>2, <3>3, <3>5 DEF Locks
  <2>2. CASE keys' = keys /\ Reader("fail")
    BY <1>1, <1>3, <1>4, <1>10, <2>2, Labels DEF FillLock, rvars
  <2>. QED
    BY <1>10, <2>1, <2>2 DEF FillLock
<1>11. CASE \E n \in 0..MaxIn : FillRead(n)
  <2>1. UNCHANGED <<keys, opState>> /\ reader.at = "filling" /\ Reader("filling")
    BY <1>11 DEF FillRead
  <2>2. input'.open = input.open
    BY <1>1, <1>11 DEF FillRead, InputT
  <2>3. reader'.at = "filling"
    BY <1>1, <2>1, Labels
  <2>. QED
    BY <1>2, <2>1, <2>2, <2>3 DEF Up, Locks, Unborn, Locked, Closing, Stages, Gone, Handling
<1>12. CASE FillEnd
  <2>1. reader.at = "filling" /\ reader'.at \in {"stop", "fail"} /\ UNCHANGED <<input, opState>>
    BY <1>1, <1>12, Labels DEF FillEnd, rvars
  <2>2. keys'.finalizing = 0 /\ keys'.flushing = keys.flushing
    BY <1>12, KeyMoves DEF FillEnd
  <2>3. keys.finalizing = 1
    BY <2>1 DEF Locks, Locked
  <2>4. Unborn' /\ Locked'
    BY <1>2, <1>4, <2>1, <2>2, <2>3 DEF Up, Locks, Unborn, Locked, Handling
  <2>5. Closing'
    BY <1>2, <2>1 DEF Locks, Closing, Gone, Handling
  <2>6. ~ freed /\ closer \notin {"free", "close", "buffers"}
    BY <1>1, <2>3 DEF Locks, Stages
  <2>7. Stages'
    BY <1>2, <2>1, <2>2, <2>6 DEF Locks, Stages, Gone, Handling
  <2>. QED
    BY <2>4, <2>5, <2>7 DEF Locks
<1>13. CASE Release
  <2>1. /\ Up /\ reader.at = "idle" /\ reader'.at = "reset" /\ UNCHANGED <<keys, input>>
        /\ opState = 1 /\ opState' = 2
    BY <1>1, <1>13, Labels DEF Release, rvars
  <2>2. ~ Handling /\ ~ Gone
    BY <2>1 DEF Locks, Locked, Gone
  <2>. QED
    BY <1>2, <2>1, <2>2 DEF Up, Locks, Unborn, Locked, Closing, Stages, Gone, Handling
<1>14. CASE ResetTail
  <2>1. /\ Up /\ reader.at = "reset" /\ reader'.at = "idle" /\ UNCHANGED <<keys, input>>
        /\ opState' = 1
    BY <1>1, <1>4, <1>14, Labels DEF ResetTail, rvars
  <2>2. ~ Handling /\ ~ Gone /\ opState = 2
    BY <2>1 DEF Locks, Locked, Gone
  <2>3. closing # "poller" /\ poller.at \notin {"hup", "hupRead", "hupWrite"}
    BY <1>1, <2>2 DEF Locks, Closing
  <2>4. Unborn' /\ Locked'
    BY <1>2, <2>1, <2>2 DEF Up, Locks, Unborn, Locked, Handling
  <2>5. Closing'
    BY <1>2, <2>1, <2>3 DEF Locks, Closing
  <2>6. Stages'
    BY <1>2, <2>1, <2>2 DEF Locks, Stages
  <2>. QED
    BY <2>4, <2>5, <2>6 DEF Locks
<1>. QED
  BY <1>5, <1>6, <1>7, <1>8, <1>9, <1>10, <1>11, <1>12, <1>13, <1>14 DEF ReaderNext

\* The writer.
LEMMA WriterLocks == Types /\ Locks /\ WriterNext => Locks'
<1>. SUFFICES ASSUME Types, Locks, WriterNext PROVE Locks'
  OBVIOUS
<1>1. /\ reader \in ReaderT /\ writer \in WriterT /\ poller \in PollerT /\ output \in OutputT
      /\ opState \in 0..2 /\ keys.flushing \in 0..2
  BY KeyMoves DEF LockTypes
<1>2. UNCHANGED <<dial, input, closing, fdClosed, freed, opState, reader, closer, poller>>
  BY <1>1, WriterMoves DEF rvars
<1>. DEFINE Inside == {"send", "skip", "arm", "wait", "late", "return"}
<1>3. ASSUME Up, UNCHANGED <<keys, interest>>, output'.open = output.open,
             writer.at \in Inside <=> writer'.at \in Inside
      PROVE  Locks'
  BY <1>2, <1>3 DEF Up, Locks, Unborn, Locked, Closing, Stages, Gone, Handling
<1>4. writer.at # "idle" => Up
  BY DEF Locks, Unborn
<1>5. CASE \E n \in Writes : FlushCall(n)
  <2>1. PICK n \in Writes : FlushCall(n)
    BY <1>5
  <2>2. writer'.at = "lock"
    BY <1>1, <2>1 DEF FlushCall, Writer, WriterT
  <2>. QED
    BY <1>3, <2>1, <2>2 DEF FlushCall, wvars
<1>6. CASE FlushLock
  <2>1. CASE keys.flushing # 0
    <3>1. writer'.at = "idle" /\ UNCHANGED <<keys, output, interest>> /\ writer.at = "lock"
      BY <1>1, <1>6, <2>1, Labels DEF FlushLock
    <3>. QED
      BY <1>3, <1>4, <3>1
  <2>2. CASE keys.flushing = 0
    <3>1. keys'.flushing = 1 /\ keys'.finalizing = keys.finalizing
      BY <1>6, <2>2, KeyMoves DEF FlushLock
    <3>2. writer.at = "lock" /\ writer'.at \in {"return", "send"} /\ interest' = interest
      <4>1. CASE writer' = [writer EXCEPT !.at = "send", !.head = output.head, !.tail = output'.tail]
        BY <1>1, <1>6, <4>1 DEF FlushLock, WriterT
      <4>2. CASE Answer(FALSE)
        BY <1>6, <4>2 DEF FlushLock, Answer, Writer
      <4>. QED
        BY <1>6, <2>2, <4>1, <4>2 DEF FlushLock, Writer
    <3>3. output'.open = output.open
      BY <1>1, <1>6, <2>2 DEF FlushLock, OutputT
    <3>4. closer \notin {"stopFinalizing", "free", "close", "buffers"} /\ ~ freed
      BY <2>2 DEF Locks, Stages
    <3>. QED
      BY <1>2, <1>4, <3>1, <3>2, <3>3, <3>4
         DEF Up, Locks, Unborn, Locked, Closing, Stages, Gone, Handling
  <2>. QED
    BY <2>1, <2>2
<1>7. CASE FlushSend
  <2>1. writer.at = "send" /\ writer'.at \in Inside /\ UNCHANGED <<keys, interest, output>>
    <3>1. ASSUME NEW n, Writer([writer EXCEPT !.at = "skip", !.n = n]) PROVE writer'.at = "skip"
      BY <1>1, <3>1 DEF Writer, WriterT
    <3>2. writer.at = "send" /\ UNCHANGED <<keys, interest, output>>
      BY <1>7 DEF FlushSend
    <3>3. writer'.at \in {"return", "skip"}
      BY <1>1, <1>7, <3>1, Labels DEF FlushSend
    <3>. QED
      BY <3>2, <3>3
  <2>. QED
    BY <1>3, <1>4, <2>1
<1>8. CASE FlushSkip
  <2>1. writer.at = "skip" /\ writer'.at \in Inside /\ UNCHANGED <<keys, interest>>
    BY <1>1, <1>8, Labels DEF FlushSkip
  <2>2. output'.open = output.open
    BY <1>1, <1>8 DEF FlushSkip, Skipped, OutputT
  <2>. QED
    BY <1>3, <1>4, <2>1, <2>2
<1>9. CASE FlushArm \/ FlushLate
  <2>1. /\ writer.at \in Inside /\ writer'.at \in Inside /\ UNCHANGED <<keys, output>>
        /\ interest = "none" => interest' = "none"
    BY <1>1, <1>9 DEF FlushArm, FlushLate, Answer, WriterAt, Writer, RW2R
  <2>. QED
    BY <1>2, <1>4, <2>1 DEF Up, Locks, Unborn, Locked, Closing, Stages, Gone, Handling
<1>10. CASE FlushWakes \/ FlushTimesOut
  <2>1. writer.at \in Inside /\ writer'.at \in Inside /\ UNCHANGED <<keys, output, interest>>
    BY <1>1, <1>10, Labels DEF FlushWakes, FlushTimesOut
  <2>. QED
    BY <1>3, <1>4, <2>1
<1>11. CASE FlushReturn
  <2>1. writer.at = "return" /\ writer'.at = "idle" /\ UNCHANGED <<interest, output>>
    BY <1>1, <1>11, Labels DEF FlushReturn, wvars
  <2>2. keys'.flushing = 0 /\ keys'.finalizing = keys.finalizing
    BY <1>11, KeyMoves DEF FlushReturn
  <2>3. closer \notin {"stopFinalizing", "free", "close", "buffers"} /\ ~ freed
    BY <2>1 DEF Locks, Locked, Stages
  <2>. QED
    BY <1>2, <1>4, <2>1, <2>2, <2>3 DEF Up, Locks, Unborn, Locked, Closing, Stages, Gone, Handling
<1>. QED
  BY <1>5, <1>6, <1>7, <1>8, <1>9, <1>10, <1>11 DEF WriterNext

\* The poller.
LEMMA PollerLocks == Types /\ Locks /\ PollerNext => Locks'
<1>. SUFFICES ASSUME Types, Locks, PollerNext PROVE Locks'
  OBVIOUS
<1>1. /\ reader \in ReaderT /\ writer \in WriterT /\ poller \in PollerT
      /\ input \in InputT /\ output \in OutputT
      /\ opState \in 0..2 /\ closing \in {"none", "user", "poller"}
  BY KeyMoves DEF LockTypes
<1>2. UNCHANGED <<dial, keys, fdClosed, freed, reader, writer, closer>>
  BY <1>1, PollerMoves
<1>3. poller.at # "idle" \/ interest # "none" => Up
  BY DEF Locks, Unborn
<1>. DEFINE During == {"read", "ack", "compare", "trigger", "done", "send", "sent", "rw2r", "answer"}
<1>4. ASSUME UNCHANGED <<closing, opState>>, interest = "none" => interest' = "none",
             input'.open = input.open, output'.open = output.open,
             poller.at \in During, poller'.at \in During
      PROVE  Locks'
  BY <1>2, <1>3, <1>4 DEF Up, Locks, Unborn, Locked, Closing, Stages, Gone, Handling
<1>5. CASE PollRead \/ outputs
  <2>1. /\ poller.at = "idle" /\ interest # "none" /\ opState = 1
        /\ poller'.at \in During /\ opState' = 2 /\ UNCHANGED <<closing, interest, input, output>>
    <3>1. CASE PollRead
      BY <1>1, <3>1, Labels DEF PollRead, Events
    <3>2. CASE outputs
      BY <1>1, <3>2 DEF outputs, Events, PollerAt, Poller, PollerT
    <3>. QED
      BY <1>5, <3>1, <3>2
  <2>2. ~ Gone /\ reader.at # "reset"
    BY <2>1 DEF Locks, Locked, Gone
  <2>. QED
    BY <1>2, <1>3, <2>1, <2>2 DEF Up, Locks, Unborn, Locked, Closing, Stages, Handling
<1>6. CASE (\E n \in 0..MaxIn : PollReads(n)) \/ PollCompare \/ inputAck
  <2>1. poller.at \in During /\ UNCHANGED <<closing, opState, interest, output>>
    BY <1>6 DEF PollReads, PollCompare, inputAck
  <2>2. input'.open = input.open
    BY <1>1, <1>6 DEF PollReads, PollCompare, inputAck, InputT, rvars
  <2>3. poller'.at \in During
    BY <1>1, <1>6 DEF PollReads, PollCompare, inputAck, PollerAt, Poller, PollerT
  <2>. QED
    BY <1>4, <2>1, <2>2, <2>3
<1>7. CASE outputAck \/ rw2r
  <2>1. /\ poller.at \in During /\ UNCHANGED <<closing, opState, input>>
        /\ interest = "none" => interest' = "none"
    BY <1>7 DEF outputAck, rw2r, RW2R
  <2>2. output'.open = output.open
    BY <1>1, <1>7 DEF outputAck, rw2r, Skipped, OutputT
  <2>3. poller'.at \in During
    BY <1>1, <1>7, Labels DEF outputAck, rw2r
  <2>. QED
    BY <1>4, <2>1, <2>2, <2>3
<1>8. CASE triggerRead \/ triggerWrite
  <2>1. /\ UNCHANGED <<closing, opState, interest, input, output>>
        /\ \/ poller.at = "trigger" /\ poller'.at = "done"
           \/ poller.at = "answer" /\ poller'.at = "done"
           \/ poller.at = "hupRead" /\ poller'.at = "hupWrite"
           \/ poller.at = "hupWrite" /\ poller'.at = "idle"
    BY <1>1, <1>8, Labels DEF triggerRead, triggerWrite
  <2>. QED
    BY <1>2, <1>3, <2>1 DEF Up, Locks, Unborn, Locked, Closing, Stages, Gone, Handling
<1>9. CASE PollDone
  <2>1. /\ poller.at = "done" /\ poller'.at = "idle" /\ opState' = 1
        /\ UNCHANGED <<closing, interest, input, output>>
    BY <1>9 DEF PollDone, Poller
  <2>2. ~ Gone /\ reader.at # "reset"
    BY <2>1 DEF Locks, Locked, Gone, Handling
  <2>. QED
    BY <1>2, <1>3, <2>1, <2>2 DEF Up, Locks, Unborn, Locked, Closing, Stages, Handling
<1>10. CASE PollSends
  <2>1. CASE Detached("hup")
    <3>1. /\ poller.at = "send" /\ poller'.at = "hup" /\ opState' = 0 /\ interest' = "none"
          /\ UNCHANGED <<closing, input, output>>
      BY <1>1, <1>10, <2>1, Labels DEF PollSends, Detached
    <3>2. reader.at # "reset"
      BY <3>1 DEF Locks, Locked, Handling
    <3>. QED
      BY <1>2, <1>3, <3>1, <3>2 DEF Up, Locks, Unborn, Locked, Closing, Stages, Gone, Handling
  <2>2. ASSUME NEW n \in Sendable(poller), Poller([poller EXCEPT !.at = "sent", !.n = n]),
               UNCHANGED <<opState, interest>>
        PROVE  Locks'
    <3>1. poller.at = "send" /\ UNCHANGED <<closing, input, output>>
      BY <1>10 DEF PollSends
    <3>2. poller'.at = "sent"
      BY <1>1, <2>2 DEF Poller, PollerT
    <3>. QED
      BY <1>4, <2>2, <3>1, <3>2
  <2>. QED
    BY <1>10, <2>1, <2>2 DEF PollSends
<1>11. CASE PollHup
  <2>1. /\ poller.at = "idle" /\ poller'.at = "hup" /\ opState = 1 /\ opState' = 0
        /\ interest # "none" /\ interest' = "none" /\ UNCHANGED <<closing, input, output>>
    BY <1>1, <1>11, Labels DEF PollHup, Detached, Events
  <2>2. reader.at # "reset"
    BY <2>1 DEF Locks, Locked
  <2>. QED
    BY <1>2, <1>3, <2>1, <2>2 DEF Up, Locks, Unborn, Locked, Closing, Stages, Gone, Handling
<1>12. CASE onHup
  <2>1. /\ poller.at = "hup" /\ poller'.at = (IF IsActive THEN "hupRead" ELSE "idle")
        /\ closing' = (IF IsActive THEN "poller" ELSE closing)
        /\ UNCHANGED <<opState, interest, input, output>>
    BY <1>1, <1>12, Labels DEF onHup
  <2>2. opState = 0 /\ interest = "none" /\ reader.at # "reset"
    BY <2>1 DEF Locks, Locked, Closing
  <2>. QED
    BY <1>2, <1>3, <2>1, <2>2 DEF IsActive, Up, Locks, Unborn, Locked, Closing, Stages, Gone, Handling
<1>. QED
  BY <1>5, <1>6, <1>7, <1>8, <1>9, <1>10, <1>11, <1>12 DEF PollerNext

\* Who closes.
LEMMA CloserLocks == Types /\ Locks /\ CloserNext => Locks'
<1>. SUFFICES ASSUME Types, Locks, CloserNext PROVE Locks'
  OBVIOUS
<1>1. /\ input \in InputT /\ output \in OutputT /\ opState \in 0..2
      /\ closing \in {"none", "user", "poller"}
      /\ keys.flushing \in 0..2 /\ keys.finalizing \in 0..2
  BY KeyMoves DEF LockTypes
<1>2. UNCHANGED <<dial, reader, writer, poller>>
  BY CloserMoves
<1>3. closer # "idle" => Up
  BY DEF Locks, Unborn
<1>4. CASE onClose
  BY <1>1, <1>2, <1>4 DEF onClose, Closer, IsActive, Up, Locks, Unborn, Locked, Closing, Stages, Gone, Handling
<1>5. CASE CloseTriggersRead \/ CloseTriggersWrite
  BY <1>2, <1>3, <1>5 DEF CloseTriggersRead, CloseTriggersWrite, Closer, Up, Locks, Unborn, Locked,
       Closing, Stages, Gone, Handling
<1>6. CASE closeCallback
  BY <1>1, <1>2, <1>3, <1>6 DEF closeCallback, Closer, Up, Locks, Unborn, Locked,
       Closing, Stages, Gone, Handling
<1>7. CASE unused
  BY <1>1, <1>2, <1>3, <1>7 DEF unused, Closer, Up, Locks, Unborn, Locked, Closing, Stages, Gone, Handling
<1>8. CASE StopFlushing
  <2>1. keys'.flushing = 2 /\ keys'.finalizing = keys.finalizing
    BY <1>8 DEF StopFlushing, Stop, Types, CloseTypes, KeysT
  <2>. QED
    BY <1>2, <1>3, <1>8, <2>1 DEF StopFlushing, Stop, Closer, Up, Locks, Unborn, Locked, Closing, Stages, Gone, Handling
<1>9. CASE StopFinalizing
  <2>1. keys'.finalizing = 2 /\ keys'.flushing = keys.flushing
    BY <1>9 DEF StopFinalizing, Stop, Types, CloseTypes, KeysT
  <2>. QED
    BY <1>2, <1>3, <1>9, <2>1 DEF StopFinalizing, Stop, Closer, Up, Locks, Unborn, Locked, Closing, Stages, Gone, Handling
<1>10. CASE Free \/ CloseFD
  BY <1>2, <1>3, <1>10 DEF Free, CloseFD, Closer, Up, Locks, Unborn, Locked, Closing, Stages, Gone, Handling
<1>11. CASE closeBuffer
  BY <1>2, <1>3, <1>11 DEF closeBuffer, Closer, Up, Locks, Unborn, Locked, Closing, Stages, Gone, Handling
<1>. QED
  BY <1>4, <1>5, <1>6, <1>7, <1>8, <1>9, <1>10, <1>11 DEF CloserNext

\* The invariant of the locks.
LEMMA LocksInit == Init => Locks
  BY DEF Init, Idle, Up, Locks, Unborn, Locked, Closing, Stages, Gone, Handling

LEMMA LocksStep == Types /\ Locks /\ [Next]_vars => Locks'
<1>1. Types /\ Locks /\ Next => Locks'
  BY NextBy, OtherLocks, ReaderLocks, WriterLocks, PollerLocks, CloserLocks
<1>2. Locks /\ UNCHANGED vars => Locks'
  BY DEF vars, rvars, wvars, cvars, Up, Locks, Unborn, Locked, Closing, Stages, Gone, Handling
<1>. QED
  BY <1>1, <1>2

LEMMA LocksHold == Spec => []Locks
<1>1. Spec => []TypesInv
  BY TypesHold
<1>2. TypesInv => Types
  BY DEF TypesInv
<1>. QED
  BY <1>1, <1>2, LocksInit, LocksStep, PTL DEF Spec

\* One at a time has the tail of the input buffer, unless the user closes while
\* a reader waits; nobody uses the buffers, the operator or the descriptor after
\* Close has given them up; and calls leave their timers as they found them.
THEOREM KeptHolds == Spec => []Kept
<1>1. TypesInv /\ Locks => Kept
  <2>. SUFFICES ASSUME TypesInv, Locks PROVE Kept
    OBVIOUS
  <2>1. closing \in {"none", "user", "poller"} /\ Waited
    BY DEF TypesInv, Types, CloseTypes
  <2>2. Drained
    BY <2>1 DEF Waited, Drained
  <2>3. Exclusive
    BY <2>1 DEF Locks, Locked, Closing, Stages, Gone, Handling, Booked, Exclusive
  <2>. QED
    BY <2>2, <2>3 DEF Kept
<1>. QED
  BY <1>1, TypesHold, LocksHold, PTL

-----------------------------------------------------------------------------
(* Sending. *)

\* The poller may still answer for bytes.
Engaged ==
  interest = "RW" \/ poller.at \in {"send", "sent", "rw2r", "answer"} \/ writeTrigger = "nil"

\* One at a time sends: while the poller may, the writer waits, or was told that
\* the connection is closed and will not come back.
Turns ==
  Engaged =>
    \/ writer.at \in {"wait", "late"}
    \/ closing # "none" /\ writer.at = "return" /\ writer.err
    \/ closing # "none" /\ writer.at = "idle"

\* nil is answered when everything was sent, and the answer is the last word.
Answers ==
  /\ writeTrigger = "closed" => closing # "none"
  /\ poller.at \in {"rw2r", "answer"} \/ writeTrigger = "nil" => IsEmpty(output)
  /\ poller.at = "answer" \/ writeTrigger = "nil" => interest # "RW"
  /\ writeTrigger = "nil" => poller.at \notin {"send", "sent", "rw2r", "answer"}
  /\ writer.at = "return" /\ ~ writer.err => IsEmpty(output)

\* What was sent is what was skipped, but for the bytes one of the two has sent
\* and not skipped yet.
InFlight == IF writer.at = "skip" THEN writer.n
            ELSE IF poller.at = "sent" THEN poller.n ELSE 0
Order ==
  /\ ~ wire.garbled
  /\ wire.sent = output.head + InFlight /\ output.head + InFlight <= output.tail
  /\ writer.at = "send" => writer.head = output.head /\ writer.tail = output.tail
  /\ poller.at = "send" => poller.head = output.head /\ poller.tail = output.tail

Sending == Turns /\ Answers /\ Order
Truth == ~ late => Sending

\* What the numbers are.
SendTypes ==
  /\ reader \in ReaderT /\ writer \in WriterT /\ poller \in PollerT
  /\ input \in InputT /\ output \in OutputT
  /\ output.head \in Nat /\ output.tail \in Nat /\ wire.sent \in Nat
  /\ writer.n \in Nat /\ poller.n \in Nat /\ writer.err \in BOOLEAN

LEMMA SendNumbers == Types => SendTypes
<1>. SUFFICES ASSUME Types PROVE SendTypes
  OBVIOUS
<1>1. /\ reader \in ReaderT /\ writer \in WriterT /\ poller \in PollerT
      /\ input \in InputT /\ output \in OutputT /\ wire \in WireT
  BY DEF Types, ReadTypes, WriteTypes
<1>2. writer.err \in BOOLEAN
  BY <1>1, Zenon DEF WriterT
<1>. QED
  BY <1>1, <1>2 DEF OutputT, WireT, WriterT, PollerT, SendTypes

\* What leaves the bytes, the turns and the answers alone.
LEMMA SendingSame ==
  ASSUME Sending, UNCHANGED <<interest, poller, writeTrigger, writer, closing, output, wire>>
  PROVE  Sending'
  BY DEF Sending, Turns, Engaged, Answers, Order, InFlight, IsEmpty

\* The other actors and the reader.
LEMMA OtherSending == Types /\ Locks /\ Sending /\ (OtherNext \/ ReaderNext) => Sending'
<1>. SUFFICES ASSUME Types, Locks, Sending, OtherNext \/ ReaderNext PROVE Sending'
  OBVIOUS
<1>1. CASE ConnectNow
  <2>1. interest = "none" /\ interest' = "R"
    BY <1>1 DEF ConnectNow, Established, Locks, Unborn, Up
  <2>2. UNCHANGED <<poller, writeTrigger, writer, closing, output, wire>>
    BY <1>1 DEF ConnectNow, Established, wvars
  <2>. QED
    BY <2>1, <2>2 DEF Sending, Turns, Engaged, Answers, Order, InFlight, IsEmpty
<1>2. CASE OtherNext /\ ~ ConnectNow
  BY <1>2, SendingSame DEF OtherNext, Dial, ConnectLater, WaitWrite, DialDone, DoubleCheck,
     OnWrite, OnHupDialing, DialStep, Arrive, PeerReads, PeerCloses, Net, ReadTimerFires,
     WriteTimerFires, SetTimeout, wvars, cvars
<1>3. CASE ReaderNext
  BY <1>3, SendingSame, ReaderMoves, SendNumbers DEF SendTypes, wvars
<1>. QED
  BY <1>1, <1>2, <1>3

\* The writer.
LEMMA WriterSending == Types /\ Flushed /\ Locks /\ Sending /\ WriterNext /\ ~ late' => Sending'
<1>. SUFFICES ASSUME Types, Flushed, Locks, Sending, WriterNext, ~ late' PROVE Sending'
  OBVIOUS
<1>1. SendTypes /\ writer \in WriterT /\ output \in OutputT
  BY SendNumbers DEF SendTypes
<1>2. UNCHANGED <<closing, poller>>
  BY <1>1, WriterMoves
<1>3. writer.at \in {"lock", "send", "skip", "arm"} => ~ Engaged
  BY DEF Sending, Turns
<1>4. CASE \E n \in Writes : FlushCall(n)
  <2>1. PICK n \in Writes : FlushCall(n)
    BY <1>4
  <2>2. writer'.at = "lock" /\ writer.at = "idle" /\ closing = "none"
    BY <1>1, <2>1 DEF FlushCall, Writer, WriterT, IsActive
  <2>3. UNCHANGED <<output, writeTrigger, wire, interest>>
    BY <2>1 DEF FlushCall, wvars
  <2>. QED
    BY <1>2, <2>2, <2>3 DEF Sending, Turns, Engaged, Answers, Order, InFlight, IsEmpty
<1>5. CASE FlushLock
  <2>1. writer.at = "lock" /\ UNCHANGED <<writeTrigger, wire, interest>> /\ ~ Engaged
    BY <1>3, <1>5 DEF FlushLock
  <2>2. CASE output' = output /\ writer'.at = "idle"
    BY <1>2, <2>1, <2>2 DEF Sending, Turns, Engaged, Answers, Order, InFlight, IsEmpty
  <2>3. CASE output' = [output EXCEPT !.tail = @ + writer.n]
    <3>1. output'.head = output.head /\ output'.tail = output.tail + writer.n
      BY <1>1, <2>3 DEF OutputT
    <3>2. CASE IsEmpty(output') /\ writer'.at = "return"
      BY <1>1, <1>2, <2>1, <3>1, <3>2 DEF SendTypes, Sending, Turns, Engaged, Answers, Order, InFlight, IsEmpty
    <3>3. CASE writer' = [writer EXCEPT !.at = "send", !.head = output.head, !.tail = output'.tail]
      <4>1. writer'.at = "send" /\ writer'.head = output.head /\ writer'.tail = output'.tail
        BY <1>1, <3>3 DEF WriterT
      <4>. QED
        BY <1>1, <1>2, <2>1, <3>1, <4>1 DEF SendTypes, Sending, Turns, Engaged, Answers, Order, InFlight, IsEmpty
    <3>4. CASE output' = output /\ writer'.at = "idle"
      BY <2>2, <3>4
    <3>. QED
      BY <1>1, <1>5, <3>2, <3>3, <3>4, Labels DEF FlushLock, Answer, Writer, WriterAt
  <2>4. WriterAt("idle") => writer'.at = "idle"
    BY DEF WriterAt, Writer
  <2>. QED
    BY <1>5, <2>2, <2>3, <2>4 DEF FlushLock
<1>6. CASE FlushSend
  <2>1. writer.at = "send" /\ UNCHANGED <<output, writeTrigger, interest>> /\ ~ Engaged
    BY <1>3, <1>6 DEF FlushSend
  <2>2. CASE Answer(TRUE) /\ wire' = wire
    <3>1. writer'.at = "return" /\ writer'.err
      BY <2>2 DEF Answer, Writer
    <3>. QED
      BY <1>2, <2>1, <2>2, <3>1 DEF Sending, Turns, Engaged, Answers, Order, InFlight, IsEmpty
  <2>3. ASSUME NEW n \in Sendable(writer), Sent(writer, n), Writer([writer EXCEPT !.at = "skip", !.n = n])
        PROVE  Sending'
    <3>1. writer'.at = "skip" /\ writer'.n = n
      BY <1>1, <2>3 DEF Writer, WriterT
    <3>2. writer.head = output.head /\ writer.tail = output.tail /\ wire.sent = output.head
      BY <1>1, <2>1 DEF SendTypes, Sending, Order, InFlight, Engaged
    <3>3. n \in Nat /\ output.head + n <= output.tail
      BY <1>1, <2>3, <3>2, SendableType DEF Types, Flushed
    <3>4. wire'.sent = wire.sent + n /\ ~ wire'.garbled
      BY <2>3, <3>2 DEF Sent, Sending, Order
    <3>. QED
      BY <1>1, <1>2, <2>1, <3>1, <3>2, <3>3, <3>4
         DEF SendTypes, Sending, Turns, Engaged, Answers, Order, InFlight, IsEmpty
  <2>. QED
    BY <1>6, <2>2, <2>3 DEF FlushSend
<1>7. CASE FlushSkip
  <2>1. writer.at = "skip" /\ UNCHANGED <<wire, writeTrigger, interest>> /\ ~ Engaged
    BY <1>3, <1>7 DEF FlushSkip
  <2>2. wire.sent = output.head + writer.n /\ output.head + writer.n <= output.tail
    BY <1>1, <2>1 DEF SendTypes, Sending, Order, InFlight
  <2>3. CanSkip(writer.n)
    BY <1>1, <2>2 DEF CanSkip, SendTypes
  <2>4. output'.head = output.head + writer.n /\ output'.tail = output.tail
    BY <1>1, <1>7, <2>3 DEF FlushSkip, Skipped, OutputT
  <2>5. /\ writer'.at \in {"return", "arm"}
        /\ writer'.at = "return" => IsEmpty(output')
    BY <1>7, <2>3 DEF FlushSkip, WriterAt, Answer, Writer
  <2>. QED
    BY <1>1, <1>2, <2>1, <2>2, <2>4, <2>5 DEF SendTypes, Sending, Turns, Engaged, Answers, Order, InFlight, IsEmpty
<1>8. CASE FlushArm
  <2>1. /\ writer.at = "arm" /\ UNCHANGED <<wire, writeTrigger, output>> /\ ~ Engaged
        /\ \/ interest' = interest /\ writer'.at = "return" /\ writer'.err
           \/ interest' = "RW" /\ writer'.at = "wait"
    BY <1>3, <1>8 DEF FlushArm, WriterAt, Answer, Writer
  <2>. QED
    BY <1>1, <1>2, <2>1 DEF SendTypes, Sending, Turns, Engaged, Answers, Order, InFlight, IsEmpty
<1>9. ASSUME writer.at \in {"wait", "late"}, writeTrigger # "empty", writeTrigger' = "empty",
             Answer(writeTrigger = "closed"), UNCHANGED <<output, wire, interest>>
      PROVE  Sending'
  <2>1. writer'.at = "return" /\ (writer'.err <=> writeTrigger = "closed")
    BY <1>9 DEF Answer, Writer
  <2>2. writeTrigger \in {"nil", "closed"}
    BY <1>9 DEF Types, WriteTypes
  <2>. QED
    BY <1>1, <1>2, <1>9, <2>1, <2>2 DEF SendTypes, Sending, Turns, Engaged, Answers, Order, InFlight, IsEmpty
<1>10. CASE FlushWakes
  BY <1>9, <1>10 DEF FlushWakes
<1>11. CASE FlushLate
  BY <1>9, <1>11 DEF FlushLate
<1>12. CASE FlushTimesOut
  <2>1. writer.at = "wait" /\ writer'.at = "late" /\ UNCHANGED <<output, writeTrigger, wire, interest>>
    BY <1>12 DEF FlushTimesOut, WriterAt, Writer
  <2>. QED
    BY <1>2, <2>1 DEF Sending, Turns, Engaged, Answers, Order, InFlight, IsEmpty
<1>13. CASE FlushReturn
  <2>1. writer.at = "return" /\ writer'.at = "idle" /\ UNCHANGED <<output, writeTrigger, wire, interest>>
    BY <1>13 DEF FlushReturn, WriterAt, Writer, wvars
  <2>. QED
    BY <1>2, <2>1 DEF Sending, Turns, Engaged, Answers, Order, InFlight, IsEmpty
<1>. QED
  BY <1>4, <1>5, <1>6, <1>7, <1>8, <1>10, <1>11, <1>12, <1>13 DEF WriterNext

\* The poller.
LEMMA PollerSending == Types /\ Flushed /\ Locks /\ Sending /\ PollerNext => Sending'
<1>. SUFFICES ASSUME Types, Flushed, Locks, Sending, PollerNext PROVE Sending'
  OBVIOUS
<1>1. SendTypes /\ poller \in PollerT /\ reader \in ReaderT /\ input \in InputT /\ output \in OutputT
  BY SendNumbers DEF SendTypes
<1>2. UNCHANGED writer
  BY <1>1, PollerMoves
<1>. DEFINE Sends == {"send", "sent", "rw2r", "answer"}
<1>3. ASSUME poller.at \notin Sends, poller'.at \notin Sends,
             UNCHANGED <<output, writeTrigger, wire>>, interest' \in {interest, "none"},
             closing' \in {closing, "poller"}
      PROVE  Sending'
  BY <1>2, <1>3 DEF Sending, Turns, Engaged, Answers, Order, InFlight, IsEmpty
<1>4. CASE PollRead \/ PollCompare \/ triggerRead
  <2>1. /\ poller.at \notin Sends /\ UNCHANGED <<output, writeTrigger, wire, interest, closing>>
    BY <1>4 DEF PollRead, PollCompare, triggerRead, Events
  <2>2. poller'.at \notin Sends
    BY <1>1, <1>4, Labels DEF PollRead, PollCompare, triggerRead
  <2>. QED
    BY <1>3, <2>1, <2>2
<1>5. CASE PollDone
  BY <1>3, <1>5 DEF PollDone, Poller
<1>6. CASE (\E n \in 0..MaxIn : PollReads(n)) \/ inputAck
  <2>1. /\ poller.at \notin Sends /\ UNCHANGED <<output, writeTrigger, wire, interest, closing>>
    BY <1>6 DEF PollReads, inputAck
  <2>2. poller'.at \notin Sends
    BY <1>1, <1>6 DEF PollReads, inputAck, PollerAt, Poller, PollerT
  <2>. QED
    BY <1>3, <2>1, <2>2
<1>7. CASE outputs
  <2>1. /\ poller.at = "idle" /\ interest = "RW" /\ UNCHANGED <<output, writeTrigger, wire, interest, closing>>
    BY <1>7 DEF outputs, Events
  <2>2. Engaged /\ writeTrigger # "nil" /\ writer.at \notin {"send", "skip"}
    BY <2>1 DEF Sending, Turns, Answers, Engaged
  <2>3. CASE IsEmpty(output) /\ poller'.at = "rw2r"
    BY <1>2, <2>1, <2>2, <2>3 DEF Sending, Turns, Engaged, Answers, Order, InFlight, IsEmpty
  <2>4. CASE Poller([poller EXCEPT !.at = "send", !.head = output.head, !.tail = output.tail])
    <3>1. poller'.at = "send" /\ poller'.head = output.head /\ poller'.tail = output.tail
      BY <1>1, <2>4 DEF Poller, PollerT
    <3>. QED
      BY <1>2, <2>1, <2>2, <3>1 DEF Sending, Turns, Engaged, Answers, Order, InFlight, IsEmpty
  <2>. QED
    BY <1>1, <1>7, <2>3, <2>4, Labels DEF outputs
<1>8. CASE PollSends
  <2>1. poller.at = "send" /\ UNCHANGED <<output, writeTrigger, closing>> /\ Engaged
    BY <1>8 DEF PollSends, Engaged
  <2>2. /\ writer.at \notin {"send", "skip"} /\ writeTrigger # "nil"
        /\ poller.head = output.head /\ poller.tail = output.tail /\ wire.sent = output.head
    BY <1>1, <2>1 DEF SendTypes, Sending, Turns, Answers, Order, InFlight
  <2>3. CASE Detached("hup") /\ wire' = wire
    <3>1. poller'.at = "hup" /\ interest' = "none"
      BY <1>1, <2>3, Labels DEF Detached
    <3>. QED
      BY <1>2, <2>1, <2>2, <2>3, <3>1 DEF Sending, Turns, Engaged, Answers, Order, InFlight, IsEmpty
  <2>4. ASSUME NEW n \in Sendable(poller), Sent(poller, n), interest' = interest,
               Poller([poller EXCEPT !.at = "sent", !.n = n])
        PROVE  Sending'
    <3>1. poller'.at = "sent" /\ poller'.n = n
      BY <1>1, <2>4 DEF Poller, PollerT
    <3>2. n \in Nat /\ output.head + n <= output.tail
      BY <1>1, <2>2, <2>4, SendableType DEF Types, Flushed
    <3>3. wire'.sent = wire.sent + n /\ ~ wire'.garbled
      BY <2>2, <2>4 DEF Sent, Sending, Order
    <3>. QED
      BY <1>1, <1>2, <2>1, <2>2, <2>4, <3>1, <3>2, <3>3
         DEF SendTypes, Sending, Turns, Engaged, Answers, Order, InFlight, IsEmpty
  <2>. QED
    BY <1>8, <2>3, <2>4 DEF PollSends
<1>9. CASE outputAck
  <2>1. poller.at = "sent" /\ UNCHANGED <<writeTrigger, closing, interest, wire>> /\ Engaged
    BY <1>9 DEF outputAck, Engaged
  <2>2. /\ writer.at \notin {"send", "skip"} /\ writeTrigger # "nil"
        /\ wire.sent = output.head + poller.n /\ output.head + poller.n <= output.tail
    BY <1>1, <2>1 DEF SendTypes, Sending, Turns, Answers, Order, InFlight
  <2>3. CanSkip(poller.n)
    BY <1>1, <2>2 DEF CanSkip, SendTypes
  <2>4. output'.head = output.head + poller.n /\ output'.tail = output.tail
    BY <1>1, <1>9, <2>3 DEF outputAck, Skipped, OutputT
  <2>5. /\ poller'.at \in {"rw2r", "done"}
        /\ poller'.at = "rw2r" => IsEmpty(output')
    BY <1>1, <1>9, Labels DEF outputAck
  <2>. QED
    BY <1>1, <1>2, <2>1, <2>2, <2>4, <2>5 DEF SendTypes, Sending, Turns, Engaged, Answers, Order, InFlight, IsEmpty
<1>10. CASE rw2r
  <2>1. /\ poller.at = "rw2r" /\ poller'.at = "answer" /\ interest' # "RW"
        /\ UNCHANGED <<output, writeTrigger, wire, closing>>
    BY <1>1, <1>10, Labels DEF rw2r, RW2R
  <2>. QED
    BY <1>2, <2>1 DEF Sending, Turns, Engaged, Answers, Order, InFlight, IsEmpty
<1>11. CASE triggerWrite
  <2>1. UNCHANGED <<output, wire, closing, interest>>
    BY <1>11 DEF triggerWrite
  <2>2. CASE poller.at = "answer"
    <3>1. poller'.at = "done" /\ writeTrigger' = (IF writeTrigger = "empty" THEN "nil" ELSE writeTrigger)
      BY <1>1, <1>11, <2>2, Labels DEF triggerWrite, Put
    <3>. QED
      BY <1>2, <2>1, <2>2, <3>1 DEF Sending, Turns, Engaged, Answers, Order, InFlight, IsEmpty
  <2>3. CASE poller.at = "hupWrite"
    <3>1. poller'.at = "idle" /\ writeTrigger' = (IF writeTrigger = "empty" THEN "closed" ELSE writeTrigger)
      BY <1>1, <1>11, <2>3, Labels DEF triggerWrite, Put
    <3>2. closing # "none"
      BY <2>3 DEF Locks, Closing
    <3>. QED
      BY <1>2, <2>1, <2>3, <3>1, <3>2 DEF Sending, Turns, Engaged, Answers, Order, InFlight, IsEmpty
  <2>. QED
    BY <1>11, <2>2, <2>3 DEF triggerWrite
<1>12. CASE PollHup \/ onHup
  <2>1. /\ poller.at \notin Sends /\ UNCHANGED <<output, writeTrigger, wire>>
        /\ interest' \in {interest, "none"} /\ closing' \in {closing, "poller"}
    BY <1>12 DEF PollHup, onHup, Events, Detached
  <2>2. poller'.at \notin Sends
    BY <1>1, <1>12, Labels DEF PollHup, onHup, Detached
  <2>. QED
    BY <1>3, <2>1, <2>2
<1>. QED
  BY <1>4, <1>5, <1>6, <1>7, <1>8, <1>9, <1>10, <1>11, <1>12 DEF PollerNext

\* Who closes.
LEMMA CloserSending == Types /\ Locks /\ Sending /\ CloserNext => Sending'
<1>. SUFFICES ASSUME Types, Locks, Sending, CloserNext PROVE Sending'
  OBVIOUS
<1>1. UNCHANGED <<writer, poller, wire>>
  BY CloserMoves
<1>2. output'.head = output.head /\ output'.tail = output.tail
  BY SendNumbers DEF SendTypes, CloserNext, onClose, CloseTriggersRead, CloseTriggersWrite, closeCallback, unused,
     StopFlushing, StopFinalizing, Stop, Free, CloseFD, closeBuffer, OutputT
<1>3. closing' \in {closing, "user"} /\ interest' \in {interest, "none"}
  BY DEF CloserNext, onClose, CloseTriggersRead, CloseTriggersWrite, closeCallback, unused,
     StopFlushing, StopFinalizing, Stop, Free, CloseFD, closeBuffer
<1>4. writeTrigger' = writeTrigger \/ (writeTrigger = "empty" /\ writeTrigger' = "closed" /\ closing' # "none")
  BY DEF CloserNext, onClose, CloseTriggersRead, CloseTriggersWrite, closeCallback, unused,
     StopFlushing, StopFinalizing, Stop, Free, CloseFD, closeBuffer, Put, Locks, Closing
<1>. QED
  BY <1>1, <1>2, <1>3, <1>4 DEF Sending, Turns, Engaged, Answers, Order, InFlight, IsEmpty

LEMMA TruthInit == Init => Truth
<1>. SUFFICES ASSUME Init PROVE Sending
  BY DEF Truth
<1>. QED
  BY DEF Init, Sending, Turns, Engaged, Answers, Order, InFlight, IsEmpty

\* That a flush was late is not forgotten.
LEMMA LateStays ==
  ASSUME Types, Next, late PROVE late'
<1>1. CASE OtherNext
  BY <1>1 DEF OtherNext, Dial, ConnectNow, Established, ConnectLater, WaitWrite, DialDone, DoubleCheck,
     OnWrite, OnHupDialing, DialStep, Arrive, PeerReads, PeerCloses, Net, ReadTimerFires,
     WriteTimerFires, SetTimeout, wvars
<1>2. CASE ReaderNext \/ PollerNext \/ CloserNext
  BY <1>2, ReaderMoves, PollerMoves, CloserMoves, SendNumbers DEF SendTypes, wvars
<1>3. CASE WriterNext
  BY <1>3 DEF WriterNext, FlushCall, FlushLock, FlushSend, FlushSkip, FlushArm, FlushWakes,
     FlushTimesOut, FlushLate, FlushReturn, wvars
<1>. QED
  BY <1>1, <1>2, <1>3, NextBy

LEMMA TruthStep == TypesInv /\ Locks /\ Truth /\ [Next]_vars => Truth'
<1>. SUFFICES ASSUME TypesInv, Locks, Truth, [Next]_vars, ~ late' PROVE Sending'
  BY DEF Truth
<1>1. Types /\ Flushed
  BY DEF TypesInv, Sizes
<1>2. CASE Next
  <2>1. Sending
    BY <1>1, <1>2, LateStays DEF Truth
  <2>. QED
    BY <1>1, <1>2, <2>1, NextBy, OtherSending, WriterSending, PollerSending, CloserSending
<1>3. CASE UNCHANGED vars
  BY <1>3, SendingSame DEF Truth, vars, wvars, cvars
<1>. QED
  BY <1>2, <1>3

LEMMA TruthHolds == Spec => []Truth
  BY TypesHold, LocksHold, TruthInit, TruthStep, PTL DEF Spec

\* Until a flush times out, writer and poller send every byte once and in order,
\* and a flush that answers nil has sent everything, whatever the sizes and
\* however sendmsg splits the bytes.
THEOREM HonestHolds == Spec => []Honest
<1>1. Truth => Honest
  BY DEF Truth, Sending, Answers, Order, Honest
<1>. QED
  BY <1>1, TruthHolds, PTL
=============================================================================
