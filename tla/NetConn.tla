------------------------------ MODULE NetConn ------------------------------
(***************************************************************************)
(* netpoll/connection_impl.go, connection_reactor.go, fd_operator.go and   *)
(* net_polldesc.go: one connection, between a goroutine that reads, one    *)
(* that flushes, one that closes, and the poller.                          *)
(*                                                                         *)
(* Bytes are counted and not looked at.  The link buffers, the key locks   *)
(* (lock, stop, closeBy), the poller's loop, closeCallback and the kernel  *)
(* are not in the repository: they do here what the callers rely on.  There *)
(* is no OnRequest handler, so that onRequest answers true.                *)
(***************************************************************************)
EXTENDS Integers, Sequences

CONSTANTS
  Needs,      \* how many bytes a call of Next and the like asks for
  Writes,     \* how many bytes a Flush adds
  Capacity,   \* of the kernel's buffer for sending
  MaxIn,      \* a bound on the bytes the peer sends,
  MaxOut,     \*   on the bytes that are flushed,
  Uses        \*   and on what one connection does of both

ASSUME NetAssumption ==
  /\ Needs \subseteq Nat \ {0} /\ Writes \subseteq Nat
  /\ Capacity \in Nat \ {0} /\ MaxIn \in Nat /\ MaxOut \in Nat
  /\ Uses \subseteq [read: 0..MaxIn, write: 0..MaxOut, timeouts: BOOLEAN]

VARIABLES
  dial,         \* where the dialer is, and whether closeTrigger is closed
  closing,      \* the key of closeBy: none, user or poller
  keys,         \* flushing and finalizing: 0 free, 1 locked, 2 stopped
  called,       \* closeCallback has taken the key processing, for good
  fdClosed, freed,
  opState,      \* FDOperator.state: 0 unused, 1 in use, 2 being handled
  interest,     \* what the poller watches: none, R or RW
  input,        \* bytes that can be read, and whether the buffer is open
  waitReadSize,
  readTrigger, readTimer,
  output,       \* the numbers of the first byte to send and of the next to add
  writeTrigger, writeTimer,
  uses,         \* the bounds of this connection: a side with none is not used
  timed,        \* the sides with a timeout
  net,          \* bytes to come and received; being sent; whether the peer closed
  wire,         \* history: bytes sent in order, and whether others were
  late,         \* history: a flush has timed out
  reader, writer, closer, poller   \* the goroutines

rvars == <<input, waitReadSize, readTrigger, readTimer>>
wvars == <<output, writeTrigger, writeTimer, wire, late>>
cvars == <<closing, keys, called, fdClosed, freed, opState, interest>>
vars == <<dial, rvars, wvars, cvars, uses, timed, net, reader, writer, closer, poller>>

Up == dial.at = "up"
IsActive == closing = "none"
Idle == [at |-> "idle", need |-> 0, until |-> FALSE]

Init ==
  /\ dial = [at |-> "idle", closeTrigger |-> FALSE]
  /\ closing = "none"
  /\ keys = [flushing |-> 0, finalizing |-> 0]
  /\ called = FALSE /\ fdClosed = FALSE /\ freed = FALSE
  /\ opState = 0 /\ interest = "none"
  /\ input = [len |-> 0, open |-> TRUE]
  /\ waitReadSize = 0 /\ readTrigger = FALSE /\ readTimer = "off"
  /\ output = [head |-> 0, tail |-> 0, open |-> TRUE]
  /\ writeTrigger = "empty" /\ writeTimer = "off"
  /\ uses \in Uses /\ timed = {}
  /\ net = [coming |-> uses.read, received |-> 0, sending |-> 0, closed |-> FALSE]
  /\ wire = [sent |-> 0, garbled |-> FALSE]
  /\ late = FALSE
  /\ reader = Idle
  /\ writer = [at |-> "idle", n |-> 0, head |-> 0, tail |-> 0, err |-> FALSE]
  /\ closer = "idle"
  /\ poller = [at |-> "idle", n |-> 0, head |-> 0, tail |-> 0]

\* ------------------------------------------------------ connecting
\* The connection is registered for reading.
Established ==
  /\ dial' = [dial EXCEPT !.at = "up"]
  /\ opState' = 1 /\ interest' = "R"
  /\ UNCHANGED <<rvars, wvars, closing, keys, called, fdClosed, freed, uses, timed, net, reader, writer, closer, poller>>

\* connect(2) answers at once, or WaitWrite registers for PollWritable.
ConnectNow == dial.at = "idle" /\ Established

DialStep(d) ==
  /\ dial' = d
  /\ UNCHANGED <<rvars, wvars, cvars, uses, timed, net, reader, writer, closer, poller>>

ConnectLater == dial.at = "idle" /\ DialStep([dial EXCEPT !.at = "waiting"])

\* The first select: writeTrigger is never closed, so that a connection that is
\* made is answered as one closed by the peer.
WaitWrite ==
  /\ dial.at = "waiting" /\ dial.closeTrigger
  /\ DialStep([dial EXCEPT !.at = "refused"])

\* The context ends; the poller is told to detach, and the second select is next.
DialDone == dial.at = "waiting" /\ DialStep([dial EXCEPT !.at = "detached"])
DoubleCheck ==
  /\ dial.at = "detached"
  /\ DialStep([dial EXCEPT !.at = IF dial.closeTrigger THEN "refused" ELSE "cancelled"])

\* onwrite closes closeTrigger, onhup unless it is closed.
OnWrite ==
  /\ dial.at = "waiting"
  /\ DialStep(IF dial.closeTrigger THEN [dial EXCEPT !.at = "panic"]
              ELSE [dial EXCEPT !.closeTrigger = TRUE])
OnHupDialing == dial.at = "waiting" /\ DialStep([dial EXCEPT !.closeTrigger = TRUE])

Dial == ConnectNow \/ ConnectLater \/ WaitWrite \/ DialDone \/ DoubleCheck \/ OnWrite \/ OnHupDialing

\* ------------------------------------------------------ the network
Net(n) ==
  /\ net' = n
  /\ UNCHANGED <<dial, rvars, wvars, cvars, uses, timed, reader, writer, closer, poller>>

Arrive ==
  /\ Up /\ net.coming > 0 /\ ~ net.closed
  /\ Net([net EXCEPT !.coming = @ - 1, !.received = @ + 1])

PeerReads == Up /\ net.sending > 0 /\ Net([net EXCEPT !.sending = @ - 1])

PeerCloses == Up /\ ~ net.closed /\ Net([net EXCEPT !.closed = TRUE])

\* SetReadTimeout and SetWriterTimeout, before a call that uses them.
SetTimeout(side) ==
  /\ Up /\ side \notin timed /\ uses[side] > 0 /\ uses.timeouts
  /\ (IF side = "read" THEN reader.at ELSE writer.at) = "idle"
  /\ timed' = timed \cup {side}
  /\ UNCHANGED <<dial, rvars, wvars, cvars, uses, net, reader, writer, closer, poller>>

ReadTimerFires ==
  /\ readTimer = "running" /\ readTimer' = "fired"
  /\ UNCHANGED <<dial, input, waitReadSize, readTrigger, wvars, cvars, uses, timed, net, reader, writer, closer, poller>>

WriteTimerFires ==
  /\ writeTimer = "running" /\ writeTimer' = "fired"
  /\ UNCHANGED <<dial, rvars, output, writeTrigger, wire, late, cvars, uses, timed, net, reader, writer, closer, poller>>

\* ------------------------------------------------------ reading
\* A step of the reader that goes on at l and leaves the rest alone; what a call
\* asked for ends with the call.
Reader(l) ==
  /\ reader' = IF l = "idle" THEN Idle ELSE [reader EXCEPT !.at = l]
  /\ UNCHANGED <<dial, wvars, closing, called, fdClosed, freed, interest, uses, timed, writer, closer, poller>>
ReaderOnly(l) == Reader(l) /\ UNCHANGED <<rvars, keys, opState, net>>

\* Next, Peek, Skip, Slice, Read and the others, and Until, that waits for one
\* byte: bytes that are there are answered without waiting.
ReadCall(need, until) ==
  /\ Up /\ uses.read > 0 /\ reader.at = "idle" /\ (until => need = 1)
  /\ reader' = [at |-> IF need <= input.len THEN "take" ELSE "store", need |-> need, until |-> until]
  /\ UNCHANGED <<dial, rvars, wvars, cvars, uses, timed, net, writer, closer, poller>>

\* Reset starts a timer and does not empty its channel.
Started(timer) == IF timer = "fired" THEN "fired" ELSE "running"

WaitRead ==
  /\ reader.at = "store"
  /\ waitReadSize' = reader.need
  /\ readTimer' = IF "read" \in timed THEN Started(readTimer) ELSE readTimer
  /\ UNCHANGED <<input, readTrigger, keys, opState, net>>
  /\ Reader("length")

ReadLength == reader.at = "length" /\ ReaderOnly(IF input.len >= reader.need THEN "stop" ELSE "active")

ReadActive == reader.at = "active" /\ ReaderOnly(IF IsActive THEN "wait" ELSE "closed")

ReadClosed == reader.at = "closed" /\ ReaderOnly(IF fdClosed THEN "fail" ELSE "fill")

ReadWakes ==
  /\ reader.at = "wait" /\ readTrigger
  /\ readTrigger' = FALSE
  /\ UNCHANGED <<input, waitReadSize, readTimer, keys, opState, net>>
  /\ Reader("length")

\* The timer's value is taken, so that it need not be drained.
ReadTimesOut ==
  /\ reader.at = "wait" /\ readTimer = "fired"
  /\ readTimer' = "off" /\ waitReadSize' = 0
  /\ UNCHANGED <<input, readTrigger, keys, opState, net>>
  /\ Reader(IF input.len >= reader.need THEN "take" ELSE "giveUp")

\* fill, under the key finalizing: until read fails.
FillLock ==
  /\ reader.at = "fill"
  /\ IF keys.finalizing = 0
     THEN /\ keys' = [keys EXCEPT !.finalizing = 1]
          /\ Reader("filling")
     ELSE UNCHANGED keys /\ Reader("fail")
  /\ UNCHANGED <<rvars, opState, net>>

\* One read into the booked tail and its acknowledgement.  With nothing to read
\* the loop spins.
FillRead(n) ==
  /\ reader.at = "filling" /\ n \in 1..net.received
  /\ net' = [net EXCEPT !.received = @ - n]
  /\ input' = [input EXCEPT !.len = @ + n]
  /\ readTrigger' = (readTrigger \/ input.len + n >= waitReadSize)
  /\ UNCHANGED <<waitReadSize, readTimer, keys, opState>>
  /\ Reader("filling")

FillEnd ==
  /\ reader.at = "filling" /\ net.received = 0 /\ net.closed
  /\ keys' = [keys EXCEPT !.finalizing = 0]
  /\ UNCHANGED <<rvars, opState, net>>
  /\ Reader(IF input.len >= reader.need THEN "stop" ELSE "fail")

\* The end of waitRead: the timer is stopped, and drained if it has fired.
WaitReadEnd ==
  /\ reader.at \in {"stop", "fail"}
  /\ "read" \in timed => readTimer # "off"
  /\ readTimer' = "off" /\ waitReadSize' = 0
  /\ UNCHANGED <<input, readTrigger, keys, opState, net>>
  /\ Reader(IF reader.at = "stop" THEN "take" ELSE "giveUp")

\* Bytes are taken, none by Peek; Until that does not find its byte waits on.
Take(n) ==
  /\ reader.at = "take" /\ n \in 0..input.len
  /\ IF reader.until THEN n > 0 ELSE n \in {0, reader.need}
  /\ input' = [input EXCEPT !.len = @ - n]
  /\ UNCHANGED <<waitReadSize, readTrigger, readTimer, keys, opState, net>>
  /\ Reader("idle")

UntilMore ==
  /\ reader.at = "take" /\ reader.until
  /\ reader' = [reader EXCEPT !.at = "check", !.need = input.len + 1]
  /\ UNCHANGED <<dial, rvars, wvars, cvars, uses, timed, net, writer, closer, poller>>

UntilCheck == reader.at = "check" /\ ReaderOnly(IF reader.need <= input.len THEN "take" ELSE "store")

\* The call fails; Until answers what there is.
GiveUp ==
  /\ reader.at = "giveUp"
  /\ input' = [input EXCEPT !.len = IF reader.until THEN 0 ELSE @]
  /\ UNCHANGED <<waitReadSize, readTrigger, readTimer, keys, opState, net>>
  /\ Reader("idle")

\* Mutant: the operator's state is not asked.
ReleaseAnyway ==
  /\ Up /\ reader.at = "idle" /\ input.len = 0
  /\ UNCHANGED <<rvars, keys, opState, net>>
  /\ Reader("reset")

\* Release of an empty buffer makes it small again, as the poller would.
Release ==
  /\ Up /\ reader.at = "idle" /\ input.len = 0 /\ opState = 1
  /\ opState' = 2
  /\ UNCHANGED <<rvars, keys, net>>
  /\ Reader("reset")

ResetTail ==
  /\ reader.at = "reset"
  /\ opState' = 1
  /\ UNCHANGED <<rvars, keys, net>>
  /\ Reader("idle")

ReaderNext ==
  \/ \E need \in Needs, until \in BOOLEAN : ReadCall(need, until)
  \/ WaitRead \/ ReadLength \/ ReadActive \/ ReadClosed \/ ReadWakes \/ ReadTimesOut
  \/ FillLock \/ FillEnd \/ WaitReadEnd \/ UntilMore \/ UntilCheck \/ GiveUp \/ Release \/ ResetTail
  \/ \E n \in 0..MaxIn : FillRead(n) \/ Take(n)

\* ------------------------------------------------------ sending
\* sendmsg of the bytes from head up to tail: the peer's end is gone, or what
\* fits in the kernel's buffer is taken.
Sendable(v) == LET room == Capacity - net.sending
                   n == v.tail - v.head
               IN IF net.closed THEN {} ELSE IF room = 0 THEN {0} ELSE IF n < room THEN 1..n ELSE 1..room

Sent(v, n) ==
  /\ net' = [net EXCEPT !.sending = @ + n]
  /\ wire' = [sent |-> wire.sent + n, garbled |-> wire.garbled \/ (n > 0 /\ v.head # wire.sent)]

\* LinkBuffer.Skip: more than there is, and it fails.
CanSkip(n) == n <= output.tail - output.head
\* Mutant: more than there is can be skipped.
SkippedPast(n) == [output EXCEPT !.head = @ + n]

Skipped(n) == [output EXCEPT !.head = IF CanSkip(n) THEN @ + n ELSE @]
IsEmpty(buffer) == buffer.head = buffer.tail

Writer(w) ==
  /\ writer' = w
  /\ UNCHANGED <<dial, rvars, closing, called, fdClosed, freed, opState, uses, timed, reader, closer, poller>>
WriterAt(l) == Writer([at |-> l, n |-> 0, head |-> 0, tail |-> 0, err |-> FALSE])
Answer(err) == Writer([at |-> "return", n |-> 0, head |-> 0, tail |-> 0, err |-> err])

\* Flush, and Write that adds its bytes first.
FlushCall(n) ==
  /\ Up /\ uses.write > 0 /\ writer.at = "idle" /\ output.tail + n <= uses.write
  /\ IsActive
  /\ UNCHANGED <<wvars, keys, interest, net>>
  /\ Writer([writer EXCEPT !.at = "lock", !.n = n])

\* The key, the buffer's Flush and its bytes as sendmsg will get them.
FlushLock ==
  /\ writer.at = "lock"
  /\ IF keys.flushing # 0
     THEN UNCHANGED <<keys, output>> /\ WriterAt("idle")
     ELSE /\ keys' = [keys EXCEPT !.flushing = 1]
          /\ output' = [output EXCEPT !.tail = @ + writer.n]
          /\ IF IsEmpty(output') THEN Answer(FALSE)
             ELSE Writer([writer EXCEPT !.at = "send", !.head = output.head, !.tail = output'.tail])
  /\ UNCHANGED <<writeTrigger, writeTimer, wire, late, interest, net>>

FlushSend ==
  /\ writer.at = "send"
  /\ \/ net.closed /\ UNCHANGED <<net, wire>> /\ Answer(TRUE)
     \/ \E n \in Sendable(writer) :
          /\ Sent(writer, n)
          /\ Writer([writer EXCEPT !.at = "skip", !.n = n])
  /\ UNCHANGED <<output, writeTrigger, writeTimer, late, keys, interest>>

FlushSkip ==
  /\ writer.at = "skip"
  /\ output' = Skipped(writer.n)
  /\ IF ~ CanSkip(writer.n) THEN Answer(TRUE)
     ELSE IF IsEmpty(output') THEN Answer(FALSE)
     ELSE WriterAt("arm")
  /\ UNCHANGED <<writeTrigger, writeTimer, wire, late, keys, interest, net>>

\* Mutant: the poller is left to send the rest.
FlushArmAndReturn ==
  /\ writer.at = "arm"
  /\ interest' = "RW"
  /\ Answer(FALSE)
  /\ UNCHANGED <<wvars, keys, net>>

\* Control of PollR2RW, which fails when the operator is detached; then the timer
\* of waitFlush.
FlushArm ==
  /\ writer.at = "arm"
  /\ IF interest = "none"
     THEN UNCHANGED <<interest, writeTimer>> /\ Answer(TRUE)
     ELSE /\ interest' = "RW"
          /\ writeTimer' = IF "write" \in timed THEN Started(writeTimer) ELSE writeTimer
          /\ WriterAt("wait")
  /\ UNCHANGED <<output, writeTrigger, wire, late, keys, net>>

FlushWakes ==
  /\ writer.at = "wait" /\ writeTrigger # "empty"
  /\ "write" \in timed => writeTimer # "off"
  /\ writeTrigger' = "empty" /\ writeTimer' = "off"
  /\ UNCHANGED <<output, wire, late, keys, interest, net>>
  /\ Answer(writeTrigger = "closed")

FlushTimesOut ==
  /\ writer.at = "wait" /\ writeTimer = "fired"
  /\ writeTimer' = "off"
  /\ UNCHANGED <<output, writeTrigger, wire, late, keys, interest, net>>
  /\ WriterAt("late")

RW2R(i) == IF i = "RW" THEN "R" ELSE i

\* The answer that has come meanwhile, or none: what the poller is doing with
\* the buffer goes on.
FlushLate ==
  /\ writer.at = "late"
  /\ IF writeTrigger # "empty"
     THEN /\ writeTrigger' = "empty" /\ UNCHANGED <<late, interest>>
          /\ Answer(writeTrigger = "closed")
     ELSE /\ late' = TRUE /\ interest' = RW2R(interest) /\ UNCHANGED writeTrigger
          /\ Answer(TRUE)
  /\ UNCHANGED <<output, writeTimer, wire, keys, net>>

FlushReturn ==
  /\ writer.at = "return"
  /\ keys' = [keys EXCEPT !.flushing = 0]
  /\ UNCHANGED <<wvars, interest, net>>
  /\ WriterAt("idle")

WriterNext ==
  \/ \E n \in Writes : FlushCall(n)
  \/ FlushLock \/ FlushSend \/ FlushSkip \/ FlushArm \/ FlushWakes \/ FlushTimesOut
  \/ FlushLate \/ FlushReturn

\* ------------------------------------------------------ the poller
Poller(p) ==
  /\ poller' = p
  /\ UNCHANGED <<dial, waitReadSize, readTimer, writeTimer, late, keys, called, fdClosed, freed, uses, timed, reader, writer, closer>>
PollerAt(l) == Poller([poller EXCEPT !.at = l])
Events == poller.at = "idle" /\ interest # "none" /\ opState = 1

\* A readable socket: do, and inputs that book the tail of the buffer.
PollRead ==
  /\ Events /\ net.received > 0
  /\ opState' = 2
  /\ UNCHANGED <<input, readTrigger, output, writeTrigger, wire, closing, interest, net>>
  /\ PollerAt("read")

PollReads(n) ==
  /\ poller.at = "read" /\ (IF net.received = 0 THEN n = 0 ELSE n \in 1..net.received)
  /\ net' = [net EXCEPT !.received = @ - n]
  /\ UNCHANGED <<input, readTrigger, output, writeTrigger, wire, closing, opState, interest>>
  /\ Poller([poller EXCEPT !.at = "ack", !.n = n])

\* Mutant: the size waited for is compared with the length before the input.
inputAckBefore ==
  /\ poller.at = "ack"
  /\ input' = [input EXCEPT !.len = @ + poller.n]
  /\ UNCHANGED <<readTrigger, output, writeTrigger, wire, closing, opState, interest, net>>
  /\ Poller([poller EXCEPT !.at = "compare", !.n = input.len])

\* inputAck, with the length there is for the comparison that follows.
inputAck ==
  /\ poller.at = "ack"
  /\ input' = [input EXCEPT !.len = @ + poller.n]
  /\ UNCHANGED <<readTrigger, output, writeTrigger, wire, closing, opState, interest, net>>
  /\ IF poller.n = 0 THEN PollerAt("done")
     ELSE Poller([poller EXCEPT !.at = "compare", !.n = input'.len])

PollCompare ==
  /\ poller.at = "compare"
  /\ UNCHANGED <<rvars, output, writeTrigger, wire, closing, opState, interest, net>>
  /\ PollerAt(IF poller.n >= waitReadSize THEN "trigger" ELSE "done")

triggerRead ==
  /\ poller.at \in {"trigger", "hupRead"}
  /\ readTrigger' = TRUE
  /\ UNCHANGED <<input, output, writeTrigger, wire, closing, opState, interest, net>>
  /\ PollerAt(IF poller.at = "trigger" THEN "done" ELSE "hupWrite")

\* A writable socket: outputs takes what there is to send.
outputs ==
  /\ Events /\ interest = "RW" /\ (net.sending < Capacity \/ net.closed)
  /\ opState' = 2
  /\ UNCHANGED <<input, readTrigger, output, writeTrigger, wire, closing, interest, net>>
  /\ IF IsEmpty(output) THEN PollerAt("rw2r")
     ELSE Poller([poller EXCEPT !.at = "send", !.head = output.head, !.tail = output.tail])

\* The operator is detached before onHup is called.
Detached(l) == opState' = 0 /\ interest' = "none" /\ PollerAt(l)

PollSends ==
  /\ poller.at = "send"
  /\ \/ net.closed /\ UNCHANGED <<net, wire>> /\ Detached("hup")
     \/ \E n \in Sendable(poller) :
          /\ Sent(poller, n)
          /\ Poller([poller EXCEPT !.at = "sent", !.n = n])
          /\ UNCHANGED <<opState, interest>>
  /\ UNCHANGED <<input, readTrigger, output, writeTrigger, closing>>

outputAck ==
  /\ poller.at = "sent"
  /\ output' = Skipped(poller.n)
  /\ UNCHANGED <<input, readTrigger, writeTrigger, wire, closing, opState, interest, net>>
  /\ PollerAt(IF IsEmpty(output') THEN "rw2r" ELSE "done")

\* rw2r tells the poller first and the writer then.
rw2r ==
  /\ poller.at = "rw2r"
  /\ interest' = RW2R(interest)
  /\ UNCHANGED <<input, readTrigger, output, writeTrigger, wire, closing, opState, net>>
  /\ PollerAt("answer")

\* A value in the channel stays, and the new one is dropped.
Put(value) == IF writeTrigger = "empty" THEN value ELSE writeTrigger

triggerWrite ==
  /\ poller.at \in {"answer", "hupWrite"}
  /\ writeTrigger' = Put(IF poller.at = "answer" THEN "nil" ELSE "closed")
  /\ UNCHANGED <<input, readTrigger, output, wire, closing, opState, interest, net>>
  /\ IF poller.at = "answer" THEN PollerAt("done") ELSE PollerAt("idle")

\* done, after which the state is forgotten.
PollDone ==
  /\ poller.at = "done"
  /\ opState' = 1
  /\ UNCHANGED <<input, readTrigger, output, writeTrigger, wire, closing, interest, net>>
  /\ Poller([at |-> "idle", n |-> 0, head |-> 0, tail |-> 0])

PollHup ==
  /\ Events /\ net.closed
  /\ UNCHANGED <<input, readTrigger, output, writeTrigger, wire, closing, net>>
  /\ Detached("hup")

\* It does not call closeCallback.
onHup ==
  /\ poller.at = "hup"
  /\ closing' = IF IsActive THEN "poller" ELSE closing
  /\ UNCHANGED <<input, readTrigger, output, writeTrigger, wire, opState, interest, net>>
  /\ PollerAt(IF IsActive THEN "hupRead" ELSE "idle")

PollerNext ==
  \/ PollRead \/ inputAck \/ PollCompare \/ triggerRead \/ outputs \/ PollSends \/ outputAck
  \/ rw2r \/ triggerWrite \/ PollDone \/ PollHup \/ onHup
  \/ \E n \in 0..MaxIn : PollReads(n)

\* ------------------------------------------------------ closing
Closer(l) ==
  /\ closer' = l
  /\ UNCHANGED <<dial, waitReadSize, readTimer, writeTimer, wire, late, uses, timed, net, reader, writer, poller>>

\* Close: who comes after the poller runs the callbacks only.
onClose ==
  /\ Up /\ closer = "idle" /\ closing # "user"
  /\ closing' = IF IsActive THEN "user" ELSE closing
  /\ UNCHANGED <<input, readTrigger, output, writeTrigger, keys, called, fdClosed, freed, opState, interest>>
  /\ Closer(IF IsActive THEN "triggerRead" ELSE "callback")

CloseTriggersRead ==
  /\ closer = "triggerRead" /\ readTrigger' = TRUE
  /\ UNCHANGED <<input, output, writeTrigger, closing, keys, called, fdClosed, freed, opState, interest>>
  /\ Closer("triggerWrite")

CloseTriggersWrite ==
  /\ closer = "triggerWrite" /\ writeTrigger' = Put("closed")
  /\ UNCHANGED <<input, readTrigger, output, closing, keys, called, fdClosed, freed, opState, interest>>
  /\ Closer("callback")

\* closeCallback takes the key processing and detaches the operator when the
\* user closed, for which it waits until nobody is handling it (unused).
closeCallback ==
  /\ closer = "callback"
  /\ called' = TRUE
  /\ UNCHANGED <<input, readTrigger, output, writeTrigger, closing, keys, fdClosed, freed, opState, interest>>
  /\ Closer(IF called THEN "idle" ELSE IF closing = "user" THEN "detach" ELSE "stopFlushing")

unused ==
  /\ closer = "detach" /\ opState # 2
  /\ opState' = 0 /\ interest' = "none"
  /\ UNCHANGED <<input, readTrigger, output, writeTrigger, closing, keys, called, fdClosed, freed>>
  /\ Closer("stopFlushing")

\* stop waits for the key to be unlocked.
Stop(key, l, next) ==
  /\ closer = l /\ keys[key] # 1
  /\ keys' = [keys EXCEPT ![key] = 2]
  /\ UNCHANGED <<input, readTrigger, output, writeTrigger, closing, called, fdClosed, freed, opState, interest>>
  /\ Closer(next)
StopFlushing == Stop("flushing", "stopFlushing", "stopFinalizing")
StopFinalizing == Stop("finalizing", "stopFinalizing", "free")

Free ==
  /\ closer = "free" /\ freed' = TRUE
  /\ UNCHANGED <<input, readTrigger, output, writeTrigger, closing, keys, called, fdClosed, opState, interest>>
  /\ Closer("close")

CloseFD ==
  /\ closer = "close" /\ fdClosed' = TRUE
  /\ UNCHANGED <<input, readTrigger, output, writeTrigger, closing, keys, called, freed, opState, interest>>
  /\ Closer("buffers")

\* Buffers that still hold bytes are left to the user.
closeBuffer ==
  /\ closer = "buffers"
  /\ input' = [input EXCEPT !.open = @ /\ input.len # 0]
  /\ output' = [output EXCEPT !.open = @ /\ ~ IsEmpty(output)]
  /\ UNCHANGED <<readTrigger, writeTrigger, closing, keys, called, fdClosed, freed, opState, interest>>
  /\ Closer("idle")

CloserNext ==
  \/ onClose \/ CloseTriggersRead \/ CloseTriggersWrite \/ closeCallback \/ unused
  \/ StopFlushing \/ StopFinalizing \/ Free \/ CloseFD \/ closeBuffer

Next ==
  \/ Dial \/ Arrive \/ PeerReads \/ PeerCloses \/ ReadTimerFires \/ WriteTimerFires
  \/ \E side \in {"read", "write"} : SetTimeout(side)
  \/ ReaderNext \/ WriterNext \/ PollerNext \/ CloserNext

\* The goroutines go on in their calls; the poller, whose poll is level-triggered,
\* and the spins of unused and stop meet what they wait for free in the end; the peer takes what
\* it is sent; and a connection under way is made or refused.
Fairness ==
  /\ WF_vars(WaitRead \/ ReadLength \/ ReadActive \/ ReadClosed \/ ReadWakes \/ ReadTimesOut)
  /\ WF_vars(ReadTimerFires)
  /\ WF_vars(FillLock \/ FillEnd \/ \E n \in 1..MaxIn : FillRead(n))
  /\ WF_vars(WaitReadEnd \/ UntilMore \/ UntilCheck \/ GiveUp \/ ResetTail \/ \E n \in 0..MaxIn : Take(n))
  /\ WF_vars(FlushLock \/ FlushSend \/ FlushSkip \/ FlushArm \/ FlushWakes \/ FlushLate \/ FlushReturn)
  /\ SF_vars(PollerNext)
  /\ WF_vars(CloserNext /\ closer # "idle") /\ SF_vars(unused \/ StopFlushing \/ StopFinalizing)
  /\ WF_vars(PeerReads)
  /\ WF_vars(OnWrite) /\ WF_vars(WaitWrite \/ DoubleCheck)

Spec == Init /\ [][Next]_vars /\ Fairness

\* ------------------------------------------------------ what must hold
Timers == {"off", "running", "fired"}

TypeOK ==
  /\ dial.at \in {"idle", "waiting", "detached", "refused", "cancelled", "panic", "up"}
  /\ closing \in {"none", "user", "poller"}
  /\ keys \in [{"flushing", "finalizing"} -> 0..2]
  /\ opState \in 0..2 /\ interest \in {"none", "R", "RW"}
  /\ input.len \in 0..MaxIn /\ waitReadSize \in Needs \cup 0..MaxIn + 1
  /\ {readTimer, writeTimer} \subseteq Timers
  /\ 0 <= output.head /\ output.head <= output.tail /\ output.tail <= MaxOut
  /\ writeTrigger \in {"empty", "nil", "closed"}
  /\ net.received \in 0..MaxIn /\ net.sending \in 0..Capacity

\* Until a flush times out every byte is sent once and in order, and a flush that
\* answers nil has sent everything.
Honest ==
  ~ late => /\ ~ wire.garbled
            /\ writer.at = "return" /\ ~ writer.err => IsEmpty(output)

\* The tail of the input buffer belongs to one at a time, unless the user closes
\* while a reader waits; buffers, operator and descriptor are not used after
\* they were given up; timers and the size waited for are left as they were found.
Booked == poller.at \in {"read", "ack"}
Exclusive ==
  /\ reader.at = "reset" => ~ Booked /\ reader.at # "filling"
  /\ reader.at = "filling" /\ Booked => closing = "user"
  /\ ~ input.open => ~ Booked /\ reader.at # "filling"
  /\ ~ output.open => poller.at \notin {"send", "sent"} /\ writer.at \notin {"send", "skip", "wait"}
  /\ freed => poller.at # "rw2r" /\ writer.at \notin {"arm", "late"}
  /\ fdClosed => poller.at \notin {"read", "send"} /\ writer.at # "send" /\ reader.at # "filling"
Drained ==
  /\ reader.at \in {"idle", "store", "take", "giveUp"} => readTimer = "off" /\ waitReadSize = 0
  /\ writer.at # "wait" => writeTimer = "off"
Kept == Exclusive /\ Drained

\* A reader returns when the bytes it waits for are there or the peer closes, and in
\* time when it has a timeout, unless the user closes meanwhile and the peer does
\* not; a flush returns when the peer
\* reads or closes; Close returns unless it waits for such a reader; and a dial
\* ends.
Waits == reader.at # "idle" /\ (net.closed \/ input.len + net.received >= reader.need)
Spins == closing = "user" /\ ~ net.closed
NobodyStranded ==
  /\ Waits ~> (~ Waits \/ Spins)
  /\ (reader.at # "idle" /\ "read" \in timed) ~> (reader.at = "idle" \/ Spins)
  /\ (writer.at # "idle") ~> (writer.at = "idle")
  /\ (closer # "idle") ~> (closer = "idle" \/ (reader.at = "filling" /\ ~ net.closed))
  /\ (dial.at = "waiting") ~> (dial.at # "waiting")
=============================================================================
