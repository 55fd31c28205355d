---------------------- MODULE TransferRefinement_proofs -----------------------
(***************************************************************************)
(* A Transfer implements StopAndWait, and what the two sessions report of  *)
(* it is true.  Both follow from one invariant, StepInv: the two counters  *)
(* are never more than one block apart, no datagram is ahead of them, and  *)
(* a sender that still has something to do is within the file.  CutInv     *)
(* adds that nothing follows a block that could not be read whole, and     *)
(* with it the output is proved to be the beginning of the file.           *)
(***************************************************************************)
EXTENDS TransferSession_proofs

\* The last block the sender has sent: its counter, until that wraps.
Top == IF lastsentdatacount # 0 THEN lastsentdatacount ELSE lastreceiveddatacount

CountersInStep ==
  /\ lastreceiveddatacount <= Top
  /\ Top <= lastreceiveddatacount + 1
  /\ lastreceiveddatacount <= file.blocks
  /\ lastsentdatacount = 0 =>
       \/ lastreceiveddatacount = 0
       \/ lastreceiveddatacount = MaxBlock /\ Quiet(sIo)

\* Until the sender has a partner it has sent nothing.
PartnerKnown ==
  /\ mReceiverEndpoint \in {NoEndpoint, Receiver}
  /\ mReceiverEndpoint = NoEndpoint => lastsentdatacount = 0

\* A sender that goes on waits for the ACK of a block of the file, and knows
\* the last one; where reads fail it may take another one for the last.
SendsWithinFile ==
  \/ Quiet(sIo)
  \/ /\ lastsentdatacount <= file.blocks
     /\ IF StartQueued(sIo) \/ lastsentdatacount = 0
        THEN sendingdone = FALSE
        ELSE /\ lastsentdatacount = file.blocks => sendingdone
             /\ sendingdone => lastsentdatacount = file.blocks \/ "read" \in Faults

\* The datagrams of the handlers that have not run yet.
Msgs(io) == {io.handlers[i].msg : i \in DOMAIN io.handlers}

\* The sender's DATA has been sent, and the receiver's ACK is of blocks it has.
MessageTrue(m, top, received) ==
  /\ m.op = "DATA" /\ m.src = Sender => m.num \in 1 .. top /\ m.num <= file.blocks
  /\ m.op = "ACK" => \/ m.src = Receiver /\ m.num <= received
                     \/ m.src = Stranger /\ m.num # 0

MessagesTrue ==
  \A m \in net \cup Msgs(sIo) \cup Msgs(rIo) : MessageTrue(m, Top, lastreceiveddatacount)

StepInv == CountersInStep /\ PartnerKnown /\ SendsWithinFile /\ MessagesTrue

(***************************************************************************)
(* Timers and the chain                                                    *)
(***************************************************************************)
LEMMA ExpiryChain ==
  ASSUME NEW io \in Session
  PROVE  Chain(TimerExpires(io)) = Chain(io)
<1> DEFINE unarmed == [io EXCEPT !.armed = FALSE]
<1>1. /\ unarmed \in Session /\ unarmed.handlers = io.handlers
      /\ unarmed.receiving = io.receiving
  BY DEF Session
<1>2. TimerExpires(io) = Queue(unarmed, "timeout", NoMsg) /\ "timeout" \in HandlerKinds
  BY DEF TimerExpires, HandlerKinds
<1> HIDE DEF unarmed
<1> QED
  BY <1>1, <1>2, NoMsgType, QueueChain, SameChain

LEMMA TimeoutRuns ==
  ASSUME NEW io \in Session, io.handlers # << >>, Head(io.handlers).kind = "timeout"
  PROVE  /\ StartQueued(Running(io)) <=> StartQueued(io)
         /\ Quiet(io) => Quiet(Running(io))
<1>1. ASSUME StartQueued(Running(io)) PROVE StartQueued(io)
  BY <1>1, RunningShape DEF StartQueued
<1>2. ASSUME StartQueued(io) PROVE StartQueued(Running(io))
  <2>1. PICK i \in DOMAIN io.handlers : io.handlers[i].kind = "start"
    BY <1>2 DEF StartQueued
  <2>2. i # 1
    BY <2>1, RunningShape
  <2> QED
    BY <2>1, <2>2, RunningShape DEF StartQueued
<1>3. ASSUME Quiet(io) PROVE Quiet(Running(io))
  <2>1. ~io.receiving /\ \A i \in DOMAIN io.handlers : io.handlers[i].kind \notin ChainKinds
    BY <1>3 DEF Quiet, Chain
  <2> QED
    BY <2>1, RunningShape DEF Quiet, Chain
<1> QED
  BY <1>1, <1>2, <1>3

LEMMA CancelQuiet ==
  ASSUME NEW io \in Session, Quiet(io)
  PROVE  Quiet(CancelSocket(io))
  BY QuietFacts DEF CancelSocket

(***************************************************************************)
(* The handlers' datagrams                                                 *)
(***************************************************************************)
LEMMA MsgsOfQueue ==
  ASSUME NEW io \in Session, NEW k \in HandlerKinds, NEW m \in Datagram
  PROVE  Msgs(Queue(io, k, m)) \subseteq Msgs(io) \cup {m}
<1> DEFINE h == [kind |-> k, msg |-> m]
           q == Append(io.handlers, h)
<1>1. h \in Handler /\ h.msg = m
  BY DEF Handler
<1>2. io.handlers \in Seq(Handler)
  BY DEF Session
<1>3. Queue(io, k, m).handlers = q
  BY DEF Queue, Session
<1> HIDE DEF h
<1>4. \A i \in DOMAIN q : \/ i \in DOMAIN io.handlers /\ q[i] = io.handlers[i]
                          \/ q[i] = h
  BY <1>1, <1>2
<1> HIDE DEF q
<1> QED
  BY <1>1, <1>3, <1>4 DEF Msgs

LEMMA MsgsOfRunning ==
  ASSUME NEW io \in Session, io.handlers # << >>
  PROVE  Msgs(Running(io)) \subseteq Msgs(io) /\ Head(io.handlers).msg \in Msgs(io)
  BY RunningShape DEF Msgs

LEMMA SameMsgs ==
  ASSUME NEW io, NEW jo, jo.handlers = io.handlers
  PROVE  Msgs(jo) = Msgs(io)
  BY DEF Msgs

LEMMA MsgsOfOperations ==
  ASSUME NEW io \in Session, NEW m \in Datagram
  PROVE  /\ Msgs(ArmTimer(io)) = Msgs(io) /\ Msgs(CancelTimer(io)) = Msgs(io)
         /\ Msgs(AsyncReceive(io)) \subseteq Msgs(io) \cup {NoMsg}
         /\ Msgs(CancelSocket(io)) \subseteq Msgs(io) \cup {NoMsg}
         /\ Msgs(CloseSocket(io)) \subseteq Msgs(io) \cup {NoMsg}
         /\ Msgs(Queue(io, "sent", NoMsg)) \subseteq Msgs(io) \cup {NoMsg}
         /\ Msgs(Arrives(io, m)) \subseteq Msgs(io) \cup {m}
         /\ Msgs(ReceiveFails(io)) \subseteq Msgs(io) \cup {NoMsg}
         /\ Msgs(TimerExpires(io)) \subseteq Msgs(io) \cup {NoMsg}
<1> DEFINE idle    == [io EXCEPT !.receiving = FALSE]
           busy    == [io EXCEPT !.receiving = TRUE]
           unarmed == [io EXCEPT !.armed = FALSE]
           armed   == [io EXCEPT !.armed = TRUE]
<1>1. /\ idle \in Session /\ unarmed \in Session
      /\ idle.handlers = io.handlers /\ busy.handlers = io.handlers
      /\ unarmed.handlers = io.handlers /\ armed.handlers = io.handlers
  BY DEF Session
<1>2. /\ ArmTimer(io) = armed /\ CancelTimer(io) = unarmed
      /\ AsyncReceive(io) \in {busy, Queue(io, "failed", NoMsg)}
      /\ CancelSocket(io) \in {io, Queue(idle, "aborted", NoMsg)}
      /\ Arrives(io, m) = Queue(idle, "datagram", m)
      /\ ReceiveFails(io) = Queue(idle, "failed", NoMsg)
      /\ TimerExpires(io) = Queue(unarmed, "timeout", NoMsg)
  BY DEF ArmTimer, CancelTimer, AsyncReceive, CancelSocket, Arrives, ReceiveFails, TimerExpires
<1>3. CloseSocket(io).handlers = CancelSocket(io).handlers
  BY CancelSocketType DEF CloseSocket, Session
<1> HIDE DEF idle, busy, unarmed, armed
<1>k. {"sent", "failed", "aborted", "datagram", "timeout"} \subseteq HandlerKinds
  BY DEF HandlerKinds
<1>4. /\ Msgs(idle) = Msgs(io) /\ Msgs(busy) = Msgs(io)
      /\ Msgs(unarmed) = Msgs(io) /\ Msgs(armed) = Msgs(io)
      /\ Msgs(CloseSocket(io)) = Msgs(CancelSocket(io))
  BY <1>1, <1>3, SameMsgs
<1>5. /\ Msgs(Queue(io, "failed", NoMsg)) \subseteq Msgs(io) \cup {NoMsg}
      /\ Msgs(Queue(io, "sent", NoMsg)) \subseteq Msgs(io) \cup {NoMsg}
      /\ Msgs(Queue(idle, "aborted", NoMsg)) \subseteq Msgs(io) \cup {NoMsg}
      /\ Msgs(Queue(idle, "datagram", m)) \subseteq Msgs(io) \cup {m}
      /\ Msgs(Queue(idle, "failed", NoMsg)) \subseteq Msgs(io) \cup {NoMsg}
      /\ Msgs(Queue(unarmed, "timeout", NoMsg)) \subseteq Msgs(io) \cup {NoMsg}
  BY <1>1, <1>k, <1>4, NoMsgType, MsgsOfQueue
<1> QED
  BY <1>2, <1>4, <1>5

\* An error message says nothing of the transfer.
LEMMA ErrorsTrue ==
  ASSUME NEW m, m.op = "ERROR", NEW top, NEW received
  PROVE  MessageTrue(m, top, received)
  BY DEF MessageTrue

LEMMA ErrorOps ==
  /\ NoMsg.op = "ERROR"
  /\ \A e, c : sErrorMsg(e, c).op = "ERROR" /\ rErrorMsg(e, c).op = "ERROR"
  BY DEF NoMsg, sErrorMsg, rErrorMsg, ErrorMessage

\* Nothing becomes false when the counters advance.
LEMMA TrueLater ==
  ASSUME NEW m \in Datagram, NEW top \in Nat, NEW received \in Nat,
         NEW top2 \in Nat, NEW received2 \in Nat, top <= top2, received <= received2,
         MessageTrue(m, top, received)
  PROVE  MessageTrue(m, top2, received2)
  BY DEF MessageTrue, Datagram

\* A step keeps MessagesTrue when the counters do not go back and what is new
\* in the network and in the handlers is an error, or true of them.
LEMMA MessagesKept ==
  ASSUME TypeOK, TypeOK', MessagesTrue, UNCHANGED file,
         Top <= Top', lastreceiveddatacount <= lastreceiveddatacount',
         \A m \in net' \cup Msgs(sIo') \cup Msgs(rIo') :
            \/ m \in net \cup Msgs(sIo) \cup Msgs(rIo)
            \/ m.op = "ERROR"
            \/ MessageTrue(m, Top', lastreceiveddatacount')
  PROVE  MessagesTrue'
<1>1. /\ Top \in Nat /\ Top' \in Nat
      /\ lastreceiveddatacount \in Nat /\ lastreceiveddatacount' \in Nat
  BY DEF TypeOK, SenderTypeOK, ReceiverTypeOK, Top
<1>2. ASSUME NEW io \in Session PROVE Msgs(io) \subseteq Datagram
  <2>1. io.handlers \in Seq(Handler)
    BY DEF Session
  <2>2. \A i \in DOMAIN io.handlers : io.handlers[i] \in Handler
    BY <2>1
  <2> QED
    BY <2>2 DEF Handler, Msgs
<1>3. net \cup Msgs(sIo) \cup Msgs(rIo) \subseteq Datagram
  BY <1>2 DEF TypeOK, SenderTypeOK, ReceiverTypeOK
<1>4. ASSUME NEW m \in net' \cup Msgs(sIo') \cup Msgs(rIo')
      PROVE  MessageTrue(m, Top', lastreceiveddatacount')
  <2>1. CASE m \in net \cup Msgs(sIo) \cup Msgs(rIo)
    <3>1. MessageTrue(m, Top, lastreceiveddatacount) /\ m \in Datagram
      BY <2>1, <1>3 DEF MessagesTrue
    <3> QED
      BY <3>1, <1>1, TrueLater
  <2>2. CASE m.op = "ERROR"
    BY <2>2, ErrorsTrue
  <2> QED
    BY <1>4, <2>1, <2>2
<1> QED
  BY <1>4 DEF MessagesTrue, MessageTrue, Msgs

(***************************************************************************)
(* The sender                                                              *)
(***************************************************************************)
\* A handler of the chain runs: the session is not quiet, and what the handler
\* continues with holds no other datagrams.
LEMMA SenderChainRuns ==
  ASSUME TypeOK, SenderWaits, NEW kinds \in SUBSET ChainKinds, HandlerWaits(sIo, kinds)
  PROVE  /\ ~Quiet(sIo)
         /\ "start" \notin kinds => ~StartQueued(sIo)
         /\ sReceived \in Msgs(sIo)
         /\ Running(sIo) \in Session /\ Quiet(Running(sIo))
         /\ sIoInCheck \in Session /\ Quiet(sIoInCheck)
         /\ Msgs(Running(sIo)) \subseteq Msgs(sIo) /\ Msgs(sIoInCheck) \subseteq Msgs(sIo)
<1>1. sIo \in Session /\ sIo.handlers # << >> /\ Head(sIo.handlers).kind \in kinds
  BY DEF TypeOK, SenderTypeOK, HandlerWaits
<1>2. 1 \in Chain(sIo) /\ Head(sIo.handlers) = sIo.handlers[1]
  BY <1>1, RunningShape DEF Chain
<1>3. "start" \notin kinds => ~StartQueued(sIo)
  <2> SUFFICES ASSUME "start" \notin kinds, StartQueued(sIo) PROVE FALSE
    OBVIOUS
  <2>1. PICK i \in DOMAIN sIo.handlers : sIo.handlers[i].kind = "start"
    BY DEF StartQueued
  <2>2. i \in Chain(sIo)
    BY <2>1 DEF Chain, ChainKinds, HandlerKinds
  <2> QED
    BY <1>1, <1>2, <2>1, <2>2 DEF SenderWaits, SessionInv, OneChain
<1>4. /\ Running(sIo) \in Session /\ Quiet(Running(sIo))
      /\ sIoInCheck \in Session /\ Quiet(sIoInCheck)
  BY SenderQuiet DEF HandlerWaits
<1>5. Msgs(Running(sIo)) \subseteq Msgs(sIo) /\ sReceived \in Msgs(sIo)
  BY <1>1, MsgsOfRunning DEF sReceived
<1>6. Msgs(sIoInCheck) = Msgs(Running(sIo))
  BY <1>4, NoMsgType, MsgsOfOperations DEF sIoInCheck
<1> QED
  BY <1>2, <1>3, <1>4, <1>5, <1>6 DEF Quiet

LEMMA SendNextBlockKeeps ==
  ASSUME NEW n, NEW io \in Session, Quiet(io),
         NEW out, \A m \in out : m.op = "ERROR", sSendNextBlock(n, io, out)
  PROVE  /\ \A m \in net' : \/ m \in net \/ m.op = "ERROR"
                            \/ n # 0 /\ m.op = "DATA" /\ m.src = Sender /\ m.num = n
         /\ Msgs(sIo') \subseteq Msgs(io) \cup {NoMsg}
         /\ \/ Quiet(sIo')
            \/ /\ n # 0 /\ ~StartQueued(sIo')
               /\ \E len \in BytesRead(n) : sendingdone' = (sendingdone \/ Short(len))
<1>1. CASE sGiveUpReading(io, out)
  <2> DEFINE err == sErrorMsg(mReceiverEndpoint', ERR_ACCESS_VIOLATION)
  <2>1. net' = net \cup Leaving(io, out \cup {err}) /\ sIo' = CloseSocket(io)
    BY <1>1 DEF sGiveUpReading, sEndOperation
  <2>2. err.op = "ERROR"
    BY ErrorOps
  <2> HIDE DEF err
  <2>3. \A m \in net' : m \in net \/ m.op = "ERROR"
    BY <2>1, <2>2 DEF Leaving
  <2> QED
    BY <2>1, <2>3, NoMsgType, MsgsOfOperations, QuietSettles
<1>2. ASSUME ~Unreadable(n), NEW len \in BytesRead(n), sSendBlock(n, len, io, out)
      PROVE  /\ \A m \in net' : \/ m \in net \/ m.op = "ERROR"
                                \/ n # 0 /\ m.op = "DATA" /\ m.src = Sender /\ m.num = n
             /\ Msgs(sIo') \subseteq Msgs(io) \cup {NoMsg}
             /\ \/ Quiet(sIo')
                \/ /\ n # 0 /\ ~StartQueued(sIo')
                   /\ sendingdone' = (sendingdone \/ Short(len))
  <2> DEFINE data == DataMessage(mReceiverEndpoint', n, len)
  <2>1. PICK sent \in SendOutcomes(io) :
          /\ net' = net \cup Leaving(io, out \cup IF sent THEN {data} ELSE {})
          /\ sIo' = IF sent THEN Queue(io, "sent", NoMsg) ELSE io
    BY <1>2 DEF sSendBlock
  <2>2. data.op = "DATA" /\ data.src = Sender /\ data.num = n /\ n # 0
    BY <1>2 DEF DataMessage, Unreadable
  <2>3. sendingdone' = (sendingdone \/ Short(len))
    BY <1>2 DEF sSendBlock
  <2>4. Settled(sIo')
    BY <1>2, SendNextBlockSettles DEF sSendNextBlock
  <2> HIDE DEF data
  <2>5. \A m \in net' : m \in net \/ m.op = "ERROR" \/ m = data
    BY <2>1 DEF Leaving
  <2>6. Msgs(sIo') \subseteq Msgs(io) \cup {NoMsg}
    BY <2>1, NoMsgType, MsgsOfOperations
  <2> QED
    BY <2>2, <2>3, <2>4, <2>5, <2>6 DEF Settled
<1> QED
  BY <1>1, <1>2 DEF sSendNextBlock

\* The last block of the file is not full, and another one is not when it was
\* cut short, which takes a failure to read.
LEMMA LastBlockIsShort ==
  ASSUME TypeOK, NEW n \in 1 .. file.blocks, NEW len \in BytesRead(n)
  PROVE  /\ n = file.blocks => Short(len)
         /\ Short(len) => \/ n = file.blocks
                          \/ "read" \in Faults /\ len < BlockLen(n, SenderBlockSize)
         /\ len < BlockLen(n, SenderBlockSize) => Short(len)
<1>1. file \in Files(SenderBlockSize) /\ n \in Nat /\ SenderBlockSize \in Nat \ {0}
  BY TransferAssumption DEF TypeOK, Files
<1>2. len \in 0 .. BlockLen(n, SenderBlockSize) /\ BlockLen(n, SenderBlockSize) \in 0 .. SenderBlockSize
  BY <1>1, BytesReadType, BlockLenType
<1>3. /\ n = file.blocks => BlockLen(n, SenderBlockSize) < SenderBlockSize
      /\ n # file.blocks => BlockLen(n, SenderBlockSize) = SenderBlockSize
  BY <1>1 DEF Files, BlockLen
<1>4. "read" \notin Faults => len = BlockLen(n, SenderBlockSize)
  BY DEF BytesRead
<1> QED
  BY <1>1, <1>2, <1>3, <1>4 DEF Short

\* The sender ends, or sends the block it is at, which is of the file.
SenderMoves(io) ==
  \/ \E code, out : (\A m \in out : m.op = "ERROR") /\ sEndOperation(code, io, out)
  \/ /\ lastsentdatacount' # 0 =>
          /\ lastsentdatacount' <= file.blocks
          /\ sendingdone => lastsentdatacount' = file.blocks \/ "read" \in Faults
     /\ \E out : /\ \A m \in out : m.op = "ERROR"
                 /\ sSendNextBlock(lastsentdatacount', io, out)

LEMMA SenderMovesKeeps ==
  ASSUME TypeOK, TypeOK', StepInv, UNCHANGED <<file, receiverVars>>,
         NEW io \in Session, Quiet(io), Msgs(io) \subseteq Msgs(sIo),
         SenderMoves(io), Top <= Top', CountersInStep', PartnerKnown'
  PROVE  StepInv'
<1>t. /\ lastsentdatacount' \in Nat /\ file.blocks \in Nat
      /\ lastreceiveddatacount \in Nat /\ lastreceiveddatacount' = lastreceiveddatacount
      /\ rIo' = rIo /\ file' = file
  BY DEF TypeOK, SenderTypeOK, ReceiverTypeOK, Files, receiverVars
<1>1. /\ SendsWithinFile'
      /\ Msgs(sIo') \subseteq Msgs(io) \cup {NoMsg}
      /\ \A m \in net' : \/ m \in net \/ m.op = "ERROR"
                         \/ MessageTrue(m, Top', lastreceiveddatacount')
  <2>1. CASE \E code, out : (\A m \in out : m.op = "ERROR") /\ sEndOperation(code, io, out)
    <3>1. sIo' = CloseSocket(io) /\ \A m \in net' : m \in net \/ m.op = "ERROR"
      BY <2>1 DEF sEndOperation, Leaving
    <3> QED
      BY <3>1, NoMsgType, MsgsOfOperations, QuietSettles DEF SendsWithinFile, Quiet, Chain
  <2>2. CASE ~\E code, out : (\A m \in out : m.op = "ERROR") /\ sEndOperation(code, io, out)
    <3> DEFINE n == lastsentdatacount'
    <3>1. /\ n # 0 => /\ n <= file.blocks
                      /\ sendingdone => n = file.blocks \/ "read" \in Faults
          /\ \E out : (\A m \in out : m.op = "ERROR") /\ sSendNextBlock(n, io, out)
      BY <2>2 DEF SenderMoves
    <3>2. /\ \A m \in net' : \/ m \in net \/ m.op = "ERROR"
                             \/ n # 0 /\ m.op = "DATA" /\ m.src = Sender /\ m.num = n
          /\ Msgs(sIo') \subseteq Msgs(io) \cup {NoMsg}
          /\ \/ Quiet(sIo')
             \/ /\ n # 0 /\ ~StartQueued(sIo')
                /\ \E len \in BytesRead(n) : sendingdone' = (sendingdone \/ Short(len))
      BY <3>1, SendNextBlockKeeps
    <3>3. n # 0 => n \in 1 .. file.blocks
      BY <1>t, <3>1
    <3>4. SendsWithinFile'
      <4>1. CASE Quiet(sIo')
        BY <4>1 DEF SendsWithinFile, Quiet, Chain
      <4>2. CASE /\ n # 0 /\ ~StartQueued(sIo')
                 /\ \E len \in BytesRead(n) : sendingdone' = (sendingdone \/ Short(len))
        <5>1. PICK len \in BytesRead(n) : sendingdone' = (sendingdone \/ Short(len))
          BY <4>2
        <5>2. /\ n = file.blocks => Short(len)
              /\ Short(len) => n = file.blocks \/ "read" \in Faults
          BY <3>3, <4>2, LastBlockIsShort
        <5>3. /\ n <= file.blocks
              /\ n = file.blocks => sendingdone'
              /\ sendingdone' => n = file.blocks \/ "read" \in Faults
          BY <3>1, <4>2, <5>1, <5>2
        <5> HIDE DEF n
        <5>4. /\ lastsentdatacount' = n /\ file' = file
              /\ ~StartQueued(sIo)' /\ n # 0
          BY <1>t, <4>2 DEF StartQueued, n
        <5> QED
          BY <5>3, <5>4 DEF SendsWithinFile
      <4> QED
        BY <3>2, <4>1, <4>2
    <3>5. n # 0 => Top' = n
      BY DEF Top
    <3>6. ASSUME NEW m, n # 0, m.op = "DATA", m.src = Sender, m.num = n
          PROVE  MessageTrue(m, Top', lastreceiveddatacount')
      BY <3>3, <3>5, <3>6 DEF MessageTrue
    <3> QED
      BY <3>2, <3>4, <3>6
  <2> QED
    BY <2>1, <2>2
<1>2. \A m \in net' \cup Msgs(sIo') \cup Msgs(rIo') :
         \/ m \in net \cup Msgs(sIo) \cup Msgs(rIo)
         \/ m.op = "ERROR"
         \/ MessageTrue(m, Top', lastreceiveddatacount')
  BY <1>t, <1>1, ErrorOps
<1>3. MessagesTrue'
  BY <1>t, <1>2, MessagesKept DEF StepInv
<1> QED
  BY <1>1, <1>3 DEF StepInv

\* A step of the sender that leaves its counter and its partner alone.
LEMMA CountersStay ==
  ASSUME CountersInStep, PartnerKnown,
         UNCHANGED <<file, receiverVars, lastsentdatacount, mReceiverEndpoint>>,
         Quiet(sIo) => Quiet(sIo')
  PROVE  CountersInStep' /\ PartnerKnown' /\ Top' = Top
<1>1. UNCHANGED <<file, lastreceiveddatacount, lastsentdatacount, mReceiverEndpoint>>
  BY DEF receiverVars
<1>2. Top' = Top
  BY <1>1 DEF Top
<1>3. Quiet(sIo') <=> Quiet(sIo)'
  BY DEF Quiet, Chain
<1> QED
  BY <1>1, <1>2, <1>3 DEF CountersInStep, PartnerKnown

\* A step that does not touch what the sender sends.
LEMMA SenderStaysKeeps ==
  ASSUME TypeOK, TypeOK', StepInv,
         UNCHANGED <<file, receiverVars, lastsentdatacount, mReceiverEndpoint, sendingdone>>,
         Quiet(sIo) => Quiet(sIo'),
         \/ Quiet(sIo') \/ lastsentdatacount = 0
         \/ StartQueued(sIo') <=> StartQueued(sIo),
         Msgs(sIo') \subseteq net \cup Msgs(sIo) \cup {NoMsg},
         \A m \in net' : m \in net \/ m.op = "ERROR"
  PROVE  StepInv'
<1>1. CountersInStep' /\ PartnerKnown' /\ Top' = Top
  BY CountersStay DEF StepInv
<1>2. UNCHANGED <<file, lastsentdatacount, lastreceiveddatacount, sendingdone, rIo>>
  BY DEF receiverVars
<1>3. SendsWithinFile'
  <2>1. CASE Quiet(sIo')
    BY <2>1 DEF SendsWithinFile, Quiet, Chain
  <2>2. CASE ~Quiet(sIo')
    BY <1>2, <2>2 DEF StepInv, SendsWithinFile, StartQueued
  <2> QED
    BY <2>1, <2>2
<1>4. \A m \in net' \cup Msgs(sIo') \cup Msgs(rIo') :
         m \in net \cup Msgs(sIo) \cup Msgs(rIo) \/ m.op = "ERROR"
  BY <1>2, ErrorOps
<1>5. Top \in Nat /\ lastreceiveddatacount \in Nat
  BY DEF TypeOK, SenderTypeOK, ReceiverTypeOK, Top
<1>6. Top <= Top' /\ lastreceiveddatacount <= lastreceiveddatacount'
  BY <1>1, <1>2, <1>5
<1>7. MessagesTrue'
  BY <1>2, <1>4, <1>6, MessagesKept DEF StepInv
<1> QED
  BY <1>1, <1>3, <1>7 DEF StepInv

\* A handler that sends the block the sender is at, once more, or ends.
LEMMA ResendKeeps ==
  ASSUME TypeOK, TypeOK', StepInv, ~Quiet(sIo),
         UNCHANGED <<file, receiverVars, lastsentdatacount, mReceiverEndpoint>>,
         NEW io \in Session, Quiet(io), Msgs(io) \subseteq Msgs(sIo),
         NEW out, \A m \in out : m.op = "ERROR",
         \/ sSendNextBlock(lastsentdatacount, io, out)
         \/ \E code : sEndOperation(code, io, out)
  PROVE  StepInv'
<1>1. CountersInStep' /\ PartnerKnown' /\ Top' = Top
  BY CountersStay DEF StepInv
<1>2. Top <= Top'
  BY <1>1 DEF TypeOK, SenderTypeOK, ReceiverTypeOK, Top
<1>3. lastsentdatacount' = lastsentdatacount
  OBVIOUS
<1>4. /\ lastsentdatacount <= file.blocks
      /\ sendingdone => lastsentdatacount = file.blocks \/ "read" \in Faults
  BY DEF StepInv, SendsWithinFile
<1>5. SenderMoves(io)
  BY <1>3, <1>4 DEF SenderMoves
<1> QED
  BY <1>1, <1>2, <1>5, SenderMovesKeeps

\* The ACK that is expected is of the block the sender is at, and so the
\* receiver has that block and no other.
LEMMA ExpectedAck ==
  ASSUME TypeOK, SenderWaits, StepInv, sExpectedAck
  PROVE  /\ sReceived.src = Receiver
         /\ lastreceiveddatacount = lastsentdatacount
         /\ lastsentdatacount <= file.blocks
         /\ lastsentdatacount # 0 /\ lastsentdatacount = file.blocks => sendingdone
         /\ sendingdone => lastsentdatacount = file.blocks \/ "read" \in Faults
<1>1. /\ HandlerWaits(sIo, {"datagram"}) /\ {"datagram"} \subseteq ChainKinds
      /\ sReceived.op = "ACK" /\ sReceived.num = lastsentdatacount
      /\ mReceiverEndpoint \in {NoEndpoint, sReceived.src}
  BY DEF sExpectedAck, sChecks, sFromPartner, ChainKinds, HandlerKinds
<1>2. ~Quiet(sIo) /\ ~StartQueued(sIo) /\ sReceived \in Msgs(sIo)
  BY <1>1, SenderChainRuns
<1>3. MessageTrue(sReceived, Top, lastreceiveddatacount)
  BY <1>2 DEF StepInv, MessagesTrue
<1>t. /\ lastsentdatacount \in Nat /\ lastreceiveddatacount \in Nat
      /\ sendingdone \in BOOLEAN /\ file.blocks \in Nat
  BY DEF TypeOK, SenderTypeOK, ReceiverTypeOK, Files
<1>4. sReceived.src = Receiver /\ sReceived.num <= lastreceiveddatacount
  <2>1. CASE sReceived.src = Stranger
    <3>1. mReceiverEndpoint = NoEndpoint
      BY <1>1, <2>1 DEF StepInv, PartnerKnown, Receiver, Stranger
    <3> QED
      BY <1>1, <1>3, <2>1, <3>1 DEF StepInv, PartnerKnown, MessageTrue
  <2> QED
    BY <1>1, <1>3, <2>1 DEF MessageTrue
<1>5. lastreceiveddatacount = lastsentdatacount
  <2>1. CASE lastsentdatacount = 0
    BY <1>2, <2>1 DEF StepInv, CountersInStep, Quiet
  <2>2. CASE lastsentdatacount # 0
    BY <1>1, <1>4, <1>t, <2>2 DEF StepInv, CountersInStep, Top
  <2> QED
    BY <2>1, <2>2
<1>6. /\ lastsentdatacount <= file.blocks
      /\ lastsentdatacount # 0 /\ lastsentdatacount = file.blocks => sendingdone
      /\ sendingdone => lastsentdatacount = file.blocks \/ "read" \in Faults
  BY <1>2 DEF StepInv, SendsWithinFile
<1> QED
  BY <1>4, <1>5, <1>6

LEMMA ExpectedAckKeeps ==
  ASSUME TypeOK, TypeOK', SenderWaits, StepInv, UNCHANGED <<file, receiverVars>>, sExpectedAck
  PROVE  StepInv'
<1>1. HandlerWaits(sIo, {"datagram"}) /\ {"datagram"} \in SUBSET ChainKinds
  BY DEF sExpectedAck, sChecks, ChainKinds, HandlerKinds
<1>2. /\ ~Quiet(sIo)
      /\ sIoInCheck \in Session /\ Quiet(sIoInCheck) /\ Msgs(sIoInCheck) \subseteq Msgs(sIo)
  BY <1>1, SenderChainRuns
<1>3. /\ lastsentdatacount' = BlockAfter(lastsentdatacount)
      /\ mReceiverEndpoint' = Receiver
      /\ lastreceiveddatacount = lastsentdatacount /\ lastsentdatacount <= file.blocks
      /\ lastsentdatacount # 0 /\ lastsentdatacount = file.blocks => sendingdone
  BY ExpectedAck DEF sExpectedAck
<1>t. /\ lastsentdatacount \in 0 .. MaxBlock /\ MaxBlock \in Nat \ {0}
      /\ file.blocks \in Nat \ {0} /\ sendingdone \in BOOLEAN
      /\ UNCHANGED <<file, lastreceiveddatacount>>
  BY WireAssumption DEF TypeOK, SenderTypeOK, Files, receiverVars
<1>4. \/ sEndOperation("ERR_NOERR", sIoInCheck, {})
      \/ ~sendingdone /\ sSendNextBlock(lastsentdatacount', sIoInCheck, {})
  BY DEF sExpectedAck
<1>5. SenderMoves(sIoInCheck)
  <2>1. ASSUME ~sendingdone, lastsentdatacount' # 0
        PROVE  lastsentdatacount' <= file.blocks
    <3>1. lastsentdatacount = 0 \/ lastsentdatacount # file.blocks
      BY <1>3, <2>1
    <3>2. lastsentdatacount' = lastsentdatacount + 1
      BY <1>3, <2>1 DEF BlockAfter
    <3> QED
      BY <1>3, <1>t, <3>1, <3>2
  <2>2. \A m \in {} : m.op = "ERROR"
    OBVIOUS
  <2> QED
    BY <1>4, <2>1, <2>2 DEF SenderMoves
<1>6. lastsentdatacount' = 0 => Quiet(sIo')
  <2>1. CASE sEndOperation("ERR_NOERR", sIoInCheck, {})
    BY <1>2, <2>1, QuietSettles DEF sEndOperation
  <2>2. CASE sSendNextBlock(lastsentdatacount', sIoInCheck, {})
    BY <1>2, <2>2, SendNextBlockKeeps
  <2> QED
    BY <1>4, <2>1, <2>2
<1>7. /\ lastsentdatacount = MaxBlock => lastsentdatacount' = 0
      /\ lastsentdatacount # MaxBlock => lastsentdatacount' = lastsentdatacount + 1
  BY <1>3 DEF BlockAfter
<1>8. CountersInStep'
  <2>1. CASE lastsentdatacount = MaxBlock
    <3>1. Quiet(sIo)'
      BY <1>6, <1>7, <2>1 DEF Quiet, Chain
    <3> QED
      BY <1>3, <1>t, <1>7, <2>1, <3>1 DEF CountersInStep, Top
  <2>2. CASE lastsentdatacount # MaxBlock
    BY <1>3, <1>t, <1>7, <2>2 DEF CountersInStep, Top
  <2> QED
    BY <2>1, <2>2
<1>9. PartnerKnown' /\ Top <= Top'
  BY <1>3, <1>t, <1>7 DEF PartnerKnown, Top, Receiver, NoEndpoint
<1> QED
  BY <1>2, <1>5, <1>8, <1>9, SenderMovesKeeps

\* Completions the sender's host decides on.
LEMMA SenderHostKeeps ==
  ASSUME TypeOK, TypeOK', SenderWaits, StepInv, UNCHANGED <<file, receiverVars>>,
         (\E m \in net : sArrive(m)) \/ sExpire \/ sReceiveFails
  PROVE  StepInv'
<1>t. sIo \in Session /\ SessionInv(sIo) /\ net \subseteq Datagram
  BY DEF TypeOK, SenderTypeOK, SenderWaits
<1>n. net' \subseteq net
  BY DEF sArrive, Delivered, sExpire, sReceiveFails
<1>u. UNCHANGED <<lastsentdatacount, mReceiverEndpoint, sendingdone>>
  BY DEF sArrive, sExpire, sReceiveFails, sEnv, sStream, sPartner
<1>1. CASE (\E m \in net : sArrive(m)) \/ sReceiveFails
  <2>1. PICK m \in Datagram : /\ m \in net \cup {NoMsg} /\ sIo.receiving
                              /\ sIo' \in {Arrives(sIo, m), ReceiveFails(sIo)}
    BY <1>1, <1>t, NoMsgType DEF sArrive, sReceiveFails
  <2>2. ~StartQueued(sIo') /\ Msgs(sIo') \subseteq Msgs(sIo) \cup {m, NoMsg}
    BY <1>t, <2>1, CompletionChain, MsgsOfOperations DEF Settled, SessionInv
  <2>3. ~Quiet(sIo)
    BY <2>1 DEF Quiet, Chain
  <2>4. ~StartQueued(sIo)
    <3> SUFFICES ASSUME StartQueued(sIo) PROVE FALSE
      OBVIOUS
    <3>1. PICK i \in DOMAIN sIo.handlers : sIo.handlers[i].kind = "start"
      BY DEF StartQueued
    <3>2. i \in Chain(sIo) /\ 0 \in Chain(sIo) /\ i # 0
      BY <1>t, <2>1, <3>1 DEF Chain, ChainKinds, HandlerKinds, Session
    <3> QED
      BY <1>t, <3>2 DEF SessionInv, OneChain
  <2> QED
    BY <1>n, <1>u, <2>1, <2>2, <2>3, <2>4, SenderStaysKeeps
<1>2. CASE sExpire
  <2>1. sIo' = TimerExpires(sIo)
    BY <1>2 DEF sExpire
  <2>2. Chain(sIo') = Chain(sIo)
    BY <1>t, <2>1, ExpiryChain
  <2>3. (StartQueued(sIo') <=> StartQueued(sIo)) /\ Msgs(sIo') \subseteq Msgs(sIo) \cup {NoMsg}
    BY <1>t, <2>1, NoMsgType, CompletionChain, MsgsOfOperations DEF SessionInv
  <2> QED
    BY <1>n, <1>u, <2>2, <2>3, SenderStaysKeeps DEF Quiet
<1> QED
  BY <1>1, <1>2

LEMMA SenderTimeoutKeeps ==
  ASSUME TypeOK, TypeOK', SenderWaits, StepInv, UNCHANGED <<file, receiverVars>>,
         sHandleReadTimeout
  PROVE  StepInv'
<1> DEFINE io == Running(sIo)
<1>1. sIo \in Session /\ sIo.handlers # << >> /\ Head(sIo.handlers).kind = "timeout"
  BY DEF TypeOK, SenderTypeOK, sHandleReadTimeout, HandlerWaits
<1>2. /\ io \in Session /\ OneChain(io)
      /\ Msgs(io) \subseteq Msgs(sIo)
  BY <1>1, RunningType, RunningChain, MsgsOfRunning DEF SenderWaits, SessionInv
<1>3. (StartQueued(io) <=> StartQueued(sIo)) /\ (Quiet(sIo) => Quiet(io))
  BY <1>1, TimeoutRuns
<1>4. UNCHANGED <<lastsentdatacount, mReceiverEndpoint, sendingdone>>
  BY DEF sHandleReadTimeout, sStream, sPartner
<1>5. \/ UNCHANGED net /\ sIo' \in {io, CancelSocket(io)}
      \/ \E code, e, c : sEndOperation(code, CancelSocket(io), {sErrorMsg(e, c)})
  BY DEF sHandleReadTimeout
<1> HIDE DEF io
<1>c. /\ CancelSocket(io) \in Session /\ OneChain(CancelSocket(io))
      /\ StartQueued(CancelSocket(io)) <=> StartQueued(io)
      /\ Quiet(io) => Quiet(CancelSocket(io))
      /\ Msgs(CancelSocket(io)) \subseteq Msgs(io) \cup {NoMsg}
  BY <1>2, NoMsgType, CancelSocketType, CancelChain, CancelQuiet, MsgsOfOperations
<1>6. CASE UNCHANGED net /\ sIo' \in {io, CancelSocket(io)}
  BY <1>2, <1>3, <1>4, <1>6, <1>c, SenderStaysKeeps
<1>7. CASE \E code, e, c : sEndOperation(code, CancelSocket(io), {sErrorMsg(e, c)})
  <2>1. sIo' = CloseSocket(CancelSocket(io)) /\ \A m \in net' : m \in net \/ m.op = "ERROR"
    BY <1>7, ErrorOps DEF sEndOperation, Leaving
  <2>2. /\ StartQueued(sIo') <=> StartQueued(sIo)
        /\ Quiet(sIo) => Quiet(sIo')
        /\ Msgs(sIo') \subseteq Msgs(sIo) \cup {NoMsg}
    BY <1>2, <1>3, <1>c, <2>1, NoMsgType, CloseChain, QuietSettles, MsgsOfOperations
  <2> QED
    BY <1>4, <2>1, <2>2, SenderStaysKeeps
<1> QED
  BY <1>5, <1>6, <1>7

LEMMA SenderStepKeeps ==
  ASSUME TypeOK, TypeOK', SenderWaits, StepInv, UNCHANGED <<file, receiverVars>>,
         \/ SenderHandler
         \/ (\E m \in net : sArrive(m)) \/ sExpire \/ sReceiveFails
  PROVE  StepInv'
<1>k. /\ {"start"} \in SUBSET ChainKinds /\ {"sent"} \in SUBSET ChainKinds
      /\ {"datagram"} \in SUBSET ChainKinds /\ {"aborted", "failed"} \in SUBSET ChainKinds
  BY DEF ChainKinds, HandlerKinds
<1>e. /\ \A m \in {} : m.op = "ERROR"
      /\ \A e, c : \A m \in {sErrorMsg(e, c)} : m.op = "ERROR"
  BY ErrorOps
<1>1. CASE sStart
  <2> DEFINE io == Running(sIo)
  <2>1. /\ ~Quiet(sIo) /\ StartQueued(sIo)
        /\ io \in Session /\ Quiet(io) /\ Msgs(io) \subseteq Msgs(sIo)
    <3>1. HandlerWaits(sIo, {"start"}) /\ sIo \in Session
      BY <1>1 DEF sStart, TypeOK, SenderTypeOK
    <3>2. StartQueued(sIo)
      BY <3>1, RunningShape DEF HandlerWaits, StartQueued
    <3> QED
      BY <1>k, <3>1, <3>2, SenderChainRuns
  <2>2. UNCHANGED <<lastsentdatacount, mReceiverEndpoint>>
    BY <1>1 DEF sStart, sPartner
  <2>3. \/ \E e, c, code : sEndOperation(code, io, {sErrorMsg(e, c)})
        \/ sSendNextBlock(lastsentdatacount, io, {})
        \/ /\ lastsentdatacount # 1 /\ sIo' = AsyncReceive(io)
           /\ UNCHANGED <<net, sendingdone>>
    BY <1>1 DEF sStart, sStartNextReceive, sStream
  <2> HIDE DEF io
  <2>4. CASE \/ \E e, c, code : sEndOperation(code, io, {sErrorMsg(e, c)})
             \/ sSendNextBlock(lastsentdatacount, io, {})
    <3>1. \E out : /\ \A m \in out : m.op = "ERROR"
                  /\ \/ sSendNextBlock(lastsentdatacount, io, out)
                     \/ \E code : sEndOperation(code, io, out)
      BY <1>e, <2>4
    <3> QED
      BY <2>1, <2>2, <3>1, ResendKeeps
  <2>5. CASE /\ lastsentdatacount # 1 /\ sIo' = AsyncReceive(io)
             /\ UNCHANGED <<net, sendingdone>>
    <3>1. lastsentdatacount = 0
      BY <2>1, <2>5 DEF SenderWaits
    <3>2. Msgs(sIo') \subseteq Msgs(sIo) \cup {NoMsg}
      BY <2>1, <2>5, NoMsgType, MsgsOfOperations
    <3> QED
      BY <2>1, <2>2, <2>5, <3>1, <3>2, SenderStaysKeeps
  <2> QED
    BY <2>3, <2>4, <2>5
<1>2. CASE sBlockSent
  <2> DEFINE io == Running(sIo)
  <2>1. /\ ~Quiet(sIo) /\ ~StartQueued(sIo)
        /\ io \in Session /\ Quiet(io) /\ Msgs(io) \subseteq Msgs(sIo)
    BY <1>2, <1>k, SenderChainRuns DEF sBlockSent
  <2>2. /\ sIo' = AsyncReceive(ArmTimer(io))
        /\ UNCHANGED <<net, lastsentdatacount, mReceiverEndpoint, sendingdone>>
    BY <1>2 DEF sBlockSent, sStartNextReceive, sStream, sPartner
  <2> HIDE DEF io
  <2>3. ~StartQueued(sIo')
    BY <2>1, <2>2, QuietSettles DEF Settled
  <2>4. ArmTimer(io) \in Session
    BY <2>1, TimerType
  <2>5. Msgs(sIo') \subseteq Msgs(sIo) \cup {NoMsg}
    BY <2>1, <2>2, <2>4, NoMsgType, MsgsOfOperations
  <2> QED
    BY <2>1, <2>2, <2>3, <2>5, SenderStaysKeeps
<1>3. CASE sHandleReadTimeout
  BY <1>3, SenderTimeoutKeeps
<1>4. CASE sExpectedAck
  BY <1>4, ExpectedAckKeeps
<1>5. CASE sBadOpcode \/ sHighAck \/ sLowAck \/ sForeign \/ sNoDatagram \/ sRunt
  <2>1. \E kinds \in SUBSET ChainKinds : HandlerWaits(sIo, kinds)
    BY <1>5, <1>k DEF sBadOpcode, sHighAck, sLowAck, sForeign, sNoDatagram, sRunt, sChecks
  <2>2. /\ ~Quiet(sIo)
        /\ sIoInCheck \in Session /\ Quiet(sIoInCheck) /\ Msgs(sIoInCheck) \subseteq Msgs(sIo)
    BY <2>1, SenderChainRuns
  <2>3. UNCHANGED <<lastsentdatacount, mReceiverEndpoint>>
    BY <1>5 DEF sBadOpcode, sHighAck, sLowAck, sForeign, sNoDatagram, sRunt, sAbort, sPartner
  <2>4. \E out : /\ \A m \in out : m.op = "ERROR"
                 /\ \/ sSendNextBlock(lastsentdatacount, sIoInCheck, out)
                    \/ \E code : sEndOperation(code, sIoInCheck, out)
    <3>1. CASE sBadOpcode \/ sHighAck
      BY <1>e, <3>1 DEF sBadOpcode, sHighAck, sAbort
    <3>2. CASE sLowAck \/ sRunt \/ sForeign
      BY <1>e, <3>2 DEF sLowAck, sRunt, sForeign
    <3>3. CASE sNoDatagram
      <4> DEFINE out == IF sFromPartner(mLastReceivedReceiverEndpoint) THEN {}
                        ELSE {sErrorMsg(mLastReceivedReceiverEndpoint, ERR_UNKNOWN_TR_ID)}
      <4>1. \A m \in out : m.op = "ERROR"
        BY <1>e
      <4>2. sSendNextBlock(lastsentdatacount, sIoInCheck, out)
        BY <3>3 DEF sNoDatagram
      <4> HIDE DEF out
      <4> QED
        BY <4>1, <4>2
    <3> QED
      BY <1>5, <3>1, <3>2, <3>3
  <2> QED
    BY <2>2, <2>3, <2>4, ResendKeeps
<1>6. CASE (\E m \in net : sArrive(m)) \/ sExpire \/ sReceiveFails
  BY <1>6, SenderHostKeeps
<1> QED
  BY <1>1, <1>2, <1>3, <1>4, <1>5, <1>6 DEF SenderHandler

(***************************************************************************)
(* The receiver                                                            *)
(***************************************************************************)
\* The block that is expected is one the sender has sent, of the file.
LEMMA ExpectedBlock ==
  ASSUME TypeOK, PrefixInv, StepInv, rExpectedBlock
  PROVE  /\ lastreceiveddatacount' = lastreceiveddatacount + 1
         /\ lastsentdatacount = lastreceiveddatacount + 1
         /\ lastsentdatacount <= file.blocks
         /\ rReceived \in Msgs(rIo) /\ rReceived.op = "DATA"
         /\ rReceived.num = lastreceiveddatacount + 1
<1>1. /\ rReceived.src = Sender /\ rReceived.op = "DATA"
      /\ rReceived.num = lastreceiveddatacount + 1
      /\ lastreceiveddatacount' = lastreceiveddatacount + 1
      /\ HandlerWaits(rIo, {"datagram"})
  BY ExpectedPiece DEF rExpectedBlock, rChecks
<1>2. rReceived \in Msgs(rIo)
  BY <1>1, MsgsOfRunning DEF rReceived, HandlerWaits, TypeOK, ReceiverTypeOK
<1>3. MessageTrue(rReceived, Top, lastreceiveddatacount)
  BY <1>2 DEF StepInv, MessagesTrue
<1>4. rReceived.num \in 1 .. Top /\ rReceived.num <= file.blocks
  BY <1>1, <1>3 DEF MessageTrue
<1> QED
  BY <1>1, <1>2, <1>4
     DEF StepInv, CountersInStep, Top, TypeOK, SenderTypeOK, ReceiverTypeOK, Files

\* What a handler of the receiver adds: errors, and the ACK of what it has.
ReceiverAdds ==
  /\ \A m \in net' : \/ m \in net \/ m.op = "ERROR"
                     \/ /\ m.op = "ACK" /\ m.src = Receiver
                        /\ m.num = lastreceiveddatacount'
  /\ Msgs(rIo') \subseteq net \cup Msgs(rIo) \cup {NoMsg}

LEMMA ReceiverMovesKeeps ==
  ASSUME TypeOK, TypeOK', PrefixInv, StepInv, UNCHANGED <<file, senderVars>>,
         UNCHANGED lastreceiveddatacount \/ rExpectedBlock, ReceiverAdds
  PROVE  StepInv'
<1>t. /\ lastsentdatacount \in Nat /\ lastreceiveddatacount \in Nat /\ file.blocks \in Nat
      /\ UNCHANGED <<file, lastsentdatacount, mReceiverEndpoint, sendingdone, sIo>>
  BY DEF TypeOK, SenderTypeOK, ReceiverTypeOK, Files, senderVars, sStream, sPartner
<1>1. \/ lastreceiveddatacount' = lastreceiveddatacount
      \/ /\ lastreceiveddatacount' = lastreceiveddatacount + 1
         /\ lastsentdatacount = lastreceiveddatacount + 1
         /\ lastsentdatacount <= file.blocks
  BY ExpectedBlock
<1>2. CountersInStep' /\ Top <= Top' /\ lastreceiveddatacount <= lastreceiveddatacount'
  <2>1. CASE lastreceiveddatacount' = lastreceiveddatacount
    BY <1>t, <2>1 DEF StepInv, CountersInStep, Top, Quiet, Chain
  <2>2. CASE /\ lastreceiveddatacount' = lastreceiveddatacount + 1
             /\ lastsentdatacount = lastreceiveddatacount + 1
             /\ lastsentdatacount <= file.blocks
    BY <1>t, <2>2 DEF CountersInStep, Top
  <2> QED
    BY <1>1, <2>1, <2>2
<1>3. PartnerKnown' /\ SendsWithinFile'
  BY <1>t DEF StepInv, PartnerKnown, SendsWithinFile, Quiet, Chain, StartQueued
<1>4. \A m \in net' \cup Msgs(sIo') \cup Msgs(rIo') :
         \/ m \in net \cup Msgs(sIo) \cup Msgs(rIo)
         \/ m.op = "ERROR"
         \/ MessageTrue(m, Top', lastreceiveddatacount')
  <2>1. lastreceiveddatacount' \in Nat
    BY <1>1, <1>t
  <2>2. ASSUME NEW m, m.op = "ACK", m.src = Receiver, m.num = lastreceiveddatacount'
        PROVE  MessageTrue(m, Top', lastreceiveddatacount')
    BY <2>1, <2>2 DEF MessageTrue
  <2> QED
    BY <1>t, <2>2, ErrorOps DEF ReceiverAdds
<1>5. MessagesTrue'
  BY <1>2, <1>4, MessagesKept DEF StepInv
<1> QED
  BY <1>2, <1>3, <1>5 DEF StepInv

LEMMA SendNextAckAdds ==
  ASSUME NEW io \in Session, Msgs(io) \subseteq Msgs(rIo),
         NEW out, \A m \in out : m.op = "ERROR", rSendNextAck(io, out)
  PROVE  ReceiverAdds
<1> DEFINE ack == AckMessage(mSenderEndpoint', lastreceiveddatacount')
<1>1. ack.op = "ACK" /\ ack.src = Receiver /\ ack.num = lastreceiveddatacount'
  BY DEF AckMessage
<1>2. /\ \/ net' = net \cup Leaving(io, out \cup {ack})
         \/ net' = net \cup Leaving(io, out \cup {})
         \/ net' = net \cup Leaving(io, out)
      /\ rIo' \in {Queue(io, "sent", NoMsg), io, AsyncReceive(ArmTimer(io))}
  BY DEF rSendNextAck, rStartNextReceive
<1> HIDE DEF ack
<1>3. \A m \in net' : m \in net \/ m.op = "ERROR" \/ m = ack
  BY <1>2 DEF Leaving
<1>4. Msgs(rIo') \subseteq Msgs(io) \cup {NoMsg}
  BY <1>2, NoMsgType, TimerType, MsgsOfOperations
<1> QED
  BY <1>1, <1>3, <1>4 DEF ReceiverAdds

LEMMA ReceiverEndAdds ==
  ASSUME NEW io \in Session, Msgs(io) \subseteq Msgs(rIo) \cup {NoMsg},
         NEW out, NEW code, rEndOperation(code, io, out),
         \A m \in out : \/ m.op = "ERROR"
                        \/ /\ m.op = "ACK" /\ m.src = Receiver
                           /\ m.num = lastreceiveddatacount'
  PROVE  ReceiverAdds
<1>1. net' = net \cup Leaving(io, out) /\ rIo' = CloseSocket(io)
  BY DEF rEndOperation
<1>2. Msgs(rIo') \subseteq Msgs(io) \cup {NoMsg}
  BY <1>1, NoMsgType, MsgsOfOperations
<1> QED
  BY <1>1, <1>2 DEF ReceiverAdds, Leaving

LEMMA ReceiverRuns ==
  ASSUME TypeOK, NEW kinds, HandlerWaits(rIo, kinds)
  PROVE  /\ Running(rIo) \in Session /\ Msgs(Running(rIo)) \subseteq Msgs(rIo)
         /\ rIoInCheck \in Session /\ Msgs(rIoInCheck) \subseteq Msgs(rIo)
<1>1. rIo \in Session /\ rIo.handlers # << >>
  BY DEF TypeOK, ReceiverTypeOK, HandlerWaits
<1>2. Running(rIo) \in Session /\ rIoInCheck \in Session
  BY ReceiverHandlerType
<1>3. Msgs(Running(rIo)) \subseteq Msgs(rIo)
  BY <1>1, MsgsOfRunning
<1>4. Msgs(rIoInCheck) = Msgs(Running(rIo))
  BY <1>2, NoMsgType, MsgsOfOperations DEF rIoInCheck
<1> QED
  BY <1>2, <1>3, <1>4

LEMMA ReceiverStepAdds ==
  ASSUME TypeOK,
         \/ ReceiverHandler
         \/ (\E m \in net : rArrive(m)) \/ rExpire \/ rReceiveFails
  PROVE  ReceiverAdds
<1>e. /\ \A m \in {} : m.op = "ERROR"
      /\ \A e, c : \A m \in {rErrorMsg(e, c)} : m.op = "ERROR"
  BY ErrorOps
<1>1. CASE rStart
  <2> DEFINE io == Running(rIo)
             shut == CloseSocket(io)
  <2>1. /\ io \in Session /\ Msgs(io) \subseteq Msgs(rIo)
        /\ shut \in Session /\ ArmTimer(shut) \in Session
    BY <1>1, ReceiverRuns, CloseSocketType, TimerType DEF rStart
  <2>2. \/ /\ \E e, c : net' = net \cup Leaving(io, {rErrorMsg(e, c)})
           /\ rIo' \in {AsyncReceive(ArmTimer(shut)), shut}
        \/ rSendNextAck(io, {})
    BY <1>1 DEF rStart, rStartNextReceive
  <2> HIDE DEF io
  <2>3. /\ Msgs(shut) \subseteq Msgs(io) \cup {NoMsg}
        /\ Msgs(AsyncReceive(ArmTimer(shut))) \subseteq Msgs(shut) \cup {NoMsg}
    BY <2>1, NoMsgType, MsgsOfOperations
  <2> HIDE DEF shut
  <2>4. CASE /\ \E e, c : net' = net \cup Leaving(io, {rErrorMsg(e, c)})
             /\ rIo' \in {AsyncReceive(ArmTimer(shut)), shut}
    <3>1. \A m \in net' : m \in net \/ m.op = "ERROR"
      BY <2>4, ErrorOps DEF Leaving
    <3>2. Msgs(rIo') \subseteq Msgs(io) \cup {NoMsg}
      BY <2>3, <2>4
    <3> QED
      BY <2>1, <3>1, <3>2 DEF ReceiverAdds
  <2>5. CASE rSendNextAck(io, {})
    BY <1>e, <2>1, <2>5, SendNextAckAdds
  <2> QED
    BY <2>2, <2>4, <2>5
<1>2. CASE rAckSent
  <2> DEFINE io == ArmTimer(Running(rIo))
  <2>1. io \in Session /\ Msgs(io) \subseteq Msgs(rIo)
    BY <1>2, NoMsgType, ReceiverRuns, TimerType, MsgsOfOperations DEF rAckSent
  <2>2. rIo' = AsyncReceive(io) /\ net' = net
    BY <1>2 DEF rAckSent, rStartNextReceive
  <2> HIDE DEF io
  <2>3. Msgs(rIo') \subseteq Msgs(io) \cup {NoMsg}
    BY <2>1, <2>2, NoMsgType, MsgsOfOperations
  <2> QED
    BY <2>1, <2>2, <2>3 DEF ReceiverAdds
<1>3. CASE rHandleReadTimeout
  <2> DEFINE io == Running(rIo)
             idle == CancelSocket(io)
  <2>1. /\ io \in Session /\ Msgs(io) \subseteq Msgs(rIo)
        /\ idle \in Session /\ Msgs(idle) \subseteq Msgs(rIo) \cup {NoMsg}
    BY <1>3, NoMsgType, ReceiverRuns, CancelSocketType, MsgsOfOperations DEF rHandleReadTimeout
  <2>2. \/ net' = net /\ rIo' \in {io, idle}
        \/ \E e, c : rEndOperation("ERR_NOERR", idle, {rErrorMsg(e, c)})
    BY <1>3 DEF rHandleReadTimeout
  <2> HIDE DEF io, idle
  <2>3. CASE net' = net /\ rIo' \in {io, idle}
    BY <2>1, <2>3 DEF ReceiverAdds
  <2>4. CASE \E e, c : rEndOperation("ERR_NOERR", idle, {rErrorMsg(e, c)})
    BY <1>e, <2>1, <2>4, ReceiverEndAdds
  <2> QED
    BY <2>2, <2>3, <2>4
<1>4. CASE \/ rInvalid \/ rTooHigh \/ rOldBlock \/ rStoreFull \/ rStoreLast \/ rCannotStore
           \/ rForeign \/ rAborted \/ rReceiveFailed
  <2>1. \E kinds : HandlerWaits(rIo, kinds)
    BY <1>4 DEF rInvalid, rTooHigh, rOldBlock, rStoreFull, rStoreLast,
                rCannotStore, rForeign, rAborted, rReceiveFailed, rExpectedBlock, rChecks
  <2>2. rIoInCheck \in Session /\ Msgs(rIoInCheck) \subseteq Msgs(rIo)
    BY <2>1, ReceiverRuns
  <2> DEFINE errors(out) == \A m \in out : m.op = "ERROR"
  <2>a. errors({}) /\ \A e, c : errors({rErrorMsg(e, c)})
    BY <1>e
  <2>b. ASSUME NEW out, errors(out),
               rSendNextAck(rIoInCheck, out) \/ \E code : rEndOperation(code, rIoInCheck, out)
        PROVE  ReceiverAdds
    BY <2>2, <2>b, SendNextAckAdds, ReceiverEndAdds
  <2> HIDE DEF errors
  <2>3. CASE rInvalid \/ rTooHigh \/ rReceiveFailed \/ rCannotStore
    BY <2>3, <2>a, <2>b DEF rInvalid, rTooHigh, rReceiveFailed, rCannotStore, rAbort
  <2>4. CASE rOldBlock \/ rStoreFull \/ rForeign \/ rAborted
    BY <2>4, <2>a, <2>b DEF rOldBlock, rStoreFull, rForeign, rAborted
  <2>5. CASE rStoreLast
    <3> DEFINE ack == AckMessage(mSenderEndpoint', lastreceiveddatacount')
    <3>1. \/ rEndOperation("ERR_NOERR", rIoInCheck, {ack})
          \/ rIo' = rIoInCheck /\ net' = net
      BY <2>5 DEF rStoreLast, rSendLastAck
    <3>2. ack.op = "ACK" /\ ack.src = Receiver /\ ack.num = lastreceiveddatacount'
      BY DEF AckMessage
    <3> HIDE DEF ack
    <3>3. CASE rEndOperation("ERR_NOERR", rIoInCheck, {ack})
      BY <2>2, <3>2, <3>3, ReceiverEndAdds
    <3>4. CASE rIo' = rIoInCheck /\ net' = net
      BY <2>2, <3>4 DEF ReceiverAdds
    <3> QED
      BY <3>1, <3>3, <3>4
  <2> QED
    BY <1>4, <2>3, <2>4, <2>5
<1>5. CASE (\E m \in net : rArrive(m)) \/ rExpire \/ rReceiveFails
  <2>1. rIo \in Session /\ net \subseteq Datagram
    BY DEF TypeOK, ReceiverTypeOK
  <2>2. \E m \in Datagram : /\ m \in net \cup {NoMsg}
                            /\ rIo' \in {Arrives(rIo, m), TimerExpires(rIo), ReceiveFails(rIo)}
    BY <1>5, <2>1, NoMsgType DEF rArrive, rExpire, rReceiveFails
  <2>3. net' \subseteq net
    BY <1>5 DEF rArrive, rExpire, rReceiveFails, Delivered
  <2>4. Msgs(rIo') \subseteq net \cup Msgs(rIo) \cup {NoMsg}
    BY <2>1, <2>2, MsgsOfOperations
  <2> QED
    BY <2>3, <2>4 DEF ReceiverAdds
<1> QED
  BY <1>1, <1>2, <1>3, <1>4, <1>5 DEF ReceiverHandler

\* What a step of the receiver does to its counter and to what is stored.
LEMMA ReceiverStepStores ==
  ASSUME \/ ReceiverHandler
         \/ (\E m \in net : rArrive(m)) \/ rExpire \/ rReceiveFails
  PROVE  \/ UNCHANGED <<lastreceiveddatacount, output>>
         \/ /\ rExpectedBlock
            /\ \/ UNCHANGED output
               \/ outputState = "good" /\ output' = Append(output, rPiece)
<1>1. CASE rStoreFull \/ rStoreLast \/ rCannotStore
  BY <1>1 DEF rStoreFull, rStoreLast, rCannotStore, rWrite
<1>2. CASE rStart \/ rAckSent \/ rHandleReadTimeout
  BY <1>2, Zenon DEF rStart, rAckSent, rHandleReadTimeout
<1>3. CASE rInvalid \/ rTooHigh \/ rOldBlock \/ rForeign \/ rAborted \/ rReceiveFailed
  BY <1>3, Zenon DEF rInvalid, rTooHigh, rOldBlock, rForeign, rAborted, rReceiveFailed,
                     rAbort, rNothingWritten
<1>4. CASE (\E m \in net : rArrive(m)) \/ rExpire \/ rReceiveFails
  BY <1>4 DEF rArrive, rExpire, rReceiveFails, rEnv
<1> QED
  BY <1>1, <1>2, <1>3, <1>4 DEF ReceiverHandler

LEMMA ReceiverStepKeeps ==
  ASSUME TypeOK, TypeOK', PrefixInv, StepInv, UNCHANGED <<file, senderVars>>,
         \/ ReceiverHandler
         \/ (\E m \in net : rArrive(m)) \/ rExpire \/ rReceiveFails
  PROVE  StepInv'
<1>1. ReceiverAdds
  BY ReceiverStepAdds
<1>2. UNCHANGED lastreceiveddatacount \/ rExpectedBlock
  BY ReceiverStepStores
<1> QED
  BY <1>1, <1>2, ReceiverMovesKeeps

(***************************************************************************)
(* StepInv is inductive, with what is proved of the parts                  *)
(***************************************************************************)
LEMMA InitKeeps == Init => StepInv
<1> SUFFICES ASSUME Init PROVE StepInv
  OBVIOUS
<1>t. TypeOK /\ SenderWaits /\ file.blocks \in Nat \ {0} /\ MaxBlock \in Nat \ {0}
  BY InitType, InitWaits, WireAssumption DEF TypeOK, Files
<1>1. /\ sIo \in {FreshSession("start"), FreshSession("sent")}
      /\ rIo \in {FreshSession("start"), FreshSession("sent")}
      /\ net \subseteq Noise
  BY DEF Init, InitRRQ, InitRRQ_OACK, InitRRQ_DATA1, InitWRQ, InitWRQ_OACK, InitWRQ_ACK0,
         SenderInit, ReceiverInit, NewSession
<1>2. /\ StartQueued(FreshSession("start")) /\ ~StartQueued(FreshSession("sent"))
      /\ Msgs(FreshSession("start")) = {NoMsg} /\ Msgs(FreshSession("sent")) = {NoMsg}
  BY DEF StartQueued, FreshSession, Msgs
<1>3. \/ /\ lastsentdatacount \in {0, 1} /\ lastreceiveddatacount = 0
         /\ sIo = FreshSession("start") /\ sendingdone = FALSE
      \/ /\ lastsentdatacount = 1 /\ lastreceiveddatacount = 1
         /\ sIo = FreshSession("sent") /\ \E len \in BytesRead(1) : sendingdone = Short(len)
  BY DEF Init, InitRRQ, InitRRQ_OACK, InitRRQ_DATA1, InitWRQ, InitWRQ_OACK, InitWRQ_ACK0,
         SenderInit, ReceiverInit, NewSession
<1>4. /\ mReceiverEndpoint \in {NoEndpoint, Receiver}
      /\ mReceiverEndpoint = NoEndpoint => lastsentdatacount = 0
  BY DEF Init, InitRRQ, InitRRQ_OACK, InitRRQ_DATA1, InitWRQ, InitWRQ_OACK, InitWRQ_ACK0,
         SenderInit, Receiver, NoEndpoint
<1>5. CountersInStep /\ PartnerKnown
  BY <1>t, <1>3, <1>4 DEF CountersInStep, PartnerKnown, Top
<1>6. SendsWithinFile
  <2>1. CASE sIo = FreshSession("start") /\ sendingdone = FALSE /\ lastsentdatacount \in {0, 1}
    BY <1>t, <1>2, <2>1 DEF SendsWithinFile
  <2>2. CASE /\ lastsentdatacount = 1
             /\ sIo = FreshSession("sent") /\ \E len \in BytesRead(1) : sendingdone = Short(len)
    <3>1. PICK len \in BytesRead(1) : sendingdone = Short(len)
      BY <2>2
    <3>2. 1 \in 1 .. file.blocks
      BY <1>t
    <3>3. /\ 1 = file.blocks => Short(len)
          /\ Short(len) => 1 = file.blocks \/ "read" \in Faults
      BY <1>t, <3>2, LastBlockIsShort
    <3> QED
      BY <1>t, <1>2, <2>2, <3>1, <3>3 DEF SendsWithinFile
  <2> QED
    BY <1>3, <2>1, <2>2
<1>7. MessagesTrue
  <2>1. \A m \in Noise : MessageTrue(m, Top, lastreceiveddatacount)
    BY WireAssumption DEF MessageTrue, Stranger, Sender
  <2>2. MessageTrue(NoMsg, Top, lastreceiveddatacount)
    BY ErrorOps, ErrorsTrue
  <2> QED
    BY <1>1, <1>2, <2>1, <2>2 DEF MessagesTrue
<1> QED
  BY <1>5, <1>6, <1>7 DEF StepInv

(***************************************************************************)
(* A block that the sender could not read all of is the last one           *)
(***************************************************************************)
\* The sender's DATA that has still to be taken in.
Datas == {m \in net \cup Msgs(rIo) : m.op = "DATA" /\ m.src = Sender}

\* The sender reads nothing any more, and no later block is on its way.
IsLast(piece) == input = "failed" /\ \A m \in Datas : m.num <= piece.block

CutInv ==
  /\ \A m \in Datas : Cut(m) => IsLast(m)
  /\ \A i \in DOMAIN output : Cut(output[i]) => IsLast(output[i])
  /\ NothingAfterCut

LEMMA InitCut == Init => CutInv
<1> SUFFICES ASSUME Init PROVE CutInv
  OBVIOUS
<1>1. TypeOK /\ file \in Files(SenderBlockSize)
  BY InitType DEF TypeOK
<1>2. Datas = {}
  <2>1. \A m \in net : m.src = Stranger
    BY WireAssumption DEF Init
  <2>2. rIo \in {FreshSession("start"), FreshSession("sent")}
    BY DEF Init, InitRRQ, InitRRQ_OACK, InitRRQ_DATA1, InitWRQ, InitWRQ_OACK, InitWRQ_ACK0,
           ReceiverInit, NewSession
  <2>3. \A m \in Msgs(rIo) : m.op = "ERROR"
    BY <2>2, ErrorOps DEF FreshSession, Msgs
  <2> QED
    BY <2>1, <2>3 DEF Datas, Stranger, Sender
<1>3. \/ output = << >>
      \/ \E len \in BytesRead(1) : /\ input = IF Short(len) THEN "failed" ELSE "good"
                                   /\ output = <<[block |-> 1, len |-> len]>>
  BY DEF Init, InitRRQ, InitRRQ_OACK, InitRRQ_DATA1, InitWRQ, InitWRQ_OACK, InitWRQ_ACK0,
         ReceiverInit
<1>4. CASE output = << >>
  BY <1>2, <1>4 DEF CutInv, NothingAfterCut
<1>5. ASSUME NEW len \in BytesRead(1), input = IF Short(len) THEN "failed" ELSE "good",
             output = <<[block |-> 1, len |-> len]>>
      PROVE  CutInv
  <2>1. 1 \in 1 .. file.blocks
    BY <1>1 DEF Files
  <2>2. Cut(output[1]) => Short(len)
    BY <1>1, <1>5, <2>1, LastBlockIsShort DEF Cut
  <2>3. DOMAIN output = {1} /\ Len(output) = 1
    BY <1>5
  <2> QED
    BY <1>2, <1>5, <2>2, <2>3 DEF CutInv, IsLast, NothingAfterCut
<1> QED
  BY <1>3, <1>4, <1>5

\* A step of the sender sends errors, or what it read of the block it is at.
LEMMA SenderStepReads ==
  ASSUME TypeOK,
         \/ SenderHandler
         \/ (\E m \in net : sArrive(m)) \/ sExpire \/ sReceiveFails
  PROVE  \/ /\ \A m \in net' : m \in net \/ m.op = "ERROR"
            /\ input' \in {input, "failed"}
         \/ /\ input = "good" /\ lastsentdatacount' # 0
            /\ \E len \in BytesRead(lastsentdatacount') :
                 /\ \A m \in net' : \/ m \in net \/ m.op = "ERROR"
                                    \/ m = DataMessage(mReceiverEndpoint', lastsentdatacount', len)
                 /\ input' = IF Short(len) THEN "failed" ELSE input
<1> DEFINE errors(out) == \A m \in out : m.op = "ERROR"
           Quietly == /\ \A m \in net' : m \in net \/ m.op = "ERROR"
                      /\ input' \in {input, "failed"}
           Reads(n) == /\ input = "good" /\ n # 0
                       /\ \E len \in BytesRead(n) :
                            /\ \A m \in net' : \/ m \in net \/ m.op = "ERROR"
                                               \/ m = DataMessage(mReceiverEndpoint', n, len)
                            /\ input' = IF Short(len) THEN "failed" ELSE input
<1>o. errors({}) /\ \A e, c : errors({sErrorMsg(e, c)})
  BY ErrorOps
<1>b. ASSUME NEW n, NEW io, NEW out, errors(out), sSendNextBlock(n, io, out)
      PROVE  Quietly \/ Reads(n)
  <2>1. CASE sGiveUpReading(io, out)
    BY <1>b, <1>o, <2>1 DEF sGiveUpReading, sEndOperation, Leaving
  <2>2. ASSUME ~Unreadable(n), NEW len \in BytesRead(n), sSendBlock(n, len, io, out)
        PROVE  Reads(n)
    <3>1. input = "good" /\ n # 0
      BY <2>2 DEF Unreadable, TypeOK, SenderTypeOK
    <3>2. \A m \in net' : \/ m \in net \/ m.op = "ERROR"
                          \/ m = DataMessage(mReceiverEndpoint', n, len)
      BY <1>b, <2>2 DEF sSendBlock, Leaving
    <3>3. input' = IF Short(len) THEN "failed" ELSE input
      BY <2>2 DEF sSendBlock
    <3> QED
      BY <3>1, <3>2, <3>3
  <2> QED
    BY <1>b, <2>1, <2>2 DEF sSendNextBlock
<1>s. ASSUME NEW code, NEW io, NEW out, errors(out), sEndOperation(code, io, out),
             UNCHANGED input
      PROVE  Quietly
  BY <1>s DEF sEndOperation, Leaving
<1> HIDE DEF errors, Reads
<1>1. CASE UNCHANGED <<net, input>>
  BY <1>1
<1>2. CASE \E m \in net : sArrive(m)
  BY <1>2 DEF sArrive, Delivered, sEnv, sStream
<1>3. CASE sStart
  <2>1. lastsentdatacount' = lastsentdatacount
    BY <1>3 DEF sStart
  <2>2. \/ sSendNextBlock(lastsentdatacount', Running(sIo), {})
        \/ UNCHANGED <<net, input>>
        \/ /\ UNCHANGED input
           /\ \E e, c, code : sEndOperation(code, Running(sIo), {sErrorMsg(e, c)})
    BY <1>3, <2>1 DEF sStart, sStream
  <2> QED
    BY <1>1, <1>b, <1>s, <1>o, <2>2 DEF Reads
<1>4. CASE sHandleReadTimeout
  BY <1>4, <1>1, <1>s, <1>o DEF sHandleReadTimeout, sStream
<1>5. CASE sBadOpcode \/ sHighAck
  BY <1>5, <1>s, <1>o DEF sBadOpcode, sHighAck, sAbort, sStream
<1>6. CASE sLowAck \/ sRunt \/ sForeign
  <2>1. lastsentdatacount' = lastsentdatacount
    BY <1>6 DEF sLowAck, sRunt, sForeign
  <2>2. \E out : errors(out) /\ sSendNextBlock(lastsentdatacount', sIoInCheck, out)
    BY <1>6, <1>o, <2>1 DEF sLowAck, sRunt, sForeign
  <2> QED
    BY <1>b, <2>2 DEF Reads
<1>7. CASE sExpectedAck
  <2>1. \/ sSendNextBlock(lastsentdatacount', sIoInCheck, {})
        \/ UNCHANGED input /\ sEndOperation("ERR_NOERR", sIoInCheck, {})
    BY <1>7 DEF sExpectedAck, sStream
  <2> QED
    BY <1>b, <1>s, <1>o, <2>1 DEF Reads
<1>8. CASE sNoDatagram
  <2> DEFINE out == IF sFromPartner(mLastReceivedReceiverEndpoint) THEN {}
                    ELSE {sErrorMsg(mLastReceivedReceiverEndpoint, ERR_UNKNOWN_TR_ID)}
  <2>1. errors(out)
    BY <1>o
  <2>2. /\ lastsentdatacount' = lastsentdatacount
        /\ sSendNextBlock(lastsentdatacount, sIoInCheck, out)
    BY <1>8 DEF sNoDatagram
  <2> HIDE DEF out
  <2> QED
    BY <1>b, <2>1, <2>2 DEF Reads
<1>9. sBlockSent \/ sExpire \/ sReceiveFails => UNCHANGED <<net, input>>
  BY DEF sBlockSent, sExpire, sReceiveFails, sEnv, sStream
<1> QED
  BY <1>1, <1>2, <1>3, <1>4, <1>5, <1>6, <1>7, <1>8, <1>9 DEF SenderHandler

LEMMA SenderStepCuts ==
  ASSUME TypeOK, TypeOK', StepInv', CutInv, UNCHANGED <<file, receiverVars>>,
         \/ SenderHandler
         \/ (\E m \in net : sArrive(m)) \/ sExpire \/ sReceiveFails
  PROVE  CutInv'
<1>u. UNCHANGED <<file, output, rIo>>
  BY DEF receiverVars
<1>c. /\ \A m : Cut(m)' <=> Cut(m)
      /\ NothingAfterCut'
  BY <1>u DEF Cut, CutInv, NothingAfterCut, BlockLen
<1>m. Msgs(rIo') = Msgs(rIo)
  BY <1>u
<1>1. CASE /\ \A m \in net' : m \in net \/ m.op = "ERROR"
           /\ input' \in {input, "failed"}
  <2>1. Datas' \subseteq Datas
    BY <1>1, <1>u DEF Datas, Msgs
  <2> QED
    BY <1>1, <1>u, <1>c, <2>1 DEF CutInv, IsLast, Cut
<1>2. ASSUME input = "good", lastsentdatacount' # 0,
             NEW len \in BytesRead(lastsentdatacount'),
             \A m \in net' : \/ m \in net \/ m.op = "ERROR"
                             \/ m = DataMessage(mReceiverEndpoint', lastsentdatacount', len),
             input' = IF Short(len) THEN "failed" ELSE input
      PROVE  CutInv'
  <2> DEFINE n == lastsentdatacount'
             data == DataMessage(mReceiverEndpoint', n, len)
  <2>1. data.block = n /\ data.len = len
    BY DEF DataMessage
  <2>2. \A m \in Datas' : m \in Datas \/ m = data
    BY <1>2, <1>u DEF Datas, Msgs
  <2>3. (\A m \in Datas : ~Cut(m)) /\ \A i \in DOMAIN output : ~Cut(output[i])
    BY <1>2 DEF CutInv, IsLast
  <2>4. \A m \in Datas' : m.num <= n
    <3>1. Top' = n
      BY <1>2 DEF Top
    <3>2. \A m \in Datas' : m.num \in 1 .. Top'
      BY DEF StepInv, MessagesTrue, MessageTrue, Datas
    <3> QED
      BY <3>1, <3>2 DEF TypeOK, SenderTypeOK
  <2>5. Cut(data) => Short(len)
    <3>1. n \in Nat /\ len \in 0 .. SenderBlockSize
      BY BytesReadType DEF TypeOK, SenderTypeOK
    <3>2. BlockLen(n, SenderBlockSize) \in 0 .. SenderBlockSize
      BY <3>1, BlockLenType DEF TypeOK
    <3> HIDE DEF n, data
    <3> QED
      BY <2>1, <3>1, <3>2, TransferAssumption DEF Cut, Short
  <2> HIDE DEF n, data
  <2>6. \A m \in Datas' : Cut(m)' => m = data /\ input' = "failed"
    BY <1>2, <1>c, <2>2, <2>3, <2>5
  <2>7. \A i \in DOMAIN output' : ~Cut(output[i])'
    BY <1>u, <1>c, <2>3 DEF Cut
  <2>8. \A m \in Datas' : Cut(m)' => IsLast(m)'
    BY <2>1, <2>4, <2>6 DEF IsLast
  <2> QED
    BY <1>u, <1>c, <2>7, <2>8 DEF CutInv
<1> QED
  BY <1>1, <1>2, SenderStepReads

\* The block the receiver expects is a DATA that was still on its way, so
\* nothing that it has stored was cut short.
LEMMA NothingCutBefore ==
  ASSUME TypeOK, PrefixInv, StepInv, CutInv, rExpectedBlock
  PROVE  /\ rReceived \in Datas
         /\ \A i \in DOMAIN output : ~Cut(output[i])
<1>1. /\ rReceived \in Datas /\ rReceived.num = lastreceiveddatacount + 1
  BY ExpectedBlock, ExpectedPiece DEF Datas
<1>2. ASSUME NEW i \in DOMAIN output, Cut(output[i]) PROVE FALSE
  <2>1. output[i].block = i /\ i \in Nat /\ i <= Len(output)
    BY <1>2 DEF PrefixInv, InOrder, TypeOK, ReceiverTypeOK
  <2>2. rReceived.num <= i
    BY <1>1, <1>2, <2>1 DEF CutInv, IsLast
  <2>3. Len(output) <= lastreceiveddatacount
    BY DEF PrefixInv
  <2> QED
    BY <1>1, <2>1, <2>2, <2>3 DEF TypeOK, ReceiverTypeOK
<1> QED
  BY <1>1, <1>2

LEMMA ReceiverStepCuts ==
  ASSUME TypeOK, PrefixInv, StepInv, CutInv, UNCHANGED <<file, senderVars>>,
         \/ ReceiverHandler
         \/ (\E m \in net : rArrive(m)) \/ rExpire \/ rReceiveFails
  PROVE  CutInv'
<1>u. UNCHANGED <<file, input>> /\ \A m : Cut(m)' <=> Cut(m)
  BY DEF senderVars, sStream, Cut, BlockLen
<1>d. Datas' \subseteq Datas
  <2>1. ReceiverAdds
    BY ReceiverStepAdds
  <2> QED
    BY <2>1, ErrorOps DEF ReceiverAdds, Datas, Msgs
<1>l. \A p : IsLast(p) => IsLast(p)'
  BY <1>u, <1>d DEF IsLast
<1>1. \A m \in Datas' : Cut(m)' => IsLast(m)'
  BY <1>u, <1>d, <1>l DEF CutInv
<1>2. CASE UNCHANGED output
  BY <1>u, <1>l, <1>1, <1>2 DEF CutInv, NothingAfterCut, Cut, IsLast
<1>3. CASE rExpectedBlock /\ outputState = "good" /\ output' = Append(output, rPiece)
  <2>1. /\ rReceived \in Datas
        /\ \A i \in DOMAIN output : ~Cut(output[i])
    BY <1>3, NothingCutBefore
  <2>2. rPiece.block = rReceived.block /\ rPiece.len = rReceived.len
    BY <1>3, ExpectedPiece DEF rExpectedBlock
  <2>3. Cut(rPiece) => input' = "failed" /\ \A m \in Datas' : m.num <= rPiece.block
    BY <1>u, <1>d, <2>1, <2>2 DEF CutInv, IsLast, Cut
  <2>4. output \in Seq(Piece) /\ rPiece \in Piece
    BY <1>3, ReceiverHandlerType DEF TypeOK, ReceiverTypeOK, rExpectedBlock, rChecks
  <2>5. /\ Len(output') = Len(output) + 1
        /\ \A i \in DOMAIN output' : \/ i \in DOMAIN output /\ output'[i] = output[i]
                                     \/ i = Len(output') /\ output'[i] = rPiece
    BY <1>3, <2>4
  <2>6. \A i \in DOMAIN output' :
           Cut(output'[i]) => i = Len(output') /\ output'[i] = rPiece
    BY <2>1, <2>5
  <2>7. ASSUME NEW i \in DOMAIN output', Cut(output[i])'
        PROVE  i = Len(output') /\ IsLast(output[i])'
    <3>1. Cut(output'[i])
      BY <1>u, <2>7 DEF Cut, BlockLen
    <3>2. i = Len(output') /\ output'[i] = rPiece
      BY <2>6, <2>7, <3>1
    <3>3. Cut(rPiece)
      BY <3>1, <3>2
    <3> QED
      BY <2>3, <3>2, <3>3 DEF IsLast
  <2> QED
    BY <1>1, <2>7 DEF CutInv, NothingAfterCut
<1> QED
  BY <1>2, <1>3, ReceiverStepStores

\* The inductive invariant of this module.
TransferInv == TypeOK /\ PrefixInv /\ SenderWaits /\ ReceiverWaits /\ StepInv /\ CutInv

LEMMA InitTransfer == Init => TransferInv
  BY InitType, InitPrefix, InitWaits, InitKeeps, InitCut DEF TransferInv

LEMMA StepTransfer == TransferInv /\ [Next]_vars => TransferInv'
<1> SUFFICES ASSUME TransferInv, [Next]_vars PROVE TransferInv'
  OBVIOUS
<1>1. TypeOK' /\ PrefixInv' /\ SenderWaits' /\ ReceiverWaits'
  BY StepType, StepPrefix, StepWaits DEF TransferInv
<1>2. CASE /\ \/ SenderHandler
              \/ (\E m \in net : sArrive(m)) \/ sExpire \/ sReceiveFails
           /\ UNCHANGED <<file, receiverVars>>
  BY <1>1, <1>2, SenderStepKeeps, SenderStepCuts DEF TransferInv
<1>3. CASE /\ \/ ReceiverHandler
              \/ (\E m \in net : rArrive(m)) \/ rExpire \/ rReceiveFails
           /\ UNCHANGED <<file, senderVars>>
  BY <1>1, <1>3, ReceiverStepKeeps, ReceiverStepCuts DEF TransferInv
<1>4. CASE UNCHANGED vars
  BY <1>1, <1>4
     DEF TransferInv, StepInv, CountersInStep, PartnerKnown, SendsWithinFile, MessagesTrue,
         MessageTrue, Msgs, Top, Quiet, Chain, StartQueued, vars, senderVars, receiverVars,
         sStream, sPartner, CutInv, IsLast, Datas, Cut, NothingAfterCut, BlockLen
<1> QED
  BY <1>1, <1>2, <1>3, <1>4, StepOfOneSide DEF TransferInv

\* Whatever the network, the timers and other hosts do, and wherever sending,
\* receiving, opening, reading or writing fails: what a receiver has written
\* is the beginning of the file, each block once and in order; all of them in
\* full but the last one, which a failure to read may have cut short.
THEOREM PrefixCorrect == Spec => []OutputIsPrefix
<1>1. TransferInv => OutputIsPrefix
  BY DEF TransferInv, PrefixInv, CutInv, OutputIsPrefix
<1> QED
  BY <1>1, InitTransfer, StepTransfer, PTL DEF Spec

(***************************************************************************)
(* The transfer implements StopAndWait                                     *)
(***************************************************************************)
\* What is read of a block of the file is a piece of it.
LEMMA ReadPieces ==
  ASSUME NEW n \in Nat, n <= file.blocks, file.blocks \in Nat
  PROVE  /\ SW!LengthOf(n) = BlockLen(n, SenderBlockSize)
         /\ \A len \in BytesRead(n) : [block |-> n, len |-> len] \in SW!PiecesOf(n)
<1>1. SW!LengthOf(n) = BlockLen(n, SenderBlockSize)
  BY DEF SW!LengthOf, BlockLen
<1> QED
  BY <1>1 DEF SW!PiecesOf, BytesRead

LEMMA StartsAsPromised == Init => SW!Init
<1> SUFFICES ASSUME Init PROVE SW!Init
  OBVIOUS
<1>1. TypeOK /\ PrefixInv /\ StepInv
  BY InitType, InitPrefix, InitKeeps
<1>2. \/ lastreceiveddatacount = 0 /\ output = << >>
      \/ /\ lastreceiveddatacount = 1
         /\ \E len \in BytesRead(1) : output = <<[block |-> 1, len |-> len]>>
  BY DEF Init, InitRRQ, InitRRQ_OACK, InitRRQ_DATA1, InitWRQ, InitWRQ_OACK, InitWRQ_ACK0,
         ReceiverInit
<1>3. /\ lastsentdatacount \in {0, 1}
      /\ lastsentdatacount = 0 => lastreceiveddatacount = 0
  BY DEF Init, InitRRQ, InitRRQ_OACK, InitRRQ_DATA1, InitWRQ, InitWRQ_OACK, InitWRQ_ACK0,
         SenderInit, ReceiverInit
<1>4. Acked = 0
  BY <1>3 DEF Acked
<1>5. file.blocks \in Nat \ {0}
  BY <1>1 DEF TypeOK, Files
<1>6. \A len \in BytesRead(1) : [block |-> 1, len |-> len] \in SW!PiecesOf(1)
  BY <1>5, ReadPieces
<1> QED
  BY <1>2, <1>4, <1>6 DEF SW!Init

\* Only the ACK it expects tells the sender of a block: Confirm.
LEMMA SenderStepPromised ==
  ASSUME TransferInv, UNCHANGED <<file, receiverVars>>,
         \/ SenderHandler
         \/ (\E m \in net : sArrive(m)) \/ sExpire \/ sReceiveFails
  PROVE  [SW!Next]_(SW!vars)
<1>t. /\ TypeOK /\ SenderWaits /\ StepInv
      /\ lastsentdatacount \in 0 .. MaxBlock /\ MaxBlock \in Nat \ {0}
      /\ lastreceiveddatacount \in Nat
      /\ UNCHANGED <<file, output, lastreceiveddatacount>>
  BY WireAssumption DEF TransferInv, TypeOK, SenderTypeOK, ReceiverTypeOK, receiverVars
<1>1. CASE UNCHANGED lastsentdatacount
  BY <1>t, <1>1 DEF Acked, SW!vars
<1>2. CASE sExpectedAck
  <2>1. /\ lastreceiveddatacount = lastsentdatacount
        /\ lastsentdatacount' = BlockAfter(lastsentdatacount)
    BY <1>t, <1>2, ExpectedAck DEF sExpectedAck
  <2>2. CASE lastsentdatacount = 0
    BY <1>t, <2>1, <2>2 DEF Acked, BlockAfter, SW!vars
  <2>3. CASE lastsentdatacount # 0
    <3>1. Acked = lastsentdatacount - 1 /\ Acked' = lastreceiveddatacount
      BY <1>t, <2>1, <2>3 DEF Acked, BlockAfter
    <3> QED
      BY <1>t, <2>1, <2>3, <3>1 DEF SW!Next, SW!Confirm
  <2> QED
    BY <2>2, <2>3
<1>3. sExpectedAck \/ UNCHANGED lastsentdatacount
  BY DEF SenderHandler, sStart, sBlockSent, sHandleReadTimeout, sBadOpcode, sHighAck, sAbort,
         sLowAck, sForeign, sNoDatagram, sRunt, sArrive, sExpire, sReceiveFails, sEnv
<1> QED
  BY <1>1, <1>2, <1>3

\* Only the block it expects makes the receiver count and store: Take.
LEMMA ReceiverStepPromised ==
  ASSUME TransferInv, UNCHANGED <<file, senderVars>>,
         \/ ReceiverHandler
         \/ (\E m \in net : rArrive(m)) \/ rExpire \/ rReceiveFails
  PROVE  [SW!Next]_(SW!vars)
<1>t. /\ TypeOK /\ PrefixInv /\ StepInv /\ CutInv
      /\ lastsentdatacount \in Nat /\ lastreceiveddatacount \in Nat /\ file.blocks \in Nat
      /\ UNCHANGED <<file, lastsentdatacount>>
  BY DEF TransferInv, TypeOK, SenderTypeOK, ReceiverTypeOK, Files, senderVars
<1>1. CASE UNCHANGED <<lastreceiveddatacount, output>>
  BY <1>t, <1>1 DEF Acked, SW!vars
<1>2. CASE /\ rExpectedBlock
           /\ \/ UNCHANGED output
              \/ outputState = "good" /\ output' = Append(output, rPiece)
  <2>1. /\ lastreceiveddatacount' = lastreceiveddatacount + 1
        /\ lastsentdatacount = lastreceiveddatacount + 1
        /\ lastsentdatacount <= file.blocks
    BY <1>t, <1>2, ExpectedBlock
  <2>2. Acked = lastreceiveddatacount /\ Acked' = Acked
    <3>1. /\ lastsentdatacount # 0 /\ lastsentdatacount' = lastsentdatacount
          /\ lastsentdatacount - 1 = lastreceiveddatacount
      BY <1>t, <2>1
    <3> QED
      BY <3>1 DEF Acked
  <2>3. rPiece \in SW!PiecesOf(lastreceiveddatacount')
    <3>1. \E len \in BytesRead(lastreceiveddatacount') :
             rPiece = [block |-> lastreceiveddatacount', len |-> len]
      BY <1>t, <1>2, <2>1, ExpectedPiece
    <3>2. lastreceiveddatacount' \in Nat /\ lastreceiveddatacount' <= file.blocks
      BY <1>t, <2>1
    <3> QED
      BY <1>t, <3>1, <3>2, ReadPieces
  <2>5. SW!NothingCut
    <3>1. \A i \in DOMAIN output : ~Cut(output[i])
      BY <1>t, <1>2, NothingCutBefore
    <3>2. ASSUME NEW i \in DOMAIN output
          PROVE  output[i].len = SW!LengthOf(i)
      <4>1. i \in Nat /\ i <= Len(output) /\ Len(output) \in Nat
        BY <1>t DEF TypeOK, ReceiverTypeOK
      <4>2. i <= file.blocks
        BY <1>t, <4>1 DEF PrefixInv, StepInv, CountersInStep
      <4>3. output[i].block = i /\ output[i].len \in BytesRead(i)
        BY <1>t DEF PrefixInv, InOrder
      <4>4. output[i].len \in 0 .. BlockLen(i, SenderBlockSize)
        BY <1>t, <4>1, <4>3, BytesReadType DEF TypeOK
      <4>5. BlockLen(i, SenderBlockSize) \in Nat
        BY <1>t, <4>1, BlockLenType, TransferAssumption DEF TypeOK
      <4>6. output[i].len = BlockLen(i, SenderBlockSize)
        BY <3>1, <4>3, <4>4, <4>5 DEF Cut
      <4> QED
        BY <1>t, <4>1, <4>2, <4>6, ReadPieces
    <3> QED
      BY <3>2 DEF SW!NothingCut
  <2>4. outputState = "good" => Len(output) = lastreceiveddatacount
    BY <1>t DEF PrefixInv
  <2> QED
    BY <1>t, <1>2, <2>1, <2>2, <2>3, <2>4, <2>5 DEF SW!Next, SW!Take
<1> QED
  BY <1>1, <1>2, ReceiverStepStores

LEMMA StepsAsPromised == TransferInv /\ [Next]_vars => [SW!Next]_(SW!vars)
<1> SUFFICES ASSUME TransferInv, [Next]_vars PROVE [SW!Next]_(SW!vars)
  OBVIOUS
<1>1. CASE UNCHANGED vars
  BY <1>1 DEF vars, senderVars, receiverVars, Acked, SW!vars
<1> QED
  BY <1>1, SenderStepPromised, ReceiverStepPromised, StepOfOneSide

\* Whatever is lost, duplicated, delayed, resent or sent by another host, and
\* whatever fails, receiver and sender keep within one block of each other,
\* count only by the protocol's own steps and store nothing but the file.
THEOREM RefinementCorrect == Spec => ImplementsStopAndWait
  BY InitTransfer, StepTransfer, StartsAsPromised, StepsAsPromised, PTL
     DEF Spec, ImplementsStopAndWait, SW!Spec

(***************************************************************************)
(* What the sessions report                                                *)
(***************************************************************************)
\* A receiver reports ERR_NOERR for a transfer it does not give up only when
\* it has stored every block before the last one, and the last one is here, or
\* one that was cut short.
THEOREM ReceiverReportsTrue == Spec => ReceiverReportsSuccessWhenComplete
<1> DEFINE Reports == rResult = NoResult /\ rResult' = "ERR_NOERR"
           HasAll  == /\ \/ lastreceiveddatacount' = file.blocks
                         \/ rReceived.len \in BytesRead(rReceived.num) /\ Cut(rReceived)
                      /\ outputState = "good" /\ Len(output) >= lastreceiveddatacount
<1>1. ASSUME TransferInv, [Next]_vars, Reports
      PROVE  rTimeoutcount' > Retransmissions \/ HasAll
  <2>r. rResult' # rResult
    BY <1>1 DEF NoResult
  <2>1. ReceiverHandler /\ UNCHANGED <<file, senderVars>>
    <3>1. ~UNCHANGED vars /\ ~UNCHANGED receiverVars
      BY <2>r DEF vars, receiverVars
    <3>2. ~((\E m \in net : rArrive(m)) \/ rExpire \/ rReceiveFails)
      BY <2>r DEF rArrive, rExpire, rReceiveFails, rEnv
    <3> QED
      BY <1>1, <3>1, <3>2, StepOfOneSide
  <2>2. (rHandleReadTimeout /\ rTimeoutcount' > Retransmissions) \/ rStoreLast
    <3>1. \/ rStart \/ rAckSent \/ rHandleReadTimeout
          \/ rInvalid \/ rTooHigh \/ rOldBlock \/ rStoreFull \/ rStoreLast \/ rCannotStore
          \/ rForeign \/ rAborted \/ rReceiveFailed
      BY <2>1 DEF ReceiverHandler
    <3>2. ASSUME NEW io, NEW out, rSendNextAck(io, out) PROVE FALSE
      BY <2>r, <3>2 DEF rSendNextAck
    <3>3. ASSUME NEW code, code # "ERR_NOERR", NEW io, NEW out, rEndOperation(code, io, out)
          PROVE  FALSE
      BY <1>1, <3>3 DEF rEndOperation
    <3>4. ~rStart
      <4> SUFFICES ASSUME rStart PROVE FALSE
        OBVIOUS
      <4>1. \/ rSendNextAck(Running(rIo), {})
            \/ rResult' = IF rResult = NoResult THEN "ERR_OUTPUT_FILE_OPEN" ELSE rResult
        BY DEF rStart
      <4> QED
        BY <1>1, <3>2, <4>1
    <3>5. ~rAckSent
      BY <2>r DEF rAckSent
    <3>6. ~(rInvalid \/ rTooHigh \/ rCannotStore \/ rReceiveFailed)
      BY <3>3 DEF rInvalid, rTooHigh, rCannotStore, rReceiveFailed, rAbort
    <3>7. ~(rOldBlock \/ rStoreFull \/ rForeign \/ rAborted)
      BY <3>2 DEF rOldBlock, rStoreFull, rForeign, rAborted
    <3>8. rHandleReadTimeout => rTimeoutcount' > Retransmissions
      BY <2>r DEF rHandleReadTimeout
    <3> QED
      BY <3>1, <3>4, <3>5, <3>6, <3>7, <3>8
  <2>3. CASE rStoreLast
    <3>1. rExpectedBlock /\ outputState = "good" /\ ~rFull
      BY <2>3 DEF rStoreLast
    <3>t. /\ TypeOK /\ PrefixInv /\ StepInv
          /\ lastreceiveddatacount \in Nat /\ file.blocks \in Nat
      BY <1>1 DEF TransferInv, TypeOK, ReceiverTypeOK, Files
    <3>2. /\ lastreceiveddatacount' = lastreceiveddatacount + 1
          /\ lastreceiveddatacount + 1 <= file.blocks
      BY <3>1, <3>t, ExpectedBlock
    <3>3. /\ rReceived.num = lastreceiveddatacount + 1 /\ rReceived.block = rReceived.num
          /\ rReceived.len \in BytesRead(lastreceiveddatacount + 1)
      BY <3>1, <3>t, ExpectedBlock, ExpectedPiece
    <3>4. rReceived.len \in Nat
      BY <2>3, <3>1, <3>t, ReceiverHandlerType DEF rStoreLast, rExpectedBlock, rChecks, Datagram
    <3>5. Short(rReceived.len)
      BY <3>1, <3>4, TransferAssumption DEF rFull, Short
    <3>6. \/ lastreceiveddatacount + 1 = file.blocks
          \/ rReceived.len \in BytesRead(rReceived.num) /\ Cut(rReceived)
      <4>1. lastreceiveddatacount + 1 \in 1 .. file.blocks
        BY <3>2, <3>t
      <4> QED
        BY <3>3, <3>5, <3>t, <4>1, LastBlockIsShort DEF Cut
    <3>7. Len(output) = lastreceiveddatacount
      BY <3>1, <3>t DEF PrefixInv
    <3> QED
      BY <3>1, <3>2, <3>6, <3>7, <3>t
  <2> QED
    BY <2>2, <2>3
<1>2. TransferInv /\ [Next]_vars =>
        [ Reports => rTimeoutcount' > Retransmissions \/ HasAll ]_vars
  BY <1>1
<1> QED
  BY <1>2, InitTransfer, StepTransfer, PTL DEF Spec, ReceiverReportsSuccessWhenComplete

\* A sender reports ERR_NOERR for a transfer it does not give up, and that no
\* bad datagram ends, only when the receiver has every block, or every block
\* up to one that was cut short.
THEOREM SenderReportsTrue == Spec => SenderReportsSuccessWhenReceived
<1> DEFINE Reports == sResult = NoResult /\ sResult' = "ERR_NOERR"
           Told    == \/ sTimeoutcount' > Retransmissions
                      \/ sReceived.op # "ACK" \/ sReceived.num > lastsentdatacount
                      \/ lastreceiveddatacount = file.blocks
                      \/ "read" \in Faults /\ lastreceiveddatacount = lastsentdatacount
<1>1. ASSUME TransferInv, [Next]_vars, Reports
      PROVE  Told
  <2>r. sResult' # sResult
    BY <1>1 DEF NoResult
  <2>1. SenderHandler /\ UNCHANGED <<file, receiverVars>>
    <3>1. ~UNCHANGED vars /\ ~UNCHANGED senderVars
      BY <2>r DEF vars, senderVars
    <3>2. ~((\E m \in net : sArrive(m)) \/ sExpire \/ sReceiveFails)
      BY <2>r DEF sArrive, sExpire, sReceiveFails, sEnv
    <3> QED
      BY <1>1, <3>1, <3>2, StepOfOneSide
  <2>2. ASSUME NEW n, NEW io, NEW out, sSendNextBlock(n, io, out) PROVE FALSE
    BY <1>1, <2>2, <2>r DEF sSendNextBlock, sGiveUpReading, sSendBlock, sEndOperation
  <2>3. \/ sHandleReadTimeout \/ sBadOpcode \/ sHighAck
        \/ sExpectedAck /\ sendingdone
    <3>1. ~sBlockSent
      BY <2>r DEF sBlockSent
    <3>2. ~sStart
      <4> SUFFICES ASSUME sStart PROVE FALSE
        OBVIOUS
      <4>1. \/ sResult' = IF sResult = NoResult THEN "ERR_INPUT_FILE_OPEN" ELSE sResult
            \/ sSendNextBlock(1, Running(sIo), {})
            \/ UNCHANGED sResult
        BY DEF sStart, sEndOperation
      <4> QED
        BY <1>1, <2>2, <2>r, <4>1
    <3>3. ~(sLowAck \/ sForeign \/ sNoDatagram \/ sRunt)
      BY <2>2, Zenon DEF sLowAck, sForeign, sNoDatagram, sRunt
    <3>4. sExpectedAck => sendingdone
      BY <2>2 DEF sExpectedAck
    <3> QED
      BY <2>1, <3>1, <3>2, <3>3, <3>4 DEF SenderHandler
  <2>4. CASE sHandleReadTimeout
    BY <2>4, <2>r DEF sHandleReadTimeout
  <2>5. CASE sBadOpcode \/ sHighAck
    BY <2>5 DEF sBadOpcode, sHighAck, sChecks
  <2>6. CASE sExpectedAck /\ sendingdone
    BY <1>1, <2>6, ExpectedAck DEF TransferInv
  <2> QED
    BY <2>3, <2>4, <2>5, <2>6
<1>2. TransferInv /\ [Next]_vars => [ Reports => Told ]_vars
  BY <1>1
<1> QED
  BY <1>2, InitTransfer, StepTransfer, PTL DEF Spec, SenderReportsSuccessWhenReceived
=============================================================================
