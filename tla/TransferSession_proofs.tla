------------------------ MODULE TransferSession_proofs ------------------------
(***************************************************************************)
(* What is proved of each session of a Transfer on its own: it waits for   *)
(* one thing at a time, and never for a datagram without a timer.          *)
(***************************************************************************)
EXTENDS Transfer_proofs

OneChain(io) == \A i, j \in Chain(io) : i = j

\* Nothing is outstanding, and no handler that continues the chain is queued.
Quiet(io) == Chain(io) = {}

StartQueued(io) == \E i \in DOMAIN io.handlers : io.handlers[i].kind = "start"

\* A session as a handler leaves it that has taken the chain one step further.
Settled(io) ==
  /\ OneChain(io)
  /\ io.receiving => io.open /\ io.armed
  /\ ~StartQueued(io)

\* What every session keeps to: one chain, and a closed socket receives nothing.
SessionInv(io) == OneChain(io) /\ (io.receiving => io.open)

(***************************************************************************)
(* The operations of AsioSession                                           *)
(***************************************************************************)
LEMMA QueueShape ==
  ASSUME NEW io \in Session, NEW k \in HandlerKinds, NEW m \in Datagram
  PROVE  /\ Queue(io, k, m).receiving = io.receiving
         /\ Queue(io, k, m).open = io.open
         /\ Queue(io, k, m).armed = io.armed
         /\ DOMAIN Queue(io, k, m).handlers = 1 .. Len(io.handlers) + 1
         /\ \A i \in DOMAIN io.handlers : /\ i \in 1 .. Len(io.handlers)
                                          /\ Queue(io, k, m).handlers[i] = io.handlers[i]
         /\ DOMAIN io.handlers = 1 .. Len(io.handlers) /\ Len(io.handlers) \in Nat
         /\ Queue(io, k, m).handlers[Len(io.handlers) + 1].kind = k
<1> DEFINE h == [kind |-> k, msg |-> m]
<1>1. h \in Handler /\ h.kind = k
  BY DEF Handler
<1>2. io.handlers \in Seq(Handler)
  BY DEF Session
<1>3. /\ Queue(io, k, m).receiving = io.receiving
      /\ Queue(io, k, m).open = io.open
      /\ Queue(io, k, m).armed = io.armed
      /\ Queue(io, k, m).handlers = Append(io.handlers, h)
  BY DEF Queue, Session
<1> HIDE DEF h
<1> QED
  BY <1>1, <1>2, <1>3

LEMMA RunningShape ==
  ASSUME NEW io \in Session, io.handlers # << >>
  PROVE  /\ Running(io).receiving = io.receiving
         /\ Running(io).open = io.open
         /\ Running(io).armed = io.armed
         /\ \A i \in DOMAIN Running(io).handlers :
              /\ i \in Nat \ {0} /\ i + 1 \in DOMAIN io.handlers
              /\ Running(io).handlers[i] = io.handlers[i + 1]
         /\ 1 \in DOMAIN io.handlers /\ Head(io.handlers) = io.handlers[1]
         /\ \A i \in DOMAIN io.handlers : i # 1 =>
              /\ i - 1 \in DOMAIN Running(io).handlers
              /\ Running(io).handlers[i - 1] = io.handlers[i]
<1>1. io.handlers \in Seq(Handler)
  BY DEF Session
<1>2. /\ Running(io).receiving = io.receiving
      /\ Running(io).open = io.open
      /\ Running(io).armed = io.armed
      /\ Running(io).handlers = Tail(io.handlers)
  BY DEF Running, Session
<1> QED
  BY <1>1, <1>2

\* A handler of the chain leaves nothing of the chain behind when it runs.
LEMMA RunningChain ==
  ASSUME NEW io \in Session, io.handlers # << >>, OneChain(io)
  PROVE  /\ OneChain(Running(io))
         /\ Head(io.handlers).kind \in ChainKinds => Quiet(Running(io))
<1>1. \A i \in Chain(Running(io)) :
        \/ i = 0 /\ 0 \in Chain(io)
        \/ i \in Nat \ {0} /\ i + 1 \in Chain(io)
  BY RunningShape DEF Chain
<1>2. OneChain(Running(io))
  <2> SUFFICES ASSUME NEW i \in Chain(Running(io)), NEW j \in Chain(Running(io))
               PROVE  i = j
    BY DEF OneChain
  <2> QED
    BY <1>1 DEF OneChain
<1>3. ASSUME Head(io.handlers).kind \in ChainKinds PROVE Quiet(Running(io))
  <2>1. 1 \in Chain(io)
    BY <1>3, RunningShape DEF Chain
  <2>2. \A i \in Chain(Running(io)) : FALSE
    BY <1>1, <2>1 DEF OneChain
  <2> QED
    BY <2>2 DEF Quiet
<1> QED
  BY <1>2, <1>3

LEMMA QueueChain ==
  ASSUME NEW io \in Session, NEW k \in HandlerKinds, NEW m \in Datagram
  PROVE  /\ Quiet(io) => OneChain(Queue(io, k, m))
         /\ k = "timeout" => Chain(Queue(io, k, m)) = Chain(io)
         /\ k # "start" => (StartQueued(Queue(io, k, m)) <=> StartQueued(io))
         /\ TimeoutQueued(io) \/ k = "timeout" => TimeoutQueued(Queue(io, k, m))
<1> DEFINE q == Queue(io, k, m)
           n == Len(io.handlers) + 1
<1>s. /\ q.receiving = io.receiving
      /\ DOMAIN q.handlers = 1 .. n
      /\ \A i \in DOMAIN io.handlers : q.handlers[i] = io.handlers[i]
      /\ DOMAIN io.handlers = 1 .. (n - 1) /\ n \in Nat \ {0}
      /\ q.handlers[n].kind = k
  BY QueueShape
<1> HIDE DEF q, n
<1>1. ASSUME Quiet(io) PROVE OneChain(q)
  <2>1. \A i \in Chain(q) : i = n
    BY <1>1, <1>s DEF Quiet, Chain
  <2> QED
    BY <2>1 DEF OneChain
<1>2. ASSUME k = "timeout" PROVE Chain(q) = Chain(io)
  BY <1>2, <1>s DEF Chain, ChainKinds
<1>3. ASSUME k # "start" PROVE StartQueued(q) <=> StartQueued(io)
  BY <1>3, <1>s DEF StartQueued
<1>4. TimeoutQueued(io) \/ k = "timeout" => TimeoutQueued(q)
  BY <1>s DEF TimeoutQueued
<1> QED
  BY <1>1, <1>2, <1>3, <1>4 DEF q

\* Chain, StartQueued and TimeoutQueued look at the handlers and `receiving'.
LEMMA SameChain ==
  ASSUME NEW io, NEW jo, jo.handlers = io.handlers, jo.receiving = io.receiving
  PROVE  /\ Chain(jo) = Chain(io)
         /\ StartQueued(jo) <=> StartQueued(io)
         /\ TimeoutQueued(jo) <=> TimeoutQueued(io)
  BY DEF Chain, StartQueued, TimeoutQueued

LEMMA QuietFacts ==
  ASSUME NEW io \in Session, Quiet(io)
  PROVE  ~io.receiving /\ OneChain(io) /\ ~StartQueued(io)
  BY DEF Quiet, OneChain, Chain, StartQueued, ChainKinds, HandlerKinds

\* Cancelling turns the receive into its handler.
LEMMA CancelChain ==
  ASSUME NEW io \in Session, OneChain(io)
  PROVE  /\ OneChain(CancelSocket(io))
         /\ ~CancelSocket(io).receiving
         /\ StartQueued(CancelSocket(io)) <=> StartQueued(io)
<1> DEFINE idle == [io EXCEPT !.receiving = FALSE]
<1>1. idle \in Session /\ idle.handlers = io.handlers /\ idle.receiving = FALSE
  BY DEF Session
<1> HIDE DEF idle
<1>k. "aborted" \in HandlerKinds /\ "aborted" # "start"
  BY DEF HandlerKinds
<1>2. CASE io.receiving
  <2>1. 0 \in Chain(io)
    BY <1>2 DEF Chain
  <2>2. \A i \in DOMAIN io.handlers : i # 0
    BY DEF Session
  <2>3. Quiet(idle)
    BY <1>1, <2>1, <2>2 DEF OneChain, Quiet, Chain
  <2>4. CancelSocket(io) = Queue(idle, "aborted", NoMsg)
    BY <1>2 DEF CancelSocket, idle
  <2>5. StartQueued(idle) <=> StartQueued(io)
    BY <1>1 DEF StartQueued
  <2> QED
    BY <1>1, <1>k, <2>3, <2>4, <2>5, NoMsgType, QueueShape, QueueChain
<1>3. CASE ~io.receiving
  BY <1>3 DEF CancelSocket
<1> QED
  BY <1>2, <1>3

LEMMA CloseChain ==
  ASSUME NEW io \in Session, OneChain(io)
  PROVE  /\ OneChain(CloseSocket(io))
         /\ ~CloseSocket(io).receiving
         /\ StartQueued(CloseSocket(io)) <=> StartQueued(io)
<1> DEFINE jo == CancelSocket(io)
<1>1. jo \in Session
  BY CancelSocketType
<1>2. CloseSocket(io).handlers = jo.handlers /\ CloseSocket(io).receiving = jo.receiving
  BY <1>1 DEF CloseSocket, Session
<1> HIDE DEF jo
<1>3. Chain(CloseSocket(io)) = Chain(jo) /\ (StartQueued(CloseSocket(io)) <=> StartQueued(jo))
  BY <1>2, SameChain
<1>4. OneChain(jo) /\ ~jo.receiving /\ (StartQueued(jo) <=> StartQueued(io))
  BY CancelChain DEF jo
<1> QED
  BY <1>2, <1>3, <1>4 DEF OneChain

\* What a handler can do to a quiet session leaves it settled.
LEMMA QuietSettles ==
  ASSUME NEW io \in Session, Quiet(io)
  PROVE  /\ Settled(io)
         /\ Settled(CloseSocket(io))
         /\ Quiet(CloseSocket(io))
         /\ Settled(Queue(io, "sent", NoMsg))
         /\ Settled(AsyncReceive(ArmTimer(io)))
         /\ OneChain(AsyncReceive(io))
         /\ AsyncReceive(io).receiving => AsyncReceive(io).open
<1>q. ~io.receiving /\ OneChain(io) /\ ~StartQueued(io)
  BY QuietFacts
<1>k. "sent" \in HandlerKinds /\ "failed" \in HandlerKinds
  BY DEF HandlerKinds
<1>1. Settled(io)
  BY <1>q DEF Settled
<1>2. Settled(CloseSocket(io))
  BY <1>q, CloseChain DEF Settled
<1>3. Quiet(CloseSocket(io))
  <2>1. CloseSocket(io).handlers = io.handlers /\ CloseSocket(io).receiving = io.receiving
    BY <1>q DEF CloseSocket, CancelSocket, Session
  <2> QED
    BY <2>1, SameChain DEF Quiet
<1>4. ASSUME NEW s \in Session, Quiet(s), NEW k \in {"sent", "failed"}
      PROVE  Settled(Queue(s, k, NoMsg))
  <2>1. ~s.receiving /\ ~StartQueued(s)
    BY <1>4, QuietFacts
  <2>2. k \in HandlerKinds /\ k # "start"
    BY <1>4 DEF HandlerKinds
  <2> QED
    BY <1>4, <2>1, <2>2, NoMsgType, QueueShape, QueueChain DEF Settled
<1>5. ASSUME NEW s \in Session, Quiet(s)
      PROVE  /\ OneChain(AsyncReceive(s))
             /\ AsyncReceive(s).receiving => AsyncReceive(s).open
             /\ AsyncReceive(s).armed = s.armed
             /\ ~StartQueued(AsyncReceive(s))
  <2> DEFINE busy == [s EXCEPT !.receiving = TRUE]
  <2>1. CASE s.open
    <3>1. /\ busy.handlers = s.handlers /\ busy.receiving = TRUE
          /\ busy.open = s.open /\ busy.armed = s.armed
      BY DEF Session
    <3>2. AsyncReceive(s) = busy
      BY <2>1 DEF AsyncReceive
    <3> HIDE DEF busy
    <3>3. \A i \in Chain(busy) : i = 0
      BY <1>5, <3>1 DEF Quiet, Chain
    <3>4. ~StartQueued(busy)
      BY <1>5, <3>1, QuietFacts DEF StartQueued
    <3> QED
      BY <2>1, <3>1, <3>2, <3>3, <3>4 DEF OneChain
  <2>2. CASE ~s.open
    <3>1. AsyncReceive(s) = Queue(s, "failed", NoMsg)
      BY <2>2 DEF AsyncReceive
    <3>2. Settled(AsyncReceive(s))
      BY <1>4, <1>5, <3>1
    <3> QED
      BY <1>k, <3>1, <3>2, NoMsgType, QueueShape DEF Settled
  <2> QED
    BY <2>1, <2>2
<1>6. Settled(AsyncReceive(ArmTimer(io)))
  <2> DEFINE s == ArmTimer(io)
  <2>1. s \in Session /\ s.handlers = io.handlers /\ s.receiving = io.receiving /\ s.armed
    BY DEF ArmTimer, Session
  <2> HIDE DEF s
  <2>2. Quiet(s)
    BY <2>1, SameChain DEF Quiet
  <2> QED
    BY <1>5, <2>1, <2>2 DEF Settled, s
<1> QED
  BY <1>1, <1>2, <1>3, <1>4, <1>5, <1>6

LEMMA CompletionChain ==
  ASSUME NEW io \in Session, OneChain(io), NEW m \in Datagram
  PROVE  /\ OneChain(TimerExpires(io)) /\ TimeoutQueued(TimerExpires(io))
         /\ TimerExpires(io).receiving = io.receiving /\ TimerExpires(io).open = io.open
         /\ StartQueued(TimerExpires(io)) <=> StartQueued(io)
         /\ io.receiving => /\ Settled(Arrives(io, m)) /\ ~Arrives(io, m).receiving
                            /\ Settled(ReceiveFails(io)) /\ ~ReceiveFails(io).receiving
<1> DEFINE idle == [io EXCEPT !.receiving = FALSE]
           unarmed == [io EXCEPT !.armed = FALSE]
<1>i. idle \in Session /\ idle.handlers = io.handlers /\ idle.receiving = FALSE
  BY DEF Session
<1>u. /\ unarmed \in Session /\ unarmed.handlers = io.handlers
      /\ unarmed.receiving = io.receiving /\ unarmed.open = io.open
  BY DEF Session
<1>k. {"timeout", "datagram", "failed"} \subseteq HandlerKinds
  BY DEF HandlerKinds
<1>a. /\ TimerExpires(io) = Queue(unarmed, "timeout", NoMsg)
      /\ Arrives(io, m) = Queue(idle, "datagram", m)
      /\ ReceiveFails(io) = Queue(idle, "failed", NoMsg)
  BY DEF TimerExpires, Arrives, ReceiveFails
<1> HIDE DEF idle, unarmed
<1>1. /\ Chain(TimerExpires(io)) = Chain(io) /\ TimeoutQueued(TimerExpires(io))
      /\ TimerExpires(io).receiving = io.receiving /\ TimerExpires(io).open = io.open
      /\ StartQueued(TimerExpires(io)) <=> StartQueued(io)
  BY <1>u, <1>k, <1>a, NoMsgType, SameChain, QueueShape, QueueChain
<1>2. ASSUME io.receiving
      PROVE  /\ Settled(Arrives(io, m)) /\ ~Arrives(io, m).receiving
             /\ Settled(ReceiveFails(io)) /\ ~ReceiveFails(io).receiving
  <2>1. 0 \in Chain(io) /\ \A i \in DOMAIN io.handlers : i # 0
    BY <1>2 DEF Chain, Session
  <2>2. Quiet(idle)
    BY <1>i, <2>1 DEF OneChain, Quiet, Chain
  <2>3. ~StartQueued(idle)
    BY <1>i, <2>2, QuietFacts
  <2> QED
    BY <1>i, <1>k, <1>a, <2>2, <2>3, NoMsgType, QueueShape, QueueChain DEF Settled
<1> QED
  BY <1>1, <1>2 DEF OneChain

(***************************************************************************)
(* The sender                                                              *)
(***************************************************************************)
SenderWaits ==
  /\ SessionInv(sIo)
  /\ StartQueued(sIo) => lastsentdatacount \in {0, 1}
  /\ sIo.receiving => sIo.armed \/ TimeoutQueued(sIo) \/ lastsentdatacount = 0

LEMMA SenderSettled ==
  ASSUME Settled(sIo')
  PROVE  SenderWaits'
  BY DEF Settled, SenderWaits, SessionInv, OneChain, Chain, StartQueued, TimeoutQueued

\* A handler of the chain starts from a quiet session.
LEMMA SenderQuiet ==
  ASSUME TypeOK, SenderWaits, HandlerWaits(sIo, ChainKinds)
  PROVE  /\ Running(sIo) \in Session /\ Quiet(Running(sIo))
         /\ sIoInCheck \in Session /\ Quiet(sIoInCheck)
<1>1. sIo \in Session /\ sIo.handlers # << >> /\ Head(sIo.handlers).kind \in ChainKinds
  BY DEF TypeOK, SenderTypeOK, HandlerWaits
<1>2. Running(sIo) \in Session /\ Quiet(Running(sIo))
  BY <1>1, RunningType, RunningChain DEF SenderWaits, SessionInv
<1>3. CancelTimer(Running(sIo)).handlers = Running(sIo).handlers
      /\ CancelTimer(Running(sIo)).receiving = Running(sIo).receiving
  BY <1>2 DEF CancelTimer, Session
<1> QED
  BY <1>2, <1>3, TimerType, SameChain DEF sIoInCheck, Quiet

LEMMA SendNextBlockSettles ==
  ASSUME NEW n, NEW io \in Session, Quiet(io), NEW out, sSendNextBlock(n, io, out)
  PROVE  Settled(sIo')
<1>1. sIo' \in {CloseSocket(io), Queue(io, "sent", NoMsg), io}
  BY DEF sSendNextBlock, sGiveUpReading, sSendBlock, sEndOperation
<1> QED
  BY <1>1, QuietSettles

LEMMA SenderStepWaits ==
  ASSUME TypeOK, SenderWaits,
         \/ SenderHandler
         \/ (\E m \in net : sArrive(m)) \/ sExpire \/ sReceiveFails
  PROVE  SenderWaits'
<1>k. {"start", "sent", "datagram", "aborted", "failed"} \subseteq ChainKinds
  BY DEF ChainKinds, HandlerKinds
<1>t. sIo \in Session
  BY DEF TypeOK, SenderTypeOK
<1>1. CASE sStart
  <2> DEFINE io == Running(sIo)
  <2>1. HandlerWaits(sIo, ChainKinds) /\ StartQueued(sIo)
    BY <1>1, <1>k, <1>t, RunningShape DEF sStart, HandlerWaits, StartQueued
  <2>2. io \in Session /\ Quiet(io)
    BY <2>1, SenderQuiet
  <2>3. \/ sIo' = CloseSocket(io)
        \/ sSendNextBlock(1, io, {})
        \/ sIo' = AsyncReceive(io) /\ lastsentdatacount # 1
    BY <1>1 DEF sStart, sEndOperation, sStartNextReceive
  <2>4. lastsentdatacount' \in {0, 1} /\ UNCHANGED lastsentdatacount
    BY <1>1, <2>1 DEF sStart, SenderWaits
  <2> HIDE DEF io
  <2>5. CASE sIo' = CloseSocket(io) \/ sSendNextBlock(1, io, {})
    BY <2>2, <2>5, QuietSettles, SendNextBlockSettles, SenderSettled
  <2>6. CASE sIo' = AsyncReceive(io) /\ lastsentdatacount # 1
    <3>1. OneChain(sIo') /\ (sIo'.receiving => sIo'.open)
      BY <2>2, <2>6, QuietSettles
    <3>2. lastsentdatacount' = 0
      BY <2>4, <2>6
    <3> QED
      BY <2>4, <3>1, <3>2 DEF SenderWaits, SessionInv, OneChain, Chain
  <2> QED
    BY <2>3, <2>5, <2>6
<1>2. CASE sBlockSent
  <2>1. Running(sIo) \in Session /\ Quiet(Running(sIo))
    BY <1>2, <1>k, SenderQuiet DEF sBlockSent, HandlerWaits
  <2>2. Settled(sIo')
    BY <1>2, <2>1, QuietSettles DEF sBlockSent, sStartNextReceive
  <2> QED
    BY <2>2, SenderSettled
<1>3. CASE sHandleReadTimeout
  <2> DEFINE io == Running(sIo)
  <2>1. sIo.handlers # << >>
    BY <1>3 DEF sHandleReadTimeout, HandlerWaits
  <2>2. /\ io \in Session /\ OneChain(io)
        /\ io.receiving => io.open
        /\ StartQueued(io) => StartQueued(sIo)
    BY <1>t, <2>1, RunningType, RunningChain, RunningShape
       DEF SenderWaits, SessionInv, StartQueued
  <2>3. UNCHANGED lastsentdatacount
    BY <1>3 DEF sHandleReadTimeout
  <2>4. \/ sIo' = io /\ ~io.open
        \/ sIo' = CancelSocket(io)
        \/ sIo' = CloseSocket(CancelSocket(io))
    BY <1>3 DEF sHandleReadTimeout, sEndOperation
  <2> HIDE DEF io
  <2>5. OneChain(sIo') /\ ~sIo'.receiving /\ (StartQueued(sIo') => StartQueued(sIo))
    BY <2>2, <2>4, CancelSocketType, CancelChain, CloseChain
  <2> QED
    BY <2>3, <2>5 DEF SenderWaits, SessionInv, OneChain, Chain, StartQueued
<1>4. CASE sBadOpcode \/ sHighAck \/ sLowAck \/ sExpectedAck \/ sForeign \/ sNoDatagram \/ sRunt
  <2>1. HandlerWaits(sIo, ChainKinds)
    BY <1>4, <1>k DEF HandlerWaits, sBadOpcode, sHighAck, sLowAck, sExpectedAck, sForeign,
                      sNoDatagram, sRunt, sChecks
  <2>2. sIoInCheck \in Session /\ Quiet(sIoInCheck)
    BY <2>1, SenderQuiet
  <2>3. sIo' = CloseSocket(sIoInCheck) \/ \E n, out : sSendNextBlock(n, sIoInCheck, out)
    BY <1>4, Zenon
       DEF sBadOpcode, sHighAck, sLowAck, sExpectedAck, sForeign, sNoDatagram, sRunt,
           sAbort, sEndOperation
  <2>4. Settled(sIo')
    BY <2>2, <2>3, QuietSettles, SendNextBlockSettles
  <2> QED
    BY <2>4, SenderSettled
<1>5. CASE (\E m \in net : sArrive(m)) \/ sReceiveFails
  <2>1. \E m \in Datagram : sIo.receiving /\ sIo' \in {Arrives(sIo, m), ReceiveFails(sIo)}
    BY <1>5, NoMsgType DEF sArrive, sReceiveFails, TypeOK
  <2>2. Settled(sIo')
    BY <1>t, <2>1, CompletionChain DEF SenderWaits, SessionInv
  <2> QED
    BY <2>2, SenderSettled
<1>6. CASE sExpire
  <2>1. sIo' = TimerExpires(sIo) /\ UNCHANGED lastsentdatacount
    BY <1>6 DEF sExpire, sEnv
  <2>2. /\ OneChain(sIo') /\ TimeoutQueued(sIo')
        /\ sIo'.receiving = sIo.receiving /\ sIo'.open = sIo.open
        /\ StartQueued(sIo') <=> StartQueued(sIo)
    BY <1>t, <2>1, NoMsgType, CompletionChain DEF SenderWaits, SessionInv
  <2> QED
    BY <2>1, <2>2
       DEF SenderWaits, SessionInv, OneChain, Chain, StartQueued, TimeoutQueued
<1> QED
  BY <1>1, <1>2, <1>3, <1>4, <1>5, <1>6 DEF SenderHandler

(***************************************************************************)
(* The receiver                                                            *)
(***************************************************************************)
ReceiverWaits ==
  /\ SessionInv(rIo)
  /\ rIo.receiving => rIo.armed \/ TimeoutQueued(rIo)

LEMMA ReceiverSettled ==
  ASSUME Settled(rIo')
  PROVE  ReceiverWaits'
  BY DEF Settled, ReceiverWaits, SessionInv, OneChain, Chain

LEMMA ReceiverQuiet ==
  ASSUME TypeOK, ReceiverWaits, HandlerWaits(rIo, ChainKinds)
  PROVE  /\ Running(rIo) \in Session /\ Quiet(Running(rIo))
         /\ rIoInCheck \in Session /\ Quiet(rIoInCheck)
<1>1. rIo \in Session /\ rIo.handlers # << >> /\ Head(rIo.handlers).kind \in ChainKinds
  BY DEF TypeOK, ReceiverTypeOK, HandlerWaits
<1>2. Running(rIo) \in Session /\ Quiet(Running(rIo))
  BY <1>1, RunningType, RunningChain DEF ReceiverWaits, SessionInv
<1>3. CancelTimer(Running(rIo)).handlers = Running(rIo).handlers
      /\ CancelTimer(Running(rIo)).receiving = Running(rIo).receiving
  BY <1>2 DEF CancelTimer, Session
<1> QED
  BY <1>2, <1>3, TimerType, SameChain DEF rIoInCheck, Quiet

LEMMA SendNextAckSettles ==
  ASSUME NEW io \in Session, Quiet(io), NEW out, rSendNextAck(io, out)
  PROVE  Settled(rIo')
<1>1. rIo' \in {AsyncReceive(ArmTimer(io)), Queue(io, "sent", NoMsg), io}
  BY DEF rSendNextAck, rStartNextReceive
<1> QED
  BY <1>1, QuietSettles

LEMMA ReceiverStepWaits ==
  ASSUME TypeOK, ReceiverWaits,
         \/ ReceiverHandler
         \/ (\E m \in net : rArrive(m)) \/ rExpire \/ rReceiveFails
  PROVE  ReceiverWaits'
<1>k. {"start", "sent", "datagram", "aborted", "failed"} \subseteq ChainKinds
  BY DEF ChainKinds, HandlerKinds
<1>t. rIo \in Session
  BY DEF TypeOK, ReceiverTypeOK
<1>1. CASE rStart
  <2> DEFINE io == Running(rIo)
  <2>1. io \in Session /\ Quiet(io)
    BY <1>1, <1>k, ReceiverQuiet DEF rStart, HandlerWaits
  <2>2. \/ rIo' = AsyncReceive(ArmTimer(CloseSocket(io)))
        \/ rIo' = CloseSocket(io)
        \/ rSendNextAck(io, {})
    BY <1>1 DEF rStart, rStartNextReceive
  <2> HIDE DEF io
  <2>3. CloseSocket(io) \in Session /\ Quiet(CloseSocket(io))
    BY <2>1, CloseSocketType, QuietSettles
  <2>4. Settled(rIo')
    BY <2>1, <2>2, <2>3, QuietSettles, SendNextAckSettles
  <2> QED
    BY <2>4, ReceiverSettled
<1>2. CASE rAckSent
  <2>1. Running(rIo) \in Session /\ Quiet(Running(rIo))
    BY <1>2, <1>k, ReceiverQuiet DEF rAckSent, HandlerWaits
  <2>2. Settled(rIo')
    BY <1>2, <2>1, QuietSettles DEF rAckSent, rStartNextReceive
  <2> QED
    BY <2>2, ReceiverSettled
<1>3. CASE rHandleReadTimeout
  <2> DEFINE io == Running(rIo)
  <2>1. rIo.handlers # << >>
    BY <1>3 DEF rHandleReadTimeout, HandlerWaits
  <2>2. io \in Session /\ OneChain(io) /\ (io.receiving => io.open)
    BY <1>t, <2>1, RunningType, RunningChain, RunningShape DEF ReceiverWaits, SessionInv
  <2>3. \/ rIo' = io /\ ~io.open
        \/ rIo' = CancelSocket(io)
        \/ rIo' = CloseSocket(CancelSocket(io))
    BY <1>3 DEF rHandleReadTimeout, rEndOperation
  <2> HIDE DEF io
  <2>4. OneChain(rIo') /\ ~rIo'.receiving
    BY <2>2, <2>3, CancelSocketType, CancelChain, CloseChain
  <2> QED
    BY <2>4 DEF ReceiverWaits, SessionInv, OneChain, Chain
<1>4. CASE \/ rInvalid \/ rTooHigh \/ rOldBlock \/ rStoreFull \/ rStoreLast \/ rCannotStore
           \/ rForeign \/ rAborted \/ rReceiveFailed
  <2>1. HandlerWaits(rIo, ChainKinds)
    BY <1>4, <1>k DEF HandlerWaits, rInvalid, rTooHigh, rOldBlock, rStoreFull, rStoreLast,
                      rCannotStore, rForeign, rAborted, rReceiveFailed, rExpectedBlock, rChecks
  <2>2. rIoInCheck \in Session /\ Quiet(rIoInCheck)
    BY <2>1, ReceiverQuiet
  <2>3. \/ rIo' \in {CloseSocket(rIoInCheck), rIoInCheck}
        \/ \E out : rSendNextAck(rIoInCheck, out)
    BY <1>4 DEF rInvalid, rTooHigh, rOldBlock, rStoreFull, rStoreLast, rCannotStore,
                rForeign, rAborted, rReceiveFailed, rAbort, rEndOperation, rSendLastAck
  <2>4. Settled(rIo')
    BY <2>2, <2>3, QuietSettles, SendNextAckSettles
  <2> QED
    BY <2>4, ReceiverSettled
<1>5. CASE (\E m \in net : rArrive(m)) \/ rReceiveFails
  <2>1. \E m \in Datagram : rIo.receiving /\ rIo' \in {Arrives(rIo, m), ReceiveFails(rIo)}
    BY <1>5, NoMsgType DEF rArrive, rReceiveFails, TypeOK
  <2>2. Settled(rIo')
    BY <1>t, <2>1, CompletionChain DEF ReceiverWaits, SessionInv
  <2> QED
    BY <2>2, ReceiverSettled
<1>6. CASE rExpire
  <2>1. rIo' = TimerExpires(rIo)
    BY <1>6 DEF rExpire
  <2>2. /\ OneChain(rIo') /\ TimeoutQueued(rIo')
        /\ rIo'.receiving = rIo.receiving /\ rIo'.open = rIo.open
    BY <1>t, <2>1, NoMsgType, CompletionChain DEF ReceiverWaits, SessionInv
  <2> QED
    BY <2>2 DEF ReceiverWaits, SessionInv, OneChain, Chain, TimeoutQueued
<1> QED
  BY <1>1, <1>2, <1>3, <1>4, <1>5, <1>6 DEF ReceiverHandler

(***************************************************************************)
(* The transfer                                                            *)
(***************************************************************************)
LEMMA InitWaits == Init => SenderWaits /\ ReceiverWaits
<1> SUFFICES ASSUME Init PROVE SenderWaits /\ ReceiverWaits
  OBVIOUS
<1>1. /\ sIo \in {FreshSession("start"), FreshSession("sent")}
      /\ rIo \in {FreshSession("start"), FreshSession("sent")}
      /\ lastsentdatacount \in {0, 1}
  BY DEF Init, InitRRQ, InitRRQ_OACK, InitRRQ_DATA1, InitWRQ, InitWRQ_OACK, InitWRQ_ACK0,
         SenderInit, ReceiverInit, NewSession
<1>2. ASSUME NEW k PROVE SessionInv(FreshSession(k)) /\ ~FreshSession(k).receiving
  BY DEF SessionInv, OneChain, Chain, FreshSession
<1> QED
  BY <1>1, <1>2 DEF SenderWaits, ReceiverWaits

LEMMA StepWaits ==
  TypeOK /\ SenderWaits /\ ReceiverWaits /\ [Next]_vars => SenderWaits' /\ ReceiverWaits'
<1> SUFFICES ASSUME TypeOK, SenderWaits, ReceiverWaits, [Next]_vars
             PROVE  SenderWaits' /\ ReceiverWaits'
  OBVIOUS
<1>s. ASSUME UNCHANGED senderVars PROVE SenderWaits'
  BY <1>s DEF senderVars, SenderWaits, SessionInv, OneChain, Chain, StartQueued, TimeoutQueued
<1>r. ASSUME UNCHANGED receiverVars PROVE ReceiverWaits'
  BY <1>r DEF receiverVars, ReceiverWaits, SessionInv, OneChain, Chain, TimeoutQueued
<1>1. CASE /\ \/ SenderHandler
              \/ (\E m \in net : sArrive(m)) \/ sExpire \/ sReceiveFails
           /\ UNCHANGED <<file, receiverVars>>
  BY <1>1, <1>r, SenderStepWaits
<1>2. CASE /\ \/ ReceiverHandler
              \/ (\E m \in net : rArrive(m)) \/ rExpire \/ rReceiveFails
           /\ UNCHANGED <<file, senderVars>>
  BY <1>2, <1>s, ReceiverStepWaits
<1>3. CASE UNCHANGED vars
  BY <1>3, <1>s, <1>r DEF vars
<1> QED
  BY <1>1, <1>2, <1>3, StepOfOneSide

\* A session never has two operations outstanding, or an operation and the
\* handler of another, whenever its timer expires and whatever fails.
THEOREM OneOperationAtATime == Spec => []SingleChain
<1>1. SenderWaits /\ ReceiverWaits => SingleChain
  BY DEF SenderWaits, ReceiverWaits, SessionInv, OneChain, SingleChain
<1> QED
  BY <1>1, InitType, StepType, InitWaits, StepWaits, PTL DEF Spec

\* No session waits for a datagram without a timer, but the sender for ACK 0.
THEOREM WaitsTimed == Spec => []WaitsAreTimed
<1>1. SenderWaits /\ ReceiverWaits => WaitsAreTimed
  BY DEF SenderWaits, ReceiverWaits, WaitsAreTimed
<1> QED
  BY <1>1, InitType, StepType, InitWaits, StepWaits, PTL DEF Spec
=============================================================================
