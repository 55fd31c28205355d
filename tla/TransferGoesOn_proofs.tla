------------------------ MODULE TransferGoesOn_proofs -------------------------
(***************************************************************************)
(* What is proved of how a session of a Transfer goes on: as long as sends *)
(* succeed it has something to wait for, and no exception leaves it, until *)
(* it has called back.                                                     *)
(***************************************************************************)
EXTENDS TransferSession_proofs

\* The socket is open and the chain of operations is not broken.
Busy(io) == io.open /\ Chain(io) # {}

(***************************************************************************)
(* The operations of AsioSession                                           *)
(***************************************************************************)
LEMMA QueueBusy ==
  ASSUME NEW io \in Session, NEW k \in ChainKinds, NEW m \in Datagram
  PROVE  /\ Chain(Queue(io, k, m)) # {}
         /\ Queue(io, k, m).open = io.open
<1>1. k \in HandlerKinds
  BY DEF ChainKinds
<1>2. Len(io.handlers) + 1 \in Chain(Queue(io, k, m))
  BY <1>1, QueueShape DEF Chain
<1> QED
  BY <1>1, <1>2, QueueShape

LEMMA ReceiveBusy ==
  ASSUME NEW io \in Session, io.open
  PROVE  Busy(AsyncReceive(io))
<1>1. /\ AsyncReceive(io).receiving
      /\ AsyncReceive(io).open
  BY DEF AsyncReceive, Session
<1> QED
  BY <1>1 DEF Busy, Chain

LEMMA CancelBusy ==
  ASSUME NEW io \in Session, Busy(io)
  PROVE  Busy(CancelSocket(io))
<1> DEFINE idle == [io EXCEPT !.receiving = FALSE]
<1>1. idle \in Session /\ idle.open = io.open
  BY DEF Session
<1>2. "aborted" \in ChainKinds
  BY DEF ChainKinds, HandlerKinds
<1>3. CASE io.receiving
  <2>1. CancelSocket(io) = Queue(idle, "aborted", NoMsg)
    BY <1>3 DEF CancelSocket
  <2> HIDE DEF idle
  <2> QED
    BY <1>1, <1>2, <2>1, NoMsgType, QueueBusy DEF Busy
<1>4. CASE ~io.receiving
  BY <1>4 DEF CancelSocket
<1> QED
  BY <1>3, <1>4

\* Running the handler of a timeout takes nothing off the chain.
LEMMA TimeoutRunBusy ==
  ASSUME NEW io \in Session, Busy(io), io.handlers # << >>, Head(io.handlers).kind = "timeout"
  PROVE  Busy(Running(io))
<1>1. PICK i \in Chain(io) : TRUE
  BY DEF Busy
<1>2. CASE i = 0 /\ io.receiving
  <2>1. 0 \in Chain(Running(io))
    BY <1>2, RunningShape DEF Chain
  <2> QED
    BY <2>1, RunningShape DEF Busy
<1>3. CASE i \in DOMAIN io.handlers /\ io.handlers[i].kind \in ChainKinds
  <2>1. i # 1
    BY <1>3, RunningShape DEF ChainKinds
  <2>2. i - 1 \in Chain(Running(io))
    BY <1>3, <2>1, RunningShape DEF Chain
  <2> QED
    BY <2>2, RunningShape DEF Busy
<1> QED
  BY <1>1, <1>2, <1>3 DEF Chain

LEMMA CompletionBusy ==
  ASSUME NEW io \in Session, Busy(io), NEW m \in Datagram
  PROVE  Busy(TimerExpires(io)) /\ Busy(Arrives(io, m)) /\ Busy(ReceiveFails(io))
<1> DEFINE idle == [io EXCEPT !.receiving = FALSE]
           unarmed == [io EXCEPT !.armed = FALSE]
<1>i. idle \in Session /\ idle.open = io.open
  BY DEF Session
<1>u. /\ unarmed \in Session /\ unarmed.handlers = io.handlers
      /\ unarmed.receiving = io.receiving /\ unarmed.open = io.open
  BY DEF Session
<1>k. "timeout" \in HandlerKinds /\ {"datagram", "failed"} \subseteq ChainKinds
  BY DEF ChainKinds, HandlerKinds
<1>a. /\ TimerExpires(io) = Queue(unarmed, "timeout", NoMsg)
      /\ Arrives(io, m) = Queue(idle, "datagram", m)
      /\ ReceiveFails(io) = Queue(idle, "failed", NoMsg)
  BY DEF TimerExpires, Arrives, ReceiveFails
<1> HIDE DEF idle, unarmed
<1>1. Chain(unarmed) = Chain(io)
  BY <1>u, SameChain
<1>2. Busy(TimerExpires(io))
  <2>1. Chain(Queue(unarmed, "timeout", NoMsg)) = Chain(unarmed)
    BY <1>u, <1>k, NoMsgType, QueueChain DEF ChainKinds
  <2>2. Queue(unarmed, "timeout", NoMsg).open = unarmed.open
    BY <1>u, <1>k, NoMsgType, QueueShape
  <2> QED
    BY <1>u, <1>a, <1>1, <2>1, <2>2 DEF Busy
<1>3. Busy(Arrives(io, m)) /\ Busy(ReceiveFails(io))
  BY <1>i, <1>k, <1>a, NoMsgType, QueueBusy DEF Busy
<1> QED
  BY <1>2, <1>3

\* A session that is open sends, when sends cannot fail.
LEMMA SendSucceeds ==
  ASSUME "send" \notin Faults, NEW io, io.open
  PROVE  SendOutcomes(io) = {TRUE}
  BY DEF SendOutcomes

LEMMA OpenInCheck ==
  ASSUME NEW io \in Session, io.open, io.handlers # << >>
  PROVE  /\ Running(io) \in Session /\ Running(io).open
         /\ CancelTimer(Running(io)) \in Session /\ CancelTimer(Running(io)).open
         /\ ArmTimer(Running(io)) \in Session /\ ArmTimer(Running(io)).open
<1>1. Running(io) \in Session /\ Running(io).open
  BY RunningType, RunningShape
<1> QED
  BY <1>1, TimerType DEF CancelTimer, ArmTimer, Session

(***************************************************************************)
(* The sender                                                              *)
(***************************************************************************)
LEMMA SendNextBlockGoesOn ==
  ASSUME "send" \notin Faults, NEW n, NEW io \in Session, io.open, NEW out,
         sSendNextBlock(n, io, out)
  PROVE  sResult' # NoResult \/ Busy(sIo')
<1>1. CASE sGiveUpReading(io, out)
  BY <1>1 DEF sGiveUpReading, sEndOperation, NoResult
<1>2. ASSUME NEW len, sSendBlock(n, len, io, out)
      PROVE  Busy(sIo')
  <2>1. sIo' = Queue(io, "sent", NoMsg)
    <3>1. SendOutcomes(io) = {TRUE}
      BY SendSucceeds
    <3> QED
      BY <1>2, <3>1, Zenon DEF sSendBlock
  <2>2. "sent" \in ChainKinds
    BY DEF ChainKinds, HandlerKinds
  <2> QED
    BY <2>1, <2>2, NoMsgType, QueueBusy DEF Busy
<1> QED
  BY <1>1, <1>2 DEF sSendNextBlock

\* While the socket is open nothing throws: cancel() finds it so.
LEMMA SenderDoesNotThrow ==
  ASSUME TypeOK, sIo.open, ~sCrashed,
         \/ SenderHandler
         \/ (\E m \in net : sArrive(m)) \/ sExpire \/ sReceiveFails
  PROVE  ~sCrashed'
<1>1. CASE sHandleReadTimeout
  <2>1. Running(sIo).open
    BY DEF Running, TypeOK, SenderTypeOK, Session
  <2> QED
    BY <1>1, <2>1 DEF sHandleReadTimeout
<1>2. CASE (\E m \in net : sArrive(m)) \/ sExpire \/ sReceiveFails
  BY <1>2 DEF sArrive, sExpire, sReceiveFails, sEnv
<1>3. CASE \/ sStart \/ sBlockSent
           \/ sBadOpcode \/ sHighAck \/ sLowAck \/ sExpectedAck \/ sForeign \/ sNoDatagram \/ sRunt
  BY <1>3, Zenon
     DEF sStart, sBlockSent, sBadOpcode, sHighAck, sLowAck, sExpectedAck, sForeign, sNoDatagram,
         sRunt, sChecks
<1> QED
  BY <1>1, <1>2, <1>3 DEF SenderHandler

\* Once called, the callback stays called, and the session alive until then.
LEMMA SenderStepGoesOn ==
  ASSUME TypeOK, "send" \notin Faults, GoesOn(sIo, sResult, sCrashed),
         \/ SenderHandler
         \/ (\E m \in net : sArrive(m)) \/ sExpire \/ sReceiveFails
  PROVE  GoesOn(sIo', sResult', sCrashed')
<1>t. sIo \in Session
  BY DEF TypeOK, SenderTypeOK
<1>1. CASE sResult # NoResult
  <2>1. sResult' # NoResult
    BY <1>1, Zenon
       DEF SenderHandler, sStart, sBlockSent, sHandleReadTimeout, sBadOpcode, sHighAck, sLowAck,
           sExpectedAck, sForeign, sNoDatagram, sRunt, sAbort, sSendNextBlock, sGiveUpReading,
           sSendBlock, sEndOperation, sArrive, sExpire, sReceiveFails, sEnv
  <2> QED
    BY <2>1 DEF GoesOn
<1>2. CASE sResult = NoResult
  <2>b. Busy(sIo) /\ ~sCrashed
    BY <1>2 DEF GoesOn, Busy
  <2>o. sIo.open /\ ~sCrashed'
    BY <2>b, SenderDoesNotThrow DEF Busy
  <2>1. CASE sStart
    <3>1. Running(sIo) \in Session /\ Running(sIo).open
      BY <1>t, <2>o, <2>1, OpenInCheck DEF sStart, HandlerWaits
    <3>2. \/ sResult' # NoResult
          \/ sSendNextBlock(1, Running(sIo), {})
          \/ sIo' = AsyncReceive(Running(sIo))
      BY <2>1 DEF sStart, sEndOperation, sStartNextReceive, NoResult
    <3> QED
      BY <2>o, <3>1, <3>2, ReceiveBusy, SendNextBlockGoesOn DEF GoesOn, Busy
  <2>2. CASE sBlockSent
    <3>1. sIo' = AsyncReceive(ArmTimer(Running(sIo))) /\ sIo.handlers # << >>
      BY <2>2 DEF sBlockSent, sStartNextReceive, HandlerWaits
    <3> QED
      BY <1>t, <2>o, <3>1, OpenInCheck, ReceiveBusy DEF GoesOn, Busy
  <2>3. CASE sHandleReadTimeout
    <3>1. Busy(Running(sIo)) /\ Running(sIo) \in Session
      BY <1>t, <2>b, <2>3, TimeoutRunBusy, RunningType DEF sHandleReadTimeout, HandlerWaits
    <3>2. sResult' # NoResult \/ sIo' = CancelSocket(Running(sIo))
      BY <3>1, <2>3 DEF sHandleReadTimeout, sEndOperation, Busy, NoResult
    <3> QED
      BY <2>o, <3>1, <3>2, CancelBusy DEF GoesOn, Busy
  <2>4. CASE sBadOpcode \/ sHighAck \/ sLowAck \/ sExpectedAck \/ sForeign \/ sNoDatagram \/ sRunt
    <3>1. sIo.handlers # << >>
      BY <2>4 DEF sBadOpcode, sHighAck, sLowAck, sExpectedAck, sForeign, sNoDatagram, sRunt,
                  sChecks, HandlerWaits
    <3>2. sIoInCheck \in Session /\ sIoInCheck.open
      BY <1>t, <2>o, <3>1, OpenInCheck DEF sIoInCheck
    <3>3. sResult' # NoResult \/ \E n, out : sSendNextBlock(n, sIoInCheck, out)
      <4>1. ASSUME NEW out, sEndOperation("ERR_NOERR", sIoInCheck, out) PROVE sResult' # NoResult
        BY <4>1 DEF sEndOperation, NoResult
      <4> QED
        BY <2>4, <4>1, Zenon
           DEF sBadOpcode, sHighAck, sLowAck, sExpectedAck, sForeign, sNoDatagram, sRunt, sAbort
    <3> QED
      BY <2>o, <3>2, <3>3, SendNextBlockGoesOn DEF GoesOn, Busy
  <2>5. CASE (\E m \in net : sArrive(m)) \/ sExpire \/ sReceiveFails
    <3>1. \E m \in Datagram : sIo' \in {Arrives(sIo, m), TimerExpires(sIo), ReceiveFails(sIo)}
      BY <2>5, NoMsgType DEF sArrive, sExpire, sReceiveFails, TypeOK
    <3> QED
      BY <1>t, <2>b, <2>o, <3>1, CompletionBusy DEF GoesOn, Busy
  <2> QED
    BY <2>1, <2>2, <2>3, <2>4, <2>5 DEF SenderHandler
<1> QED
  BY <1>1, <1>2

(***************************************************************************)
(* The receiver                                                            *)
(***************************************************************************)
LEMMA SendNextAckGoesOn ==
  ASSUME "send" \notin Faults, NEW io \in Session, io.open, NEW out, rSendNextAck(io, out)
  PROVE  Busy(rIo')
<1>1. rIo' \in {Queue(io, "sent", NoMsg), AsyncReceive(ArmTimer(io))}
  <2>1. SendOutcomes(io) = {TRUE}
    BY SendSucceeds
  <2> QED
    BY <2>1, Zenon DEF rSendNextAck, rStartNextReceive
<1>2. "sent" \in ChainKinds
  BY DEF ChainKinds, HandlerKinds
<1>3. ArmTimer(io) \in Session /\ ArmTimer(io).open
  BY DEF ArmTimer, Session
<1> QED
  BY <1>1, <1>2, <1>3, NoMsgType, QueueBusy, ReceiveBusy DEF Busy

\* The last ACK goes out, on a socket that is open; the one that throws follows
\* the callback.
LEMMA ReceiverDoesNotThrow ==
  ASSUME TypeOK, "send" \notin Faults, rIo.open, ~rCrashed,
         \/ ReceiverHandler
         \/ (\E m \in net : rArrive(m)) \/ rExpire \/ rReceiveFails
  PROVE  rResult' # NoResult \/ ~rCrashed'
<1>1. CASE rHandleReadTimeout
  <2>1. Running(rIo).open
    BY DEF Running, TypeOK, ReceiverTypeOK, Session
  <2> QED
    BY <1>1, <2>1 DEF rHandleReadTimeout
<1>2. CASE (\E m \in net : rArrive(m)) \/ rExpire \/ rReceiveFails
  BY <1>2 DEF rArrive, rExpire, rReceiveFails, rEnv
<1>3. CASE rStoreLast
  <2>1. rIoInCheck.open
    BY DEF rIoInCheck, CancelTimer, Running, TypeOK, ReceiverTypeOK, Session
  <2>2. SendOutcomes(rIoInCheck) = {TRUE}
    BY <2>1, SendSucceeds
  <2> QED
    BY <1>3, <2>2 DEF rStoreLast, rSendLastAck
<1>4. CASE rCannotStore
  BY <1>4 DEF rCannotStore, rEndOperation, NoResult
<1>5. CASE \/ rStart \/ rAckSent
           \/ rInvalid \/ rTooHigh \/ rOldBlock \/ rStoreFull \/ rForeign \/ rAborted
           \/ rReceiveFailed
  BY <1>5, Zenon
     DEF rStart, rAckSent, rInvalid, rTooHigh, rOldBlock, rStoreFull, rForeign, rAborted,
         rReceiveFailed, rAbort, rSendNextAck
<1> QED
  BY <1>1, <1>2, <1>3, <1>4, <1>5 DEF ReceiverHandler

LEMMA ReceiverStepGoesOn ==
  ASSUME TypeOK, "send" \notin Faults, GoesOn(rIo, rResult, rCrashed),
         \/ ReceiverHandler
         \/ (\E m \in net : rArrive(m)) \/ rExpire \/ rReceiveFails
  PROVE  GoesOn(rIo', rResult', rCrashed')
<1>t. rIo \in Session
  BY DEF TypeOK, ReceiverTypeOK
<1>1. CASE rResult # NoResult
  <2>1. rResult' # NoResult
    BY <1>1, Zenon
       DEF ReceiverHandler, rStart, rAckSent, rHandleReadTimeout, rInvalid, rTooHigh, rOldBlock,
           rStoreFull, rStoreLast, rCannotStore, rForeign, rAborted, rReceiveFailed, rAbort,
           rSendNextAck, rSendLastAck, rEndOperation, rArrive, rExpire, rReceiveFails, rEnv
  <2> QED
    BY <2>1 DEF GoesOn
<1>2. CASE rResult = NoResult
  <2>b. Busy(rIo) /\ ~rCrashed
    BY <1>2 DEF GoesOn, Busy
  <2>o. rIo.open /\ (rResult' # NoResult \/ ~rCrashed')
    BY <2>b, ReceiverDoesNotThrow DEF Busy
  <2>1. CASE rStart
    <3>1. Running(rIo) \in Session /\ Running(rIo).open
      BY <1>t, <2>o, <2>1, OpenInCheck DEF rStart, HandlerWaits
    <3>2. rResult' # NoResult \/ rSendNextAck(Running(rIo), {})
      BY <2>1 DEF rStart, NoResult
    <3> QED
      BY <2>o, <3>1, <3>2, SendNextAckGoesOn DEF GoesOn, Busy
  <2>2. CASE rAckSent
    <3>1. rIo' = AsyncReceive(ArmTimer(Running(rIo))) /\ rIo.handlers # << >>
      BY <2>2 DEF rAckSent, rStartNextReceive, HandlerWaits
    <3> QED
      BY <1>t, <2>o, <3>1, OpenInCheck, ReceiveBusy DEF GoesOn, Busy
  <2>3. CASE rHandleReadTimeout
    <3>1. Busy(Running(rIo)) /\ Running(rIo) \in Session
      BY <1>t, <2>b, <2>3, TimeoutRunBusy, RunningType DEF rHandleReadTimeout, HandlerWaits
    <3>2. rResult' # NoResult \/ rIo' = CancelSocket(Running(rIo))
      BY <3>1, <2>3 DEF rHandleReadTimeout, rEndOperation, Busy, NoResult
    <3> QED
      BY <2>o, <3>1, <3>2, CancelBusy DEF GoesOn, Busy
  <2>4. CASE \/ rInvalid \/ rTooHigh \/ rOldBlock \/ rStoreFull \/ rStoreLast \/ rCannotStore
             \/ rForeign \/ rAborted \/ rReceiveFailed
    <3>1. rIo.handlers # << >>
      BY <2>4 DEF rInvalid, rTooHigh, rOldBlock, rStoreFull, rStoreLast, rCannotStore,
                  rForeign, rAborted, rReceiveFailed, rExpectedBlock, rChecks, HandlerWaits
    <3>2. rIoInCheck \in Session /\ rIoInCheck.open
      BY <1>t, <2>o, <3>1, OpenInCheck DEF rIoInCheck
    <3>s. SendOutcomes(rIoInCheck) = {TRUE}
      BY <3>2, SendSucceeds
    <3>3. rResult' # NoResult \/ \E out : rSendNextAck(rIoInCheck, out)
      BY <2>4, <3>s
         DEF rInvalid, rTooHigh, rOldBlock, rStoreFull, rStoreLast, rCannotStore, rForeign,
             rAborted, rReceiveFailed, rAbort, rEndOperation, rSendLastAck, NoResult
    <3> QED
      BY <2>o, <3>2, <3>3, SendNextAckGoesOn DEF GoesOn, Busy
  <2>5. CASE (\E m \in net : rArrive(m)) \/ rExpire \/ rReceiveFails
    <3>1. \E m \in Datagram : rIo' \in {Arrives(rIo, m), TimerExpires(rIo), ReceiveFails(rIo)}
      BY <2>5, NoMsgType DEF rArrive, rExpire, rReceiveFails, TypeOK
    <3> QED
      BY <1>t, <2>b, <2>o, <3>1, CompletionBusy DEF GoesOn, Busy
  <2> QED
    BY <2>1, <2>2, <2>3, <2>4, <2>5 DEF ReceiverHandler
<1> QED
  BY <1>1, <1>2

(***************************************************************************)
(* The transfer                                                            *)
(***************************************************************************)
LEMMA InitGoesOn == Init => NoneStranded
<1> SUFFICES ASSUME Init PROVE GoesOn(sIo, sResult, sCrashed) /\ GoesOn(rIo, rResult, rCrashed)
  BY DEF NoneStranded
<1>1. /\ sIo \in {FreshSession("start"), FreshSession("sent")}
      /\ rIo \in {FreshSession("start"), FreshSession("sent")}
  BY DEF Init, InitRRQ, InitRRQ_OACK, InitRRQ_DATA1, InitWRQ, InitWRQ_OACK, InitWRQ_ACK0,
         SenderInit, ReceiverInit, NewSession
<1>2. ASSUME NEW k \in ChainKinds PROVE Busy(FreshSession(k))
  <2>1. 1 \in Chain(FreshSession(k))
    BY DEF Chain, FreshSession
  <2> QED
    BY <2>1 DEF Busy, FreshSession
<1>3. {"start", "sent"} \subseteq ChainKinds
  BY DEF ChainKinds, HandlerKinds
<1>4. ~sCrashed /\ ~rCrashed
  BY DEF Init, InitRRQ, InitRRQ_OACK, InitRRQ_DATA1, InitWRQ, InitWRQ_OACK, InitWRQ_ACK0,
         SenderInit, ReceiverInit
<1> QED
  BY <1>1, <1>2, <1>3, <1>4 DEF GoesOn, Busy

LEMMA StepGoesOn == TypeOK /\ NoneStranded /\ [Next]_vars => NoneStranded'
<1> SUFFICES ASSUME TypeOK, "send" \notin Faults, [Next]_vars,
                    GoesOn(sIo, sResult, sCrashed), GoesOn(rIo, rResult, rCrashed)
             PROVE  GoesOn(sIo', sResult', sCrashed') /\ GoesOn(rIo', rResult', rCrashed')
  BY DEF NoneStranded
<1>1. CASE /\ \/ SenderHandler
              \/ (\E m \in net : sArrive(m)) \/ sExpire \/ sReceiveFails
           /\ UNCHANGED <<file, receiverVars>>
  BY <1>1, SenderStepGoesOn DEF receiverVars
<1>2. CASE /\ \/ ReceiverHandler
              \/ (\E m \in net : rArrive(m)) \/ rExpire \/ rReceiveFails
           /\ UNCHANGED <<file, senderVars>>
  BY <1>2, ReceiverStepGoesOn DEF senderVars
<1>3. CASE UNCHANGED vars
  BY <1>3 DEF vars, senderVars, receiverVars
<1> QED
  BY <1>1, <1>2, <1>3, StepOfOneSide

\* As long as sends succeed no session is left with nothing to wait for before
\* it has called back (sendNextBlock, sendNextAck, endOperation).
THEOREM NoSessionStranded == Spec => []NoneStranded
  BY InitType, StepType, InitGoesOn, StepGoesOn, PTL DEF Spec
=============================================================================
