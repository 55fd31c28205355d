--------------------------- MODULE Transfer_proofs ---------------------------
(***************************************************************************)
(* What is proved of Transfer for every value of its constants: block      *)
(* sizes, files, faults, noise and number of retransmissions.              *)
(***************************************************************************)
EXTENDS Transfer, TLAPS

(***************************************************************************)
(* The operations of AsioSession keep a session a session.                 *)
(***************************************************************************)
LEMMA NoMsgType == NoMsg \in Datagram
  BY DEF NoMsg, ErrorMessage, Datagram, Hosts, Endpoints, Stranger, NoEndpoint,
         Sender, Receiver

LEMMA FreshSessionType ==
  /\ NewSession \in Session
  /\ FreshSession("sent") \in Session
  BY NoMsgType DEF NewSession, FreshSession, Session, Handler, HandlerKinds

LEMMA QueueType ==
  ASSUME NEW io \in Session, NEW k \in HandlerKinds, NEW m \in Datagram
  PROVE  Queue(io, k, m) \in Session
<1>1. [kind |-> k, msg |-> m] \in Handler
  BY DEF Handler
<1> QED
  BY <1>1 DEF Queue, Session

LEMMA RunningType ==
  ASSUME NEW io \in Session, io.handlers # << >>
  PROVE  /\ Running(io) \in Session
         /\ Head(io.handlers) \in Handler
  BY DEF Running, Session

LEMMA TimerType ==
  ASSUME NEW io \in Session
  PROVE  ArmTimer(io) \in Session /\ CancelTimer(io) \in Session
  BY DEF ArmTimer, CancelTimer, Session

LEMMA AsyncReceiveType ==
  ASSUME NEW io \in Session
  PROVE  AsyncReceive(io) \in Session
<1>1. CASE io.open
  BY <1>1 DEF AsyncReceive, Session
<1>2. CASE ~io.open
  BY <1>2, NoMsgType, QueueType DEF AsyncReceive, HandlerKinds
<1> QED
  BY <1>1, <1>2

LEMMA CancelSocketType ==
  ASSUME NEW io \in Session
  PROVE  CancelSocket(io) \in Session
<1> DEFINE idle == [io EXCEPT !.receiving = FALSE]
<1>1. idle \in Session
  BY DEF Session
<1>2. Queue(idle, "aborted", NoMsg) \in Session
  BY <1>1, NoMsgType, QueueType DEF HandlerKinds
<1> QED
  BY <1>2 DEF CancelSocket

LEMMA CloseSocketType ==
  ASSUME NEW io \in Session
  PROVE  CloseSocket(io) \in Session
<1>1. CancelSocket(io) \in Session
  BY CancelSocketType
<1>2. \A s \in Session : [s EXCEPT !.open = FALSE] \in Session
  BY DEF Session
<1> QED
  BY <1>1, <1>2 DEF CloseSocket

LEMMA CompletionType ==
  ASSUME NEW io \in Session, NEW m \in Datagram
  PROVE  /\ Arrives(io, m) \in Session
         /\ ReceiveFails(io) \in Session
         /\ TimerExpires(io) \in Session
<1>1. [io EXCEPT !.receiving = FALSE] \in Session /\ [io EXCEPT !.armed = FALSE] \in Session
  BY DEF Session
<1> QED
  BY <1>1, NoMsgType, QueueType DEF Arrives, ReceiveFails, TimerExpires, HandlerKinds

LEMMA LeavingType ==
  ASSUME NEW io, NEW msgs, NEW S, msgs \subseteq S
  PROVE  Leaving(io, msgs) \subseteq S
  BY DEF Leaving

(***************************************************************************)
(* Messages                                                                *)
(***************************************************************************)
LEMMA BlockLenType ==
  ASSUME file \in Files(SenderBlockSize), NEW n \in Nat
  PROVE  BlockLen(n, SenderBlockSize) \in 0 .. SenderBlockSize
  BY TransferAssumption DEF BlockLen, Files

LEMMA BytesReadType ==
  ASSUME file \in Files(SenderBlockSize), NEW n \in Nat, NEW len \in BytesRead(n)
  PROVE  len \in 0 .. BlockLen(n, SenderBlockSize) /\ len \in 0 .. SenderBlockSize
<1>1. BlockLen(n, SenderBlockSize) \in 0 .. SenderBlockSize /\ SenderBlockSize \in Nat
  BY BlockLenType, TransferAssumption
<1>2. len \in 0 .. BlockLen(n, SenderBlockSize)
  <2>1. CASE "read" \in Faults
    BY <2>1 DEF BytesRead
  <2>2. CASE "read" \notin Faults
    BY <1>1, <2>2 DEF BytesRead
  <2> QED
    BY <2>1, <2>2
<1> QED
  BY <1>1, <1>2

LEMMA MessageType ==
  ASSUME NEW e \in Endpoints, NEW n \in Nat, NEW l \in Nat
  PROVE  /\ sErrorMsg(e, n) \in Datagram
         /\ rErrorMsg(e, n) \in Datagram
         /\ DataMessage(e, n, l) \in Datagram
         /\ AckMessage(e, n) \in Datagram
  BY DEF sErrorMsg, rErrorMsg, ErrorMessage, DataMessage, AckMessage, Datagram, Hosts,
         Sender, Receiver

LEMMA ErrorCodeType ==
  /\ ERR_ACCESS_VIOLATION \in Nat /\ ERR_ILLEGAL_OP \in Nat
  /\ ERR_UNKNOWN_TR_ID \in Nat /\ ERR_FILE_NOT_FOUND \in Nat
  BY DEF ERR_ACCESS_VIOLATION, ERR_ILLEGAL_OP, ERR_UNKNOWN_TR_ID, ERR_FILE_NOT_FOUND

(***************************************************************************)
(* Types: the steps of the sender                                          *)
(***************************************************************************)
\* What a handler of the sender does to the streams of data it shares.
SenderIoType ==
  /\ net' \subseteq Datagram
  /\ sIo' \in Session
  /\ sResult' \in ResultCodes \cup {NoResult}

LEMMA SenderEndType ==
  ASSUME TypeOK, NEW code \in ResultCodes, NEW io \in Session,
         NEW out \in SUBSET Datagram, sEndOperation(code, io, out)
  PROVE  SenderIoType
<1>1. net' \subseteq Datagram
  BY LeavingType DEF TypeOK, sEndOperation
<1>2. sIo' \in Session
  BY CloseSocketType DEF sEndOperation
<1>3. sResult' \in ResultCodes \cup {NoResult}
  BY DEF sEndOperation, TypeOK, SenderTypeOK
<1> QED
  BY <1>1, <1>2, <1>3 DEF SenderIoType

LEMMA SendNextBlockType ==
  ASSUME TypeOK, NEW n \in Nat, NEW io \in Session, NEW out \in SUBSET Datagram,
         mReceiverEndpoint' \in Endpoints,
         sSendNextBlock(n, io, out)
  PROVE  /\ SenderIoType
         /\ sendingdone' \in BOOLEAN
         /\ input' \in {"good", "failed"}
<1>1. CASE sGiveUpReading(io, out)
  <2>1. sErrorMsg(mReceiverEndpoint', ERR_ACCESS_VIOLATION) \in Datagram
    BY MessageType, ErrorCodeType
  <2>2. "ERR_INPUT_FILE_OPEN" \in ResultCodes
    BY DEF ResultCodes
  <2>3. SenderIoType
    BY <1>1, <2>1, <2>2, SenderEndType DEF sGiveUpReading
  <2> QED
    BY <1>1, <2>3 DEF sGiveUpReading, TypeOK, SenderTypeOK
<1>2. ASSUME NEW len \in BytesRead(n), sSendBlock(n, len, io, out)
      PROVE  SenderIoType /\ sendingdone' \in BOOLEAN /\ input' \in {"good", "failed"}
  <2>1. len \in Nat
    BY BytesReadType, TransferAssumption DEF TypeOK
  <2>2. DataMessage(mReceiverEndpoint', n, len) \in Datagram
    BY <2>1, MessageType
  <2>3. Queue(io, "sent", NoMsg) \in Session
    BY QueueType, NoMsgType DEF HandlerKinds
  <2>4. net' \subseteq Datagram /\ sIo' \in Session
    <3> DEFINE data == {DataMessage(mReceiverEndpoint', n, len)}
    <3>1. PICK sent \in SendOutcomes(io) :
            /\ net' = net \cup Leaving(io, out \cup IF sent THEN data ELSE {})
            /\ sIo' = IF sent THEN Queue(io, "sent", NoMsg) ELSE io
      BY <1>2 DEF sSendBlock
    <3>2. (out \cup IF sent THEN data ELSE {}) \subseteq Datagram
      BY <2>2
    <3>3. Leaving(io, out \cup IF sent THEN data ELSE {}) \subseteq Datagram
      BY <3>2, LeavingType
    <3> QED
      BY <3>1, <3>3, <2>3 DEF TypeOK
  <2> QED
    BY <1>2, <2>4 DEF sSendBlock, SenderIoType, TypeOK, SenderTypeOK, Short
<1> QED
  BY <1>1, <1>2 DEF sSendNextBlock

LEMMA SenderHandlerType ==
  ASSUME TypeOK, NEW kinds, HandlerWaits(sIo, kinds)
  PROVE  /\ Running(sIo) \in Session
         /\ sIoInCheck \in Session
         /\ sReceived \in Datagram
         /\ sReceived.src \in Endpoints
<1>1. sIo \in Session /\ sIo.handlers # << >>
  BY DEF TypeOK, SenderTypeOK, HandlerWaits
<1>2. Running(sIo) \in Session /\ Head(sIo.handlers) \in Handler
  BY <1>1, RunningType
<1> QED
  BY <1>2, TimerType DEF sIoInCheck, sReceived, Handler, Datagram, Endpoints

LEMMA BlockAfterType ==
  ASSUME NEW n \in 0 .. MaxBlock
  PROVE  BlockAfter(n) \in 0 .. MaxBlock
  BY WireAssumption DEF BlockAfter

\* The results a handler passes to endOperation() are results.
LEMMA ResultType ==
  /\ "ERR_NOERR" \in ResultCodes /\ "ERR_UNSPECIFIED" \in ResultCodes
  /\ "ERR_OUTPUT_FILE_OPEN" \in ResultCodes /\ "ERR_INPUT_FILE_OPEN" \in ResultCodes
  /\ "ERR_WRONG_BLOCK" \in ResultCodes /\ "ERR_OPCODE" \in ResultCodes
  BY DEF ResultCodes

LEMMA SenderStepType ==
  ASSUME TypeOK,
         \/ SenderHandler
         \/ (\E m \in net : sArrive(m)) \/ sExpire \/ sReceiveFails
  PROVE  SenderTypeOK' /\ net' \subseteq Datagram
<1> USE DEF TypeOK, SenderTypeOK
<1>e. \A e \in Endpoints, out \in SUBSET Datagram :
        /\ {sErrorMsg(e, ERR_ILLEGAL_OP)} \subseteq Datagram
        /\ {sErrorMsg(e, ERR_FILE_NOT_FOUND)} \subseteq Datagram
        /\ {sErrorMsg(e, ERR_UNKNOWN_TR_ID)} \subseteq Datagram
  BY MessageType, ErrorCodeType
<1>n. lastsentdatacount \in Nat /\ 1 \in Nat /\ {} \subseteq Datagram
  BY WireAssumption
<1>1. CASE sStart
  <2> USE <1>1
  <2>1. Running(sIo) \in Session
    BY SenderHandlerType DEF sStart
  <2>2. CASE sEndOperation("ERR_INPUT_FILE_OPEN", Running(sIo),
                           {sErrorMsg(mReceiverEndpoint, ERR_FILE_NOT_FOUND)})
             /\ UNCHANGED sStream
    <3>1. SenderIoType
      BY <2>1, <2>2, <1>e, ResultType, SenderEndType
    <3> QED
      BY <3>1, <2>2 DEF sStart, SenderIoType, sStream, sPartner
  <2>3. CASE sSendNextBlock(1, Running(sIo), {})
    <3>1. mReceiverEndpoint' \in Endpoints
      BY DEF sStart, sPartner
    <3>2. SenderIoType /\ sendingdone' \in BOOLEAN /\ input' \in {"good", "failed"}
      BY <2>1, <2>3, <3>1, <1>n, SendNextBlockType
    <3> QED
      BY <3>2 DEF sStart, SenderIoType, sPartner
  <2>4. CASE sIo' = sStartNextReceive(Running(sIo)) /\ UNCHANGED <<sStream, sResult, net>>
    BY <2>1, <2>4, AsyncReceiveType DEF sStart, sStream, sPartner, sStartNextReceive
  <2> QED
    BY <2>2, <2>3, <2>4 DEF sStart
<1>2. CASE sBlockSent
  <2>1. sStartNextReceive(ArmTimer(Running(sIo))) \in Session
    BY <1>2, SenderHandlerType, TimerType, AsyncReceiveType DEF sBlockSent, sStartNextReceive
  <2> QED
    BY <1>2, <2>1 DEF sBlockSent, sStream, sPartner
<1>3. CASE sHandleReadTimeout
  <2> USE <1>3
  <2>1. Running(sIo) \in Session
    BY SenderHandlerType DEF sHandleReadTimeout
  <2>2. CancelSocket(Running(sIo)) \in Session
    BY <2>1, CancelSocketType
  <2>t. sTimeoutcount' \in Nat
    BY DEF sHandleReadTimeout
  <2>c. sCrashed' \in BOOLEAN
    BY Zenon DEF sHandleReadTimeout
  <2>3. CASE sIo' \in {Running(sIo), CancelSocket(Running(sIo))} /\ UNCHANGED <<sResult, net>>
    BY <2>1, <2>2, <2>3, <2>t, <2>c DEF sHandleReadTimeout, sStream, sPartner
  <2>4. CASE sEndOperation("ERR_NOERR", CancelSocket(Running(sIo)),
                           {sErrorMsg(mReceiverEndpoint, ERR_ILLEGAL_OP)})
    <3>1. SenderIoType
      BY <2>2, <2>4, <1>e, ResultType, SenderEndType
    <3> QED
      BY <3>1, <2>t, <2>c DEF sHandleReadTimeout, SenderIoType, sStream, sPartner
  <2> QED
    BY <2>3, <2>4 DEF sHandleReadTimeout
<1>4. CASE sBadOpcode \/ sHighAck
  <2>1. sIoInCheck \in Session /\ sReceived.src \in Endpoints
    BY <1>4, SenderHandlerType DEF sBadOpcode, sHighAck, sChecks
  <2>2. SenderIoType
    BY <1>4, <2>1, <1>e, ResultType, SenderEndType DEF sBadOpcode, sHighAck, sAbort
  <2> QED
    BY <1>4, <2>1, <2>2 DEF sBadOpcode, sHighAck, sChecks, sAbort, SenderIoType, sStream
<1>5. CASE sLowAck \/ sRunt \/ sForeign
  <2>1. sIoInCheck \in Session /\ sReceived.src \in Endpoints
    BY <1>5, SenderHandlerType DEF sLowAck, sRunt, sForeign, sChecks
  <2>2. mReceiverEndpoint' \in Endpoints
    BY <1>5 DEF sLowAck, sRunt, sForeign
  <2>3. {sErrorMsg(sReceived.src, ERR_UNKNOWN_TR_ID)} \subseteq Datagram
    BY <2>1, <1>e
  <2>4. SenderIoType /\ sendingdone' \in BOOLEAN /\ input' \in {"good", "failed"}
    BY <1>5, <2>1, <2>2, <2>3, <1>n, SendNextBlockType DEF sLowAck, sRunt, sForeign
  <2> QED
    BY <1>5, <2>1, <2>2, <2>4 DEF sLowAck, sRunt, sForeign, sChecks, SenderIoType
<1>6. CASE sExpectedAck
  <2> USE <1>6
  <2>1. sIoInCheck \in Session /\ sReceived.src \in Endpoints
    BY SenderHandlerType DEF sExpectedAck, sChecks
  <2>2. mReceiverEndpoint' \in Endpoints /\ lastsentdatacount' \in 0 .. MaxBlock
    BY <2>1, BlockAfterType DEF sExpectedAck
  <2>n. lastsentdatacount' \in Nat
    BY <2>2, WireAssumption
  <2>3. CASE sEndOperation("ERR_NOERR", sIoInCheck, {}) /\ UNCHANGED sStream
    <3>1. SenderIoType
      BY <2>1, <2>3, <1>n, ResultType, SenderEndType
    <3> QED
      BY <2>1, <2>2, <2>3, <3>1 DEF sExpectedAck, sChecks, SenderIoType, sStream
  <2>4. CASE sSendNextBlock(lastsentdatacount', sIoInCheck, {})
    <3>1. SenderIoType /\ sendingdone' \in BOOLEAN /\ input' \in {"good", "failed"}
      BY <2>1, <2>2, <2>n, <2>4, <1>n, SendNextBlockType
    <3> QED
      BY <2>1, <2>2, <3>1 DEF sExpectedAck, sChecks, SenderIoType
  <2> QED
    BY <2>3, <2>4 DEF sExpectedAck
<1>7. CASE sNoDatagram
  <2> USE <1>7
  <2>1. sIoInCheck \in Session /\ mReceiverEndpoint' \in Endpoints
    BY SenderHandlerType DEF sNoDatagram, sPartner
  <2>2. {sErrorMsg(mLastReceivedReceiverEndpoint, ERR_UNKNOWN_TR_ID)} \subseteq Datagram
    BY <1>e
  <2>3. SenderIoType /\ sendingdone' \in BOOLEAN /\ input' \in {"good", "failed"}
    <3> DEFINE out == IF sFromPartner(mLastReceivedReceiverEndpoint) THEN {}
                      ELSE {sErrorMsg(mLastReceivedReceiverEndpoint, ERR_UNKNOWN_TR_ID)}
    <3>1. out \in SUBSET Datagram
      BY <2>2
    <3>2. sSendNextBlock(lastsentdatacount, sIoInCheck, out)
      BY DEF sNoDatagram
    <3> HIDE DEF out
    <3> QED
      BY <2>1, <3>1, <3>2, <1>n, SendNextBlockType
  <2> QED
    BY <2>1, <2>3 DEF sNoDatagram, SenderIoType, sPartner
<1>8. CASE \E m \in net : sArrive(m)
  <2>1. PICK m \in net : sArrive(m)
    BY <1>8
  <2>2. sIo' \in Session
    BY <2>1, CompletionType DEF sArrive
  <2>3. net' \subseteq Datagram
    BY <2>1 DEF sArrive, Delivered
  <2> QED
    BY <2>1, <2>2, <2>3 DEF sArrive, sEnv, sStream, sPartner
<1>9. CASE sExpire \/ sReceiveFails
  <2>1. sIo' \in Session
    BY <1>9, CompletionType, NoMsgType DEF sExpire, sReceiveFails
  <2> QED
    BY <1>9, <2>1 DEF sExpire, sReceiveFails, sEnv, sStream, sPartner
<1> QED
  BY <1>1, <1>2, <1>3, <1>4, <1>5, <1>6, <1>7, <1>8, <1>9 DEF SenderHandler

(***************************************************************************)
(* Types: the steps of the receiver                                        *)
(***************************************************************************)
ReceiverIoType ==
  /\ net' \subseteq Datagram
  /\ rIo' \in Session
  /\ rResult' \in ResultCodes \cup {NoResult}

LEMMA ReceiverEndType ==
  ASSUME TypeOK, NEW code \in ResultCodes, NEW io \in Session,
         NEW out \in SUBSET Datagram, rEndOperation(code, io, out)
  PROVE  ReceiverIoType
<1>1. net' \subseteq Datagram
  BY LeavingType DEF TypeOK, rEndOperation
<1>2. rIo' \in Session
  BY CloseSocketType DEF rEndOperation
<1>3. rResult' \in ResultCodes \cup {NoResult}
  BY DEF rEndOperation, TypeOK, ReceiverTypeOK
<1> QED
  BY <1>1, <1>2, <1>3 DEF ReceiverIoType

LEMMA ReceiverListensType ==
  ASSUME NEW io \in Session
  PROVE  rStartNextReceive(io) \in Session
  BY TimerType, AsyncReceiveType DEF rStartNextReceive

LEMMA SendNextAckType ==
  ASSUME TypeOK, NEW io \in Session, NEW out \in SUBSET Datagram,
         mSenderEndpoint' \in Endpoints, lastreceiveddatacount' \in Nat,
         rSendNextAck(io, out)
  PROVE  ReceiverIoType /\ UNCHANGED <<rResult, rCrashed>>
<1> DEFINE ack == {AckMessage(mSenderEndpoint', lastreceiveddatacount')}
<1>1. ack \subseteq Datagram
  BY MessageType
<1>2. CASE mSenderEndpoint' # NoEndpoint
  <2>1. PICK sent \in SendOutcomes(io) :
          /\ net' = net \cup Leaving(io, out \cup IF sent THEN ack ELSE {})
          /\ rIo' = IF sent THEN Queue(io, "sent", NoMsg) ELSE io
    BY <1>2 DEF rSendNextAck
  <2>2. (out \cup IF sent THEN ack ELSE {}) \subseteq Datagram
    BY <1>1
  <2>3. Leaving(io, out \cup IF sent THEN ack ELSE {}) \subseteq Datagram
    BY <2>2, LeavingType
  <2>4. Queue(io, "sent", NoMsg) \in Session
    BY QueueType, NoMsgType DEF HandlerKinds
  <2> QED
    BY <2>1, <2>3, <2>4 DEF rSendNextAck, ReceiverIoType, TypeOK, ReceiverTypeOK
<1>3. CASE mSenderEndpoint' = NoEndpoint
  <2>1. Leaving(io, out) \subseteq Datagram
    BY LeavingType
  <2>2. rStartNextReceive(io) \in Session
    BY ReceiverListensType
  <2> QED
    BY <1>3, <2>1, <2>2 DEF rSendNextAck, ReceiverIoType, TypeOK, ReceiverTypeOK
<1> QED
  BY <1>2, <1>3

LEMMA SendLastAckType ==
  ASSUME TypeOK, NEW io \in Session,
         mSenderEndpoint' \in Endpoints, lastreceiveddatacount' \in Nat,
         rSendLastAck(io)
  PROVE  ReceiverIoType /\ rCrashed' \in BOOLEAN
<1>1. {AckMessage(mSenderEndpoint', lastreceiveddatacount')} \in SUBSET Datagram
  BY MessageType
<1>2. CASE rEndOperation("ERR_NOERR", io,
                         {AckMessage(mSenderEndpoint', lastreceiveddatacount')})
             /\ UNCHANGED rCrashed
  BY <1>1, <1>2, ResultType, ReceiverEndType DEF TypeOK, ReceiverTypeOK
<1>3. CASE rCrashed' = TRUE /\ rIo' = io /\ UNCHANGED <<rResult, net>>
  BY <1>3 DEF ReceiverIoType, TypeOK, ReceiverTypeOK
<1> QED
  BY <1>2, <1>3 DEF rSendLastAck

LEMMA ReceiverHandlerType ==
  ASSUME TypeOK, NEW kinds, HandlerWaits(rIo, kinds)
  PROVE  /\ Running(rIo) \in Session
         /\ rIoInCheck \in Session
         /\ rReceived \in Datagram
         /\ rReceived.src \in Endpoints
         /\ rPiece \in Piece
<1>1. rIo \in Session /\ rIo.handlers # << >>
  BY DEF TypeOK, ReceiverTypeOK, HandlerWaits
<1>2. Running(rIo) \in Session /\ Head(rIo.handlers) \in Handler
  BY <1>1, RunningType
<1>3. rReceived \in Datagram
  BY <1>2 DEF rReceived, Handler
<1>4. rPiece \in Piece
  BY <1>3, TransferAssumption DEF rPiece, Piece, Datagram
<1> QED
  BY <1>2, <1>3, <1>4, TimerType DEF rIoInCheck, Datagram, Endpoints

LEMMA WriteType ==
  ASSUME TypeOK, rPiece \in Piece, rWrite
  PROVE  output' \in Seq(Piece) /\ outputState' \in {"good", "failed"}
  BY DEF rWrite, TypeOK, ReceiverTypeOK

LEMMA ReceiverStepType ==
  ASSUME TypeOK,
         \/ ReceiverHandler
         \/ (\E m \in net : rArrive(m)) \/ rExpire \/ rReceiveFails
  PROVE  ReceiverTypeOK' /\ net' \subseteq Datagram
<1> USE DEF TypeOK, ReceiverTypeOK
<1>e. \A e \in Endpoints :
        /\ {rErrorMsg(e, ERR_ILLEGAL_OP)} \subseteq Datagram
        /\ {rErrorMsg(e, ERR_ACCESS_VIOLATION)} \subseteq Datagram
        /\ {rErrorMsg(e, ERR_UNKNOWN_TR_ID)} \subseteq Datagram
  BY MessageType, ErrorCodeType
<1>1. CASE rStart
  <2> USE <1>1
  <2>1. Running(rIo) \in Session
    BY ReceiverHandlerType DEF rStart
  <2>2. CASE outputState = "failed"
    <3>1. CloseSocket(Running(rIo)) \in Session
      BY <2>1, CloseSocketType
    <3>2. rStartNextReceive(CloseSocket(Running(rIo))) \in Session
      BY <3>1, ReceiverListensType
    <3>3. rIo' \in Session
      BY <2>2, <3>1, <3>2 DEF rStart
    <3>4. Leaving(Running(rIo), {rErrorMsg(mSenderEndpoint, ERR_ACCESS_VIOLATION)})
            \subseteq Datagram
      BY <1>e, LeavingType
    <3> QED
      BY <2>2, <3>3, <3>4, ResultType DEF rStart
  <2>3. CASE outputState = "good"
    <3>1. mSenderEndpoint' \in Endpoints /\ lastreceiveddatacount' \in Nat
      BY DEF rStart
    <3>2. rSendNextAck(Running(rIo), {})
      BY <2>3 DEF rStart
    <3>3. ReceiverIoType /\ UNCHANGED <<rResult, rCrashed>>
      BY <2>1, <3>1, <3>2, SendNextAckType
    <3> QED
      BY <3>3 DEF rStart, ReceiverIoType
  <2> QED
    BY <2>2, <2>3
<1>2. CASE rAckSent
  BY <1>2, ReceiverHandlerType, ReceiverListensType DEF rAckSent
<1>3. CASE rHandleReadTimeout
  <2> USE <1>3
  <2>1. Running(rIo) \in Session
    BY ReceiverHandlerType DEF rHandleReadTimeout
  <2>2. CancelSocket(Running(rIo)) \in Session
    BY <2>1, CancelSocketType
  <2>t. rTimeoutcount' \in Nat
    BY DEF rHandleReadTimeout
  <2>c. rCrashed' \in BOOLEAN
    BY Zenon DEF rHandleReadTimeout
  <2>3. CASE rIo' \in {Running(rIo), CancelSocket(Running(rIo))} /\ UNCHANGED <<rResult, net>>
    BY <2>1, <2>2, <2>3, <2>t, <2>c DEF rHandleReadTimeout
  <2>4. CASE rEndOperation("ERR_NOERR", CancelSocket(Running(rIo)),
                           {rErrorMsg(mSenderEndpoint, ERR_ILLEGAL_OP)})
    <3>1. ReceiverIoType
      BY <2>2, <2>4, <1>e, ResultType, ReceiverEndType
    <3> QED
      BY <3>1, <2>t, <2>c DEF rHandleReadTimeout, ReceiverIoType
  <2> QED
    BY <2>3, <2>4 DEF rHandleReadTimeout
<1>4. CASE rInvalid \/ rTooHigh
  <2>1. rIoInCheck \in Session
    BY <1>4, ReceiverHandlerType DEF rInvalid, rTooHigh, rChecks
  <2>2. ReceiverIoType
    BY <1>4, <2>1, <1>e, ResultType, ReceiverEndType DEF rInvalid, rTooHigh, rAbort
  <2> QED
    BY <1>4, <2>2 DEF rInvalid, rTooHigh, rAbort, rNothingWritten, ReceiverIoType
<1>5. CASE rOldBlock \/ rForeign \/ rAborted
  <2>1. rIoInCheck \in Session /\ rReceived.src \in Endpoints
    BY <1>5, ReceiverHandlerType DEF rOldBlock, rForeign, rAborted, rChecks
  <2>2. mSenderEndpoint' \in Endpoints /\ lastreceiveddatacount' \in Nat
    BY <1>5 DEF rOldBlock, rForeign, rAborted, rNothingWritten
  <2>3. {rErrorMsg(rReceived.src, ERR_UNKNOWN_TR_ID)} \subseteq Datagram
    BY <2>1, <1>e
  <2>4. ReceiverIoType /\ UNCHANGED <<rResult, rCrashed>>
    BY <1>5, <2>1, <2>2, <2>3, SendNextAckType DEF rOldBlock, rForeign, rAborted
  <2> QED
    BY <1>5, <2>4 DEF rOldBlock, rForeign, rAborted, rNothingWritten, ReceiverIoType
<1>6. CASE rStoreFull \/ rStoreLast
  <2>1. rIoInCheck \in Session /\ rReceived.src \in Endpoints /\ rPiece \in Piece
    BY <1>6, ReceiverHandlerType DEF rStoreFull, rStoreLast, rExpectedBlock, rChecks
  <2>2. mSenderEndpoint' \in Endpoints /\ lastreceiveddatacount' \in Nat /\ rTimeoutcount' \in Nat
    BY <1>6, <2>1 DEF rStoreFull, rStoreLast, rExpectedBlock
  <2>3. output' \in Seq(Piece) /\ outputState' \in {"good", "failed"}
    BY <1>6, <2>1, WriteType DEF rStoreFull, rStoreLast
  <2>4. ReceiverIoType /\ rCrashed' \in BOOLEAN
    BY <1>6, <2>1, <2>2, SendNextAckType, SendLastAckType DEF rStoreFull, rStoreLast
  <2> QED
    BY <2>2, <2>3, <2>4 DEF ReceiverIoType
<1>7. CASE rCannotStore
  <2> USE <1>7
  <2>1. rIoInCheck \in Session /\ rReceived.src \in Endpoints
    BY ReceiverHandlerType DEF rCannotStore, rExpectedBlock, rChecks
  <2>2. mSenderEndpoint' \in Endpoints /\ lastreceiveddatacount' \in Nat /\ rTimeoutcount' \in Nat
    BY <2>1 DEF rCannotStore, rExpectedBlock
  <2>3. {rErrorMsg(mSenderEndpoint', ERR_ACCESS_VIOLATION)} \subseteq Datagram
    BY <2>2, <1>e
  <2>4. ReceiverIoType
    BY <2>1, <2>3, ResultType, ReceiverEndType DEF rCannotStore
  <2>5. rCrashed' \in BOOLEAN
    BY Zenon DEF rCannotStore, rFull
  <2> QED
    BY <2>2, <2>4, <2>5 DEF rCannotStore, ReceiverIoType
<1>8. CASE rReceiveFailed
  <2>1. rIoInCheck \in Session /\ {} \in SUBSET Datagram
    BY <1>8, ReceiverHandlerType DEF rReceiveFailed
  <2>2. ReceiverIoType
    BY <1>8, <2>1, ResultType, ReceiverEndType DEF rReceiveFailed
  <2> QED
    BY <1>8, <2>2 DEF rReceiveFailed, rNothingWritten, ReceiverIoType
<1>9. CASE \E m \in net : rArrive(m)
  <2>1. PICK m \in net : rArrive(m)
    BY <1>9
  <2>2. rIo' \in Session
    BY <2>1, CompletionType DEF rArrive
  <2>3. net' \subseteq Datagram
    BY <2>1 DEF rArrive, Delivered
  <2> QED
    BY <2>1, <2>2, <2>3 DEF rArrive, rEnv
<1>10. CASE rExpire \/ rReceiveFails
  <2>1. rIo' \in Session
    BY <1>10, CompletionType, NoMsgType DEF rExpire, rReceiveFails
  <2> QED
    BY <1>10, <2>1 DEF rExpire, rReceiveFails, rEnv
<1> QED
  BY <1>1, <1>2, <1>3, <1>4, <1>5, <1>6, <1>7, <1>8, <1>9, <1>10 DEF ReceiverHandler

(***************************************************************************)
(* Types: the transfer                                                     *)
(***************************************************************************)
\* A step of the transfer is a step of one side that leaves the other alone.
LEMMA StepOfOneSide ==
  ASSUME Next
  PROVE  \/ /\ \/ SenderHandler
               \/ (\E m \in net : sArrive(m)) \/ sExpire \/ sReceiveFails
            /\ UNCHANGED <<file, receiverVars>>
         \/ /\ \/ ReceiverHandler
               \/ (\E m \in net : rArrive(m)) \/ rExpire \/ rReceiveFails
            /\ UNCHANGED <<file, senderVars>>
  BY Zenon DEF Next, SenderStep, ReceiverStep, SenderHandler, ReceiverHandler

LEMMA InitType == Init => TypeOK
<1> SUFFICES ASSUME Init PROVE TypeOK
  OBVIOUS
<1>1. file \in Files(SenderBlockSize) /\ net \subseteq Datagram
  BY WireAssumption, TransferAssumption DEF Init
<1>2. 0 \in 0 .. MaxBlock /\ 1 \in 0 .. MaxBlock
  BY WireAssumption
<1>3. \A s \in Streams : s \in {"good", "failed"}
  BY DEF Streams
<1>4. /\ Receiver \in Endpoints /\ Sender \in Endpoints /\ NoEndpoint \in Endpoints
      /\ NoResult \in ResultCodes \cup {NoResult}
  BY DEF Endpoints, Hosts
<1>5. ASSUME NEW e \in Endpoints, NEW n \in 0 .. MaxBlock, NEW s \in Streams,
             SenderInit(e, n, s)
      PROVE  SenderTypeOK
  BY <1>3, <1>4, <1>5, FreshSessionType DEF SenderInit, SenderTypeOK
<1>6. ASSUME NEW e \in Endpoints, NEW p \in Seq(Piece), NEW s \in {"good", "failed"},
             ReceiverInit(e, p, s)
      PROVE  ReceiverTypeOK
  <2>1. Len(p) \in Nat /\ 0 \in Nat
    OBVIOUS
  <2>2. rIo \in Session /\ rCrashed \in BOOLEAN
    BY <1>6, FreshSessionType DEF ReceiverInit
  <2>3. rResult \in ResultCodes \cup {NoResult}
    BY <1>4, <1>6 DEF ReceiverInit
  <2> QED
    BY <1>6, <2>1, <2>2, <2>3 DEF ReceiverInit, ReceiverTypeOK
<1>7. << >> \in Seq(Piece)
  OBVIOUS
<1>8. CASE InitRRQ \/ InitRRQ_OACK \/ InitWRQ \/ InitWRQ_OACK
  <2>1. SenderTypeOK
    BY <1>8, <1>2, <1>4, <1>5 DEF InitRRQ, InitRRQ_OACK, InitWRQ, InitWRQ_OACK
  <2>2. ReceiverTypeOK
    BY <1>8, <1>3, <1>4, <1>6, <1>7 DEF InitRRQ, InitRRQ_OACK, InitWRQ, InitWRQ_OACK
  <2> QED
    BY <1>1, <2>1, <2>2 DEF TypeOK
<1>9. CASE InitRRQ_DATA1
  <2>r. PICK len \in BytesRead(1) :
          /\ sendingdone = Short(len)
          /\ input = IF Short(len) THEN "failed" ELSE "good"
          /\ ReceiverInit(Sender, <<[block |-> 1, len |-> len]>>, "good")
    BY <1>9, Zenon DEF InitRRQ_DATA1
  <2>s. sendingdone \in BOOLEAN
    BY <2>r DEF Short
  <2>i. input \in {"good", "failed"}
    BY <2>r
  <2>o. /\ lastsentdatacount = 1 /\ sTimeoutcount = 0
        /\ mReceiverEndpoint = Receiver /\ mLastReceivedReceiverEndpoint = Receiver
        /\ sIo = FreshSession("sent") /\ sResult = NoResult /\ sCrashed = FALSE
    BY <1>9, Zenon DEF InitRRQ_DATA1
  <2>1. SenderTypeOK
    BY <1>2, <1>4, <2>s, <2>i, <2>o, FreshSessionType DEF SenderTypeOK
  <2>2. [block |-> 1, len |-> len] \in Piece
    BY <1>1, BytesReadType, TransferAssumption DEF Piece
  <2>3. ReceiverTypeOK
    <3> DEFINE p == <<[block |-> 1, len |-> len]>>
    <3>1. p \in Seq(Piece)
      BY <2>2
    <3>2. ReceiverInit(Sender, p, "good")
      BY <2>r
    <3> HIDE DEF p
    <3> QED
      BY <1>4, <1>6, <3>1, <3>2
  <2> QED
    BY <1>1, <2>1, <2>3 DEF TypeOK
<1>10. CASE InitWRQ_ACK0
  <2>1. SenderTypeOK
    BY <1>10, <1>2, <1>4, <1>5 DEF InitWRQ_ACK0
  <2>2. ReceiverTypeOK
    BY <1>10, <1>4, <1>7, FreshSessionType DEF InitWRQ_ACK0, ReceiverTypeOK
  <2> QED
    BY <1>1, <2>1, <2>2 DEF TypeOK
<1> QED
  BY <1>8, <1>9, <1>10 DEF Init

LEMMA StepType == TypeOK /\ [Next]_vars => TypeOK'
<1> SUFFICES ASSUME TypeOK, [Next]_vars PROVE TypeOK'
  OBVIOUS
<1>1. CASE /\ \/ SenderHandler
              \/ (\E m \in net : sArrive(m)) \/ sExpire \/ sReceiveFails
           /\ UNCHANGED <<file, receiverVars>>
  <2>1. SenderTypeOK' /\ net' \subseteq Datagram
    BY <1>1, SenderStepType
  <2> QED
    BY <1>1, <2>1 DEF TypeOK, ReceiverTypeOK, receiverVars
<1>2. CASE /\ \/ ReceiverHandler
              \/ (\E m \in net : rArrive(m)) \/ rExpire \/ rReceiveFails
           /\ UNCHANGED <<file, senderVars>>
  <2>1. ReceiverTypeOK' /\ net' \subseteq Datagram
    BY <1>2, ReceiverStepType
  <2> QED
    BY <1>2, <2>1 DEF TypeOK, SenderTypeOK, senderVars, sStream, sPartner
<1>3. CASE UNCHANGED vars
  BY <1>3 DEF vars, senderVars, receiverVars, sStream, sPartner, TypeOK, SenderTypeOK,
              ReceiverTypeOK
<1> QED
  BY <1>1, <1>2, <1>3, StepOfOneSide

\* Every variable keeps its type in every transfer: the counters of the two
\* sessions, their sockets, timers and queues of handlers, and what is written.
THEOREM TypeCorrect == Spec => []TypeOK
  BY InitType, StepType, PTL DEF Spec

(***************************************************************************)
(* What is written is the beginning of the file: PrefixInv is inductive.   *)
(* First, the operations of AsioSession: a handler gets the datagram that  *)
(* arrived, or none.                                                       *)
(***************************************************************************)
LEMMA NoMsgAuthentic == Authentic(NoMsg)
  BY DEF Authentic, NoMsg, ErrorMessage

LEMMA SameHandlersAuthentic ==
  ASSUME NEW io, NEW jo, AuthenticHandlers(io), jo.handlers = io.handlers
  PROVE  AuthenticHandlers(jo)
  BY DEF AuthenticHandlers

LEMMA QueueAuthentic ==
  ASSUME NEW io \in Session, AuthenticHandlers(io),
         NEW k \in HandlerKinds, NEW m \in Datagram, Authentic(m)
  PROVE  AuthenticHandlers(Queue(io, k, m))
<1> DEFINE h == [kind |-> k, msg |-> m]
           q == Append(io.handlers, h)
<1>1. h \in Handler /\ h.msg = m
  BY DEF Handler
<1>2. io.handlers \in Seq(Handler)
  BY DEF Session
<1>3. Queue(io, k, m).handlers = q
  BY DEF Queue, Session
<1> HIDE DEF h
<1>4. \A i \in DOMAIN q : \/ i \in DOMAIN io.handlers /\ q[i] = io.handlers[i]
                         \/ q[i] = h
  BY <1>1, <1>2
<1> HIDE DEF q
<1>5. \A i \in DOMAIN q : Authentic(q[i].msg)
  BY <1>1, <1>4 DEF AuthenticHandlers
<1> QED
  BY <1>3, <1>5 DEF AuthenticHandlers

LEMMA RunningAuthentic ==
  ASSUME NEW io \in Session, io.handlers # << >>, AuthenticHandlers(io)
  PROVE  AuthenticHandlers(Running(io)) /\ Authentic(Head(io.handlers).msg)
<1>1. io.handlers \in Seq(Handler)
  BY DEF Session
<1>2. Running(io).handlers = Tail(io.handlers)
  BY DEF Running, Session
<1>3. /\ \A i \in DOMAIN Tail(io.handlers) :
           i + 1 \in DOMAIN io.handlers /\ Tail(io.handlers)[i] = io.handlers[i + 1]
      /\ 1 \in DOMAIN io.handlers /\ Head(io.handlers) = io.handlers[1]
  BY <1>1
<1> QED
  BY <1>2, <1>3 DEF AuthenticHandlers

LEMMA TimerAuthentic ==
  ASSUME NEW io \in Session, AuthenticHandlers(io)
  PROVE  AuthenticHandlers(ArmTimer(io)) /\ AuthenticHandlers(CancelTimer(io))
<1>1. ArmTimer(io).handlers = io.handlers /\ CancelTimer(io).handlers = io.handlers
  BY DEF ArmTimer, CancelTimer, Session
<1> QED
  BY <1>1, SameHandlersAuthentic

LEMMA SocketAuthentic ==
  ASSUME NEW io \in Session, AuthenticHandlers(io)
  PROVE  /\ AuthenticHandlers(AsyncReceive(io))
         /\ AuthenticHandlers(CancelSocket(io))
         /\ AuthenticHandlers(CloseSocket(io))
         /\ AuthenticHandlers(rStartNextReceive(io))
         /\ AuthenticHandlers(Queue(io, "sent", NoMsg))
<1> DEFINE idle == [io EXCEPT !.receiving = FALSE]
           busy(s) == [s EXCEPT !.receiving = TRUE]
           shut(s) == [s EXCEPT !.open = FALSE]
<1>k. {"sent", "failed", "aborted"} \subseteq HandlerKinds
  BY DEF HandlerKinds
<1>1. idle \in Session /\ AuthenticHandlers(idle)
  BY SameHandlersAuthentic DEF Session
<1>2. \A s \in Session : AuthenticHandlers(s) =>
        AuthenticHandlers(busy(s)) /\ AuthenticHandlers(shut(s))
  BY SameHandlersAuthentic DEF Session
<1>3. \A s \in Session : AuthenticHandlers(s) => AuthenticHandlers(AsyncReceive(s))
  <2> TAKE s \in Session
  <2> HAVE AuthenticHandlers(s)
  <2>1. AuthenticHandlers(Queue(s, "failed", NoMsg))
    BY <1>k, NoMsgType, NoMsgAuthentic, QueueAuthentic
  <2> QED
    BY <1>2, <2>1 DEF AsyncReceive
<1>4. AuthenticHandlers(CancelSocket(io))
  <2>1. AuthenticHandlers(Queue(idle, "aborted", NoMsg))
    BY <1>1, <1>k, NoMsgType, NoMsgAuthentic, QueueAuthentic
  <2> QED
    BY <2>1 DEF CancelSocket
<1>5. AuthenticHandlers(CloseSocket(io))
  BY <1>2, <1>4, CancelSocketType DEF CloseSocket
<1>6. AuthenticHandlers(rStartNextReceive(io))
  BY <1>3, TimerType, TimerAuthentic DEF rStartNextReceive
<1>7. AuthenticHandlers(Queue(io, "sent", NoMsg))
  BY <1>k, NoMsgType, NoMsgAuthentic, QueueAuthentic
<1> QED
  BY <1>3, <1>4, <1>5, <1>6, <1>7

LEMMA CompletionAuthentic ==
  ASSUME NEW io \in Session, AuthenticHandlers(io), NEW m \in Datagram, Authentic(m)
  PROVE  /\ AuthenticHandlers(Arrives(io, m))
         /\ AuthenticHandlers(ReceiveFails(io))
         /\ AuthenticHandlers(TimerExpires(io))
<1> DEFINE idle == [io EXCEPT !.receiving = FALSE]
           unarmed == [io EXCEPT !.armed = FALSE]
<1>1. /\ idle \in Session /\ AuthenticHandlers(idle)
      /\ unarmed \in Session /\ AuthenticHandlers(unarmed)
  BY SameHandlersAuthentic DEF Session
<1>2. {"datagram", "failed", "timeout"} \subseteq HandlerKinds
  BY DEF HandlerKinds
<1> HIDE DEF idle, unarmed
<1>3. /\ AuthenticHandlers(Queue(idle, "datagram", m))
      /\ AuthenticHandlers(Queue(idle, "failed", NoMsg))
      /\ AuthenticHandlers(Queue(unarmed, "timeout", NoMsg))
  BY <1>1, <1>2, NoMsgType, NoMsgAuthentic, QueueAuthentic
<1> QED
  BY <1>3 DEF idle, unarmed, Arrives, ReceiveFails, TimerExpires

(***************************************************************************)
(* The messages the two sides build                                        *)
(***************************************************************************)
LEMMA MessageAuthentic ==
  ASSUME NEW e, NEW n, NEW len
  PROVE  /\ Authentic(sErrorMsg(e, n))
         /\ Authentic(rErrorMsg(e, n))
         /\ Authentic(AckMessage(e, n))
         /\ len \in BytesRead(n) => Authentic(DataMessage(e, n, len))
  BY DEF Authentic, sErrorMsg, rErrorMsg, ErrorMessage, AckMessage, DataMessage

LEMMA SendAuthentic ==
  ASSUME \A m \in net : Authentic(m), NEW io, NEW msgs, \A m \in msgs : Authentic(m),
         net' = net \cup Leaving(io, msgs)
  PROVE  \A m \in net' : Authentic(m)
  BY DEF Leaving

LEMMA SendNextBlockAuthentic ==
  ASSUME \A m \in net : Authentic(m), NEW n, NEW io, NEW out, \A m \in out : Authentic(m),
         sSendNextBlock(n, io, out)
  PROVE  \A m \in net' : Authentic(m)
<1>1. CASE sGiveUpReading(io, out)
  <2> DEFINE err == sErrorMsg(mReceiverEndpoint', ERR_ACCESS_VIOLATION)
  <2>1. \A m \in out \cup {err} : Authentic(m)
    BY MessageAuthentic
  <2>2. net' = net \cup Leaving(io, out \cup {err})
    BY <1>1 DEF sGiveUpReading, sEndOperation
  <2> HIDE DEF err
  <2> QED
    BY <2>1, <2>2, SendAuthentic
<1>2. ASSUME NEW len \in BytesRead(n), sSendBlock(n, len, io, out)
      PROVE  \A m \in net' : Authentic(m)
  <2> DEFINE data == {DataMessage(mReceiverEndpoint', n, len)}
  <2>1. PICK sent \in SendOutcomes(io) :
          net' = net \cup Leaving(io, out \cup IF sent THEN data ELSE {})
    BY <1>2 DEF sSendBlock
  <2>2. \A m \in data : Authentic(m)
    BY MessageAuthentic
  <2> HIDE DEF data
  <2>3. \A m \in out \cup (IF sent THEN data ELSE {}) : Authentic(m)
    BY <2>2
  <2> QED
    BY <2>1, <2>3, SendAuthentic
<1> QED
  BY <1>1, <1>2 DEF sSendNextBlock

\* Every DATA that the sender adds to the network is the block it claims to be.
LEMMA SenderStepAuthentic ==
  ASSUME \A m \in net : Authentic(m),
         \/ SenderHandler
         \/ (\E m \in net : sArrive(m)) \/ sExpire \/ sReceiveFails
  PROVE  \A m \in net' : Authentic(m)
<1> DEFINE errors(out) == \A m \in out : \E e, c : m = sErrorMsg(e, c)
<1>e. \A out : errors(out) => \A m \in out : Authentic(m)
  BY MessageAuthentic
<1>b. ASSUME NEW n, NEW io, NEW out, errors(out), sSendNextBlock(n, io, out)
      PROVE  \A m \in net' : Authentic(m)
  BY <1>b, <1>e, SendNextBlockAuthentic
<1>s. ASSUME NEW code, NEW io, NEW out, errors(out), sEndOperation(code, io, out)
      PROVE  \A m \in net' : Authentic(m)
  BY <1>e, <1>s, SendAuthentic DEF sEndOperation
<1>o. \A e, c : errors({sErrorMsg(e, c)}) /\ errors({})
  OBVIOUS
<1> HIDE DEF errors
<1>1. CASE UNCHANGED net
  BY <1>1
<1>2. CASE \E m \in net : sArrive(m)
  BY <1>2 DEF sArrive, Delivered
<1>3. CASE sStart
  BY <1>3, <1>b, <1>s, <1>o DEF sStart
<1>4. CASE sHandleReadTimeout
  BY <1>4, <1>s, <1>o DEF sHandleReadTimeout
<1>5. CASE sBadOpcode \/ sHighAck
  BY <1>5, <1>s, <1>o DEF sBadOpcode, sHighAck, sAbort
<1>6. CASE sLowAck \/ sRunt \/ sForeign
  BY <1>6, <1>b, <1>o DEF sLowAck, sRunt, sForeign
<1>7. CASE sExpectedAck
  BY <1>7, <1>b, <1>s, <1>o DEF sExpectedAck
<1>8. CASE sNoDatagram
  <2> DEFINE out == IF sFromPartner(mLastReceivedReceiverEndpoint) THEN {}
                    ELSE {sErrorMsg(mLastReceivedReceiverEndpoint, ERR_UNKNOWN_TR_ID)}
  <2>1. errors(out)
    BY <1>o
  <2>2. sSendNextBlock(lastsentdatacount, sIoInCheck, out)
    BY <1>8 DEF sNoDatagram
  <2> HIDE DEF out
  <2> QED
    BY <2>1, <2>2, <1>b
<1> QED
  BY <1>1, <1>2, <1>3, <1>4, <1>5, <1>6, <1>7, <1>8
     DEF SenderHandler, sBlockSent, sExpire, sReceiveFails

(***************************************************************************)
(* The receiver: what it sends, and what its handlers hold                 *)
(***************************************************************************)
ReceiverIoAuthentic == (\A m \in net' : Authentic(m)) /\ AuthenticHandlers(rIo')

LEMMA ReceiverEndAuthentic ==
  ASSUME \A m \in net : Authentic(m), NEW code, NEW io \in Session, AuthenticHandlers(io),
         NEW out, \A m \in out : Authentic(m), rEndOperation(code, io, out)
  PROVE  ReceiverIoAuthentic
<1>1. \A m \in net' : Authentic(m)
  BY SendAuthentic DEF rEndOperation
<1>2. AuthenticHandlers(rIo')
  BY SocketAuthentic DEF rEndOperation
<1> QED
  BY <1>1, <1>2 DEF ReceiverIoAuthentic

LEMMA SendNextAckAuthentic ==
  ASSUME \A m \in net : Authentic(m), NEW io \in Session, AuthenticHandlers(io),
         NEW out, \A m \in out : Authentic(m), rSendNextAck(io, out)
  PROVE  ReceiverIoAuthentic
<1> DEFINE ack == {AckMessage(mSenderEndpoint', lastreceiveddatacount')}
<1>1. CASE mSenderEndpoint' # NoEndpoint
  <2>1. PICK sent \in SendOutcomes(io) :
          /\ net' = net \cup Leaving(io, out \cup IF sent THEN ack ELSE {})
          /\ rIo' = IF sent THEN Queue(io, "sent", NoMsg) ELSE io
    BY <1>1 DEF rSendNextAck
  <2>2. \A m \in ack : Authentic(m)
    BY MessageAuthentic
  <2> HIDE DEF ack
  <2>3. \A m \in out \cup (IF sent THEN ack ELSE {}) : Authentic(m)
    BY <2>2
  <2>4. \A m \in net' : Authentic(m)
    BY <2>1, <2>3, SendAuthentic
  <2>5. AuthenticHandlers(rIo')
    BY <2>1, SocketAuthentic
  <2> QED
    BY <2>4, <2>5 DEF ReceiverIoAuthentic
<1>2. CASE mSenderEndpoint' = NoEndpoint
  <2>1. net' = net \cup Leaving(io, out) /\ rIo' = rStartNextReceive(io)
    BY <1>2 DEF rSendNextAck
  <2> QED
    BY <2>1, SendAuthentic, SocketAuthentic DEF ReceiverIoAuthentic
<1> QED
  BY <1>1, <1>2

LEMMA SendLastAckAuthentic ==
  ASSUME \A m \in net : Authentic(m), NEW io \in Session, AuthenticHandlers(io),
         rSendLastAck(io)
  PROVE  ReceiverIoAuthentic
<1> DEFINE ack == {AckMessage(mSenderEndpoint', lastreceiveddatacount')}
<1>1. \A m \in ack : Authentic(m)
  BY MessageAuthentic
<1>2. CASE rEndOperation("ERR_NOERR", io, ack)
  BY <1>1, <1>2, ReceiverEndAuthentic
<1>3. CASE rIo' = io /\ UNCHANGED net
  BY <1>3 DEF ReceiverIoAuthentic
<1> QED
  BY <1>2, <1>3 DEF rSendLastAck

LEMMA ReceiverHandlerAuthentic ==
  ASSUME TypeOK, AuthenticHandlers(rIo), NEW kinds, HandlerWaits(rIo, kinds)
  PROVE  /\ Running(rIo) \in Session /\ AuthenticHandlers(Running(rIo))
         /\ rIoInCheck \in Session /\ AuthenticHandlers(rIoInCheck)
         /\ rReceived \in Datagram /\ Authentic(rReceived)
<1>1. rIo \in Session /\ rIo.handlers # << >>
  BY DEF TypeOK, ReceiverTypeOK, HandlerWaits
<1>2. AuthenticHandlers(Running(rIo)) /\ Authentic(rReceived)
  BY <1>1, RunningAuthentic DEF rReceived
<1>3. Running(rIo) \in Session /\ rIoInCheck \in Session /\ rReceived \in Datagram
  BY ReceiverHandlerType
<1> QED
  BY <1>2, <1>3, TimerAuthentic DEF rIoInCheck

LEMMA ReceiverStepIo ==
  ASSUME TypeOK, \A m \in net : Authentic(m), AuthenticHandlers(rIo),
         \/ ReceiverHandler
         \/ (\E m \in net : rArrive(m)) \/ rExpire \/ rReceiveFails
  PROVE  ReceiverIoAuthentic
<1>m. /\ \A e, c : \A m \in {rErrorMsg(e, c)} : Authentic(m)
      /\ \A m \in {} : Authentic(m)
  BY MessageAuthentic
<1>1. CASE rStart
  <2>1. Running(rIo) \in Session /\ AuthenticHandlers(Running(rIo))
    BY <1>1, ReceiverHandlerAuthentic DEF rStart
  <2>2. CASE outputState = "good"
    BY <1>1, <2>1, <2>2, <1>m, SendNextAckAuthentic DEF rStart
  <2>3. CASE outputState = "failed"
    <3> DEFINE io == CloseSocket(Running(rIo))
    <3>1. io \in Session /\ AuthenticHandlers(io)
      BY <2>1, CloseSocketType, SocketAuthentic
    <3>2. net' = net \cup Leaving(Running(rIo), {rErrorMsg(mSenderEndpoint, ERR_ACCESS_VIOLATION)})
      BY <1>1, <2>3 DEF rStart
    <3>3. rIo' \in {rStartNextReceive(io), io}
      BY <1>1, <2>3 DEF rStart
    <3> HIDE DEF io
    <3>4. AuthenticHandlers(rIo')
      BY <3>1, <3>3, SocketAuthentic
    <3>5. \A m \in net' : Authentic(m)
      BY <3>2, <1>m, SendAuthentic
    <3> QED
      BY <3>4, <3>5 DEF ReceiverIoAuthentic
  <2> QED
    BY <2>2, <2>3 DEF TypeOK, ReceiverTypeOK
<1>2. CASE rAckSent
  <2>1. AuthenticHandlers(rIo')
    BY <1>2, ReceiverHandlerAuthentic, SocketAuthentic DEF rAckSent
  <2> QED
    BY <1>2, <2>1 DEF rAckSent, ReceiverIoAuthentic
<1>3. CASE rHandleReadTimeout
  <2> DEFINE io == CancelSocket(Running(rIo))
  <2>1. /\ AuthenticHandlers(Running(rIo))
        /\ io \in Session /\ AuthenticHandlers(io)
    BY <1>3, ReceiverHandlerAuthentic, CancelSocketType, SocketAuthentic DEF rHandleReadTimeout
  <2>2. \/ rIo' = Running(rIo) /\ UNCHANGED net
        \/ rIo' = io /\ UNCHANGED net
        \/ rEndOperation("ERR_NOERR", io, {rErrorMsg(mSenderEndpoint, ERR_ILLEGAL_OP)})
    BY <1>3 DEF rHandleReadTimeout
  <2> HIDE DEF io
  <2>3. CASE UNCHANGED net /\ rIo' \in {Running(rIo), io}
    BY <2>1, <2>3 DEF ReceiverIoAuthentic
  <2>4. CASE rEndOperation("ERR_NOERR", io, {rErrorMsg(mSenderEndpoint, ERR_ILLEGAL_OP)})
    BY <2>1, <2>4, <1>m, ReceiverEndAuthentic
  <2> QED
    BY <2>2, <2>3, <2>4
<1>4. CASE rInvalid \/ rTooHigh \/ rReceiveFailed \/ rCannotStore
  <2>1. rIoInCheck \in Session /\ AuthenticHandlers(rIoInCheck)
    BY <1>4, ReceiverHandlerAuthentic
       DEF rInvalid, rTooHigh, rReceiveFailed, rCannotStore, rExpectedBlock, rChecks
  <2> QED
    BY <1>4, <2>1, <1>m, ReceiverEndAuthentic
       DEF rInvalid, rTooHigh, rReceiveFailed, rCannotStore, rAbort
<1>5. CASE rOldBlock \/ rForeign \/ rAborted \/ rStoreFull
  <2>1. rIoInCheck \in Session /\ AuthenticHandlers(rIoInCheck)
    BY <1>5, ReceiverHandlerAuthentic
       DEF rOldBlock, rForeign, rAborted, rStoreFull, rExpectedBlock, rChecks
  <2> QED
    BY <1>5, <2>1, <1>m, SendNextAckAuthentic DEF rOldBlock, rForeign, rAborted, rStoreFull
<1>6. CASE rStoreLast
  <2>1. rIoInCheck \in Session /\ AuthenticHandlers(rIoInCheck)
    BY <1>6, ReceiverHandlerAuthentic DEF rStoreLast, rExpectedBlock, rChecks
  <2> QED
    BY <1>6, <2>1, SendLastAckAuthentic DEF rStoreLast
<1>7. CASE \E m \in net : rArrive(m)
  <2>1. PICK m \in net : rArrive(m)
    BY <1>7
  <2>2. rIo \in Session /\ m \in Datagram /\ Authentic(m)
    BY DEF TypeOK, ReceiverTypeOK
  <2>3. AuthenticHandlers(rIo')
    BY <2>1, <2>2, CompletionAuthentic DEF rArrive
  <2> QED
    BY <2>1, <2>3 DEF rArrive, Delivered, ReceiverIoAuthentic
<1>8. CASE rExpire \/ rReceiveFails
  <2>1. AuthenticHandlers(rIo')
    BY <1>8, NoMsgType, NoMsgAuthentic, CompletionAuthentic
       DEF rExpire, rReceiveFails, TypeOK, ReceiverTypeOK
  <2> QED
    BY <1>8, <2>1 DEF rExpire, rReceiveFails, ReceiverIoAuthentic
<1> QED
  BY <1>1, <1>2, <1>3, <1>4, <1>5, <1>6, <1>7, <1>8 DEF ReceiverHandler

(***************************************************************************)
(* The receiver: what it counts and writes                                 *)
(***************************************************************************)

\* The block the receiver expects and gets comes from the sender, and it is
\* what the sender could read of the next piece of the file.
LEMMA ExpectedPiece ==
  ASSUME TypeOK, PrefixInv, rExpectedBlock
  PROVE  /\ rReceived.src = Sender /\ rReceived.block = rReceived.num
         /\ rReceived.len \in BytesRead(lastreceiveddatacount + 1)
         /\ rPiece = [block |-> lastreceiveddatacount + 1, len |-> rReceived.len]
<1> DEFINE n == lastreceiveddatacount + 1
<1>1. rReceived \in Datagram /\ Authentic(rReceived)
  BY ReceiverHandlerAuthentic DEF PrefixInv, rExpectedBlock, rChecks
<1>2. rReceived.op = "DATA" /\ rReceived.num = n
  BY DEF rExpectedBlock, rChecks
<1>3. rReceived.src = Sender
  <2>1. CASE mSenderEndpoint = NoEndpoint
    <3>1. rReceived.num = 1
      BY <1>2, <2>1 DEF PrefixInv
    <3> QED
      BY <1>1, <1>2, <3>1 DEF Authentic
  <2>2. CASE mSenderEndpoint = Sender
    BY <2>2 DEF rExpectedBlock, rChecks, rFromPartner, Sender, NoEndpoint
  <2> QED
    BY <2>1, <2>2 DEF PrefixInv
<1>4. rReceived.block = n /\ rReceived.len \in BytesRead(n)
  BY <1>1, <1>2, <1>3 DEF Authentic
<1>5. rReceived.len \in 0 .. SenderBlockSize
  <2>1. n \in Nat
    BY DEF TypeOK, ReceiverTypeOK
  <2> HIDE DEF n
  <2> QED
    BY <1>4, <2>1, BytesReadType DEF TypeOK
<1>6. rPiece.block = n /\ rPiece.len = rReceived.len
  <2> HIDE DEF n
  <2> QED
    BY <1>4, <1>5, TransferAssumption DEF rPiece, rFull
<1> QED
  BY <1>2, <1>3, <1>4, <1>6 DEF rPiece

\* What PrefixInv says of the receiver's variables, and not of the datagrams.
Recorded ==
  /\ mSenderEndpoint \in {NoEndpoint, Sender}
  /\ mSenderEndpoint = NoEndpoint => lastreceiveddatacount = 0
  /\ Len(output) <= lastreceiveddatacount
  /\ outputState = "good" => Len(output) = lastreceiveddatacount
  /\ InOrder

LEMMA ReceiverStepRecords ==
  ASSUME TypeOK, PrefixInv, UNCHANGED file,
         \/ ReceiverHandler
         \/ (\E m \in net : rArrive(m)) \/ rExpire \/ rReceiveFails
  PROVE  Recorded'
<1> DEFINE n == lastreceiveddatacount + 1
<1>0. Recorded /\ \A k : BytesRead(k)' = BytesRead(k)
  BY DEF PrefixInv, Recorded, BytesRead, BlockLen
<1>t. output \in Seq(Piece) /\ Len(output) \in Nat /\ lastreceiveddatacount \in Nat
  BY DEF TypeOK, ReceiverTypeOK
<1>1. CASE UNCHANGED <<mSenderEndpoint, lastreceiveddatacount, output, outputState>>
  BY <1>0, <1>1 DEF Recorded, InOrder
<1>2. CASE rStoreFull \/ rStoreLast
  <2>1. rExpectedBlock /\ rWrite /\ outputState = "good"
    BY <1>2 DEF rStoreFull, rStoreLast
  <2>2. /\ mSenderEndpoint' = Sender /\ lastreceiveddatacount' = n
        /\ rPiece.block = n /\ rPiece.len \in BytesRead(n)
    BY <2>1, ExpectedPiece DEF rExpectedBlock
  <2>3. CASE output' = Append(output, rPiece) /\ UNCHANGED outputState
    <3>1. output \in Seq(Piece) /\ lastreceiveddatacount \in Nat /\ rPiece \in Piece
      BY <2>1, ReceiverHandlerType DEF TypeOK, ReceiverTypeOK, rExpectedBlock, rChecks
    <3>2. Len(output) = lastreceiveddatacount
      BY <1>0, <2>1 DEF Recorded
    <3>3. /\ Len(output') = n
          /\ \A i \in DOMAIN output' : \/ i \in DOMAIN output /\ output'[i] = output[i]
                                       \/ i = n /\ output'[i] = rPiece
      <4> HIDE DEF n
      <4>1. n = Len(output) + 1
        BY <3>2 DEF n
      <4> QED
        BY <2>3, <3>1, <4>1
    <3>4. InOrder'
      <4> HIDE DEF n
      <4> QED
        BY <1>0, <2>2, <3>3 DEF InOrder, Recorded
    <3> QED
      BY <1>t, <2>2, <3>3, <3>4 DEF Recorded, Sender, NoEndpoint
  <2>4. CASE outputState' = "failed" /\ UNCHANGED output
    <3>1. InOrder'
      BY <1>0, <2>4 DEF Recorded, InOrder
    <3> QED
      BY <1>0, <1>t, <2>2, <2>4, <3>1 DEF Recorded, Sender, NoEndpoint
  <2> QED
    BY <2>1, <2>3, <2>4 DEF rWrite
<1>3. CASE rCannotStore
  <2>1. /\ mSenderEndpoint' = Sender /\ outputState = "failed"
        /\ lastreceiveddatacount' = n /\ UNCHANGED <<output, outputState>>
    BY <1>3, ExpectedPiece DEF rCannotStore, rExpectedBlock
  <2>2. InOrder'
    BY <1>0, <2>1 DEF Recorded, InOrder
  <2> QED
    BY <1>0, <1>t, <2>1, <2>2 DEF Recorded, Sender, NoEndpoint
<1>4. ASSUME \/ ReceiverHandler
             \/ (\E m \in net : rArrive(m)) \/ rExpire \/ rReceiveFails,
             ~rStoreFull, ~rStoreLast, ~rCannotStore
      PROVE  UNCHANGED <<mSenderEndpoint, lastreceiveddatacount, output, outputState>>
  BY <1>4 DEF ReceiverHandler, rStart, rAckSent, rHandleReadTimeout, rInvalid, rTooHigh,
              rAbort, rOldBlock, rForeign, rAborted, rReceiveFailed, rNothingWritten,
              rArrive, rExpire, rReceiveFails, rEnv
<1> QED
  BY <1>1, <1>2, <1>3, <1>4

(***************************************************************************)
(* The transfer                                                            *)
(***************************************************************************)
LEMMA InitPrefix == Init => PrefixInv
<1> SUFFICES ASSUME Init PROVE PrefixInv
  OBVIOUS
<1>1. \A m \in net : Authentic(m)
  BY WireAssumption DEF Init, Authentic, Stranger, Sender
<1>2. AuthenticHandlers(FreshSession("start")) /\ AuthenticHandlers(FreshSession("sent"))
  BY NoMsgAuthentic DEF AuthenticHandlers, FreshSession
<1>3. Recorded /\ rIo \in {FreshSession("start"), FreshSession("sent")}
  <2>1. ASSUME NEW e \in {NoEndpoint, Sender}, NEW s, ReceiverInit(e, << >>, s)
        PROVE  Recorded /\ rIo = FreshSession("start")
    BY <2>1 DEF ReceiverInit, Recorded, InOrder, NewSession
  <2>2. CASE InitRRQ \/ InitRRQ_OACK \/ InitWRQ \/ InitWRQ_OACK
    BY <2>1, <2>2 DEF InitRRQ, InitRRQ_OACK, InitWRQ, InitWRQ_OACK
  <2>3. CASE InitRRQ_DATA1
    <3>1. PICK len \in BytesRead(1) :
            ReceiverInit(Sender, <<[block |-> 1, len |-> len]>>, "good")
      BY <2>3 DEF InitRRQ_DATA1
    <3> QED
      BY <3>1 DEF ReceiverInit, Recorded, InOrder, NewSession, Sender, NoEndpoint
  <2>4. CASE InitWRQ_ACK0
    BY <2>4 DEF InitWRQ_ACK0, Recorded, InOrder
  <2> QED
    BY <2>2, <2>3, <2>4 DEF Init
<1> QED
  BY <1>1, <1>2, <1>3 DEF PrefixInv, Recorded

LEMMA StepPrefix == TypeOK /\ PrefixInv /\ [Next]_vars => PrefixInv'
<1> SUFFICES ASSUME TypeOK, PrefixInv, [Next]_vars PROVE PrefixInv'
  OBVIOUS
<1>0. ASSUME UNCHANGED file, \A m \in net' : Authentic(m), AuthenticHandlers(rIo'), Recorded'
      PROVE  PrefixInv'
  BY <1>0 DEF PrefixInv, Recorded, Authentic, AuthenticHandlers, BytesRead, BlockLen
<1>1. CASE /\ \/ SenderHandler
              \/ (\E m \in net : sArrive(m)) \/ sExpire \/ sReceiveFails
           /\ UNCHANGED <<file, receiverVars>>
  <2>1. \A m \in net' : Authentic(m)
    BY <1>1, SenderStepAuthentic DEF PrefixInv
  <2>2. AuthenticHandlers(rIo')
    BY <1>1 DEF PrefixInv, receiverVars
  <2>3. Recorded'
    BY <1>1 DEF PrefixInv, receiverVars, Recorded, InOrder, BytesRead, BlockLen
  <2> QED
    BY <1>0, <1>1, <2>1, <2>2, <2>3
<1>2. CASE /\ \/ ReceiverHandler
              \/ (\E m \in net : rArrive(m)) \/ rExpire \/ rReceiveFails
           /\ UNCHANGED <<file, senderVars>>
  <2>1. ReceiverIoAuthentic
    BY <1>2, ReceiverStepIo DEF PrefixInv
  <2>2. Recorded'
    BY <1>2, ReceiverStepRecords
  <2> QED
    BY <1>0, <1>2, <2>1, <2>2 DEF ReceiverIoAuthentic
<1>3. CASE UNCHANGED vars
  BY <1>3 DEF vars, receiverVars, PrefixInv, Authentic, AuthenticHandlers, InOrder, BytesRead,
              BlockLen
<1> QED
  BY <1>1, <1>2, <1>3, StepOfOneSide
=============================================================================
