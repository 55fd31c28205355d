----------------------------- MODULE TftpSender ------------------------------
(***************************************************************************)
(* Tftpsender: the end of a transfer that sends the file.  One action per  *)
(* handler, and per outcome of checkAckForLastBlock, which every           *)
(* completion of a receive runs: a datagram from the partner is a bad      *)
(* opcode, a low, expected or high ACK; it may come from another host; or  *)
(* the receive brought nothing usable.                                     *)
(*                                                                         *)
(* isConnected is mReceiverEndpoint # NoEndpoint: onConnect sets both.     *)
(* operationEnded is sResult # NoResult: endOperation sets both.           *)
(***************************************************************************)
EXTENDS AsioSession

CONSTANT SenderBlockSize

VARIABLES
  lastsentdatacount,             \* block whose ACK the sender waits for
  sendingdone,                   \* a short block has been sent
  sTimeoutcount,
  mReceiverEndpoint,
  mLastReceivedReceiverEndpoint, \* source of the last datagram received
  input,                         \* "good", or "failed": the stream's failbit
  sIo,                           \* socket, timer and completed handlers
  sResult,                       \* what the callback was called with
  sCrashed                       \* an exception has left a handler

sStream  == <<sendingdone, input>>
sPartner == <<mReceiverEndpoint, mLastReceivedReceiverEndpoint>>
senderVars == <<lastsentdatacount, sStream, sTimeoutcount, sPartner, sIo, sResult, sCrashed>>

\* The constructors: the partner is known (the server, and the client after
\* an OACK) or NoEndpoint (the client that waits for ACK 0).
SenderInit(partner, firstAck, stream) ==
  /\ lastsentdatacount = firstAck
  /\ sendingdone = FALSE
  /\ sTimeoutcount = 0
  /\ mReceiverEndpoint = partner
  /\ mLastReceivedReceiverEndpoint = partner
  /\ input = stream
  /\ sIo = NewSession
  /\ sResult = NoResult
  /\ sCrashed = FALSE

(***************************************************************************)
(* Steps that several handlers share.  io is the session so far in the     *)
(* handler, out the error messages it has sent so far.                     *)
(***************************************************************************)
sErrorMsg(endpoint, code) == ErrorMessage(Sender, endpoint, code)

sEndOperation(code, io, out) ==
  /\ net' = net \cup Leaving(io, out)
  /\ sIo' = CloseSocket(io)
  /\ sResult' = IF sResult = NoResult THEN code ELSE sResult

sStartNextReceive(io) == AsyncReceive(io)

\* What read() may bring of block n: all of it, or, when the disk fails or the
\* file has been cut off since, less.
BytesRead(n) ==
  LET len == BlockLen(n, SenderBlockSize) IN IF "read" \in Faults THEN 0 .. len ELSE {len}

ShortOrFull(len) == len <= SenderBlockSize   \* mutant: <=

ShortIfEmpty(len) == len = 0   \* mutant: a file ends where nothing is read

\* readbytes < blocksize: the last block of the file, or so it looks
Short(len) == len < SenderBlockSize

\* seekg() has nowhere to go for block 0, and fails on a stream with its
\* failbit set, which a short read leaves behind.
Unreadable(n) == n = 0 \/ input = "failed"

\* sendNextBlock() for an unreadable block: it ends the session, and the send
\* that follows finds the socket closed.
sGiveUpReading(io, out) ==
  /\ sEndOperation("ERR_INPUT_FILE_OPEN", io,
                   out \cup {sErrorMsg(mReceiverEndpoint', ERR_ACCESS_VIOLATION)})
  /\ input' = "failed"
  /\ UNCHANGED sendingdone   \* no longer looked at

\* sendNextBlock() for block n, of which len bytes are read.  When the send
\* fails nothing follows it.
sSendBlock(n, len, io, out) ==
  /\ \E sent \in SendOutcomes(io) :
       LET data == {DataMessage(mReceiverEndpoint', n, len)} IN
       /\ net' = net \cup Leaving(io, out \cup IF sent THEN data ELSE {})
       /\ sIo' = IF sent THEN Queue(io, "sent", NoMsg) ELSE io
  /\ sendingdone' = (sendingdone \/ Short(len))
  /\ input' = IF Short(len) THEN "failed" ELSE input
  /\ UNCHANGED sResult

sSendNextBlock(n, io, out) ==
  \/ Unreadable(n)  /\ sGiveUpReading(io, out)
  \/ ~Unreadable(n) /\ \E len \in BytesRead(n) : sSendBlock(n, len, io, out)

(***************************************************************************)
(* start()                                                                 *)
(***************************************************************************)
sStart ==
  /\ ~sCrashed /\ HandlerWaits(sIo, {"start"})
  /\ UNCHANGED <<lastsentdatacount, sTimeoutcount, sPartner, sCrashed>>
  /\ LET io == Running(sIo) IN
     \/ /\ input = "failed"
        /\ sEndOperation("ERR_INPUT_FILE_OPEN", io,
                         {sErrorMsg(mReceiverEndpoint, ERR_FILE_NOT_FOUND)})
        /\ UNCHANGED sStream
     \/ /\ input = "good" /\ lastsentdatacount = 1
        /\ sSendNextBlock(1, io, {})
     \/ /\ input = "good" /\ lastsentdatacount # 1
        /\ sIo' = sStartNextReceive(io)
        /\ UNCHANGED <<sStream, sResult, net>>

sBlockSentUntimed ==   \* mutant: the timer is not started again
  /\ ~sCrashed /\ HandlerWaits(sIo, {"sent"})
  /\ sIo' = sStartNextReceive(Running(sIo))
  /\ UNCHANGED <<lastsentdatacount, sStream, sTimeoutcount, sPartner, sResult, sCrashed, net>>

\* The completion of the send in sendNextBlock().
sBlockSent ==
  /\ ~sCrashed /\ HandlerWaits(sIo, {"sent"})
  /\ sIo' = sStartNextReceive(ArmTimer(Running(sIo)))
  /\ UNCHANGED <<lastsentdatacount, sStream, sTimeoutcount, sPartner, sResult, sCrashed, net>>

(***************************************************************************)
(* handleReadTimeout().  A cancelled wait does not come here; an expiry    *)
(* that was queued before the cancel does, and cancel() then throws if the *)
(* session has ended in between.                                           *)
(***************************************************************************)
sHandleReadTimeout ==
  /\ ~sCrashed /\ HandlerWaits(sIo, {"timeout"})
  /\ UNCHANGED <<lastsentdatacount, sStream, sPartner>>
  /\ LET io == Running(sIo) IN
     \/ /\ ~io.open
        /\ sCrashed' = TRUE
        /\ sIo' = io
        /\ UNCHANGED <<sTimeoutcount, sResult, net>>
     \/ /\ io.open
        /\ sTimeoutcount' = sTimeoutcount + 1
        /\ UNCHANGED sCrashed
        /\ \/ /\ sTimeoutcount' <= Retransmissions
              /\ sIo' = CancelSocket(io)
              /\ UNCHANGED <<sResult, net>>
           \/ /\ sTimeoutcount' > Retransmissions
              /\ sEndOperation("ERR_NOERR", CancelSocket(io),
                               {sErrorMsg(mReceiverEndpoint, ERR_ILLEGAL_OP)})

(***************************************************************************)
(* checkAckForLastBlock()                                                  *)
(***************************************************************************)
sReceived == Head(sIo.handlers).msg

sFromAnyone(endpoint) == TRUE   \* mutant: wrongRemoteHost is never set

sFromPartner(endpoint) == mReceiverEndpoint \in {NoEndpoint, endpoint}

\* A datagram from the partner, or from anyone while there is none.
sChecks(ops) ==
  /\ ~sCrashed /\ HandlerWaits(sIo, {"datagram"})
  /\ sReceived.op \in ops
  /\ sFromPartner(sReceived.src)
  /\ mLastReceivedReceiverEndpoint' = sReceived.src
  /\ UNCHANGED sCrashed

sIoInCheck == CancelTimer(Running(sIo))

sAbort ==
  /\ sEndOperation("ERR_NOERR", sIoInCheck, {sErrorMsg(mReceiverEndpoint, ERR_ILLEGAL_OP)})
  /\ UNCHANGED <<lastsentdatacount, sStream, sTimeoutcount, mReceiverEndpoint>>

sBadOpcode == sChecks({"DATA", "ERROR"}) /\ sAbort

sHighAck == sChecks({"ACK"}) /\ sReceived.num > lastsentdatacount /\ sAbort

sLowAck ==
  /\ sChecks({"ACK"}) /\ sReceived.num < lastsentdatacount
  /\ UNCHANGED <<lastsentdatacount, sTimeoutcount, mReceiverEndpoint>>
  /\ sSendNextBlock(lastsentdatacount, sIoInCheck, {})

BlockAfterUnwrapped(n) == n + 1   \* mutant: the counter is wider than the wire's

\* lastsentdatacount is a uint16_t
BlockAfter(n) == IF n = MaxBlock THEN 0 ELSE n + 1

sExpectedAck ==
  /\ sChecks({"ACK"}) /\ sReceived.num = lastsentdatacount
  /\ mReceiverEndpoint' = sReceived.src
  /\ lastsentdatacount' = BlockAfter(lastsentdatacount)
  /\ sTimeoutcount' = 0
  /\ \/ /\ sendingdone
        /\ sEndOperation("ERR_NOERR", sIoInCheck, {})
        /\ UNCHANGED sStream
     \/ /\ ~sendingdone
        /\ sSendNextBlock(lastsentdatacount', sIoInCheck, {})

\* mutant: receives again, as the comment in the code has it, and resends too
sForeignReceives ==
  /\ ~sCrashed /\ HandlerWaits(sIo, {"datagram"})
  /\ ~sFromPartner(sReceived.src)
  /\ mLastReceivedReceiverEndpoint' = sReceived.src
  /\ UNCHANGED <<lastsentdatacount, sTimeoutcount, mReceiverEndpoint, sCrashed>>
  /\ sSendNextBlock(lastsentdatacount, sStartNextReceive(sIoInCheck),
                    {sErrorMsg(sReceived.src, ERR_UNKNOWN_TR_ID)})

\* wrongRemoteHost, on a datagram
sForeign ==
  /\ ~sCrashed /\ HandlerWaits(sIo, {"datagram"})
  /\ ~sFromPartner(sReceived.src)
  /\ mLastReceivedReceiverEndpoint' = sReceived.src
  /\ UNCHANGED <<lastsentdatacount, sTimeoutcount, mReceiverEndpoint, sCrashed>>
  /\ sSendNextBlock(lastsentdatacount, sIoInCheck, {sErrorMsg(sReceived.src, ERR_UNKNOWN_TR_ID)})

sNoDatagramReceives ==   \* mutant: receives again, and resends too
  /\ ~sCrashed /\ HandlerWaits(sIo, {"aborted", "failed"})
  /\ UNCHANGED <<lastsentdatacount, sTimeoutcount, sPartner, sCrashed>>
  /\ sSendNextBlock(lastsentdatacount, sStartNextReceive(sIoInCheck), {})

sNoDatagramIgnored ==   \* mutant: a receive that is cancelled is not followed up
  /\ ~sCrashed /\ HandlerWaits(sIo, {"aborted", "failed"})
  /\ sIo' = sIoInCheck
  /\ UNCHANGED <<lastsentdatacount, sStream, sTimeoutcount, sPartner, sResult, sCrashed, net>>

\* The receive was cancelled or failed.  It left the source of the datagram
\* before it in place, so wrongRemoteHost may hold here as well; either way
\* the block is sent again.
sNoDatagram ==
  /\ ~sCrashed /\ HandlerWaits(sIo, {"aborted", "failed"})
  /\ UNCHANGED <<lastsentdatacount, sTimeoutcount, sPartner, sCrashed>>
  /\ sSendNextBlock(lastsentdatacount, sIoInCheck,
       IF sFromPartner(mLastReceivedReceiverEndpoint) THEN {}
       ELSE {sErrorMsg(mLastReceivedReceiverEndpoint, ERR_UNKNOWN_TR_ID)})

sRunt ==
  /\ sChecks({"RUNT"})
  /\ UNCHANGED <<lastsentdatacount, sTimeoutcount, mReceiverEndpoint>>
  /\ sSendNextBlock(lastsentdatacount, sIoInCheck, {})

SenderHandler ==
  \/ sStart \/ sBlockSent \/ sHandleReadTimeout
  \/ sBadOpcode \/ sHighAck \/ sLowAck \/ sExpectedAck
  \/ sForeign \/ sNoDatagram \/ sRunt

(***************************************************************************)
(* What the sender's host does to it.                                      *)
(***************************************************************************)
sEnv == <<lastsentdatacount, sStream, sTimeoutcount, sPartner, sResult, sCrashed>>

sArrive(m) ==
  /\ ~sCrashed /\ sIo.receiving /\ m \in net /\ m.dst = Sender
  /\ sIo' = Arrives(sIo, m)
  /\ Delivered(m)
  /\ UNCHANGED sEnv

sExpire ==
  /\ "timeout" \in Faults /\ ~sCrashed /\ sIo.armed
  /\ sIo' = TimerExpires(sIo)
  /\ UNCHANGED <<sEnv, net>>

sReceiveFails ==
  /\ "recv" \in Faults /\ ~sCrashed /\ sIo.receiving
  /\ sIo' = ReceiveFails(sIo)
  /\ UNCHANGED <<sEnv, net>>

(***************************************************************************)
(* Types                                                                   *)
(***************************************************************************)
SenderTypeOK ==
  /\ lastsentdatacount \in 0 .. MaxBlock
  /\ sendingdone \in BOOLEAN
  /\ sTimeoutcount \in Nat
  /\ mReceiverEndpoint \in Endpoints
  /\ mLastReceivedReceiverEndpoint \in Endpoints
  /\ input \in {"good", "failed"}
  /\ sIo \in Session
  /\ sResult \in ResultCodes \cup {NoResult}
  /\ sCrashed \in BOOLEAN
=============================================================================
