---------------------------- MODULE TftpReceiver -----------------------------
(***************************************************************************)
(* TftpReceiver: the end of a transfer that writes the file.  One action   *)
(* per handler, and per outcome of checkReceivedBlock.                     *)
(*                                                                         *)
(* isConnected is mSenderEndpoint # NoEndpoint, operationEnded is          *)
(* rResult # NoResult.  mLastReceivedSenderEndpoint is only looked at when *)
(* a datagram has just set it, so the source of that datagram stands for   *)
(* it.  The test for a datagram larger than the agreed block size has no   *)
(* action: databuffer has room for blocksize + CONTROLBYTES, asio cuts     *)
(* what is longer, and the test is never true.                             *)
(***************************************************************************)
EXTENDS AsioSession

CONSTANT ReceiverBlockSize

VARIABLES
  lastreceiveddatacount,
  rTimeoutcount,
  mSenderEndpoint,
  output,          \* the pieces of the file written so far
  outputState,     \* "good", or "failed": not open, or a write has failed
  rIo,             \* socket, timer and completed handlers
  rResult,         \* what the callback was called with
  rCrashed         \* an exception has left a handler

receiverVars == <<lastreceiveddatacount, rTimeoutcount, mSenderEndpoint,
                  output, outputState, rIo, rResult, rCrashed>>

Piece == [block : Nat, len : Nat]

\* The constructors: the partner is known or not; in the third one a DATA 1
\* that the client has already received is written before the start.
ReceiverInit(partner, pieces, stream) ==
  /\ lastreceiveddatacount = Len(pieces)
  /\ rTimeoutcount = 0
  /\ mSenderEndpoint = partner
  /\ output = pieces
  /\ outputState = stream
  /\ rIo = NewSession
  /\ rResult = NoResult
  /\ rCrashed = FALSE

(***************************************************************************)
(* Steps that several handlers share.  io is the session so far in the     *)
(* handler, out the error messages it has sent so far.                     *)
(***************************************************************************)
rErrorMsg(endpoint, code) == ErrorMessage(Receiver, endpoint, code)

rEndOperation(code, io, out) ==
  /\ net' = net \cup Leaving(io, out)
  /\ rIo' = CloseSocket(io)
  /\ rResult' = IF rResult = NoResult THEN code ELSE rResult

rStartNextReceiveUntimed(io) == AsyncReceive(io)   \* mutant: no timer

rStartNextReceive(io) == AsyncReceive(ArmTimer(io))

\* sendNextAck(false).  When the send fails nothing follows it.
rSendNextAck(io, out) ==
  /\ UNCHANGED <<rResult, rCrashed>>
  /\ \/ /\ mSenderEndpoint' # NoEndpoint
        /\ \E sent \in SendOutcomes(io) :
             LET ack == {AckMessage(mSenderEndpoint', lastreceiveddatacount')} IN
             /\ net' = net \cup Leaving(io, out \cup IF sent THEN ack ELSE {})
             /\ rIo' = IF sent THEN Queue(io, "sent", NoMsg) ELSE io
     \/ /\ mSenderEndpoint' = NoEndpoint
        /\ net' = net \cup Leaving(io, out)
        /\ rIo' = rStartNextReceive(io)

\* sendNextAck(true).  send_to() throws when it fails.
rSendLastAck(io) ==
  \E sent \in SendOutcomes(io) :
    \/ /\ sent
       /\ rEndOperation("ERR_NOERR", io,
                        {AckMessage(mSenderEndpoint', lastreceiveddatacount')})
       /\ UNCHANGED rCrashed
    \/ /\ ~sent
       /\ rCrashed' = TRUE
       /\ rIo' = io
       /\ UNCHANGED <<rResult, net>>

(***************************************************************************)
(* start().  It does not return when the output is unusable: it goes on    *)
(* with the closed socket.                                                 *)
(***************************************************************************)
rStart ==
  /\ ~rCrashed /\ HandlerWaits(rIo, {"start"})
  /\ UNCHANGED <<lastreceiveddatacount, rTimeoutcount, mSenderEndpoint, output, outputState>>
  /\ LET io == Running(rIo) IN
     \/ /\ outputState = "failed"
        /\ net' = net \cup Leaving(io, {rErrorMsg(mSenderEndpoint, ERR_ACCESS_VIOLATION)})
        /\ rResult' = IF rResult = NoResult THEN "ERR_OUTPUT_FILE_OPEN" ELSE rResult
        /\ rIo' = IF mSenderEndpoint = NoEndpoint
                  THEN rStartNextReceive(CloseSocket(io)) ELSE CloseSocket(io)
        /\ UNCHANGED rCrashed
     \/ /\ outputState = "good"
        /\ rSendNextAck(io, {})

\* handleACKsent()
rAckSent ==
  /\ ~rCrashed /\ HandlerWaits(rIo, {"sent"})
  /\ rIo' = rStartNextReceive(Running(rIo))
  /\ UNCHANGED <<lastreceiveddatacount, rTimeoutcount, mSenderEndpoint, output, outputState,
                 rResult, rCrashed, net>>

(***************************************************************************)
(* handleReadTimeout(); see TftpSender                                     *)
(***************************************************************************)
rHandleReadTimeout ==
  /\ ~rCrashed /\ HandlerWaits(rIo, {"timeout"})
  /\ UNCHANGED <<lastreceiveddatacount, mSenderEndpoint, output, outputState>>
  /\ LET io == Running(rIo) IN
     \/ /\ ~io.open
        /\ rCrashed' = TRUE
        /\ rIo' = io
        /\ UNCHANGED <<rTimeoutcount, rResult, net>>
     \/ /\ io.open
        /\ rTimeoutcount' = rTimeoutcount + 1
        /\ UNCHANGED rCrashed
        /\ \/ /\ rTimeoutcount' <= Retransmissions
              /\ rIo' = CancelSocket(io)
              /\ UNCHANGED <<rResult, net>>
           \/ /\ rTimeoutcount' > Retransmissions
              /\ rEndOperation("ERR_NOERR", CancelSocket(io),
                               {rErrorMsg(mSenderEndpoint, ERR_ILLEGAL_OP)})

(***************************************************************************)
(* checkReceivedBlock() and handleFirstBlockWithoutConnect()               *)
(***************************************************************************)
rReceived == Head(rIo.handlers).msg

rFromAnyone(endpoint) == TRUE   \* mutant: the source is not looked at

rFromPartner(endpoint) == mSenderEndpoint \in {NoEndpoint, endpoint}

rIoInCheck == CancelTimer(Running(rIo))

\* A datagram from the partner, or from anyone while there is none.
rChecks(ops) ==
  /\ ~rCrashed /\ HandlerWaits(rIo, {"datagram"})
  /\ rReceived.op \in ops
  /\ rFromPartner(rReceived.src)

rNothingWritten ==
  UNCHANGED <<lastreceiveddatacount, rTimeoutcount, mSenderEndpoint, output, outputState>>

rAbort(code) ==
  /\ rEndOperation(code, rIoInCheck, {rErrorMsg(mSenderEndpoint, ERR_ILLEGAL_OP)})
  /\ rNothingWritten
  /\ UNCHANGED rCrashed

rInvalid == rChecks({"ACK", "ERROR", "RUNT"}) /\ rAbort("ERR_OPCODE")

rTooHigh ==
  /\ rChecks({"DATA"}) /\ rReceived.num > lastreceiveddatacount + 1
  /\ rAbort("ERR_WRONG_BLOCK")

rOldBlock ==
  /\ rChecks({"DATA"}) /\ rReceived.num <= lastreceiveddatacount
  /\ rNothingWritten
  /\ rSendNextAck(rIoInCheck, {})

rMoreThanFull == rReceived.len > ReceiverBlockSize   \* mutant: > for >=

\* The block expected next.  databuffer holds no more than a full block.
rFull == rReceived.len >= ReceiverBlockSize

rPiece == [block |-> rReceived.block,
           len |-> IF rFull THEN ReceiverBlockSize ELSE rReceived.len]

rExpectedBlock ==
  /\ rChecks({"DATA"}) /\ rReceived.num = lastreceiveddatacount + 1
  /\ mSenderEndpoint' = rReceived.src
  /\ lastreceiveddatacount' = lastreceiveddatacount + 1
  /\ rTimeoutcount' = 0

rWriteUnchecked ==   \* mutant: the state of the stream is not looked at later
  /\ UNCHANGED outputState
  /\ \/ output' = Append(output, rPiece)
     \/ "write" \in Faults /\ UNCHANGED output

rWrite ==
  \/ output' = Append(output, rPiece) /\ UNCHANGED outputState
  \/ "write" \in Faults /\ outputState' = "failed" /\ UNCHANGED output

rStoreFull ==
  /\ rExpectedBlock /\ outputState = "good" /\ rFull
  /\ rWrite
  /\ rSendNextAck(rIoInCheck, {})

rStoreLast ==
  /\ rExpectedBlock /\ outputState = "good" /\ ~rFull
  /\ rWrite
  /\ rSendLastAck(rIoInCheck)

\* The session ends, and goes on: the ACK that follows finds the socket
\* closed, which the last one answers with an exception.
rCannotStore ==
  /\ rExpectedBlock /\ outputState = "failed"
  /\ rEndOperation("ERR_OUTPUT_FILE_OPEN", rIoInCheck,
                   {rErrorMsg(mSenderEndpoint', ERR_ACCESS_VIOLATION)})
  /\ rCrashed' = ~rFull
  /\ UNCHANGED <<output, outputState>>

rForeign ==
  /\ ~rCrashed /\ HandlerWaits(rIo, {"datagram"})
  /\ ~rFromPartner(rReceived.src)
  /\ rNothingWritten
  /\ rSendNextAck(rIoInCheck, {rErrorMsg(rReceived.src, ERR_UNKNOWN_TR_ID)})

\* The receive was cancelled by the timeout.
rAborted ==
  /\ ~rCrashed /\ HandlerWaits(rIo, {"aborted"})
  /\ rNothingWritten
  /\ rSendNextAck(rIoInCheck, {})

rReceiveFailed ==
  /\ ~rCrashed /\ HandlerWaits(rIo, {"failed"})
  /\ rNothingWritten
  /\ rEndOperation("ERR_UNSPECIFIED", rIoInCheck, {})
  /\ UNCHANGED rCrashed

ReceiverHandler ==
  \/ rStart \/ rAckSent \/ rHandleReadTimeout
  \/ rInvalid \/ rTooHigh \/ rOldBlock \/ rStoreFull \/ rStoreLast \/ rCannotStore
  \/ rForeign \/ rAborted \/ rReceiveFailed

(***************************************************************************)
(* What the receiver's host does to it.                                    *)
(***************************************************************************)
rEnv == <<lastreceiveddatacount, rTimeoutcount, mSenderEndpoint, output, outputState,
          rResult, rCrashed>>

rArrive(m) ==
  /\ ~rCrashed /\ rIo.receiving /\ m \in net /\ m.dst = Receiver
  /\ rIo' = Arrives(rIo, m)
  /\ Delivered(m)
  /\ UNCHANGED rEnv

rExpire ==
  /\ "timeout" \in Faults /\ ~rCrashed /\ rIo.armed
  /\ rIo' = TimerExpires(rIo)
  /\ UNCHANGED <<rEnv, net>>

rReceiveFails ==
  /\ "recv" \in Faults /\ ~rCrashed /\ rIo.receiving
  /\ rIo' = ReceiveFails(rIo)
  /\ UNCHANGED <<rEnv, net>>

(***************************************************************************)
(* Types                                                                   *)
(***************************************************************************)
ReceiverTypeOK ==
  /\ lastreceiveddatacount \in Nat
  /\ rTimeoutcount \in Nat
  /\ mSenderEndpoint \in Endpoints
  /\ output \in Seq(Piece)
  /\ outputState \in {"good", "failed"}
  /\ rIo \in Session
  /\ rResult \in ResultCodes \cup {NoResult}
  /\ rCrashed \in BOOLEAN
=============================================================================
