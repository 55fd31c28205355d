------------------------------ MODULE Transfer -------------------------------
(***************************************************************************)
(* One transfer: a Tftpsender and a TftpReceiver, the network between them *)
(* and a third host that may send to either.  A mode says who asked for    *)
(* the transfer and what was negotiated, which decides how the server and  *)
(* the client construct their sessions.                                    *)
(***************************************************************************)
EXTENDS TftpSender, TftpReceiver

CONSTANTS
  Modes,         \* a subset of AllModes
  TransferFiles  \* a subset of Files(SenderBlockSize)

AllModes == {"RRQ", "RRQ_OACK", "RRQ_DATA1", "WRQ", "WRQ_OACK", "WRQ_ACK0"}

ASSUME TransferAssumption ==
  /\ SenderBlockSize \in Nat \ {0}
  /\ ReceiverBlockSize = SenderBlockSize
  /\ Modes \subseteq AllModes
  /\ TransferFiles \subseteq Files(SenderBlockSize)

vars == <<file, net, senderVars, receiverVars>>

Streams == IF "open" \in Faults THEN {"good", "failed"} ELSE {"good"}

\* RRQ: the server sends DATA 1 at once, the client waits for it.
InitRRQ ==
  /\ \E stream \in Streams : SenderInit(Receiver, 1, stream)
  /\ \E stream \in Streams : ReceiverInit(NoEndpoint, << >>, stream)

\* RRQ answered with an OACK: the server waits for ACK 0, the client sends it.
InitRRQ_OACK ==
  /\ \E stream \in Streams : SenderInit(Receiver, 0, stream)
  /\ \E stream \in Streams : ReceiverInit(Sender, << >>, stream)

\* RRQ with options that the server ignores: DATA 1 is on its way or here
\* when the client constructs its receiver with it.
InitRRQ_DATA1 ==
  /\ lastsentdatacount = 1
  /\ sTimeoutcount = 0
  /\ mReceiverEndpoint = Receiver
  /\ mLastReceivedReceiverEndpoint = Receiver
  /\ sIo = FreshSession("sent")
  /\ sResult = NoResult
  /\ sCrashed = FALSE
  /\ \E len \in BytesRead(1) :
       /\ sendingdone = Short(len)
       /\ input = IF Short(len) THEN "failed" ELSE "good"
       /\ ReceiverInit(Sender, <<[block |-> 1, len |-> len]>>, "good")

\* WRQ: the client waits for ACK 0, the server sends it.
InitWRQ ==
  /\ \E stream \in Streams : SenderInit(NoEndpoint, 0, stream)
  /\ \E stream \in Streams : ReceiverInit(Sender, << >>, stream)

\* WRQ answered with an OACK: the client sends DATA 1, the server ACK 0.
InitWRQ_OACK ==
  /\ \E stream \in Streams : SenderInit(Receiver, 1, stream)
  /\ \E stream \in Streams : ReceiverInit(Sender, << >>, stream)

\* WRQ with options that the server ignores: the client has taken ACK 0 for
\* the answer and sends DATA 1.
InitWRQ_ACK0 ==
  /\ \E stream \in Streams : SenderInit(Receiver, 1, stream)
  /\ lastreceiveddatacount = 0
  /\ rTimeoutcount = 0
  /\ mSenderEndpoint = Sender
  /\ output = << >>
  /\ outputState = "good"
  /\ rIo = FreshSession("sent")
  /\ rResult = NoResult
  /\ rCrashed = FALSE

Init ==
  /\ file \in TransferFiles
  /\ net \in SUBSET Noise
  /\ \/ "RRQ" \in Modes /\ InitRRQ
     \/ "RRQ_OACK" \in Modes /\ InitRRQ_OACK
     \/ "RRQ_DATA1" \in Modes /\ InitRRQ_DATA1
     \/ "WRQ" \in Modes /\ InitWRQ
     \/ "WRQ_OACK" \in Modes /\ InitWRQ_OACK
     \/ "WRQ_ACK0" \in Modes /\ InitWRQ_ACK0

SenderStep(A)   == A /\ UNCHANGED <<file, receiverVars>>
ReceiverStep(A) == A /\ UNCHANGED <<file, senderVars>>

Next ==
  \/ SenderStep(sStart) \/ SenderStep(sBlockSent) \/ SenderStep(sHandleReadTimeout)
  \/ SenderStep(sBadOpcode) \/ SenderStep(sHighAck)
  \/ SenderStep(sLowAck) \/ SenderStep(sExpectedAck)
  \/ SenderStep(sForeign) \/ SenderStep(sNoDatagram) \/ SenderStep(sRunt)
  \/ \E m \in net : SenderStep(sArrive(m))
  \/ SenderStep(sExpire) \/ SenderStep(sReceiveFails)
  \/ ReceiverStep(rStart) \/ ReceiverStep(rAckSent) \/ ReceiverStep(rHandleReadTimeout)
  \/ ReceiverStep(rInvalid) \/ ReceiverStep(rTooHigh) \/ ReceiverStep(rOldBlock)
  \/ ReceiverStep(rStoreFull) \/ ReceiverStep(rStoreLast) \/ ReceiverStep(rCannotStore)
  \/ ReceiverStep(rForeign) \/ ReceiverStep(rAborted) \/ ReceiverStep(rReceiveFailed)
  \/ \E m \in net : ReceiverStep(rArrive(m))
  \/ ReceiverStep(rExpire) \/ ReceiverStep(rReceiveFails)

Spec == Init /\ [][Next]_vars

(***************************************************************************)
(* Fairness: the io_context runs the handlers in its queue, and a timer    *)
(* that is not cancelled expires.  Nothing is promised about datagrams,    *)
(* except that the network does not duplicate them forever; and nothing of *)
(* receives, except that those of a sender do not fail forever: it would   *)
(* resend as often, which no counter limits.                               *)
(***************************************************************************)
Handlers ==
  /\ WF_vars(SenderStep(SenderHandler))
  /\ WF_vars(ReceiverStep(ReceiverHandler))

Timers ==
  /\ WF_vars(SenderStep(sExpire))
  /\ WF_vars(ReceiverStep(rExpire))

Arrivals == \E m \in net : sArrive(m) \/ rArrive(m)

FinitelyManyDuplicates == <>[][~(Arrivals /\ UNCHANGED net)]_vars

FinitelyManyFailures == <>[][~SenderStep(sReceiveFails)]_vars

FairSpec == Spec /\ Handlers /\ Timers /\ FinitelyManyDuplicates /\ FinitelyManyFailures

\* A network that loses nothing, and timers that have no time to expire.
DeliveringSpec ==
  /\ Spec /\ Handlers
  /\ WF_vars(\E m \in net : SenderStep(sArrive(m)))
  /\ WF_vars(\E m \in net : ReceiverStep(rArrive(m)))

(***************************************************************************)
(* Invariants                                                              *)
(***************************************************************************)

\* Every variable has its type: in particular the block number the sender
\* waits for stays within a uint16_t when it rolls over.
TypeOK ==
  /\ file \in Files(SenderBlockSize)
  /\ net \subseteq Datagram
  /\ SenderTypeOK
  /\ ReceiverTypeOK

\* The sender failed to read all of the block.
Cut(piece) == piece.len < BlockLen(piece.block, SenderBlockSize)

\* What has been written is the beginning of the file, each block once and in
\* order, whatever was lost, duplicated, reordered, resent or sent by another
\* host (checkReceivedBlock).  Each block is there in full, except the last
\* one when the sender failed to read all of it: a block that was cut short is
\* never followed by another one, so the output has no gap (sendNextBlock).
InOrder ==
  \A i \in DOMAIN output : output[i].block = i /\ output[i].len \in BytesRead(i)

NothingAfterCut ==
  \A i \in DOMAIN output : Cut(output[i]) => i = Len(output)

OutputIsPrefix == InOrder /\ NothingAfterCut

\* Why it is so: a DATA in flight, or with a handler of the receiver, is the
\* block it claims to be or comes from another host; the receiver answers to
\* the sender alone, and has written what it has counted until a write fails.
Authentic(m) ==
  m.op = "DATA" =>
    IF m.src = Sender
    THEN m.block = m.num /\ m.len \in BytesRead(m.num)
    ELSE m.num # 1

AuthenticHandlers(io) == \A i \in DOMAIN io.handlers : Authentic(io.handlers[i].msg)

PrefixInv ==
  /\ \A m \in net : Authentic(m)
  /\ AuthenticHandlers(rIo)
  /\ mSenderEndpoint \in {NoEndpoint, Sender}
  /\ mSenderEndpoint = NoEndpoint => lastreceiveddatacount = 0
  /\ Len(output) <= lastreceiveddatacount
  /\ outputState = "good" => Len(output) = lastreceiveddatacount
  /\ InOrder

\* A session does one thing at a time: it waits for start(), for one send or
\* for one receive, or the handler of one of these waits to run.  Two receives
\* at once would share ackbuffer / databuffer (startNextReceive).
Chain(io) ==
  {i \in DOMAIN io.handlers : io.handlers[i].kind \in ChainKinds}
    \cup IF io.receiving THEN {0} ELSE {}

SingleChain == \A io \in {sIo, rIo} : \A i, j \in Chain(io) : i = j

\* No session waits for a datagram without a timer that will end the wait,
\* or has already ended it: a lost datagram cannot hang the transfer.  The
\* sender that has nothing to resend yet, because it waits for ACK 0, is the
\* exception the code makes (start, handleReadTimeout).
WaitsAreTimed ==
  /\ sIo.receiving => sIo.armed \/ TimeoutQueued(sIo) \/ lastsentdatacount = 0
  /\ rIo.receiving => rIo.armed \/ TimeoutQueued(rIo)

\* As long as sends succeed, a session that has not called back goes on: no
\* exception has left it, and it has an operation outstanding or a handler to
\* run, whatever opens, writes and receives do.  So what throws, a late expiry
\* or the ACK that rCannotStore sends after all, throws after the callback.  A
\* send that fails strands a session: the handlers of async_send_to have no
\* branch for an error, and the last ACK's exception skips the callback
\* (sendNextBlock, sendNextAck).
GoesOn(io, result, crashed) ==
  result = NoResult => ~crashed /\ io.open /\ Chain(io) # {}

NoneStranded ==
  "send" \notin Faults => GoesOn(sIo, sResult, sCrashed) /\ GoesOn(rIo, rResult, rCrashed)

(***************************************************************************)
(* The transfer implements StopAndWait.                                    *)
(***************************************************************************)

\* The sender knows of the blocks before the one whose ACK it waits for;
\* after the ACK of the largest block number its counter is back at 0.
Acked == IF lastsentdatacount # 0 THEN lastsentdatacount - 1
         ELSE IF lastreceiveddatacount = 0 THEN 0 ELSE MaxBlock

SW == INSTANCE StopAndWait WITH
        BlockSize <- SenderBlockSize,
        MayCut <- "read" \in Faults,
        stored <- output,
        received <- lastreceiveddatacount,
        acked <- Acked

\* Receiver and sender stay within one block of each other, and neither count
\* ever moves but by the protocol's own steps.
ImplementsStopAndWait == SW!Spec

(***************************************************************************)
(* Action properties                                                       *)
(***************************************************************************)
Complete == lastreceiveddatacount = file.blocks /\ Len(output) = file.blocks

\* A session that gives up after its retransmissions also reports ERR_NOERR
\* (endOperation(err) in handleReadTimeout).  Apart from that, a receiver
\* reports it only when the whole file has been handed to the output and no
\* earlier write had failed; the write of the last block is not looked at.  A
\* block that the sender could not read all of passes for the last one.
ReceiverReportsSuccessWhenComplete ==
  [][ (rResult = NoResult /\ rResult' = "ERR_NOERR")
        => \/ rTimeoutcount' > Retransmissions
           \/ /\ \/ lastreceiveddatacount' = file.blocks
                 \/ rReceived.len \in BytesRead(rReceived.num) /\ Cut(rReceived)
              /\ outputState = "good" /\ Len(output) >= lastreceiveddatacount
    ]_vars

\* Apart from giving up, and from a bad opcode or an ACK of a block not yet
\* sent, which also end in endOperation(), a sender reports ERR_NOERR only
\* when the receiver has taken in every block; or, when a read came up short,
\* every block that the sender has read.
SenderReportsSuccessWhenReceived ==
  [][ (sResult = NoResult /\ sResult' = "ERR_NOERR")
        => \/ sTimeoutcount' > Retransmissions
           \/ sReceived.op # "ACK" \/ sReceived.num > lastsentdatacount
           \/ lastreceiveddatacount = file.blocks
           \/ "read" \in Faults /\ lastreceiveddatacount = lastsentdatacount
    ]_vars

(***************************************************************************)
(* Liveness                                                                *)
(***************************************************************************)
sEnded == sResult # NoResult \/ sCrashed
rEnded == rResult # NoResult \/ rCrashed

\* Every receiver ends, whatever is lost: handleReadTimeout.
ReceiverEnds == <>rEnded

\* Every sender that has sent a block ends.
SenderEndsOnceStarted == (lastsentdatacount > 0) ~> sEnded

\* When nothing goes wrong both ends report success and the file is there.
TransferCompletes ==
  <>(sResult = "ERR_NOERR" /\ rResult = "ERR_NOERR" /\ Complete)
=============================================================================
