--------------------------- MODULE TransferClaims ----------------------------
(* What comments and messages in the code say of a transfer, and the code  *)
(* does not do.                                                            *)
EXTENDS MCTransfer

\* "Resends the current block": an ACK that is too low makes the sender send
\* the block it waits for once more (checkAckForLastBlock).
ResendsTheCurrentBlock ==
  [][ (sLowAck /\ sIo.open)
        => DataMessage(mReceiverEndpoint, lastsentdatacount,
                       BlockLen(lastsentdatacount, SenderBlockSize)) \in net'
    ]_vars

\* "it will receive the first ACK for block 0, or time out": the client's
\* sender always ends (TftpClient::start).
FirstAckOrTimeout == <>sEnded
=============================================================================
