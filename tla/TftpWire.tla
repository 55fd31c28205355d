------------------------------ MODULE TftpWire ------------------------------
(***************************************************************************)
(* What the two ends of a transfer share: the file being transferred, the  *)
(* datagrams of the protocol and the UDP network that carries them.        *)
(*                                                                         *)
(* A datagram is abstracted to what a receiver of it can tell apart: where *)
(* it comes from, its opcode, its block number (or error code), and for a  *)
(* DATA datagram which piece of which file the payload is (block 0 is a    *)
(* payload that is not part of the file) and how long it is.  "RUNT" is    *)
(* any datagram shorter than the four bytes of an ACK.                     *)
(***************************************************************************)
EXTENDS Naturals, Sequences

CONSTANTS
  MaxBlock,  \* the largest block_nr_t: 65535 in the code
  Retransmissions, \* RETRANSMISSIONS_UNTIL_TIMEOUT: 4 in the code
  Faults,    \* what may go wrong in this instance, a subset of FaultKinds
  Noise      \* datagrams of a host that takes no part in the transfer

VARIABLES
  file,      \* the file to transfer; never changes
  net        \* the datagrams in flight

FaultKinds == {"timeout", "dup", "send", "recv", "open", "read", "write"}

Sender   == "sender"
Receiver == "receiver"
Stranger == "stranger"
NoEndpoint == "none"    \* a default-constructed udp::endpoint

Hosts     == {Sender, Receiver, Stranger}
Endpoints == Hosts \cup {NoEndpoint}

Datagram ==
  [src : Hosts, dst : Endpoints, op : {"DATA", "ACK", "ERROR", "RUNT"},
   num : Nat, block : Nat, len : Nat]

(***************************************************************************)
(* The file: `blocks' blocks, all full except the last one, whose length   *)
(* `tail' is less than a block and may be 0.                               *)
(***************************************************************************)
Files(blksize) == [blocks : Nat \ {0}, tail : 0 .. (blksize - 1)]

BlockLen(n, blksize) ==
  IF n < file.blocks THEN blksize ELSE IF n = file.blocks THEN file.tail ELSE 0

(***************************************************************************)
(* The messages the two ends build.                                        *)
(***************************************************************************)
DataMessage(dst, n, len) ==
  [src |-> Sender, dst |-> dst, op |-> "DATA", num |-> n, block |-> n, len |-> len]

AckMessageAhead(dst, n) ==   \* mutant: acknowledges the block it waits for
  [src |-> Receiver, dst |-> dst, op |-> "ACK", num |-> n + 1, block |-> 0, len |-> 0]

AckMessage(dst, n) ==
  [src |-> Receiver, dst |-> dst, op |-> "ACK", num |-> n, block |-> 0, len |-> 0]

ErrorMessage(src, dst, code) ==
  [src |-> src, dst |-> dst, op |-> "ERROR", num |-> code, block |-> 0, len |-> 0]

ERR_ACCESS_VIOLATION == 2   \* TftpErrorCode
ERR_ILLEGAL_OP       == 4
ERR_UNKNOWN_TR_ID    == 5
ERR_FILE_NOT_FOUND   == 1

(***************************************************************************)
(* TftpUserFacingErrorCode: what the callback of a session reports.  The   *)
(* callback runs once, so a session with a result has ended.               *)
(***************************************************************************)
ResultCodes == {"ERR_NOERR", "ERR_UNSPECIFIED", "ERR_OUTPUT_FILE_OPEN",
                "ERR_INPUT_FILE_OPEN", "ERR_WRONG_BLOCK", "ERR_OPCODE"}
NoResult    == "none"

(***************************************************************************)
(* A datagram reaches its destination, or reaches it and stays to arrive   *)
(* again.  Datagrams arrive in any order; one that never arrives is lost.  *)
(***************************************************************************)
Delivered(m) == \/ net' = net \ {m}
                \/ "dup" \in Faults /\ net' = net

(***************************************************************************)
(* The stranger may send anything except the one datagram that would make  *)
(* it the partner: DATA 1 to a client that waits for its first block, or   *)
(* ACK 0 to a client that waits for its first acknowledgement.             *)
(***************************************************************************)
ASSUME WireAssumption ==
  /\ MaxBlock \in Nat \ {0}
  /\ Retransmissions \in Nat
  /\ Faults \subseteq FaultKinds
  /\ Noise \subseteq Datagram
  /\ \A m \in Noise : /\ m.src = Stranger
                      /\ m.num \in 0 .. MaxBlock
                      /\ ~(m.op = "DATA" /\ m.num = 1)
                      /\ ~(m.op = "ACK" /\ m.num = 0)
=============================================================================
