---------------------------- MODULE TransferTests -----------------------------
(***************************************************************************)
(* The unit tests of Tftpsender and TftpReceiver, run on the model.  Each  *)
(* TEST is a record: how the end under test is constructed, the length of  *)
(* the last of its six blocks, what the peer (the test itself) sends at    *)
(* the outset and in reply to the n-th datagram it gets, and the datagrams *)
(* it expects.  stops: the test stops the io_context once it has them;     *)
(* otherwise it joins the thread, which ends when the session does.        *)
(* written: the test compares the output with the file.                    *)
(*                                                                         *)
(* The peer answers within milliseconds and the timers take two seconds:   *)
(* a timer expires only when nothing else can happen.                      *)
(***************************************************************************)
EXTENDS Transfer, SequencesExt

VARIABLES
  test,
  seen   \* the datagrams the peer has received, in order

NUM_OF_BLOCKS == 5
Full == SenderBlockSize
Blocks == NUM_OF_BLOCKS + 1

Repeated(m, n) == [i \in 1 .. n |-> m]

\* Block n of a file whose last block has `tail' bytes.
Block(n, tail) == DataMessage(Receiver, n, IF n = Blocks THEN tail ELSE Full)
Ack(n) == AckMessage(Sender, n)
ErrorFrom(end, peer) == ErrorMessage(end, peer, ERR_ILLEGAL_OP)

(***************************************************************************)
(* tst_ttftpsender.cpp                                                     *)
(***************************************************************************)
SenderTest(partner, first, tail) ==
  [end |-> Sender, partner |-> partner, first |-> first, tail |-> tail,
   opening |-> IF first = 0 THEN {Ack(0)} ELSE {}, replies |-> << >>,
   expects |-> <<Block(1, tail)>>, stops |-> TRUE, written |-> FALSE]

\* The peer acknowledges what it gets, and gets the whole file.
AckingAll(t) ==
  [t EXCEPT !.replies = [n \in 1 .. Blocks |-> {Ack(n)}],
            !.expects = [n \in 1 .. Blocks |-> Block(n, t.tail)],
            !.stops = FALSE]

FirstBlockAfterStart_Server == SenderTest(Receiver, 1, 0)
FirstBlockAfterStart_Client == SenderTest(NoEndpoint, 0, 0)
CorrectAmountofTotalBlocksSent == AckingAll(SenderTest(Receiver, 1, 0))
CorrectLastBlockSent_FullBlock_Server == AckingAll(SenderTest(Receiver, 1, 0))
CorrectLastBlockSent_HalfBlock_Server == AckingAll(SenderTest(Receiver, 1, 10))
CompleteFileSentCorrectlyHalfBlock_Server == AckingAll(SenderTest(Receiver, 1, 10))
CompleteFileSentCorrectlyFullBlock_Server == AckingAll(SenderTest(Receiver, 1, 0))
CorrectLastBlockSent_FullBlock_Client == AckingAll(SenderTest(NoEndpoint, 0, 0))
CorrectLastBlockSent_HalfBlock_Client == AckingAll(SenderTest(NoEndpoint, 0, 10))
CompleteFileSentCorrectlyHalfBlock_Client == AckingAll(SenderTest(Receiver, 0, 10))
CompleteFileSentCorrectlyFullBlock_Client == AckingAll(SenderTest(Receiver, 0, 0))

ResendWhenNoACK ==
  [SenderTest(Receiver, 1, 0) EXCEPT !.expects = Repeated(Block(1, 0), 2)]

ConnectioncloseAfterMultipleTimeouts ==
  [SenderTest(Receiver, 1, 0) EXCEPT
     !.expects = Append(Repeated(Block(1, 0), Retransmissions + 1), ErrorFrom(Sender, Receiver)),
     !.stops = FALSE]

ResendWhenSmallerACK ==
  [SenderTest(Receiver, 1, 0) EXCEPT !.replies = Repeated({Ack(0)}, 3),
                                     !.expects = Repeated(Block(1, 0), 3)]

ErrorWhenLargerACK ==
  [SenderTest(Receiver, 1, 0) EXCEPT !.replies = <<{Ack(5)}>>,
                                     !.expects = <<Block(1, 0), ErrorFrom(Sender, Receiver)>>]

SenderTests ==
  { FirstBlockAfterStart_Server, FirstBlockAfterStart_Client, CorrectAmountofTotalBlocksSent,
    CorrectLastBlockSent_FullBlock_Server, CorrectLastBlockSent_HalfBlock_Server,
    CompleteFileSentCorrectlyHalfBlock_Server, CompleteFileSentCorrectlyFullBlock_Server,
    CorrectLastBlockSent_FullBlock_Client, CorrectLastBlockSent_HalfBlock_Client,
    CompleteFileSentCorrectlyHalfBlock_Client, CompleteFileSentCorrectlyFullBlock_Client,
    ResendWhenNoACK, ConnectioncloseAfterMultipleTimeouts, ResendWhenSmallerACK,
    ErrorWhenLargerACK }

(***************************************************************************)
(* tst_ttftpreceiver.cpp                                                   *)
(***************************************************************************)
\* A receiver that knows its partner begins with ACK 0, the others with the
\* ACK of the block they get at the outset.
ReceiverTest(partner, tail) ==
  [end |-> Receiver, partner |-> partner, first |-> 0, tail |-> tail,
   opening |-> IF partner = NoEndpoint THEN {Block(1, tail)} ELSE {}, replies |-> << >>,
   expects |-> <<IF partner = NoEndpoint THEN Ack(1) ELSE Ack(0)>>,
   stops |-> TRUE, written |-> FALSE]

\* The peer sends each block when it has the ACK of the one before.
SendingAll(t) ==
  LET before == IF t.partner = NoEndpoint THEN 0 ELSE 1 IN
  [t EXCEPT !.replies = [n \in 1 .. (Blocks + before - 1) |-> {Block(n + 1 - before, t.tail)}],
            !.expects = [n \in 1 .. (Blocks + before) |-> Ack(n - before)],
            !.stops = FALSE]

Compared(t) == [t EXCEPT !.written = TRUE]

firstAckAfterStart_0 == ReceiverTest(Sender, 0)
firstAckAfterStart_1 == ReceiverTest(NoEndpoint, 0)
lastblockAckHalfFilled_Server == SendingAll(ReceiverTest(Sender, 64))
lastBlockACKFullFilled_Server == SendingAll(ReceiverTest(Sender, 0))
lastBlockACKHalfFilled_Client == SendingAll(ReceiverTest(NoEndpoint, 64))
lastBlockACKFullFilled_Client == SendingAll(ReceiverTest(NoEndpoint, 0))
outputFileCorrectHalfFilledLast_Server == Compared(SendingAll(ReceiverTest(Sender, 64)))
outputFileCorrectFullFilledLast_Server == Compared(SendingAll(ReceiverTest(Sender, 0)))
outputFileCorrectHalfFilledLast_Client == Compared(SendingAll(ReceiverTest(NoEndpoint, 64)))
outputFileCorrectFullFilledLast_Client == Compared(SendingAll(ReceiverTest(NoEndpoint, 0)))

ACKresentAtOldDataBlock ==
  [ReceiverTest(Sender, 0) EXCEPT !.replies = Repeated({Block(1, 0)}, 2),
                                  !.expects = <<Ack(0), Ack(1), Ack(1)>>]

\* The first block under the number of the second.
ErrorOnDataBlockIDTooLarge ==
  [ReceiverTest(Sender, 0) EXCEPT !.replies = <<{[Block(1, 0) EXCEPT !.num = 2]}>>,
                                  !.expects = <<Ack(0), ErrorFrom(Receiver, Sender)>>]

ACKResentOnTimeout == [ReceiverTest(Sender, 0) EXCEPT !.expects = Repeated(Ack(0), 2)]

ConnectioncloseAfterTimeouts ==
  [ReceiverTest(Sender, 0) EXCEPT
     !.expects = Append(Repeated(Ack(0), Retransmissions + 1), ErrorFrom(Receiver, Sender)),
     !.stops = FALSE]

ReceiverTests ==
  { firstAckAfterStart_0, firstAckAfterStart_1,
    lastblockAckHalfFilled_Server, lastBlockACKFullFilled_Server,
    lastBlockACKHalfFilled_Client, lastBlockACKFullFilled_Client,
    outputFileCorrectHalfFilledLast_Server, outputFileCorrectFullFilledLast_Server,
    outputFileCorrectHalfFilledLast_Client, outputFileCorrectFullFilledLast_Client,
    ACKresentAtOldDataBlock, ErrorOnDataBlockIDTooLarge, ACKResentOnTimeout,
    ConnectioncloseAfterTimeouts }

(***************************************************************************)
(* Running a test: the end under test, the peer, and nobody else.          *)
(***************************************************************************)
TestInit ==
  /\ test \in SenderTests \cup ReceiverTests
  /\ seen = << >>
  /\ file = [blocks |-> Blocks, tail |-> test.tail]
  /\ net = test.opening
  /\ SenderInit(IF test.end = Sender THEN test.partner ELSE Receiver, test.first, "good")
  /\ ReceiverInit(IF test.end = Receiver THEN test.partner ELSE Sender, << >>, "good")

Peer == IF test.end = Sender THEN Receiver ELSE Sender
UnderTest == IF test.end = Sender THEN sIo ELSE rIo

InProgress == ~(test.stops /\ Len(seen) = Len(test.expects))

Quiet == net = {} /\ UnderTest.handlers = << >>

\* The peer's receive, and its reply.
PeerReceives(m) ==
  /\ m \in net /\ m.dst = Peer
  /\ seen' = Append(seen, m)
  /\ net' = (net \ {m}) \cup IF Len(seen') \in DOMAIN test.replies
                             THEN test.replies[Len(seen')] ELSE {}
  /\ UNCHANGED <<file, senderVars, receiverVars, test>>

SenderRuns ==
  /\ test.end = Sender
  /\ SenderStep(SenderHandler \/ (\E m \in net : sArrive(m)) \/ (Quiet /\ sExpire))
  /\ UNCHANGED <<test, seen>>

ReceiverRuns ==
  /\ test.end = Receiver
  /\ ReceiverStep(ReceiverHandler \/ (\E m \in net : rArrive(m)) \/ (Quiet /\ rExpire))
  /\ UNCHANGED <<test, seen>>

TestNext == InProgress /\ (SenderRuns \/ ReceiverRuns \/ \E m \in net : PeerReceives(m))

\* All that the test expects has come, the output is the file, and a test that
\* joins its thread finds the session with nothing left to do.
TestPassed ==
  /\ seen = test.expects
  /\ test.written => Complete /\ OutputIsPrefix
  /\ ~test.stops => Quiet /\ ~UnderTest.receiving /\ ~UnderTest.armed
=============================================================================
