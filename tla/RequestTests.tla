----------------------------- MODULE RequestTests -----------------------------
(***************************************************************************)
(* The unit tests of TftpClient and TftpServer, run on the model.  Each    *)
(* TEST is a record: who is under test, the job, what the mock peer sends  *)
(* at the outset and in reply to the n-th datagram it gets, the datagrams  *)
(* it expects and what the callback must have been called with.  stops:    *)
(* the test stops the io_context once it has the datagrams.                *)
(*                                                                         *)
(* Nothing is lost here and the peer answers at once: a timer expires, and *)
(* a transfer ends, only when nothing else can happen.                     *)
(***************************************************************************)
EXTENDS Negotiation, SequencesExt

VARIABLES
  test,
  seen   \* what the peer has received, in order

\* What the tests compare of a datagram.
Contents(op, num, options) == [op |-> op, num |-> num, options |-> options]

What(m) == Contents(m.op, m.num, m.options)

Data(n)   == Contents("DATA", n, NoOptions)
Ack(n)    == Contents("ACK", n, NoOptions)
Oack(map) == Contents("OACK", 0, map)
Error(code) == Contents("ERROR", code, NoOptions)

Blksize(n) == [NoOptions EXCEPT !["blksize"] = n]

\* "just any non-default, valid value here": the tests have 1024.
ValidValues == {Blksize(n) : n \in {MinBlksize, 1024, MaxBlksize}}

\* "too small, too large, or no integer": the tests have 7.
InvalidOACKs == {Oack(Blksize(n)) : n \in {0, MinBlksize - 1, MaxBlksize + 1}}

WithTsize(options, n) == [options EXCEPT !["tsize"] = n]

NoFile == UintMax

TestJob(op, size, options) ==
  [op |-> op, options |-> options, size |-> size, space |-> LongMax,
   readable |-> size # NoFile, writable |-> TRUE]

(***************************************************************************)
(* tst_client.cpp: the mock server has the port the client sends to.       *)
(***************************************************************************)
ClientTest(op, size, options) ==
  [who |-> "client",
   job |-> TestJob(op, size, options), opening |-> {}, replies |-> << >>,
   expects |-> <<Contents(op, 0, IF options = NoOptions THEN NoOptions
                                 ELSE WithTsize(options, IF op = "RRQ" THEN 0 ELSE size))>>,
   result |-> NoResult, stops |-> TRUE]

\* The peer answers the request with `reply' and expects `answer' to it.
Replied(t, reply, answer) ==
  [t EXCEPT !.replies = Append(@, {reply}), !.expects = Append(@, answer)]

CorrectRRQ == ClientTest("RRQ", NoFile, NoOptions)
CorrectWRQ == ClientTest("WRQ", NoFile, NoOptions)
CorrectResponseRRQ == Replied(CorrectRRQ, Data(1), Ack(1))
CorrectResponseWRQ == Replied(ClientTest("WRQ", 2560, NoOptions), Ack(0), Data(1))

\* The file fills a block, so that the test's peer gets an empty DATA 2 as well:
\* what follows the first block is left to the end of the session ("it
\* completes" below), and to TransferTests.
CorrectCallbackOnFinish ==
  [Replied(ClientTest("WRQ", 512, NoOptions), Ack(0), Data(1)) EXCEPT
     !.replies = Append(@, {Ack(1)}), !.result = "ERR_NOERR", !.stops = FALSE]

CorrectErrorOnInvalidOACK_RRQ_blksize(v, oack) ==
  Replied(ClientTest("RRQ", NoFile, v), oack, Error(ERR_OPT_NEGOTIATION))
CorrectErrorOnInvalidOACK_WRQ_blksize(v, oack) ==
  Replied(ClientTest("WRQ", NoFile, v), oack, Error(ERR_OPT_NEGOTIATION))

CorrectBlksizeNegotiationRRQ(v) ==
  Replied(ClientTest("RRQ", NoFile, v), Oack(WithTsize(v, 0)), Ack(0))
CorrectBlksizeNegotiationWRQ(v) ==
  Replied(ClientTest("WRQ", 2048, v), Oack(WithTsize(v, 2048)), Data(1))

CLientRevertToDefaultWhenWrongOACK_RRQ(v) ==
  Replied(ClientTest("RRQ", NoFile, v), Data(1), Ack(1))
CLientRevertToDefaultWhenWrongOACK_WRQ(v) ==
  Replied(ClientTest("WRQ", 2048, v), Ack(0), Data(1))

CorrectErrorWhenWRQNonExistingFileToUser ==
  [CorrectWRQ EXCEPT !.result = "ERR_INPUT_FILE_OPEN", !.stops = FALSE]

ClientTests ==
  { CorrectRRQ, CorrectWRQ, CorrectResponseRRQ, CorrectResponseWRQ, CorrectCallbackOnFinish,
    CorrectErrorWhenWRQNonExistingFileToUser }
  \cup UNION
    {{ CorrectErrorOnInvalidOACK_RRQ_blksize(v, oack),
       CorrectErrorOnInvalidOACK_WRQ_blksize(v, oack),
       CorrectBlksizeNegotiationRRQ(v), CorrectBlksizeNegotiationWRQ(v),
       CLientRevertToDefaultWhenWrongOACK_RRQ(v),
       CLientRevertToDefaultWhenWrongOACK_WRQ(v) } : v \in ValidValues, oack \in InvalidOACKs}

(***************************************************************************)
(* tst_server.cpp: the mock client sends to the port that has answered it. *)
(* Two of these tests are still to be written there; their comments say    *)
(* what they are to check.                                                 *)
(***************************************************************************)
ServerTest(op, size, options, expects) ==
  [who |-> "server",
   job |-> TestJob(op, size, options),
   opening |-> {RequestMessage(Client, op, options)}, replies |-> << >>,
   expects |-> expects, result |-> NoResult, stops |-> TRUE]

ServerStartsRRQConn == ServerTest("RRQ", 2560, NoOptions, <<Data(1)>>)
ServerStartsWRQConn == ServerTest("WRQ", 2560, NoOptions, <<Ack(0)>>)

ServerBlksizeNegotiationRRQ(v) ==
  Replied(ServerTest("RRQ", 2560, v, <<Oack(v)>>), Ack(0), Data(1))

CorrectErrorWhenRRQForNonExistingFile ==
  ServerTest("RRQ", NoFile, NoOptions, <<Error(ERR_FILE_NOT_FOUND)>>)

ServerTests ==
  { ServerStartsRRQConn, ServerStartsWRQConn, CorrectErrorWhenRRQForNonExistingFile }
  \cup {ServerBlksizeNegotiationRRQ(v) : v \in ValidValues}

(***************************************************************************)
(* Running a test                                                          *)
(***************************************************************************)
TestInit ==
  /\ test \in ClientTests \cup ServerTests
  /\ seen = << >>
  /\ job = test.job
  /\ net = test.opening
  /\ ClientInit
  /\ ServerInit

Mock == IF test.who = "client" THEN Listen ELSE Client

InProgress == ~(test.stops /\ Len(seen) = Len(test.expects))

Quiet == net = {} /\ oackWait.handlers = << >>

Reply(m) ==
  IF Len(seen') \notin DOMAIN test.replies THEN {}
  ELSE {[Message(Mock, m.src, c.op, c.num) EXCEPT !.options = c.options] :
          c \in test.replies[Len(seen')]}

MockReceives(m) ==
  /\ m \in net /\ m.dst = Mock
  /\ seen' = Append(seen, What(m))
  /\ net' = (net \ {m}) \cup Reply(m)
  /\ UNCHANGED <<job, clientVars, serverVars, test>>

ClientRuns ==
  /\ test.who = "client"
  /\ ClientStep(\/ cStartPlain \/ cStartWithOptions \/ ClientHandler
                \/ \E m \in net : cArrive(m) \/ cSessionHears(m)
                \/ Quiet /\ cExpire
                \/ Quiet /\ cSessionEnds /\ net' = net    \* it completes
                         /\ cResult' = "ERR_NOERR")
  /\ UNCHANGED <<test, seen>>

ServerRuns ==
  /\ test.who = "server"
  /\ ServerStep(\E m \in net, p \in ServerPorts :
                  HandlePlainRequest(m, p) \/ HandleRequestWithOptions(m, p) \/ SessionHears(p, m))
  /\ UNCHANGED <<test, seen>>

TestNext == InProgress /\ (ClientRuns \/ ServerRuns \/ \E m \in net : MockReceives(m))

\* All that the test expects has come, and the callback has been called with
\* what it looks for.
TestPassed ==
  seen = test.expects /\ (test.result # NoResult => cResult = test.result)
=============================================================================
