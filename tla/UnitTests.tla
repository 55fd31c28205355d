------------------------------- MODULE UnitTests ------------------------------
(***************************************************************************)
(* The unit tests of the repository, run on the models: those of sender    *)
(* and receiver (TransferTests) and those of client and server             *)
(* (RequestTests), one at a time.  A variable that the test at hand does   *)
(* not use keeps its first value.                                          *)
(***************************************************************************)
EXTENDS SequencesExt

CONSTANTS
  MaxBlock, Retransmissions, Faults, Noise, SenderBlockSize, ReceiverBlockSize, Modes,
  TransferFiles,
  MinBlksize, MaxBlksize, MaxTimeout, IntModulus, LongMax, UintMax, DEFAULT_BLOCKSIZE,
  RETRANSMISSION_TIME, ServerPorts, RequestFaults, Jobs, OtherDatagrams

VARIABLES
  test, seen, net,
  file, lastsentdatacount, sendingdone, sTimeoutcount, mReceiverEndpoint,
  mLastReceivedReceiverEndpoint, input, sIo, sResult, sCrashed,
  lastreceiveddatacount, rTimeoutcount, mSenderEndpoint, output, outputState, rIo, rResult,
  rCrashed,
  job, oackWait, cSession, mTransfer_running, cResult, loop,
  serving, sessions, mSenderList, mReceiverList

T == INSTANCE TransferTests
R == INSTANCE RequestTests

transferOnly ==
  <<file, lastsentdatacount, sendingdone, sTimeoutcount, mReceiverEndpoint,
    mLastReceivedReceiverEndpoint, input, sIo, sResult, sCrashed,
    lastreceiveddatacount, rTimeoutcount, mSenderEndpoint, output, outputState, rIo, rResult,
    rCrashed>>

requestOnly ==
  <<job, oackWait, cSession, mTransfer_running, cResult, loop,
    serving, sessions, mSenderList, mReceiverList>>

testVars == <<test, seen, net, transferOnly, requestOnly>>

OfTransfer == "end" \in DOMAIN test

TestInit ==
  \/ /\ T!TestInit
     /\ job = "no job" /\ R!ClientInit /\ R!ServerInit
  \/ /\ R!TestInit
     /\ file = "no file" /\ T!SenderInit(T!Receiver, 1, "good")
     /\ T!ReceiverInit(T!Sender, << >>, "good")

TestNext ==
  \/ OfTransfer /\ T!TestNext /\ UNCHANGED requestOnly
  \/ ~OfTransfer /\ R!TestNext /\ UNCHANGED transferOnly

TestSpec == TestInit /\ [][TestNext]_testVars /\ WF_testVars(TestNext)

\* The peer of the program under test gets what its test expects, in that
\* order, and nothing else (the EXPECT_EQ of tst_*.cpp).
SeesWhatIsExpected == IsPrefix(seen, test.expects)

\* Every test gets to its end and passes there (the joins and the last
\* EXPECT_EQ of tst_*.cpp).
TestsPass == <>[](IF OfTransfer THEN T!TestPassed ELSE R!TestPassed)
=============================================================================
