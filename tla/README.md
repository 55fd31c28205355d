# A TLA+ model of ttftp

ttftp is a TFTP server and client (RFC 1350, 2347, 2348, 2349) in C++ on
boost::asio. This directory models the transfer of a file, the request and the
negotiation of options that lead to it, the command line, and the unit tests of
these; it checks them with TLC and proves fifteen of their invariants, two action
properties and both refinements with TLAPS.
Paths below are relative to `src/app/src/`.

## 1. Inventory

| part | state | operations | interacts with |
|---|---|---|---|
| `Tftpsender` (tftpsender.cpp) | block number waited for, `sendingdone`, timeout count, partner and last source, input stream, socket, timer | start, send a block, check an ACK, timeout, end | its socket and timer through handlers on the strand; its callback |
| `TftpReceiver` (tftpreceiver.cpp) | last block received, timeout count, partner and last source, output stream, socket, timer | start, send an ACK, check a block, timeout, end | the same |
| messages (tftpmessages.cpp) | fields of one message | encode, decode | every other part |
| options (tftphelpdefs.cpp) | block size, timeout, transfer size, each optional | from map, to map, isDefault | client, server, requests and OACKs |
| `TftpClient` (tftpclient.cpp) | socket, timer for the OACK, callback | start, answer to a request with options, end | constructs a sender or a receiver |
| `TftpServer` (tftpserver.cpp) | listening socket, request buffer, lists of sessions | request, read request, write request, end of a session | constructs senders and receivers |
| `main` (main.cpp) | the value of each named argument | read an argument, start the client or the server, run its io_context until the callback | client, server |
| unit tests (`../../ttftpTest/tst_*.cpp`) | what a mock peer has received | a script of datagrams, sent and expected | one of the parts above |

There is one thread in the program as it is: `main` runs one `io_context`, and
all sockets and timers of a client, or of a server, share one strand. What
makes the code hard is not data races but order: handlers run some time after
the event they belong to, in an order that the network, the timers and the
queue decide; every wait can be answered by the right datagram, an old one, one
of another host, a timeout or an error; each of the two ends may stop while the
other goes on; and the handlers' error paths often go on after ending the
session. PROJECT.json lists the places under "hazards".

What makes each part correct:

* sender and receiver together: the file written is a prefix of the file read;
  each end advances only when the other has done its part; a session has one
  outstanding operation and, when it waits, a timer; sessions end; a session
  reports success only when the file is across.
* options: what one side writes the other reads; values out of range are refused.
* client and server: both ends of a transfer use the same block size and
  timeout; a file has one writer; every job ends with the callback or an
  exception; the flag, the lists and the wait for the OACK tell the truth about
  the sessions.
* `main`: what is started is what the arguments say, in whatever order.

## 2. Modules

| module | models |
|---|---|
| `TftpWire` | the file, the datagrams of a transfer (tftpmessages.cpp), the UDP network, error codes |
| `AsioSession` | the asio objects a session owns: socket, timer, queue of completed handlers (external) |
| `TftpSender` | `Tftpsender`, one action per handler and outcome |
| `TftpReceiver` | `TftpReceiver`, the same |
| `Transfer` | the two ends, the network and a third host; how client and server start them; the properties |
| `StopAndWait` | abstract: what a transfer promises |
| `MCTransfer`, `TransferClaims` | values for TLC; statements of comments that the code does not keep |
| `Options` | `TransactionOptionValues`: numbers of options, what is refused, what throws |
| `RequestWire` | requests, OACKs, errors; what a session is constructed with and does with its first datagrams |
| `TftpClient` | `TftpClient` and the loop in `main` around it, one action per handler and outcome |
| `TftpServer` | `TftpServer`, one action per outcome of `HandleRequest`, and its lists |
| `Negotiation` | one client with one job, the server, the network and other hosts; the properties |
| `Agreement` | abstract: what a negotiation promises |
| `MCNegotiation`, `NegotiationClaims` | values for TLC; statements of comments that the code does not keep |
| `CommandLine`, `MCCommandLine` | `run` in main.cpp: the arguments and what is started |
| `TransferTests`, `RequestTests`, `UnitTests` | the unit tests as scripts: of sender and receiver on `Transfer`, of client and server on `Negotiation`, and both together |
| `Transfer_proofs`, `TransferSession_proofs`, `TransferGoesOn_proofs`, `TransferRefinement_proofs`, `Negotiation_proofs`, `SessionsFit_proofs`, `Outcome_proofs`, `CommandLine_proofs` | the theorems |

`Negotiation` and `Transfer` meet in the constructors of the two sessions. Every
pair of sessions that `Negotiation` brings together is one of the modes in which
`Transfer` starts, with equal block sizes as `TransferAssumption` wants, and
that is itself a property (`SessionsFitTransfer`, with one exception).

**Names.** Variables and operators have the names of the code, with `s` or `r`
before those that both classes use (`sTimeoutcount`, `rHandleReadTimeout`).
`isConnected` and `operationEnded` are not variables of their own: they are set
together with the partner's endpoint and the result of the callback.

**Handlers.** `checkAckForLastBlock` and `checkReceivedBlock` are split into one
action for each way through them (`sLowAck`, `rStoreLast`, ...), which share
the guard `sChecks` or `rChecks`. An action is the whole handler: the calls to
`sendNextBlock`, `sendNextAck` and `endOperation` are operators applied to the
session as the handler has left it so far (`io`). `rCannotStore` and
`sGiveUpReading` keep what the code does there: `endOperation()` returns, and
the handler goes on with a closed socket.

**Asio.** A session is the record `open`, `receiving`, `armed`, `handlers`. An
operation that completes appends its handler to the queue; the handler at the
head runs next. A timer that expires or a datagram that arrives therefore
commits to its handler before that handler runs, and a `cancel()` in between
has no effect on it. That is where the late timeouts of section 5 come from. A
send completes at once, as it does on a UDP socket; completions that do nothing
(cancelled waits, error messages sent, failed sends) are not queued. `cancel()`
and `send_to()` on a closed socket throw: the model sets `sCrashed` or
`rCrashed`, after which that end does nothing more.

**Network.** `net` is a set of datagrams. One that is never delivered is lost,
and any may be delivered next. With `"dup"` in `Faults` a delivered datagram may
stay. Two copies of the same datagram are one element of the set, so a resent
datagram can arrive twice only with `"dup"`; `transfer_network`, where
retransmissions are the subject, has both.

**Data.** The payload of a DATA is the number of the piece of the file it
holds and its length. A datagram of a stranger holds piece 0, which no file
has. Block sizes are abstract lengths; a full block, a short one and an empty
one are what the code tells apart.

**Stream state.** `input = "failed"` is the failbit. A read that returns less
than a block sets it (with eofbit), and `seekg()` then fails. With `"read"` in
`Faults` any read may bring less than the block holds (`BytesRead`): the disk fails,
or the file has been cut off. `sendNextBlock` takes that for the end of the file
(`Short`), and so does the receiver. `outputState` is the same for the output, which may fail at any write when `"write"` is in
`Faults`. A write that fails is seen when the next block arrives.

**Modes.** How the sessions are constructed: `RRQ` and `WRQ` without options,
`RRQ_OACK` and `WRQ_OACK` after an OACK, `RRQ_DATA1` and `WRQ_ACK0` when the
client asked for options and the server answered as if it had not. In `Transfer` a
transfer begins when both sessions have been constructed, with the answer to the
request delivered; `Negotiation` is how it comes to that.

**Options.** A map of options gives each name the number its text spells, or
`Unset`. `atoi` clamps to a long and cuts to an int, as glibc does, so a
transfer size that does not fit in an int is another number or negative on the
other side. `ReadFrom` keeps what `setOptionsFromMap` does: the timeout is read
from the entry of the block size. Option names the program does not know are
left out of the maps, because no value of theirs is ever read; but they count
where the server asks whether a request has options at all (`getOptVals().empty()`,
tftpserver.cpp:281). A request may therefore be marked `extra`: `NoOptVals` is then
false, the server answers with an OACK, empty if there is nothing else, and a sender
waits for ACK 0. A text that spells no number is 0, and one with a minus sign is like
0, refused as out of range.

**The wait for the OACK.** `oackWait` is the receive, the timer
(`timeout_no_oack`) and the queue of their completed handlers, as in
`AsioSession`. `Answered` is how the handler of the receive begins, and each
branch of it is an action. `cOackMisfit` is an empty branch of the code.
`loop` is where `main` is: `caught` is the exception it reports, `terminated`
one it does not catch.

**The server.** One receive is outstanding on the listening socket and its
handler uses nothing but what that receive filled in, so arrival and handler are
one step. `List` is `push_back` and then `start`, in the order of the code:
`start` may end the session at once, and unlist it. `HandleRefusedRequest` keeps
what the code does after its error message: it goes on, with default values.
An exception in a handler of the server is caught by nobody (`ServerThrows`).

**The file.** A job says how large the file is for the end that has it, whether that
end can open it (`readable`), whether the other one can open its output
(`writable`), and what room the client has. Size and opening are two things: a file
that may not be read has a size.

**Sessions in Negotiation.** A session is here what its constructor got, the
first block it waits for, whether it still runs and whether it is `stranded`. What
it does is a set of outcomes, each with the session afterwards, what is sent and
what is called back: `Starts`, `Repeats`, `Hears` and `Endings` in `RequestWire`, for
the client's session and the server's alike (`cSessionBecomes`, `SessionBecomes`).
`Hears` follows a session exactly as far as its first block, to tell who becomes
whose partner, with everything it answers on the way: a sender that waits for ACK 0
and gets a runt or a foreign datagram looks for block 0, cannot, and gives up
(`CannotRepeat`). `Endings` are the ways a session may end afterwards, each with its
own result; `cSessionEnds` and `SessionEnds` take any of them at any time. What happens
between is `Transfer`'s subject.

A send that fails is followed here as there: the handler of `async_send_to` starts
neither timer nor receive (tftpsender.cpp:86, tftpreceiver.cpp:273), so the session is
stranded. It hears and repeats nothing any more; only an expiry that was queued before
may still end it, which is allowed and never required. The last ACK is sent by a call
that throws (`LastAckThrows`): this ends the server, and the client's `main` reports
it. As long as sends succeed, `NoneStranded` of `Transfer` says that an exception may
leave a session only once it has called back; by then the client's `main` has left
its loop, but the server runs on, and `SessionThrows` ends it.

**Command line.** An argument is a sequence of words; names such as `--file=` and
all that may stand around them are words, so that `find`, which looks for a name
anywhere in the argument, is `Contained`. Numbers wrap at the width of an int, and
ports at `PortModulus`.

**Unit tests.** A test is a record: which end is under test, what the mock peer
sends at the outset and as its n-th reply, what it expects, and what must hold
when it is over. The end under test takes the actions of its module, unchanged;
nothing is lost, and a timer expires only when nothing else can happen, which is
how the tests use the program.

## 3. Properties

### Transfer

Invariants:

* `TypeOK`: among the types, the sender's block number stays within its 16 bits.
* `OutputIsPrefix`: what is written is the beginning of the file, each block once
  and in order. Each is whole, but for one that the sender could not read all of,
  and that one is the last: the output never has a gap.
* `SingleChain`: a session waits for one thing at a time. Two receives at once
  would share a buffer and double every answer.
* `WaitsAreTimed`: a session that waits for a datagram has a timer running, or
  expired with its handler in the queue. The exception is the sender that waits
  for ACK 0.
* `NoneStranded`: as long as sends succeed, a session that has not called back
  has an open socket and an operation outstanding or a handler to run, and no
  exception has left it. The two that do, of a late expiry and of the ACK after a
  write that failed, come after the callback.

Action properties:

* `ReceiverReportsSuccessWhenComplete`, `SenderReportsSuccessWhenReceived`: an
  end reports `ERR_NOERR` only when every block has been received. Both name the
  cases in which the code reports it nevertheless: after giving up; (sender) after
  a bad opcode or an ACK that is too high; and when a read came up short, where
  they still say that every block up to that one is across.

Refinement:

* `ImplementsStopAndWait`: a transfer implements `StopAndWait`. The receiver
  takes a block only when the sender knows of all the blocks before it, and the
  sender learns of a block only after the receiver has taken it. The mapping
  `Acked` turns the block number that the sender waits for into the number of
  blocks it knows of, also after the number has rolled over to 0. Where reads may
  fail (`MayCut`), a piece may be cut short, and nothing is taken in after it.

Liveness: `ReceiverEnds`, `SenderEndsOnceStarted`, `TransferCompletes`.

### Negotiation

Invariants:

* `TypeOK`: among the types, no option value that has been accepted is negative.
* `SessionsFitTransfer`: two sessions that have found each other are constructed
  as one of the modes of `Transfer` and use the same block size and timeout,
  whatever has been lost or has arrived twice and however options were refused.
  The exception is an ACK 0 that has overtaken the OACK.
* `OneWriter`: a repeated write request starts two sessions that append to the
  same file; only one of them is ever given a block.
* `RunningMeansLiveSession`, `ListsHoldLiveSessions`: the flag of the client and
  the lists of the server are set and cleared in callbacks that may run within
  `start()`, before the code that called it goes on.
* `NeverSpins`: `main` loops without a session, a handler and a timer only when
  options were asked for and the size of the file, or what another host says of it,
  has led to an empty branch. A receive alone does not count: what it waits for may
  never come.
* `WaitIsOverInTransfer`: when a session runs, receive and timer of the wait are
  no longer outstanding. An expiry that is already queued is not taken back, and
  is modelled: it throws in `cOackTimeout`.

Refinement:

* `ImplementsAgreement`: a negotiation implements `Agreement`, which knows of the two
  sessions only role, values and partner. None is ever made anew or changed; the
  client's takes one partner and keeps it; two that find each other have opposite
  roles and the same values from then on (but for the ACK 0 above); and the callback
  comes once, with a code that tells whether there was a session. `SessionsFitTransfer`
  is about each state, this about the steps: an agreement that is changed later, by
  whatever datagram, does not pass here even if both sides change it.

Liveness:

* `JobEnds`: every job ends with the callback or an exception. The exceptions are
  a client that waits for ACK 0, a client whose session is stranded by a send that
  has failed, and a file that does not fit.
* `SessionsLeaveTheirLists`: no session stays listed when its client has gone.
  The exceptions are a sender that waits for ACK 0, a session that is stranded, and
  a server that has ended.

### Command line and unit tests

* `StartsWhatIsAsked`: a command line of the documented form starts what it asks
  for, independently of order, and is refused only for a reason.
* `NoValueIsReplaced`: nothing is started when a name is given two values.
* `ServerTakesBlksize`: the limits of `main` and those of `setOptionsFromMap`,
  checked apart, agree.
* `SeesWhatIsExpected`, `TestsPass`: what a test says the peer receives, in that
  order, and that the test comes to its end with what it looks for there.

## 4. Runs

No run checks for deadlock: a transfer is over when both sessions have ended,
`run` when it has returned, and a test when it has what it expects. The runs
of `Transfer` have block size 2 (a short block of 1, an empty one of 0).

| run | question | instance |
|---|---|---|
| `transfer_network` | safety against the network | all modes; loss, reordering, duplication, timeouts; a stranger that sends DATA 2 and ACK 1; files of 1, 2 and 3 blocks; `MaxBlock` 2; 1 retransmission |
| `transfer_host` | safety against failing calls | all modes; open, send, receive, read, write may fail; timeouts; the stranger also sends a runt; files of 1 and 2 blocks |
| `transfer_ends` | do sessions end, and is none left with nothing to wait for? | all modes; loss, duplication, timeouts, failing opens, writes and receives; files of 1, 2 and 3 blocks; 1 retransmission |
| `transfer_completes` | does it work when nothing goes wrong? | six files, 1 to 3 blocks with short or empty last block |
| `negotiation` | do client and server agree? | 27 jobs: reads and writes with five kinds of options and five sizes of file, files and outputs that cannot be opened; another server that answers with an OACK; loss, reordering, duplication; two server ports, which are symmetric |
| `negotiation_ends` | do jobs and sessions end? | 7 jobs; loss, failing sends and receives; other hosts that send runts to client, server and session, a broken request with an unknown option, and an OACK that grants a timeout alone; one port |
| `command_line` | is what is started what was asked for? | every command line of up to four arguments out of twelve, with and without an address |
| `unit_tests` | do the models pass the tests of the code? | 29 tests of sender and receiver, 12 of the client, 4 of the server: 68 scripts, with the values some of them iterate over; the numbers of the code |

Why these bounds are enough: the protocol looks at no more than two adjacent
blocks, so two or three blocks show the first one, one in the middle and the
last; `MaxBlock` 2 with a file of three blocks reaches the roll-over of the
block number, which the code reaches at 65535; one retransmission shows the
resend and the giving up, and each can happen at any point, because a timer that
runs may expire at any moment and a count is set back by progress. The stranger's
DATA 2 is a full block with the number that is expected next, and its ACK 1 the
one the sender waits for. Block size 2 lets a read of a full block bring one byte or
none. Failing reads are in `transfer_host` alone; `transfer_network` and
`transfer_ends` leave them out to keep the instance small. The theorems of section 6,
which hold for every `Faults`, cover safety under both together; that sessions end when
reads fail is not checked (a short read ends a transfer early, by the same handlers as
a short last block).

`negotiation` scales the numbers of the options and keeps their order: block sizes
are 2 to 6, timeouts 0 to 4, an int has 16 values. A block size of 3 is also a
possible timeout, one of 6 is not, which are the two outcomes of reading the
timeout from the wrong entry; a file of 9 is negative as an int and one of 17 looks
small, as files from 2 GiB and from 4 GiB do. Two ports let a repeated request
start a second session, which is the smallest case of it; a third session could
do nothing that the second cannot, since neither knows of the other.
`negotiation_ends` has one port, because whether a session ends depends on no other,
and the jobs that lead to each kind of answer: plain, an OACK, a server that throws,
one that refuses, a file that does not fit.
`command_line` has four arguments, enough for a client with any two options, for
a name that is given twice, and for each order; its numbers lie at both ends of each
range and outside, one does not fit in an int, and one does not fit in a port.
`unit_tests` has `IntModulus` 2^30 instead of 2^32, because TLC's own integers
end at 2^31 - 1; no number in the tests comes near either.

`transfer_completes` leaves out two modes in which the code does not complete
even on such a network: `RRQ_DATA1` (when the file is one block, section 5) and
`WRQ_OACK` (the ACK 0 that follows the OACK makes the client send block 1 again,
which fails if it is the last).

**Fairness.** `Handlers`: a completed handler runs (the io_context is run until
the end). `Timers`: a timer that is not cancelled expires. Datagrams may be
lost without limit, so nothing is assumed about arrivals, except that the
network does not duplicate for ever (`FinitelyManyDuplicates`): each datagram
that arrives again is answered, and an endless supply of old ACKs would keep both
ends busy. `DeliveringSpec` adds that every datagram arrives, and has no
timeouts.

`transfer_ends` assumes that sends succeed: when one fails, the session stays without
timer and without receive, and does not end. Receives may fail, but those of the
sender not for ever (`FinitelyManyFailures`): a sender whose receives keep failing
sends its block again each time, because this wait is not counted as a timeout
(tftpsender.cpp:166). A receiver ends at the first one.

`FairSpec` of `Negotiation` assumes that `main` calls `start()` and runs the
handlers that are queued, that the timer of the wait expires unless it is
cancelled, and that a session which waits with a timer, and whose sends succeed,
ends (`MustEnd`). The last is what `transfer_ends` shows of it (`ReceiverEnds`,
`SenderEndsOnceStarted`), on the same terms. Nothing is assumed of a session that is
stranded or waits for ACK 0, which is why the two properties name them. Nothing
is assumed of datagrams either, nor of requests: the server may never see any.
`negotiation_ends` leaves out duplication, which `negotiation` has, to keep the
instance small.

## 5. Where code and comments part

Each of these runs checks one statement and is expected to find it violated.

| run | statement | what happens |
|---|---|---|
| `claim_resend` | "Resends the current block" (tftpsender.cpp:124) | the last block cannot be read twice |
| `claim_first_ack` | "it will receive the first ACK for block 0, or time out" (tftpclient.cpp:308) | no timer while waiting for ACK 0 |
| `claim_negotiated_values` | "client sends Data packet 1 with the negotiated values" (tftpserver.cpp:188) | the ACK 0 that follows the OACK overtakes it, and is taken for the answer of a server without options |
| `claim_timeout_seconds` | "Timeout time in seconds" (tftphelpdefs.h:47) | the session gets the block size as its timeout |

Other places where code and comments part have no run of their own. They
appear as the named exceptions of properties that hold:

* Giving up reports `ERR_NOERR`, for which `main` prints "Write/Read finished!"
  (main.cpp:151): exceptions of the two success properties.
* An expiry that was queued before its timer was cancelled cancels a closed
  socket and throws, where the comment says "do nothing in that case"
  (tftpsender.cpp:191): `NoneStranded` says when, `SessionThrows` what it does to a server.
* "unfixable error; close connection without sending further error message"
  (tftpsender.cpp:172): the branch is never reached, because the condition before it
  (:166) holds for every receive that fails; the block is sent again (`sNoDatagram`),
  and `FinitelyManyFailures` excludes that this goes on for ever.
* A receiver constructed with DATA 1 that is the whole file waits for more, where
  "the connection is terminated" (tftpclient.cpp:18): `RRQ_DATA1` is left out of
  `transfer_completes`.
* A request whose options are refused is served all the same, where the
  comments say that the transaction is terminated (tftpserver.cpp:147, :219):
  `HandleRefusedRequest`.
* The OACK to a write request is followed by ACK 0, which a comment in
  ttftpTest/tst_server.cpp:200 excludes: the mode `WRQ_OACK`, and
  `Ack0TakenForAnswer`.
* `--root=`, which the usage message asks for (main.cpp:26), always has a value
  (main.cpp:43) and is refused when given (main.cpp:62): `WellFormed` excludes it.

## 6. Proofs

`Transfer_proofs`, `TransferSession_proofs` (`OneOperationAtATime`,
`WaitsTimed`), `TransferGoesOn_proofs` (`NoSessionStranded`) and
`TransferRefinement_proofs` (`PrefixCorrect`, `RefinementCorrect` and the two after
it) prove, for
every value of the constants that satisfies `WireAssumption` and
`TransferAssumption`:

* `TypeCorrect`: `Spec => []TypeOK`. `TypeOK` is inductive. The lemmas follow the
  model's layers: the operations of `AsioSession` keep a session a session; the
  messages are datagrams; ending and sending keep the types; then one case per
  action.
* `PrefixCorrect`: `Spec => []OutputIsPrefix`. The property is not inductive: a
  block that is written comes from a handler's datagram, that from the network,
  and the number it must have from the receiver's count. `PrefixInv` adds what is
  needed: every DATA in the network and in the receiver's queue is authentic (the
  sender's DATA n is block n of the file; another host's is not DATA 1), the
  partner of the receiver is the sender or not yet known, and in that case nothing
  has been received; and the output has as many pieces as were counted until a
  write fails. `ExpectedPiece` is the heart of it: the block that is expected and
  comes is from the sender and is the next piece, and the buffer cuts nothing off it.
  That nothing follows a block that was cut short is about both ends, and is proved in
  `TransferRefinement_proofs`. The sender cannot read on from where a read fell
  short, but a block it had read before may still be on its way; so `CutInv` says of
  every DATA of the sender in flight or with the receiver, and of every piece written,
  that if it is cut short then the sender's stream has failed and no later block is on
  its way (`IsLast`). None will be: an action of the sender reads one block, in full or
  as its last, or sends no DATA (`SenderStepReads`). So the block that the receiver
  takes in next finds nothing cut before it (`NothingCutBefore`, with `StepInv` below).
* `OneOperationAtATime`: `Spec => []SingleChain`, and `WaitsTimed`:
  `Spec => []WaitsAreTimed`. Both come from the invariants `SenderWaits` and
  `ReceiverWaits`, which add to the two properties that a closed socket has no
  receive outstanding, and that a sender whose `start()` is still queued waits for
  ACK 0 or ACK 1. A handler of the chain finds its session quiet once it has been
  taken off the queue (`RunningChain`), and whatever such a handler does leaves the
  session settled (`QuietSettles`); only the late or early timeout acts on a
  session that is not quiet, and it ends in at most the one handler of the receive
  it has cancelled (`CancelChain`).

* `NoSessionStranded`: `Spec => []NoneStranded`. Its invariant calls a session
  busy when its socket is open and its chain is not empty; a session that has
  not called back is busy. So `cancel()` and the last ACK find its socket open and
  do not throw (`SenderDoesNotThrow`, `ReceiverDoesNotThrow`). A handler of the chain takes itself off the
  queue, so each of its ways out must put something on the chain again, end the
  session or throw, and that is one lemma per operation: a send that succeeds queues
  its handler, that handler starts a receive, a cancelled receive queues its
  abortion. The way out that does none of these is the failing send.

* `RefinementCorrect`: `Spec => ImplementsStopAndWait`, with `ReceiverReportsTrue`
  and `SenderReportsTrue` (`Spec => ReceiverReportsSuccessWhenComplete`,
  `Spec => SenderReportsSuccessWhenReceived`). All three rest on `StepInv`, which
  relates the two ends through what is in flight between them. Its parts: the
  receiver's count is that of the last block sent, or one less; no DATA of the sender
  in the network or a handler is beyond the last block sent or the end of the file,
  and no ACK of the receiver beyond its count; a sender without a partner has
  sent nothing; and a sender whose chain goes on is within the file and knows whether
  it is at the last block. So the block that the receiver expects is the one the sender
  waits with (`ExpectedBlock`: `Take`, which needs `NothingCutBefore` as well), and the ACK that the sender expects tells that
  the receiver has that block and no other (`ExpectedAck`: `Confirm`). The
  roll-over is the hard case: the ACK of block `MaxBlock` sets the sender's counter
  to 0, where an old ACK 0 would be the expected one. `CountersInStep` says why
  nothing comes of it: the sender cannot read block 0, gives up, and its chain is over.

The assumptions that matter: both ends use the same block size
(`TransferAssumption`), and no other host answers a client's request in the
server's place (`WireAssumption`: noise holds no DATA 1 and no ACK 0). TFTP has
no protection against the latter, and the first is what `SessionsFitTransfer` is
about. `PrefixCorrect` and the refinement need them.

`Negotiation_proofs` proves, for every value of the constants that satisfies
`OptionsAssumption` and `RequestAssumption`, so for every set of jobs, ports,
other requests and faults and every width of the numbers:

* `TypeCorrect`: `Spec => []TypeOK`. The heart of it is `AcceptedValues`: what
  `SetOptionsOk` lets through is a map of natural numbers although `atoi` yields
  negative ones. The rest follows the layers: the outcomes of a session (`StepsOf`
  says once what every step of one keeps and sends, and one lemma per operation
  shows its outcomes among them), the wait, one case per action.
* `ListsTrue`: `Spec => []ListsHoldLiveSessions`, inductive together with
  `TypeOK`: a request starts its session on a free port (`RequestsStart`), so
  listing it disturbs no other, and every step of a session goes through
  `SessionBecomes`, which unlists exactly what has ended (`ServerSessionSteps`).
* `FlagTrue` and `WaitIsOver`: `Spec => []RunningMeansLiveSession` and
  `Spec => []WaitIsOverInTransfer`, from the invariant `ClientTruth`. It says
  what the wait can look like: the receive is outstanding or its handler is queued,
  not both and not twice; neither of them, and no timer, when a session exists;
  nothing at all before `start()`. So the handler of the receive finds no session, which is why it
  may construct one, and afterwards only the queued timeout is left.

`SessionsFit_proofs` adds, from the same assumptions:

* `SessionsFit`: `Spec => []SessionsFitTransfer`, and `OneIsGivenBlocks`:
  `Spec => []OneWriter`. Neither is inductive: what the two sessions are to each
  other comes out of datagrams that may be old, repeated or of another host.
  `FitInv` says what each datagram in flight, or with a handler of the client, tells
  of the sessions: a request in the client's name is the client's; what comes from
  a port of the server comes from a session there that serves the client, an OACK
  with the values of that session (`OackValuesReturn`: what the server has taken
  from a request and announced is read back as the same block size and timeout,
  also when the timeout is read from the wrong entry); and the client sends blocks
  and ACKs to its partner alone. The last is why a session that has sent an OACK and
  then gets ACK 0, or a receiver that gets block 1, is the client's partner, which is
  all there is to `OneWriter`, and why a DATA 1 that the client takes for a plain
  answer cannot come from a session with other options.

`Outcome_proofs` adds, again from these assumptions:

* `NeverLeftSpinning`: `Spec => []NeverSpins`. `SpinInv` has two parts. The wait goes
  on: while there is no session, either the handler of the receive is queued, or
  the receive is outstanding and something is bound to complete it, the timer, its
  queued handler or a datagram's. Each handler then either starts a session, ends the
  job, or is the empty branch. For the last, every OACK in flight or with a
  handler must tell the true size, or sizes do not fit: `OackSizes` follows the size
  through the request, the server's `atoi`, the OACK and the client's `atoi`.
* `AgreementReached`: `Spec => ImplementsAgreement`. Every step of the server offers an
  end at a free port or changes nothing `Agreement` sees (`ServerKeepsEnds`); every
  step of the client begins one, meets the partner, or keeps it, and may settle the
  outcome (`ClientStepAgreed`). That the two agree when they meet comes from `FitInv`
  after the step; that the outcome is reported once and fits comes from
  `ClientTruth`.

`CommandLine_proofs` proves, for every set of command lines over any words that
satisfies `CommandLineAssumption` and `OptionsAssumption`:

* `ArgumentsObeyed`, `FirstValuesKept` and `BlksizeAccepted`:
  `Spec => []StartsWhatIsAsked`, `Spec => []NoValueIsReplaced` and
  `Spec => []ServerTakesBlksize`. The invariant follows the loop: `KeepsFirst` says
  that a name among the arguments looked at still has the value it was given first,
  or was given none; `TakesWhatIsSaid` that, in a command line of the documented
  form, a name has a value exactly when one of these arguments is that name and
  that value (so no such line is refused in the loop: the name would be there
  twice). `SaidBy` is where the form matters: the name that `find` sees in
  an argument is the one it begins with, and no other.

Only model-checked: the properties of the unit tests, which are about fixed scripts
with fixed numbers, so that there is nothing a proof would add; and all liveness
properties, which are out of the prover's reach. Nothing is recursive in the modules
that are proved about.

## 7. Not modelled

* The texts `main` prints, and those of error messages.
* Encoding of messages (tst_messages.cpp tests it): abstracted to fields.
  `filename` and `mode` play no part but for a request that cannot be decoded to
  its end (`whole`), and option names the program does not know but for there being
  one (`extra`).
* The test for a datagram larger than the agreed block
  (tftpreceiver.cpp:105-109): the buffer has exactly that size, so it never holds.
* A file that grows or is rewritten while it is sent. The room on the client's disk
  is looked at, and does not change.
* Writes that fail in `Negotiation` as a fault of their own: any receiver that has a
  block may find that it cannot store the next one (`ReceiverEndings`); in a session
  of the server the exception that follows it when that was the last block
  (`rCannotStore`) ends the program, as `SessionThrows` does. In a client it comes
  after the callback, and all that `main` still does is to report it.
* Two clients of one server, beyond the datagrams of other hosts: sessions share
  nothing but the lists and the files.
* Tests of the server that are not written yet and say nothing about what they
  are to check.

## 8. Plan

Done: the transfer, the negotiation, the command line, the unit tests, and the
proofs of section 6. What could still be added:

1. Two clients at one server in `Negotiation`, when they write the same file: the
   server keeps no lock, so what the file holds then is whatever wrote last.
