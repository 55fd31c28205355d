----------------------------- MODULE RequestWire ------------------------------
(***************************************************************************)
(* What a client and a server exchange before and while a transfer gets    *)
(* under way: requests, OACKs, and the first datagrams of the sessions     *)
(* both construct.  The transfer itself is the subject of Transfer; here a *)
(* session is what it was constructed with, the first block it waits for   *)
(* and whether it still runs.                                              *)
(***************************************************************************)
EXTENDS Options, FiniteSets

CONSTANTS
  ServerPorts,    \* the ports the server's sessions may get: model values
  RequestFaults,  \* what may go wrong, a subset of {"dup", "send", "recv"}
  Jobs,           \* what the client may be asked to do
  OtherDatagrams  \* what other hosts send to the server or the client

VARIABLES
  job,   \* what the client is asked to do, and of what file; never changes
  net    \* the datagrams in flight

Client     == "client"
Listen     == "listen"     \* the server's well-known port
Elsewhere  == "elsewhere"  \* another host
NoEndpoint == "none"

Endpoints == {Client, Listen, Elsewhere, NoEndpoint} \cup ServerPorts

\* num is a block number or an error code; extra is TRUE in a request that
\* names an option this program does not know; whole is FALSE in one that
\* cannot be decoded to its end (a bad mode, an option without a value).
Datagram ==
  [src : Endpoints, dst : Endpoints,
   op : {"RRQ", "WRQ", "OACK", "DATA", "ACK", "ERROR", "RUNT"},
   num : Nat, options : OptionMaps, extra : BOOLEAN, whole : BOOLEAN]

Message(src, dst, op, num) ==
  [src |-> src, dst |-> dst, op |-> op, num |-> num, options |-> NoOptions,
   extra |-> FALSE, whole |-> TRUE]

RequestMessage(src, op, map) == [Message(src, Listen, op, 0) EXCEPT !.options = map]

OptionACKMessage(src, dst, map) == [Message(src, dst, "OACK", 0) EXCEPT !.options = map]

ErrorTo(src, dst, code) == Message(src, dst, "ERROR", code)

ERR_FILE_NOT_FOUND   == 1
ERR_ACCESS_VIOLATION == 2
ERR_ILLEGAL_OP       == 4
ERR_UNKNOWN_TR_ID    == 5
ERR_OPT_NEGOTIATION  == 8

\* The network keeps what is addressed to this client or this server.
Routed(msgs) == {m \in msgs : m.dst \in {Client, Listen} \cup ServerPorts}

\* m is taken off the network, or stays to arrive again.
Taken(m) == IF "dup" \in RequestFaults THEN {net, net \ {m}} ELSE {net \ {m}}

MaySend == IF "send" \in RequestFaults THEN BOOLEAN ELSE {TRUE}

(***************************************************************************)
(* The file of a request: its size, as file_size() gives it to the end     *)
(* that has the file; whether that end can open it and the other one the   *)
(* file it writes; and the room the client has.                            *)
(***************************************************************************)
JobType ==
  [op : {"RRQ", "WRQ", "INVALID"}, options : OptionMaps, size : Nat, space : Nat,
   readable : BOOLEAN, writable : BOOLEAN]

(***************************************************************************)
(* Sessions.  start is what the constructor got: for a sender the ACK it   *)
(* waits for, for a receiver the blocks it has; count is the same now.     *)
(* stranded: the send that its timer and its next receive hang on failed.  *)
(***************************************************************************)
Session ==
  [role : {"sender", "receiver"}, port : Endpoints, peer : Endpoints, knew : BOOLEAN,
   start : 0 .. 1, count : 0 .. 1, options : OptionMaps, running : BOOLEAN,
   stranded : BOOLEAN]

NoSession == [role |-> "none"]

NewSession(role, port, peer, start, options) ==
  [role |-> role, port |-> port, peer |-> peer, knew |-> peer # NoEndpoint,
   start |-> start, count |-> start, options |-> options, running |-> TRUE,
   stranded |-> FALSE]

SenderFor(port, peer, ack, options)    == NewSession("sender", port, peer, ack, options)
ReceiverFor(port, peer, had, options) == NewSession("receiver", port, peer, had, options)

\* TftpUserFacingErrorCode, what a session calls back with.
NoResult == "none"
Results == {"ERR_NOERR", "ERR_UNSPECIFIED", "ERR_OUTPUT_FILE_OPEN", "ERR_INPUT_FILE_OPEN",
            "ERR_OPCODE", "ERR_WRONG_BLOCK", "ERR_OPT_NEGOTIATION"}

\* An exception leaves the session's handler.
Thrown == "thrown"

\* What a step makes of a session: the session, what it sends, its callback.
Goes(s, msgs)         == [session |-> s, sends |-> msgs, result |-> NoResult]
Ends(s, msgs, result) == [session |-> [s EXCEPT !.running = FALSE], sends |-> msgs,
                          result |-> result]

\* What a session sends first, and again whenever it has heard nothing or
\* nothing of use.
Current(s) ==
  IF s.role = "receiver"
  THEN IF s.peer = NoEndpoint THEN {} ELSE {Message(s.port, s.peer, "ACK", s.count)}
  ELSE IF s.count = 0 THEN {} ELSE {Message(s.port, s.peer, "DATA", s.count)}

\* The session sends msgs, if it sends at all, next to errors, the fate of
\* which it does not look at.  When async_send_to fails, its handler starts
\* neither timer nor receive.
Sends(s, errors, msgs) ==
  { Goes([s EXCEPT !.stranded = ~sent], errors \cup IF sent THEN msgs ELSE {}) :
      sent \in IF Current(s) = {} THEN {TRUE} ELSE MaySend }

\* The file cannot be opened by a session.
StreamBad(s) == IF s.role = "sender" THEN ~job.readable ELSE ~job.writable

\* start()
Starts(s) ==
  IF ~StreamBad(s) THEN Sends(s, {}, Current(s))
  ELSE IF s.role = "sender"
       THEN {Ends(s, {ErrorTo(s.port, s.peer, ERR_FILE_NOT_FOUND)}, "ERR_INPUT_FILE_OPEN")}
       ELSE {Ends(s, {ErrorTo(s.port, s.peer, ERR_ACCESS_VIOLATION)}, "ERR_OUTPUT_FILE_OPEN")}

\* A sender that waits for ACK 0 has no timer; every other wait has one.
Timed(s) == s.role = "receiver" \/ s.count > 0

(***************************************************************************)
(* What a running session does with a datagram that reaches its port.  The *)
(* first block is followed exactly, to tell who is whose partner; what     *)
(* comes after it is left to Endings.                                      *)
(***************************************************************************)
ForeignNever(s, m) == FALSE   \* mutant: the source is not looked at

Foreign(s, m) == s.peer # NoEndpoint /\ m.src # s.peer

Expected(s, m) ==
  /\ ~Foreign(s, m)
  /\ \/ s.role = "sender" /\ m.op = "ACK" /\ m.num = s.count
     \/ s.role = "receiver" /\ m.op = "DATA" /\ m.num = s.count + 1

\* An old block or a low ACK, which makes the session repeat itself.
Old(s, m) ==
  /\ ~Foreign(s, m) /\ ~Expected(s, m)
  /\ \/ s.role = "sender" /\ ((m.op = "ACK" /\ m.num < s.count) \/ m.op = "RUNT")
     \/ s.role = "receiver" /\ m.op = "DATA" /\ m.num <= s.count

AdvancedBy(s, m) == [s EXCEPT !.peer = m.src, !.count = 1]

\* sendNextBlock() of a sender that waits for ACK 0 looks for a block before
\* the first one, and gives up.
CannotRepeat(s, errors) ==
  {Ends(s, errors \cup {ErrorTo(s.port, s.peer, ERR_ACCESS_VIOLATION)}, "ERR_INPUT_FILE_OPEN")}

Repeats(s, errors) ==
  IF Timed(s) THEN Sends(s, errors, Current(s)) ELSE CannotRepeat(s, errors)

\* The ACK of the last block is sent synchronously, before the callback.
LastAckThrows(s) ==
  IF s.role = "receiver" /\ FALSE \in MaySend
  THEN {[Goes(s, {}) EXCEPT !.result = Thrown]} ELSE {}

Advances(s, m) ==
  LET t == AdvancedBy(s, m) IN
  Sends(t, {}, IF s.count = 1 THEN {} ELSE Current(t)) \cup LastAckThrows(t)

\* A bad opcode, or a number too high.
Refuses(s, m) ==
  {Ends(s, {ErrorTo(s.port, s.peer, ERR_ILLEGAL_OP)},
        CASE s.role = "sender" -> "ERR_NOERR"
          [] m.op = "DATA"     -> "ERR_WRONG_BLOCK"
          [] OTHER             -> "ERR_OPCODE")}

HearsForeign(s, m) ==   \* mutant: mReceiverEndpoint is that of the last datagram
  CASE Foreign(s, m)  -> {Goes(s, Current([s EXCEPT !.peer = m.src]))}
    [] Old(s, m)      -> Repeats(s, {})
    [] Expected(s, m) -> Advances(s, m)
    [] OTHER          -> Refuses(s, m)

Hears(s, m) ==
  CASE Foreign(s, m)  -> Repeats(s, {ErrorTo(s.port, m.src, ERR_UNKNOWN_TR_ID)})
    [] Old(s, m)      -> Repeats(s, {})
    [] Expected(s, m) -> Advances(s, m)
    [] OTHER          -> Refuses(s, m)

(***************************************************************************)
(* How a session ends by itself, or by a later block.                      *)
(***************************************************************************)
Farewell(s, code) == {ErrorTo(s.port, s.peer, code)}

\* handleReadTimeout() has given up.  A stranded session may still do so, by an
\* expiry that was queued before the send failed; nothing makes it.
GivesUp(s) == Ends(s, Farewell(s, ERR_ILLEGAL_OP), "ERR_NOERR")

\* A sender completes, is sent an ACK it refuses, or cannot read on.
SenderEndings(s) ==
  { GivesUp(s), Ends(s, {}, "ERR_NOERR"),
    Ends(s, Farewell(s, ERR_ACCESS_VIOLATION), "ERR_INPUT_FILE_OPEN") }

\* A receiver that has a block completes, cannot store the next one or refuses
\* it; or its last ACK cannot be sent.
ReceiverEndings(s) ==
  {GivesUp(s)} \cup
  IF s.count = 0 THEN {}
  ELSE { Ends(s, {}, "ERR_NOERR"),
         Ends(s, Farewell(s, ERR_ACCESS_VIOLATION), "ERR_OUTPUT_FILE_OPEN"),
         Ends(s, Farewell(s, ERR_ILLEGAL_OP), "ERR_WRONG_BLOCK"),
         Ends(s, Farewell(s, ERR_ILLEGAL_OP), "ERR_OPCODE") } \cup LastAckThrows(s)

\* The receive fails, which a sender takes for a runt.
FailedReceive(s) ==
  IF "recv" \notin RequestFaults THEN {}
  ELSE IF s.role = "receiver" THEN {Ends(s, {}, "ERR_UNSPECIFIED")}
  ELSE IF Timed(s) THEN {} ELSE CannotRepeat(s, {})

Endings(s) ==
  IF s.stranded THEN {GivesUp(s)}
  ELSE FailedReceive(s) \cup
       CASE s.role = "receiver" -> ReceiverEndings(s)
         [] Timed(s)            -> SenderEndings(s)
         [] OTHER               -> {}

RequestAssumption ==
  /\ RequestFaults \subseteq {"dup", "send", "recv"}
  /\ Jobs \subseteq JobType
  /\ \A j \in Jobs : j.size = UintMax => ~j.readable
  /\ \A m \in OtherDatagrams :
       m \in Datagram /\ m.src = Elsewhere /\ m.dst \in {Listen, Client} \cup ServerPorts
  /\ ServerPorts \cap {Client, Listen, Elsewhere, NoEndpoint} = {}

ASSUME RequestAssumption
=============================================================================
