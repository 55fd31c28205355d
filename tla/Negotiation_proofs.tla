-------------------------- MODULE Negotiation_proofs --------------------------
(***************************************************************************)
(* What is proved of Negotiation: its types, and that the client's flag,   *)
(* its wait and the server's lists tell the truth about the sessions.      *)
(***************************************************************************)
EXTENDS Negotiation, TLAPS

(***************************************************************************)
(* Options                                                                 *)
(***************************************************************************)
LEMMA OptionTypes ==
  /\ NoOptions \in OptionMaps
  /\ \A map \in OptionMaps : getOptionsAsMap(map) \in OptionMaps
  /\ \A map \in OptionMaps, o \in OptionNames, n \in Nat : [map EXCEPT ![o] = n] \in OptionMaps
<1>1. Unset \in Nat \cup {Unset}
  OBVIOUS
<1> QED
  BY <1>1 DEF NoOptions, OptionMaps, getOptionsAsMap

LEMMA AtoiInt == ASSUME NEW n \in Nat PROVE atoi(n) \in Int
<1> DEFINE cut == (IF n > LongMax THEN LongMax ELSE n) % IntModulus
<1>1. (IF n > LongMax THEN LongMax ELSE n) \in Int /\ IntModulus \in Nat \ {0}
  BY OptionsAssumption DEF OptionsAssumption
<1>2. cut \in Int
  BY <1>1
<1>3. atoi(n) \in {cut, cut - IntModulus}
  BY DEF atoi
<1> QED
  BY <1>1, <1>2, <1>3

\* What setOptionsFromMap() accepts it turns into values again.
LEMMA AcceptedValues ==
  ASSUME NEW map \in OptionMaps, SetOptionsOk(map)
  PROVE  setOptionsFromMap(map) \in OptionMaps
<1> SUFFICES ASSUME NEW o \in OptionNames, map[o] # Unset
             PROVE  atoi(map[ReadFrom(o)]) \in Nat
  BY DEF setOptionsFromMap, OptionMaps
<1>1. MinBlksize \in Nat /\ MaxBlksize \in Nat /\ MaxTimeout \in Nat
  BY OptionsAssumption DEF OptionsAssumption
<1>2. CASE o \in {"blksize", "timeout"}
  BY <1>1, <1>2 DEF SetOptionsOk, ReadFrom
<1>3. CASE o = "tsize"
  <2>1. map["tsize"] \in Nat
    BY <1>3 DEF OptionMaps, OptionNames
  <2>2. atoi(map["tsize"]) \in Int /\ atoi(map["tsize"]) >= 0
    BY <1>3, <2>1, AtoiInt DEF SetOptionsOk
  <2> QED
    BY <1>3, <2>2 DEF ReadFrom
<1> QED
  BY <1>2, <1>3 DEF OptionNames

(***************************************************************************)
(* Datagrams and sessions                                                  *)
(***************************************************************************)
Ops == {"RRQ", "WRQ", "OACK", "DATA", "ACK", "ERROR", "RUNT"}

LEMMA EndpointTypes ==
  /\ {Client, Listen, Elsewhere, NoEndpoint} \subseteq Endpoints
  /\ ServerPorts \subseteq Endpoints
  BY DEF Endpoints

LEMMA MessageType ==
  ASSUME NEW src \in Endpoints, NEW dst \in Endpoints, NEW op \in Ops, NEW num \in Nat
  PROVE  /\ Message(src, dst, op, num) \in Datagram
         /\ \A map \in OptionMaps :
              [Message(src, dst, op, num) EXCEPT !.options = map] \in Datagram
  BY OptionTypes DEF Message, Datagram, Ops

LEMMA ErrorType ==
  ASSUME NEW src \in Endpoints, NEW dst \in Endpoints
  PROVE  \A code \in {ERR_FILE_NOT_FOUND, ERR_ACCESS_VIOLATION, ERR_ILLEGAL_OP,
                      ERR_UNKNOWN_TR_ID, ERR_OPT_NEGOTIATION, 0} :
           ErrorTo(src, dst, code) \in Datagram
  BY MessageType DEF ErrorTo, Ops, ERR_FILE_NOT_FOUND, ERR_ACCESS_VIOLATION, ERR_ILLEGAL_OP,
                     ERR_UNKNOWN_TR_ID, ERR_OPT_NEGOTIATION

LEMMA NoSessionIsNone == \A s \in Session : s # NoSession
  BY DEF Session, NoSession

NewSessions == {s \in Session : s.running}

\* Both constructors give a session.
LEMMA NewSessionType ==
  ASSUME NEW role \in {"sender", "receiver"}, NEW port \in Endpoints, NEW peer \in Endpoints,
         NEW start \in 0 .. 1, NEW options \in OptionMaps
  PROVE  /\ NewSession(role, port, peer, start, options) \in NewSessions
         /\ NewSession(role, port, peer, start, options).role = role
         /\ NewSession(role, port, peer, start, options).port = port
  BY DEF NewSession, NewSessions, Session

LEMMA CurrentType ==
  ASSUME NEW s \in Session
  PROVE  Current(s) \subseteq Datagram
<1>1. s.port \in Endpoints /\ s.peer \in Endpoints /\ s.count \in Nat
  BY DEF Session
<1> QED
  BY <1>1, MessageType DEF Current, Ops

LEMMA ErrorFields ==
  \A src, dst, code : ErrorTo(src, dst, code).op = "ERROR"
  BY DEF ErrorTo, Message

(***************************************************************************)
(* What a session does: it stays the session it was constructed as, sends  *)
(* errors or what it repeats from then on, and ends when it calls back.    *)
(***************************************************************************)
SameSession(s, t) ==
  /\ t.role = s.role /\ t.port = s.port /\ t.knew = s.knew
  /\ t.start = s.start /\ t.options = s.options

\* It has no other partner and no other block.
Stays(s, t) == t.peer = s.peer /\ t.count = s.count

\* A session does not speak of the negotiation.
SessionResults == Results \ {"ERR_OPT_NEGOTIATION"}

OutcomeType ==
  [session : Session, sends : SUBSET Datagram, result : SessionResults \cup {NoResult, Thrown}]

StepsOf(s) ==
  {step \in OutcomeType :
     /\ SameSession(s, step.session)
     /\ step.session.running <=> step.result \in {NoResult, Thrown}
     /\ \A m \in step.sends : m.op = "ERROR" \/ m \in Current(step.session)}

LEMMA ResultsApart ==
  /\ SessionResults \subseteq Results
  /\ NoResult \notin Results /\ Thrown \notin Results /\ NoResult # Thrown
  BY DEF SessionResults, Results, NoResult, Thrown

LEMMA GoesType ==
  ASSUME NEW s \in Session, s.running, NEW msgs \in SUBSET Datagram,
         \A m \in msgs : m.op = "ERROR" \/ m \in Current(s)
  PROVE  /\ Goes(s, msgs) \in StepsOf(s)
         /\ [Goes(s, msgs) EXCEPT !.result = Thrown] \in StepsOf(s)
  BY DEF Goes, StepsOf, OutcomeType, SameSession

Errors == {m \in Datagram : m.op = "ERROR"}

LEMMA EndsType ==
  ASSUME NEW s \in Session, NEW msgs \in SUBSET Errors,
         NEW result \in SessionResults
  PROVE  Ends(s, msgs, result) \in StepsOf(s) /\ Stays(s, Ends(s, msgs, result).session)
<1>1. /\ [s EXCEPT !.running = FALSE] \in Session
      /\ [s EXCEPT !.running = FALSE].running = FALSE
      /\ SameSession(s, [s EXCEPT !.running = FALSE]) /\ Stays(s, [s EXCEPT !.running = FALSE])
  BY DEF Session, SameSession, Stays
<1> QED
  BY <1>1, ResultsApart DEF Ends, StepsOf, OutcomeType, Errors

LEMMA SendsType ==
  ASSUME NEW s \in Session, s.running, NEW errors \in SUBSET Errors,
         NEW msgs \in SUBSET Current(s),
         NEW step \in Sends(s, errors, msgs)
  PROVE  step \in StepsOf(s) /\ Stays(s, step.session) /\ step.result = NoResult
<1>1. PICK sent \in BOOLEAN :
        step = Goes([s EXCEPT !.stranded = ~sent], errors \cup IF sent THEN msgs ELSE {})
  BY DEF Sends, MaySend
<1> DEFINE t == [s EXCEPT !.stranded = ~sent]
           all == errors \cup IF sent THEN msgs ELSE {}
<1>2. t \in Session /\ t.running /\ SameSession(s, t) /\ Stays(s, t)
  BY DEF Session, SameSession, Stays
<1>3. Current(t) = Current(s)
  BY <1>2 DEF Current, SameSession, Stays
<1>4. all \in SUBSET Datagram /\ \A m \in all : m.op = "ERROR" \/ m \in Current(t)
  BY <1>3, CurrentType DEF Errors
<1> HIDE DEF t, all
<1>5. Goes(t, all) \in StepsOf(t)
  BY <1>2, <1>4, GoesType
<1>6. step = Goes(t, all) /\ step.session = t /\ step.result = NoResult
  BY <1>1 DEF Goes, t, all
<1> QED
  BY <1>2, <1>5, <1>6 DEF StepsOf, SameSession

LEMMA FarewellType ==
  ASSUME NEW s \in Session, NEW dst \in Endpoints,
         NEW code \in {ERR_FILE_NOT_FOUND, ERR_ACCESS_VIOLATION, ERR_ILLEGAL_OP,
                       ERR_UNKNOWN_TR_ID}
  PROVE  ErrorTo(s.port, dst, code) \in Errors
<1>1. s.port \in Endpoints
  BY DEF Session
<1> QED
  BY <1>1, ErrorType, ErrorFields DEF Errors

LEMMA StartsType ==
  ASSUME NEW s \in Session, s.running, NEW step \in Starts(s)
  PROVE  step \in StepsOf(s) /\ Stays(s, step.session) /\ step.result # Thrown
<1>p. s.peer \in Endpoints /\ s.role \in {"sender", "receiver"}
  BY DEF Session
<1>r. {"ERR_INPUT_FILE_OPEN", "ERR_OUTPUT_FILE_OPEN"} \subseteq SessionResults
  BY DEF SessionResults, Results
<1>1. CASE ~StreamBad(s)
  BY <1>1, CurrentType, SendsType, ResultsApart DEF Starts
<1>2. CASE StreamBad(s)
  <2>1. \E code \in {ERR_FILE_NOT_FOUND, ERR_ACCESS_VIOLATION}, result \in SessionResults :
          step = Ends(s, {ErrorTo(s.port, s.peer, code)}, result)
    BY <1>2, <1>r DEF Starts
  <2>2. step \in StepsOf(s) /\ Stays(s, step.session)
    <3>1. \E msgs \in SUBSET Errors, result \in SessionResults : step = Ends(s, msgs, result)
      BY <1>p, <2>1, FarewellType
    <3> QED
      BY <3>1, EndsType
  <2>3. step.result \in SessionResults
    BY <2>1 DEF Ends
  <2> QED
    BY <2>2, <2>3, ResultsApart
<1> QED
  BY <1>1, <1>2

LEMMA CannotRepeatType ==
  ASSUME NEW s \in Session, NEW errors \in SUBSET Errors, NEW step \in CannotRepeat(s, errors)
  PROVE  step \in StepsOf(s) /\ Stays(s, step.session)
<1>1. s.peer \in Endpoints /\ "ERR_INPUT_FILE_OPEN" \in SessionResults
  BY DEF Session, SessionResults, Results
<1>2. errors \cup {ErrorTo(s.port, s.peer, ERR_ACCESS_VIOLATION)} \in SUBSET Errors
  BY <1>1, FarewellType
<1> QED
  BY <1>1, <1>2, EndsType DEF CannotRepeat

LEMMA RepeatsType ==
  ASSUME NEW s \in Session, s.running, NEW errors \in SUBSET Errors,
         NEW step \in Repeats(s, errors)
  PROVE  step \in StepsOf(s) /\ Stays(s, step.session)
  BY CurrentType, SendsType, CannotRepeatType DEF Repeats

LEMMA LastAckThrowsType ==
  ASSUME NEW s \in Session, s.running, NEW step \in LastAckThrows(s)
  PROVE  step \in StepsOf(s) /\ Stays(s, step.session)
<1>1. step = [Goes(s, {}) EXCEPT !.result = Thrown]
  BY DEF LastAckThrows
<1>2. step.session = s
  BY <1>1 DEF Goes
<1> QED
  BY <1>1, <1>2, GoesType DEF Stays

\* A datagram changes the partner only of a session that has none.
LEMMA HearsType ==
  ASSUME NEW s \in Session, s.running, NEW m \in Datagram, NEW step \in Hears(s, m)
  PROVE  /\ step \in StepsOf(s)
         /\ \/ Stays(s, step.session)
            \/ Expected(s, m) /\ step.session.peer = m.src /\ step.session.count = 1
<1>m. m.src \in Endpoints /\ s.peer \in Endpoints
  BY DEF Datagram, Session
<1>1. CASE Foreign(s, m)
  <2>1. {ErrorTo(s.port, m.src, ERR_UNKNOWN_TR_ID)} \in SUBSET Errors
    BY <1>m, FarewellType
  <2>2. step \in Repeats(s, {ErrorTo(s.port, m.src, ERR_UNKNOWN_TR_ID)})
    BY <1>1, Zenon DEF Hears, Old, Expected
  <2> QED
    BY <2>1, <2>2, RepeatsType
<1>2. CASE ~Foreign(s, m) /\ Old(s, m)
  <2>1. step \in Repeats(s, {})
    BY <1>2, Zenon DEF Hears, Old
  <2> QED
    BY <2>1, RepeatsType
<1>3. CASE ~Foreign(s, m) /\ ~Old(s, m) /\ Expected(s, m)
  <2> DEFINE t == AdvancedBy(s, m)
  <2>1. /\ t \in Session /\ t.running /\ SameSession(s, t)
        /\ t.peer = m.src /\ t.count = 1
    <3>1. 1 \in 0 .. 1
      OBVIOUS
    <3> QED
      BY <1>m, <3>1 DEF AdvancedBy, Session, SameSession
  <2> HIDE DEF t
  <2>2. \/ step \in Sends(t, {}, IF s.count = 1 THEN {} ELSE Current(t))
        \/ step \in LastAckThrows(t)
    BY <1>3 DEF Hears, Advances, t
  <2>3. step \in StepsOf(t) /\ Stays(t, step.session)
    BY <2>1, <2>2, CurrentType, SendsType, LastAckThrowsType
  <2> QED
    BY <1>3, <2>1, <2>3 DEF StepsOf, SameSession, Stays
<1>4. CASE ~Foreign(s, m) /\ ~Old(s, m) /\ ~Expected(s, m)
  <2>1. {"ERR_NOERR", "ERR_WRONG_BLOCK", "ERR_OPCODE"} \subseteq SessionResults
    BY DEF SessionResults, Results
  <2>2. \E result \in SessionResults : step = Ends(s, {ErrorTo(s.port, s.peer, ERR_ILLEGAL_OP)}, result)
    BY <1>4, <2>1 DEF Hears, Refuses
  <2>3. {ErrorTo(s.port, s.peer, ERR_ILLEGAL_OP)} \in SUBSET Errors
    BY <1>m, FarewellType
  <2> QED
    BY <2>2, <2>3, EndsType
<1> QED
  BY <1>1, <1>2, <1>3, <1>4

LEMMA EndingsType ==
  ASSUME NEW s \in Session, s.running, NEW step \in Endings(s)
  PROVE  step \in StepsOf(s) /\ Stays(s, step.session)
<1>p. s.peer \in Endpoints
  BY DEF Session
<1>1. \/ step \in LastAckThrows(s) \/ step \in CannotRepeat(s, {})
      \/ \E msgs \in SUBSET Errors, result \in SessionResults : step = Ends(s, msgs, result)
  <2>1. /\ Farewell(s, ERR_ILLEGAL_OP) \in SUBSET Errors
        /\ Farewell(s, ERR_ACCESS_VIOLATION) \in SUBSET Errors
    BY <1>p, FarewellType DEF Farewell
  <2>2. /\ "ERR_NOERR" \in SessionResults /\ "ERR_INPUT_FILE_OPEN" \in SessionResults
        /\ "ERR_OUTPUT_FILE_OPEN" \in SessionResults /\ "ERR_WRONG_BLOCK" \in SessionResults
        /\ "ERR_OPCODE" \in SessionResults /\ "ERR_UNSPECIFIED" \in SessionResults
    BY DEF SessionResults, Results
  <2>3. \/ step \in LastAckThrows(s) \/ step \in CannotRepeat(s, {})
        \/ \E msgs \in {{}, Farewell(s, ERR_ILLEGAL_OP), Farewell(s, ERR_ACCESS_VIOLATION)},
              result \in SessionResults : step = Ends(s, msgs, result)
    BY <2>2 DEF Endings, GivesUp, FailedReceive, ReceiverEndings, SenderEndings
  <2> QED
    BY <2>1, <2>3
<1> QED
  BY <1>1, EndsType, LastAckThrowsType, CannotRepeatType

LEMMA NetworkType ==
  ASSUME NEW msgs, msgs \subseteq Datagram, net \subseteq Datagram, NEW m
  PROVE  /\ Routed(msgs) \subseteq Datagram
         /\ \A left \in Taken(m) : left \subseteq Datagram
  BY DEF Routed, Taken

(***************************************************************************)
(* The client                                                              *)
(***************************************************************************)
Kinds == {"datagram", "aborted", "failed", "timeout"}

LEMMA JobTypes ==
  ASSUME job \in Jobs
  PROVE  /\ job.op \in {"RRQ", "WRQ", "INVALID"} /\ job.options \in OptionMaps
         /\ job.size \in Nat /\ job.readable \in BOOLEAN /\ job.writable \in BOOLEAN
  BY RequestAssumption DEF RequestAssumption, JobType

LEMMA RequestType ==
  ASSUME job \in Jobs, job.op # "INVALID"
  PROVE  Request \in Datagram
<1> DEFINE tsize == IF job.op = "RRQ" THEN 0 ELSE job.size
           values == IF isDefault(job.options) THEN job.options
                     ELSE [job.options EXCEPT !["tsize"] = tsize]
<1>1. job.op \in Ops /\ job.options \in OptionMaps /\ tsize \in Nat
  BY JobTypes DEF Ops
<1>2. values \in OptionMaps
  BY <1>1, OptionTypes DEF OptionNames
<1>3. getOptionsAsMap(values) \in OptionMaps
  BY <1>2, OptionTypes
<1>4. Request = [Message(Client, Listen, job.op, 0) EXCEPT !.options = getOptionsAsMap(values)]
  BY DEF Request, RequestMessage
<1> HIDE DEF values
<1> QED
  BY <1>1, <1>3, <1>4, MessageType, EndpointTypes

LEMMA NoMsgType == NoMsg \in Datagram
  BY ErrorType, EndpointTypes DEF NoMsg

LEMMA QueueParts ==
  ASSUME NEW S, NEW q \in Seq(S), q # << >>
  PROVE  Tail(q) \in Seq(S) /\ Head(q) \in S
  OBVIOUS

LEMMA WaitTypes ==
  ASSUME NEW wait \in WaitType
  PROVE  /\ \A b \in BOOLEAN : /\ [wait EXCEPT !.receiving = b] \in WaitType
                               /\ [wait EXCEPT !.armed = b] \in WaitType
         /\ \A k \in Kinds, m \in Datagram : Completed(wait, k, m) \in WaitType
         /\ wait.handlers # << >> => /\ [wait EXCEPT !.handlers = Tail(@)] \in WaitType
                                     /\ Head(wait.handlers).msg \in Datagram
                                     /\ Head(wait.handlers).kind \in Kinds
<1> DEFINE H == [kind : Kinds, msg : Datagram]
<1>1. wait.handlers \in Seq(H)
  BY DEF WaitType, Kinds
<1>2. \A k \in Kinds, m \in Datagram : [kind |-> k, msg |-> m] \in H
  OBVIOUS
<1>3. wait.handlers # << >> => Tail(wait.handlers) \in Seq(H) /\ Head(wait.handlers) \in H
  BY <1>1, QueueParts
<1>4. \A k \in Kinds, m \in Datagram : Append(wait.handlers, [kind |-> k, msg |-> m]) \in Seq(H)
  BY <1>1, <1>2
<1>5. \A q \in Seq(H) : [wait EXCEPT !.handlers = q] \in WaitType
  BY DEF WaitType, Kinds
<1>6. \A b \in BOOLEAN : /\ [wait EXCEPT !.receiving = b] \in WaitType
                         /\ [wait EXCEPT !.armed = b] \in WaitType
  BY DEF WaitType
<1>7. \A k \in Kinds, m \in Datagram : Completed(wait, k, m) \in WaitType
  BY <1>4, <1>5 DEF Completed
<1> QED
  BY <1>3, <1>5, <1>6, <1>7

LEMMA StartSessionType ==
  ASSUME NEW s \in NewSessions, NEW before, before \subseteq Datagram,
         net \subseteq Datagram,
         cResult \in Results \cup {NoResult}, StartSession(s, before)
  PROVE  /\ cSession' \in Session /\ net' \subseteq Datagram
         /\ mTransfer_running' \in BOOLEAN /\ cResult' \in Results \cup {NoResult}
         /\ loop' \in LoopStates
<1>1. PICK step \in Starts(s) : /\ cSession' = step.session
                                /\ net' = net \cup Routed(before \cup step.sends)
                                /\ RunsFromStart(step)
  BY DEF StartSession
<1>2. /\ step.session \in Session /\ step.sends \subseteq Datagram
      /\ step.session.running <=> step.result = NoResult
      /\ ~step.session.running => step.result \in Results
  BY StartsType, ResultsApart DEF StepsOf, OutcomeType, NewSessions
<1>3. net' \subseteq Datagram
  BY <1>1, <1>2, NetworkType
<1>4. /\ mTransfer_running' \in BOOLEAN /\ cResult' \in Results \cup {NoResult}
      /\ loop' \in LoopStates
  BY <1>1, <1>2 DEF RunsFromStart, OnDone, LoopStates
<1> QED
  BY <1>1, <1>2, <1>3, <1>4

LEMMA ThrowsType ==
  ASSUME ClientTypeOK, NEW how \in {"caught", "terminated"}, Throws(how),
         oackWait' \in WaitType
  PROVE  ClientTypeOK'
  BY DEF Throws, ClientTypeOK, LoopStates

LEMMA DoneType ==
  ASSUME NEW code \in Results, OnDone(code)
  PROVE  /\ mTransfer_running' \in BOOLEAN /\ cResult' \in Results /\ loop' \in LoopStates
  BY DEF OnDone, LoopStates

LEMMA AnsweredType ==
  ASSUME ClientTypeOK, NEW ops, Answered(ops)
  PROVE  /\ oackWait' \in WaitType /\ Received \in Datagram /\ oackWait.handlers # << >>
         /\ Received.src \in Endpoints /\ Received.options \in OptionMaps
<1>1. oackWait \in WaitType /\ oackWait.handlers # << >>
  BY DEF ClientTypeOK, Answered, Waits
<1>2. Received \in Datagram
  BY <1>1, WaitTypes DEF Received
<1>3. [oackWait EXCEPT !.armed = FALSE] \in WaitType
  BY <1>1, WaitTypes
<1>4. [oackWait EXCEPT !.armed = FALSE].handlers = oackWait.handlers
  BY <1>1 DEF WaitType
<1>5. oackWait' = [[oackWait EXCEPT !.armed = FALSE] EXCEPT !.handlers = Tail(@)]
  BY <1>1 DEF Answered, WaitType
<1>6. oackWait' \in WaitType
  BY <1>1, <1>3, <1>4, <1>5, WaitTypes
<1> QED
  BY <1>1, <1>2, <1>6 DEF Datagram

LEMMA ClientStartType ==
  ASSUME TypeOK, cCannotSend \/ cStartPlain \/ cStartWithOptions
  PROVE  ClientTypeOK' /\ net' \subseteq Datagram
<1>t. ClientTypeOK /\ net \subseteq Datagram /\ job \in Jobs
  BY DEF TypeOK
<1>1. CASE cCannotSend
  BY <1>t, <1>1, ThrowsType DEF cCannotSend, ClientTypeOK
<1>2. CASE cStartPlain
  <2>1. {Request} \subseteq Datagram
    BY <1>t, <1>2, RequestType DEF cStartPlain
  <2>2. /\ ReceiverFor(Client, NoEndpoint, 0, NoOptions) \in NewSessions
        /\ SenderFor(Client, NoEndpoint, 0, NoOptions) \in NewSessions
    BY NewSessionType, EndpointTypes, OptionTypes DEF ReceiverFor, SenderFor
  <2>3. \E s \in NewSessions : StartSession(s, {Request})
    BY <1>2, <2>2 DEF cStartPlain
  <2> QED
    BY <1>t, <1>2, <2>1, <2>3, StartSessionType DEF cStartPlain, ClientTypeOK
<1>3. CASE cStartWithOptions
  <2>1. Request \in Datagram
    BY <1>t, <1>3, RequestType DEF cStartWithOptions
  <2>2. net' \subseteq Datagram
    BY <1>t, <1>3, <2>1, NetworkType DEF cStartWithOptions
  <2>3. oackWait' \in WaitType
    <3>1. oackWait' = [receiving |-> TRUE, armed |-> TRUE, handlers |-> << >>]
      BY <1>3 DEF cStartWithOptions, NoWait
    <3> QED
      BY <3>1 DEF WaitType
  <2> QED
    BY <1>t, <1>3, <2>2, <2>3 DEF cStartWithOptions, ClientTypeOK, LoopStates
<1> QED
  BY <1>1, <1>2, <1>3

LEMMA ClientEnvType ==
  ASSUME TypeOK, (\E m \in net : cArrive(m)) \/ cReceiveFails \/ cExpire
  PROVE  ClientTypeOK' /\ net' \subseteq Datagram
<1>t. ClientTypeOK /\ net \subseteq Datagram /\ oackWait \in WaitType
  BY DEF TypeOK, ClientTypeOK
<1>k. Kinds = {"datagram", "aborted", "failed", "timeout"}
  BY DEF Kinds
<1>1. /\ [oackWait EXCEPT !.receiving = FALSE] \in WaitType
      /\ [oackWait EXCEPT !.armed = FALSE] \in WaitType
  BY <1>t, WaitTypes
<1>2. CASE \E m \in net : cArrive(m)
  <2>1. PICK m \in net : cArrive(m)
    BY <1>2
  <2>2. oackWait' \in WaitType
    BY <1>t, <1>k, <1>1, <2>1, WaitTypes DEF cArrive
  <2>3. net' \subseteq Datagram
    BY <1>t, <2>1, NetworkType DEF cArrive
  <2> QED
    BY <1>t, <2>1, <2>2, <2>3 DEF cArrive, ClientTypeOK
<1>3. CASE cReceiveFails \/ cExpire
  <2>1. oackWait' \in WaitType
    BY <1>k, <1>1, <1>3, NoMsgType, WaitTypes DEF cReceiveFails, cExpire
  <2> QED
    BY <1>t, <1>3, <2>1 DEF cReceiveFails, cExpire, ClientTypeOK
<1> QED
  BY <1>2, <1>3

LEMMA ClientHandlerType ==
  ASSUME TypeOK, ClientHandler
  PROVE  ClientTypeOK' /\ net' \subseteq Datagram
<1>t. ClientTypeOK /\ net \subseteq Datagram /\ job \in Jobs /\ oackWait \in WaitType
  BY DEF TypeOK, ClientTypeOK
<1>c. {"ERR_OPT_NEGOTIATION"} \subseteq Results
  BY DEF Results
<1>1. CASE cOackTimeout
  <2> DEFINE wait == [oackWait EXCEPT !.handlers = Tail(@)]
  <2>1. wait \in WaitType
    BY <1>t, <1>1, WaitTypes DEF cOackTimeout, Waits
  <2>2. Completed([wait EXCEPT !.receiving = FALSE], "aborted", NoMsg) \in WaitType
    <3>1. [wait EXCEPT !.receiving = FALSE] \in WaitType
      BY <2>1, WaitTypes
    <3> HIDE DEF wait
    <3> QED
      BY <3>1, NoMsgType, WaitTypes DEF Kinds
  <2>3. oackWait' \in WaitType
    BY <1>1, <2>1, <2>2 DEF cOackTimeout
  <2>4. net' = net
    BY <1>1 DEF cOackTimeout
  <2> HIDE DEF wait
  <2> QED
    BY <1>t, <1>1, <2>3, <2>4, ThrowsType DEF cOackTimeout, ClientTypeOK
<1>2. CASE cOackAccepted
  <2>1. /\ oackWait' \in WaitType /\ Received.src \in Endpoints
        /\ Received.options \in OptionMaps
    BY <1>t, <1>2, AnsweredType DEF cOackAccepted
  <2>2. OackValues \in OptionMaps
    BY <1>2, <2>1, AcceptedValues DEF cOackAccepted, OackValues
  <2>3. /\ ReceiverFor(Client, Received.src, 0, OackValues) \in NewSessions
        /\ SenderFor(Client, Received.src, 1, OackValues) \in NewSessions
    BY <2>1, <2>2, NewSessionType, EndpointTypes DEF ReceiverFor, SenderFor
  <2>4. \E s \in NewSessions : StartSession(s, {})
    BY <1>2, <2>3 DEF cOackAccepted
  <2> QED
    BY <1>t, <2>1, <2>4, StartSessionType DEF ClientTypeOK
<1>3. CASE cOackMisfit
  <2>1. oackWait' \in WaitType
    BY <1>t, <1>3, AnsweredType DEF cOackMisfit
  <2> QED
    BY <1>t, <1>3, <2>1 DEF cOackMisfit, ClientTypeOK
<1>4. CASE cOackThrows
  <2>1. oackWait' \in WaitType
    BY <1>t, <1>4, AnsweredType DEF cOackThrows
  <2> QED
    BY <1>t, <1>4, <2>1, ThrowsType DEF cOackThrows
<1>5. CASE cOackRefused
  <2>1. oackWait' \in WaitType /\ Received.src \in Endpoints
    BY <1>t, <1>5, AnsweredType DEF cOackRefused
  <2>2. ErrorTo(Client, Received.src, ERR_OPT_NEGOTIATION) \in Datagram
    BY <2>1, ErrorType, EndpointTypes
  <2>3. Routed({ErrorTo(Client, Received.src, ERR_OPT_NEGOTIATION)}) \subseteq Datagram
    BY <1>t, <2>2, NetworkType
  <2>4. net' \subseteq Datagram
    BY <1>t, <1>5, <2>3 DEF cOackRefused
  <2>5. \/ UNCHANGED cSession /\ OnDone("ERR_OPT_NEGOTIATION")
        \/ Throws("caught")
    BY <1>5 DEF cOackRefused
  <2> QED
    BY <1>t, <1>c, <2>1, <2>4, <2>5, ThrowsType, DoneType DEF ClientTypeOK
<1>6. CASE cAnsweredPlainly
  <2>1. oackWait' \in WaitType /\ Received.src \in Endpoints
    BY <1>t, <1>6, AnsweredType DEF cAnsweredPlainly
  <2>2. /\ ReceiverFor(Client, Received.src, 1, NoOptions) \in NewSessions
        /\ SenderFor(Client, Received.src, 1, NoOptions) \in NewSessions
    BY <2>1, NewSessionType, EndpointTypes, OptionTypes DEF ReceiverFor, SenderFor
  <2>3. \/ Throws("terminated") /\ UNCHANGED net
        \/ \E s \in NewSessions : StartSession(s, {})
    BY <1>6, <2>2 DEF cAnsweredPlainly
  <2> QED
    BY <1>t, <2>1, <2>3, StartSessionType, ThrowsType DEF ClientTypeOK
<1>7. CASE cNotAnswered
  <2>1. oackWait' \in WaitType
    <3>1. CASE Waits({"aborted", "failed"}) /\ oackWait' = [oackWait EXCEPT !.armed = FALSE,
                                                                       !.handlers = Tail(@)]
      <4>1. oackWait.handlers # << >>
        BY <3>1 DEF Waits
      <4>2. [oackWait EXCEPT !.armed = FALSE] \in WaitType
        BY <1>t, WaitTypes
      <4>3. /\ [oackWait EXCEPT !.armed = FALSE].handlers = oackWait.handlers
            /\ oackWait' = [[oackWait EXCEPT !.armed = FALSE] EXCEPT !.handlers = Tail(@)]
        BY <1>t, <3>1 DEF WaitType
      <4> QED
        BY <4>1, <4>2, <4>3, WaitTypes
    <3>2. CASE \E ops : Answered(ops)
      BY <1>t, <3>2, AnsweredType
    <3> QED
      BY <1>7, <3>1, <3>2 DEF cNotAnswered
  <2> QED
    BY <1>t, <1>c, <1>7, <2>1, DoneType DEF cNotAnswered, ClientTypeOK
<1> QED
  BY <1>1, <1>2, <1>3, <1>4, <1>5, <1>6, <1>7 DEF ClientHandler

\* A session keeps its partner and its block, or has got the block it expects.
Follows(s, t, port) ==
  \/ Stays(s, t)
  \/ \E m \in net : m.dst = port /\ Expected(s, m) /\ t.peer = m.src /\ t.count = 1

\* The client's session does one of its steps.
ClientTakes(step) ==
  /\ cSessionBecomes(step)
  /\ net' \subseteq net \cup step.sends
  /\ Follows(cSession, step.session, Client)

LEMMA ClientSessionSteps ==
  ASSUME TypeOK, (\E m \in net : cSessionHears(m)) \/ cSessionRepeats \/ cSessionEnds
  PROVE  \E step \in StepsOf(cSession) : ClientTakes(step)
<1>s. /\ cSession \in Session /\ cSession.running
      /\ net \subseteq Datagram /\ {} \in SUBSET Errors
  BY DEF cSessionHears, cSessionRepeats, cSessionEnds, cSessionRuns, TypeOK, ClientTypeOK
<1>1. CASE \E m \in net : cSessionHears(m)
  <2>1. PICK m \in net : cSessionHears(m)
    BY <1>1
  <2>2. PICK step \in Hears(cSession, m), left \in Taken(m) :
          cSessionBecomes(step) /\ net' = left \cup Routed(step.sends)
    BY <2>1 DEF cSessionHears
  <2>3. m.dst = Client /\ net' \subseteq net \cup step.sends
    BY <2>1, <2>2 DEF cSessionHears, Taken, Routed
  <2> QED
    BY <1>s, <2>2, <2>3, HearsType DEF ClientTakes, Follows
<1>2. CASE cSessionRepeats
  <2>1. PICK step \in Repeats(cSession, {}) :
          cSessionBecomes(step) /\ net' = net \cup Routed(step.sends)
    BY <1>2 DEF cSessionRepeats
  <2>2. step \in StepsOf(cSession) /\ Stays(cSession, step.session)
    BY <1>s, RepeatsType
  <2> QED
    BY <2>1, <2>2 DEF ClientTakes, Follows, Routed
<1>3. CASE cSessionEnds
  <2>1. PICK step \in Endings(cSession) :
          cSessionBecomes(step) /\ net' = net \cup Routed(step.sends)
    BY <1>3 DEF cSessionEnds
  <2>2. step \in StepsOf(cSession) /\ Stays(cSession, step.session)
    BY <1>s, EndingsType
  <2> QED
    BY <2>1, <2>2 DEF ClientTakes, Follows, Routed
<1> QED
  BY <1>1, <1>2, <1>3

LEMMA ClientSessionType ==
  ASSUME TypeOK, (\E m \in net : cSessionHears(m)) \/ cSessionRepeats \/ cSessionEnds
  PROVE  ClientTypeOK' /\ net' \subseteq Datagram
<1>t. ClientTypeOK /\ net \subseteq Datagram /\ oackWait \in WaitType
  BY DEF TypeOK, ClientTypeOK
<1>1. PICK step \in StepsOf(cSession) : ClientTakes(step)
  BY ClientSessionSteps
<1>2. /\ step.session \in Session /\ step.sends \subseteq Datagram
      /\ step.result \in Results \cup {NoResult, Thrown}
  BY ResultsApart DEF StepsOf, OutcomeType
<1>3. net' \subseteq Datagram
  BY <1>t, <1>1, <1>2 DEF ClientTakes
<1>4. ClientTypeOK'
  BY <1>t, <1>1, <1>2, ResultsApart DEF ClientTakes, OnDone, cSessionBecomes, ClientTypeOK, LoopStates
<1> QED
  BY <1>3, <1>4

(***************************************************************************)
(* The server                                                              *)
(***************************************************************************)
LEMMA SessionForType ==
  ASSUME NEW m \in Datagram, NEW p \in ServerPorts, NEW ack \in 0 .. 1,
         NEW options \in OptionMaps
  PROVE  /\ SessionFor(m, p, ack, options) \in NewSessions
         /\ SessionFor(m, p, ack, options).port = p
<1>1. m.src \in Endpoints /\ p \in Endpoints /\ 0 \in 0 .. 1
  BY EndpointTypes DEF Datagram
<1> QED
  BY <1>1, NewSessionType DEF SessionFor, SenderFor, ReceiverFor

LEMMA ServerErrorType ==
  ASSUME NEW m \in Datagram
  PROVE  /\ sendErrorMsg(m, ERR_OPT_NEGOTIATION) \in Datagram
         /\ sendErrorMsg(m, ERR_ILLEGAL_OP) \in Datagram
         /\ UndecodedErrors(m) \subseteq Datagram
<1>1. m.src \in Endpoints
  BY DEF Datagram
<1>2. /\ sendErrorMsg(m, ERR_OPT_NEGOTIATION) \in Datagram
      /\ sendErrorMsg(m, ERR_ILLEGAL_OP) \in Datagram
  BY <1>1, ErrorType, EndpointTypes DEF sendErrorMsg
<1> QED
  BY <1>2 DEF UndecodedErrors

\* What each of the requests that are served comes to.
LEMMA RequestsStart ==
  ASSUME TypeOK, NEW m \in net, NEW p \in ServerPorts,
         HandlePlainRequest(m, p) \/ HandleRequestWithOptions(m, p) \/ HandleRefusedRequest(m, p)
  PROVE  \E s \in NewSessions, before \in SUBSET Datagram :
           s.port = p /\ FreePort(p) /\ StartsSession(m, s, before)
<1>t. m \in Datagram /\ m.options \in OptionMaps /\ m.src \in Endpoints /\ job.size \in Nat
  BY JobTypes DEF TypeOK, Datagram
<1>1. CASE HandlePlainRequest(m, p)
  BY <1>t, <1>1, OptionTypes, SessionForType DEF HandlePlainRequest
<1>2. CASE HandleRefusedRequest(m, p)
  BY <1>t, <1>2, OptionTypes, SessionForType, ServerErrorType DEF HandleRefusedRequest
<1>3. CASE HandleRequestWithOptions(m, p)
  <2> DEFINE values == setOptionsFromMap(m.options)
             answer == getOptionsAsMap(Announced(m.op, values))
  <2>1. values \in OptionMaps
    BY <1>t, <1>3, AcceptedValues DEF HandleRequestWithOptions
  <2> HIDE DEF values
  <2>2. answer \in OptionMaps
    BY <1>t, <2>1, OptionTypes DEF Announced, OptionNames
  <2> HIDE DEF answer
  <2>3. OptionACKMessage(p, m.src, answer) \in Datagram
    BY <1>t, <2>2, MessageType, EndpointTypes DEF OptionACKMessage, Ops
  <2>4. SessionFor(m, p, 0, values) \in NewSessions /\ SessionFor(m, p, 0, values).port = p
    BY <1>t, <2>1, SessionForType
  <2>5. /\ FreePort(p)
        /\ StartsSession(m, SessionFor(m, p, 0, values), {OptionACKMessage(p, m.src, answer)})
    BY <1>3 DEF HandleRequestWithOptions, values, answer
  <2> QED
    BY <2>3, <2>4, <2>5
<1> QED
  BY <1>1, <1>2, <1>3

LEMMA StartsSessionType ==
  ASSUME TypeOK, NEW m \in net, NEW s \in NewSessions, s.port \in ServerPorts,
         NEW before \in SUBSET Datagram, StartsSession(m, s, before)
  PROVE  ServerTypeOK' /\ net' \subseteq Datagram
<1>t. ServerTypeOK /\ net \subseteq Datagram /\ m \in Datagram
  BY DEF TypeOK
<1>0. PICK left \in Taken(m), step \in Starts(s) :
        /\ net' = left \cup Routed(UndecodedErrors(m) \cup before \cup step.sends)
        /\ sessions' = [sessions EXCEPT ![s.port] = step.session]
        /\ List(s, step.session) /\ UNCHANGED serving
  BY DEF StartsSession
<1>1. step.session \in Session /\ step.sends \subseteq Datagram
  BY StartsType DEF StepsOf, OutcomeType, NewSessions
<1>2. Routed(UndecodedErrors(m) \cup before \cup step.sends) \subseteq Datagram
  BY <1>t, <1>1, ServerErrorType, NetworkType
<1>3. net' \subseteq Datagram
  BY <1>t, <1>0, <1>2, NetworkType
<1>4. ServerTypeOK'
  BY <1>t, <1>0, <1>1 DEF List, ServerTypeOK
<1> QED
  BY <1>3, <1>4

\* A session of the server does one of its steps.
ServerTakes(p, step) ==
  /\ SessionRuns(p)
  /\ SessionBecomes(p, step)
  /\ net' \subseteq net \cup step.sends
  /\ Follows(sessions[p], step.session, p)

LEMMA ServerSessionSteps ==
  ASSUME TypeOK, NEW p \in ServerPorts,
         (\E m \in net : SessionHears(p, m)) \/ SessionRepeats(p) \/ SessionEnds(p)
  PROVE  /\ sessions[p] \in Session /\ sessions[p] # NoSession
         /\ \E step \in StepsOf(sessions[p]) : ServerTakes(p, step)
<1>r. SessionRuns(p)
  BY DEF SessionHears, SessionRepeats, SessionEnds
<1>s. /\ sessions[p] \in Session /\ sessions[p].running /\ sessions[p] # NoSession
      /\ net \subseteq Datagram /\ {} \in SUBSET Errors
  BY <1>r DEF SessionRuns, TypeOK, ServerTypeOK
<1>1. CASE \E m \in net : SessionHears(p, m)
  <2>1. PICK m \in net : SessionHears(p, m)
    BY <1>1
  <2>2. PICK step \in Hears(sessions[p], m), left \in Taken(m) :
          SessionBecomes(p, step) /\ net' = left \cup Routed(step.sends)
    BY <2>1 DEF SessionHears
  <2>3. m.dst = p /\ net' \subseteq net \cup step.sends
    BY <2>1, <2>2 DEF SessionHears, Taken, Routed
  <2> QED
    BY <1>r, <1>s, <2>2, <2>3, HearsType DEF ServerTakes, Follows
<1>2. CASE SessionRepeats(p)
  <2>1. PICK step \in Repeats(sessions[p], {}) :
          SessionBecomes(p, step) /\ net' = net \cup Routed(step.sends)
    BY <1>2 DEF SessionRepeats
  <2>2. step \in StepsOf(sessions[p]) /\ Stays(sessions[p], step.session)
    BY <1>s, RepeatsType
  <2> QED
    BY <1>r, <1>s, <2>1, <2>2 DEF ServerTakes, Follows, Routed
<1>3. CASE SessionEnds(p)
  <2>1. PICK step \in Endings(sessions[p]) :
          SessionBecomes(p, step) /\ net' = net \cup Routed(step.sends)
    BY <1>3 DEF SessionEnds
  <2>2. step \in StepsOf(sessions[p]) /\ Stays(sessions[p], step.session)
    BY <1>s, EndingsType
  <2> QED
    BY <1>r, <1>s, <2>1, <2>2 DEF ServerTakes, Follows, Routed
<1> QED
  BY <1>1, <1>2, <1>3

LEMMA ServerStepType ==
  ASSUME TypeOK,
         \/ \E m \in net : \/ \E p \in ServerPorts : \/ HandlePlainRequest(m, p)
                                                     \/ HandleRequestWithOptions(m, p)
                                                     \/ HandleRefusedRequest(m, p)
                                                     \/ SessionHears(p, m)
                           \/ HandleThrowingRequest(m) \/ HandleNoRequest(m)
                           \/ HandleFailingSend(m)
         \/ HandleReceiveError
         \/ \E p \in ServerPorts : SessionRepeats(p) \/ SessionEnds(p) \/ SessionThrows(p)
  PROVE  ServerTypeOK' /\ net' \subseteq Datagram
<1>t. ServerTypeOK /\ net \subseteq Datagram
  BY DEF TypeOK
<1>1. CASE \E m \in net, p \in ServerPorts : \/ HandlePlainRequest(m, p)
                                             \/ HandleRequestWithOptions(m, p)
                                             \/ HandleRefusedRequest(m, p)
  BY <1>1, RequestsStart, StartsSessionType
<1>2. CASE \E m \in net : HandleThrowingRequest(m) \/ HandleNoRequest(m) \/ HandleFailingSend(m)
  <2>1. PICK m \in net : HandleThrowingRequest(m) \/ HandleNoRequest(m) \/ HandleFailingSend(m)
    BY <1>2
  <2>2. UndecodedErrors(m) \subseteq Datagram /\ {sendErrorMsg(m, ERR_ILLEGAL_OP)} \subseteq Datagram
    BY <1>t, ServerErrorType
  <2>3. /\ Routed(UndecodedErrors(m)) \subseteq Datagram
        /\ Routed({sendErrorMsg(m, ERR_ILLEGAL_OP)}) \subseteq Datagram
    BY <1>t, <2>2, NetworkType
  <2>4. net' \subseteq Datagram
    BY <1>t, <2>1, <2>3, NetworkType
       DEF HandleThrowingRequest, HandleNoRequest, HandleFailingSend
  <2> QED
    BY <1>t, <2>1, <2>4
       DEF HandleThrowingRequest, HandleNoRequest, HandleFailingSend, ServerThrows, serverVars,
           ServerTypeOK
<1>3. CASE HandleReceiveError
  BY <1>t, <1>3 DEF HandleReceiveError, ServerTypeOK
<1>4. CASE \/ \E m \in net, p \in ServerPorts : SessionHears(p, m)
           \/ \E p \in ServerPorts : SessionRepeats(p) \/ SessionEnds(p)
  <2>1. PICK p \in ServerPorts : \/ \E m \in net : SessionHears(p, m)
                                 \/ SessionRepeats(p) \/ SessionEnds(p)
    BY <1>4
  <2>2. PICK step \in StepsOf(sessions[p]) : ServerTakes(p, step)
    BY <2>1, ServerSessionSteps
  <2>3. step.session \in Session /\ step.sends \subseteq Datagram
    BY DEF StepsOf, OutcomeType
  <2>4. net' \subseteq Datagram
    BY <1>t, <2>2, <2>3 DEF ServerTakes
  <2>5. ServerTypeOK'
    BY <1>t, <2>2, <2>3 DEF ServerTakes, SessionBecomes, ServerTypeOK
  <2> QED
    BY <2>4, <2>5
<1>5. CASE \E p \in ServerPorts : SessionThrows(p)
  BY <1>t, <1>5 DEF SessionThrows, ServerThrows, ServerTypeOK
<1> QED
  BY <1>1, <1>2, <1>3, <1>4, <1>5

(***************************************************************************)
(* Types                                                                   *)
(***************************************************************************)
ClientMoves ==
  \/ cCannotSend \/ cStartPlain \/ cStartWithOptions
  \/ ClientHandler
  \/ (\E m \in net : cArrive(m)) \/ cReceiveFails \/ cExpire
  \/ (\E m \in net : cSessionHears(m)) \/ cSessionRepeats \/ cSessionEnds

ServerMoves ==
  \/ \E m \in net : \/ \E p \in ServerPorts : \/ HandlePlainRequest(m, p)
                                              \/ HandleRequestWithOptions(m, p)
                                              \/ HandleRefusedRequest(m, p)
                                              \/ SessionHears(p, m)
                    \/ HandleThrowingRequest(m) \/ HandleNoRequest(m)
                    \/ HandleFailingSend(m)
  \/ HandleReceiveError
  \/ \E p \in ServerPorts : SessionRepeats(p) \/ SessionEnds(p) \/ SessionThrows(p)

LEMMA StepOfOneProgram ==
  ASSUME [Next]_vars
  PROVE  \/ ClientMoves /\ UNCHANGED <<job, serverVars>>
         \/ ServerMoves /\ UNCHANGED <<job, clientVars>>
         \/ UNCHANGED vars
  BY Zenon DEF Next, ClientStep, ServerStep, ClientMoves, ServerMoves, ClientHandler

LEMMA InitType == Init => TypeOK
<1> SUFFICES ASSUME Init PROVE TypeOK
  OBVIOUS
<1>1. ClientTypeOK
  <2>1. NoWait \in WaitType
    BY DEF NoWait, WaitType
  <2> QED
    BY <2>1 DEF Init, ClientInit, ClientTypeOK, LoopStates
<1>2. ServerTypeOK
  BY DEF Init, ServerInit, ServerTypeOK
<1>3. net \subseteq Datagram
  BY RequestAssumption DEF Init, RequestAssumption
<1> QED
  BY <1>1, <1>2, <1>3 DEF TypeOK, Init

LEMMA StepType == TypeOK /\ [Next]_vars => TypeOK'
<1> SUFFICES ASSUME TypeOK, [Next]_vars PROVE TypeOK'
  OBVIOUS
<1>1. CASE ClientMoves /\ UNCHANGED <<job, serverVars>>
  <2>1. ClientTypeOK' /\ net' \subseteq Datagram
    BY <1>1, ClientStartType, ClientHandlerType, ClientEnvType, ClientSessionType DEF ClientMoves
  <2> QED
    BY <1>1, <2>1 DEF TypeOK, ServerTypeOK, serverVars
<1>2. CASE ServerMoves /\ UNCHANGED <<job, clientVars>>
  <2>1. ServerTypeOK' /\ net' \subseteq Datagram
    BY <1>2, ServerStepType DEF ServerMoves
  <2> QED
    BY <1>2, <2>1 DEF TypeOK, ClientTypeOK, clientVars
<1>3. CASE UNCHANGED vars
  BY <1>3 DEF vars, clientVars, serverVars, TypeOK, ClientTypeOK, ServerTypeOK
<1> QED
  BY <1>1, <1>2, <1>3, StepOfOneProgram

\* Every variable of client, server and network keeps its type: no value that
\* setOptionsFromMap() accepts is negative.
THEOREM TypeCorrect == Spec => []TypeOK
  BY InitType, StepType, PTL DEF Spec

(***************************************************************************)
(* The lists of the server                                                 *)
(***************************************************************************)
Live(role) == {p \in ServerPorts : /\ sessions[p] # NoSession
                                   /\ sessions[p].role = role
                                   /\ sessions[p].running}

ListsAreLive == mSenderList = Live("sender") /\ mReceiverList = Live("receiver")

LEMMA ListsUnfold == ListsHoldLiveSessions <=> ListsAreLive
  BY DEF ListsHoldLiveSessions, ListsAreLive, Live

\* A session is listed under its port, which was free, unless start() ended it.
LEMMA StartLists ==
  ASSUME TypeOK, ListsAreLive, NEW m \in net, NEW s \in NewSessions, s.port \in ServerPorts,
         FreePort(s.port), NEW before, StartsSession(m, s, before)
  PROVE  ListsAreLive'
<1>t. sessions \in [ServerPorts -> Session \cup {NoSession}]
  BY DEF TypeOK, ServerTypeOK
<1>0. PICK step \in Starts(s) : /\ sessions' = [sessions EXCEPT ![s.port] = step.session]
                                /\ List(s, step.session)
  BY DEF StartsSession
<1> DEFINE after == step.session
           listed(role) == IF s.role = role /\ after.running THEN {s.port} ELSE {}
<1>1. after # NoSession /\ after.role = s.role
  BY StartsType, NoSessionIsNone DEF StepsOf, OutcomeType, SameSession, NewSessions
<1>2. /\ sessions'[s.port] = after
      /\ \A p \in ServerPorts \ {s.port} : sessions'[p] = sessions[p]
  BY <1>t, <1>0
<1>4. /\ mSenderList' = mSenderList \cup listed("sender")
      /\ mReceiverList' = mReceiverList \cup listed("receiver")
  BY <1>0 DEF List
<1> HIDE DEF after
<1>3. ASSUME NEW role \in {"sender", "receiver"}
      PROVE  Live(role)' = Live(role) \cup listed(role)
  <2>1. s.port \notin Live(role)
    BY DEF Live, FreePort
  <2>2. s.port \in Live(role)' <=> s.role = role /\ after.running
    BY <1>1, <1>2 DEF Live
  <2>3. \A p \in ServerPorts \ {s.port} : p \in Live(role)' <=> p \in Live(role)
    BY <1>2 DEF Live
  <2>4. Live(role) \subseteq ServerPorts /\ Live(role)' \subseteq ServerPorts
    BY DEF Live
  <2> QED
    BY <2>1, <2>2, <2>3, <2>4
<1> QED
  BY <1>3, <1>4 DEF ListsAreLive

\* handleOperationFinished() takes a session off the list it is on.
LEMMA BecomesLists ==
  ASSUME TypeOK, ListsAreLive, NEW p \in ServerPorts,
         NEW step \in StepsOf(sessions[p]), ServerTakes(p, step)
  PROVE  ListsAreLive'
<1> DEFINE s == step.session
           gone == IF s.running THEN {} ELSE {p}
<1>t. /\ sessions \in [ServerPorts -> Session \cup {NoSession}]
      /\ s # NoSession /\ s.role = sessions[p].role
  BY NoSessionIsNone DEF TypeOK, ServerTypeOK, StepsOf, OutcomeType, SameSession
<1>2. sessions'[p] = s /\ \A q \in ServerPorts \ {p} : sessions'[q] = sessions[q]
  BY <1>t DEF ServerTakes, SessionBecomes
<1>4. mSenderList' = mSenderList \ gone /\ mReceiverList' = mReceiverList \ gone
  BY DEF ServerTakes, SessionBecomes
<1> HIDE DEF s
<1>3. ASSUME NEW role \in {"sender", "receiver"} PROVE Live(role)' = Live(role) \ gone
  <2>1. p \in Live(role) <=> s.role = role
    BY <1>t DEF Live, ServerTakes, SessionRuns
  <2>2. p \in Live(role)' <=> s.role = role /\ s.running
    BY <1>t, <1>2 DEF Live
  <2>3. \A q \in ServerPorts \ {p} : q \in Live(role)' <=> q \in Live(role)
    BY <1>2 DEF Live
  <2>4. Live(role) \subseteq ServerPorts /\ Live(role)' \subseteq ServerPorts
    BY DEF Live
  <2> QED
    BY <2>1, <2>2, <2>3, <2>4
<1> QED
  BY <1>3, <1>4 DEF ListsAreLive

LEMMA ListsStep == TypeOK /\ ListsAreLive /\ [Next]_vars => ListsAreLive'
<1> SUFFICES ASSUME TypeOK, ListsAreLive, [Next]_vars PROVE ListsAreLive'
  OBVIOUS
<1>k. UNCHANGED <<sessions, mSenderList, mReceiverList>> => ListsAreLive'
  BY DEF ListsAreLive, Live
<1>1. CASE ServerMoves
  <2>1. CASE \E m \in net, p \in ServerPorts : \/ HandlePlainRequest(m, p)
                                               \/ HandleRequestWithOptions(m, p)
                                               \/ HandleRefusedRequest(m, p)
    <3>1. PICK m \in net, p \in ServerPorts : \/ HandlePlainRequest(m, p)
                                              \/ HandleRequestWithOptions(m, p)
                                              \/ HandleRefusedRequest(m, p)
      BY <2>1
    <3>2. PICK s \in NewSessions, before \in SUBSET Datagram :
            s.port = p /\ FreePort(p) /\ StartsSession(m, s, before)
      BY <3>1, RequestsStart
    <3> QED
      BY <3>2, StartLists
  <2>2. CASE \/ \E m \in net, p \in ServerPorts : SessionHears(p, m)
             \/ \E p \in ServerPorts : SessionRepeats(p) \/ SessionEnds(p)
    BY <2>2, ServerSessionSteps, BecomesLists
  <2>3. CASE \/ \E m \in net : \/ HandleThrowingRequest(m) \/ HandleNoRequest(m)
                               \/ HandleFailingSend(m)
             \/ HandleReceiveError
             \/ \E p \in ServerPorts : SessionThrows(p)
    BY <1>k, <2>3 DEF HandleThrowingRequest, HandleNoRequest, HandleFailingSend, ServerThrows,
                      HandleReceiveError, SessionThrows, serverVars
  <2> QED
    BY <1>1, <2>1, <2>2, <2>3 DEF ServerMoves
<1>2. CASE UNCHANGED serverVars
  BY <1>k, <1>2 DEF serverVars
<1> QED
  BY <1>1, <1>2, StepOfOneProgram DEF vars

\* The server's lists hold the sessions that have not ended and no others: a
\* session that start() ends at once is not left on its list, and one that
\* ends later is taken off the list it is on (handleOperationFinished).
THEOREM ListsTrue == Spec => []ListsHoldLiveSessions
<1>1. Init => ListsAreLive
  BY DEF Init, ServerInit, ListsAreLive, Live
<1> QED
  BY <1>1, InitType, StepType, ListsStep, ListsUnfold, PTL DEF Spec

(***************************************************************************)
(* The client's flag and its wait                                          *)
(***************************************************************************)
OnlyTimeouts(q) == \A i \in DOMAIN q : q[i].kind = "timeout"

OneAnswer(q) == \A i, j \in DOMAIN q : q[i].kind # "timeout" /\ q[j].kind # "timeout" => i = j

\* One receive is outstanding or has completed, not both.
WaitShape(wait) == /\ OneAnswer(wait.handlers)
                   /\ wait.receiving => OnlyTimeouts(wait.handlers)

\* Nothing is left of the wait, except for an expiry that has been queued.
WaitOver(wait) == ~wait.receiving /\ ~wait.armed /\ OnlyTimeouts(wait.handlers)

FlagIsTrue == mTransfer_running <=> cSession # NoSession /\ cSession.running

ClientTruth ==
  /\ WaitShape(oackWait)
  /\ loop = "ready" => oackWait = NoWait /\ cSession = NoSession
  /\ cSession # NoSession => WaitOver(oackWait)
  /\ FlagIsTrue

LEMMA Queues ==
  ASSUME NEW H, NEW q \in Seq(H)
  PROVE  /\ \A h \in H : /\ OnlyTimeouts(q) => OneAnswer(Append(q, h))
                         /\ h.kind = "timeout" /\ OnlyTimeouts(q) => OnlyTimeouts(Append(q, h))
                         /\ h.kind = "timeout" /\ OneAnswer(q) => OneAnswer(Append(q, h))
         /\ q # << >> => /\ OnlyTimeouts(q) => OnlyTimeouts(Tail(q))
                         /\ OneAnswer(q) => OneAnswer(Tail(q))
                         /\ OneAnswer(q) /\ Head(q).kind # "timeout" => OnlyTimeouts(Tail(q))
                         /\ OnlyTimeouts(q) => Head(q).kind = "timeout"
<1>1. ASSUME NEW h \in H
      PROVE  /\ OnlyTimeouts(q) => OneAnswer(Append(q, h))
             /\ h.kind = "timeout" /\ OnlyTimeouts(q) => OnlyTimeouts(Append(q, h))
             /\ h.kind = "timeout" /\ OneAnswer(q) => OneAnswer(Append(q, h))
  <2>1. /\ DOMAIN Append(q, h) = 1 .. Len(q) + 1 /\ DOMAIN q = 1 .. Len(q) /\ Len(q) \in Nat
        /\ Append(q, h)[Len(q) + 1] = h
        /\ \A i \in 1 .. Len(q) : Append(q, h)[i] = q[i]
    OBVIOUS
  <2> QED
    BY <2>1 DEF OnlyTimeouts, OneAnswer
<1>2. ASSUME q # << >>
      PROVE  /\ OnlyTimeouts(q) => OnlyTimeouts(Tail(q))
             /\ OneAnswer(q) => OneAnswer(Tail(q))
             /\ OneAnswer(q) /\ Head(q).kind # "timeout" => OnlyTimeouts(Tail(q))
             /\ OnlyTimeouts(q) => Head(q).kind = "timeout"
  <2>1. /\ DOMAIN Tail(q) = 1 .. Len(q) - 1 /\ DOMAIN q = 1 .. Len(q) /\ Len(q) \in Nat \ {0}
        /\ Head(q) = q[1]
        /\ \A i \in 1 .. Len(q) - 1 : Tail(q)[i] = q[i + 1]
    BY <1>2
  <2> QED
    BY <2>1 DEF OnlyTimeouts, OneAnswer
<1> QED
  BY <1>1, <1>2

\* Whatever the wait starts, it leaves the flag true.
LEMMA StartsTrue ==
  ASSUME NEW s \in NewSessions, NEW before, StartSession(s, before)
  PROVE  FlagIsTrue' /\ cSession' # NoSession /\ loop' # "ready"
<1>1. PICK step \in Starts(s) : cSession' = step.session /\ RunsFromStart(step)
  BY DEF StartSession
<1>2. step.session # NoSession /\ step.session.running \in BOOLEAN
  BY StartsType, NoSessionIsNone DEF StepsOf, OutcomeType, NewSessions, Session
<1>3. CASE step.session.running
  BY <1>1, <1>2, <1>3 DEF RunsFromStart, FlagIsTrue
<1>4. CASE ~step.session.running
  <2>1. mTransfer_running' = FALSE /\ loop' = "done"
    BY <1>1, <1>4 DEF RunsFromStart, OnDone
  <2> QED
    BY <1>1, <1>2, <1>4, <2>1 DEF FlagIsTrue
<1> QED
  BY <1>3, <1>4

\* The handler of the receive ends the wait.
LEMMA AnswerEndsWait ==
  ASSUME TypeOK, ClientTruth, NEW kinds, Waits(kinds), "timeout" \notin kinds,
         oackWait' = [oackWait EXCEPT !.armed = FALSE, !.handlers = Tail(@)]
  PROVE  WaitOver(oackWait') /\ WaitShape(oackWait') /\ cSession = NoSession
<1> DEFINE H == [kind : Kinds, msg : Datagram]
<1>1. oackWait \in WaitType /\ oackWait.handlers \in Seq(H)
  BY DEF TypeOK, ClientTypeOK, WaitType, Kinds
<1>2. oackWait.handlers # << >> /\ Head(oackWait.handlers).kind # "timeout"
  BY DEF Waits
<1>3. /\ ~OnlyTimeouts(oackWait.handlers)
      /\ OnlyTimeouts(Tail(oackWait.handlers)) /\ OneAnswer(Tail(oackWait.handlers))
  BY <1>1, <1>2, Queues DEF ClientTruth, WaitShape
<1>4. ~oackWait.receiving /\ cSession = NoSession
  BY <1>3 DEF ClientTruth, WaitShape, WaitOver
<1>5. /\ oackWait'.receiving = oackWait.receiving /\ ~oackWait'.armed
      /\ oackWait'.handlers = Tail(oackWait.handlers)
  BY <1>1 DEF WaitType
<1> QED
  BY <1>3, <1>4, <1>5 DEF WaitOver, WaitShape

\* The receive completes while there is no session.
LEMMA ReceiveCompletes ==
  ASSUME NEW wait \in WaitType, wait.receiving, WaitShape(wait), NEW k \in Kinds,
         NEW m \in Datagram
  PROVE  WaitShape(Completed([wait EXCEPT !.receiving = FALSE], k, m))
<1> DEFINE H == [kind : Kinds, msg : Datagram]
<1>1. wait.handlers \in Seq(H) /\ [kind |-> k, msg |-> m] \in H
  BY DEF WaitType, Kinds
<1>2. OneAnswer(Append(wait.handlers, [kind |-> k, msg |-> m]))
  BY <1>1, Queues DEF WaitShape
<1>3. /\ ~Completed([wait EXCEPT !.receiving = FALSE], k, m).receiving
      /\ Completed([wait EXCEPT !.receiving = FALSE], k, m).handlers
           = Append(wait.handlers, [kind |-> k, msg |-> m])
  BY DEF Completed, WaitType
<1> QED
  BY <1>2, <1>3 DEF WaitShape

LEMMA ClientTruthStarts ==
  ASSUME TypeOK, ClientTruth, cCannotSend \/ cStartPlain \/ cStartWithOptions
  PROVE  ClientTruth'
<1>q. OnlyTimeouts(<< >>) /\ OneAnswer(<< >>)
  BY DEF OnlyTimeouts, OneAnswer
<1>l. loop = "ready"
  BY DEF cCannotSend, cStartPlain, cStartWithOptions
<1>r. /\ oackWait = NoWait /\ cSession = NoSession /\ ~mTransfer_running
      /\ OnlyTimeouts(<< >>) /\ OneAnswer(<< >>)
  BY <1>q, <1>l DEF ClientTruth, FlagIsTrue
<1>n. WaitShape(NoWait) /\ WaitOver(NoWait)
  BY <1>r DEF NoWait, WaitShape, WaitOver
<1>1. CASE cCannotSend
  BY <1>1, <1>r, <1>n DEF cCannotSend, Throws, ClientTruth, FlagIsTrue
<1>2. CASE cStartPlain
  <2>1. /\ ReceiverFor(Client, NoEndpoint, 0, NoOptions) \in NewSessions
        /\ SenderFor(Client, NoEndpoint, 0, NoOptions) \in NewSessions
    BY NewSessionType, EndpointTypes, OptionTypes DEF ReceiverFor, SenderFor
  <2>2. \E s \in NewSessions : StartSession(s, {Request})
    BY <1>2, <2>1 DEF cStartPlain
  <2> QED
    BY <1>2, <1>r, <1>n, <2>2, StartsTrue DEF cStartPlain, ClientTruth
<1>3. CASE cStartWithOptions
  <2>1. oackWait' = [receiving |-> TRUE, armed |-> TRUE, handlers |-> << >>]
    BY <1>3 DEF cStartWithOptions, NoWait
  <2>2. WaitShape(oackWait')
    BY <1>r, <2>1 DEF WaitShape
  <2> QED
    BY <1>3, <1>r, <2>2 DEF cStartWithOptions, ClientTruth, FlagIsTrue
<1> QED
  BY <1>1, <1>2, <1>3

LEMMA ClientTruthEnv ==
  ASSUME TypeOK, ClientTruth, (\E m \in net : cArrive(m)) \/ cReceiveFails \/ cExpire
  PROVE  ClientTruth'
<1>t. net \subseteq Datagram /\ oackWait \in WaitType
  BY DEF TypeOK, ClientTypeOK
<1>u. loop' # "ready" /\ UNCHANGED <<cSession, mTransfer_running>>
  BY DEF cArrive, cReceiveFails, cExpire
<1>s. cSession = NoSession
  BY DEF ClientTruth, WaitOver, cArrive, cReceiveFails, cExpire
<1>1. CASE (\E m \in net : cArrive(m)) \/ cReceiveFails
  <2>1. \E k \in Kinds, m \in Datagram :
          oackWait' = Completed([oackWait EXCEPT !.receiving = FALSE], k, m)
    BY <1>t, <1>1, NoMsgType DEF cArrive, cReceiveFails, Kinds
  <2>2. oackWait.receiving
    BY <1>1 DEF cArrive, cReceiveFails
  <2>3. WaitShape(oackWait')
    BY <1>t, <2>1, <2>2, ReceiveCompletes DEF ClientTruth
  <2> QED
    BY <1>u, <1>s, <2>3 DEF ClientTruth, FlagIsTrue
<1>2. CASE cExpire
  <2> DEFINE H == [kind : Kinds, msg : Datagram]
             h == [kind |-> "timeout", msg |-> NoMsg]
  <2>1. oackWait.handlers \in Seq(H) /\ h \in H /\ h.kind = "timeout"
    BY <1>t, NoMsgType DEF WaitType, Kinds
  <2>2. /\ oackWait'.receiving = oackWait.receiving
        /\ oackWait'.handlers = Append(oackWait.handlers, h)
    BY <1>t, <1>2 DEF cExpire, Completed, WaitType
  <2> HIDE DEF h, H
  <2>3. WaitShape(oackWait')
    BY <2>1, <2>2, Queues DEF ClientTruth, WaitShape
  <2> QED
    BY <1>u, <1>s, <2>3 DEF ClientTruth, FlagIsTrue
<1> QED
  BY <1>1, <1>2

\* The expiry that was queued behind the answer, or in front of it.
LEMMA ClientTruthTimeout ==
  ASSUME TypeOK, ClientTruth, cOackTimeout
  PROVE  ClientTruth'
<1> DEFINE H == [kind : Kinds, msg : Datagram]
           wait == [oackWait EXCEPT !.handlers = Tail(@)]
<1>t. /\ oackWait \in WaitType /\ oackWait.handlers \in Seq(H) /\ oackWait.handlers # << >>
      /\ loop = "looping"
  BY DEF TypeOK, ClientTypeOK, WaitType, Kinds, cOackTimeout, Waits
<1>w. /\ wait \in WaitType /\ wait.handlers = Tail(oackWait.handlers)
      /\ wait.receiving = oackWait.receiving /\ wait.armed = oackWait.armed
  BY <1>t, WaitTypes DEF WaitType
<1>1. WaitShape(wait) /\ (WaitOver(oackWait) => WaitOver(wait))
  <2>1. /\ OneAnswer(Tail(oackWait.handlers))
        /\ OnlyTimeouts(oackWait.handlers) => OnlyTimeouts(Tail(oackWait.handlers))
    BY <1>t, Queues DEF ClientTruth, WaitShape
  <2> HIDE DEF wait
  <2> QED
    BY <1>w, <2>1 DEF ClientTruth, WaitShape, WaitOver
<1>2. CASE cSession # NoSession
  <2>1. oackWait' = wait /\ Throws("caught")
    BY <1>2 DEF cOackTimeout
  <2> HIDE DEF wait
  <2> QED
    BY <1>1, <1>2, <2>1 DEF Throws, ClientTruth, FlagIsTrue
<1>3. CASE cSession = NoSession
  <2>1. /\ UNCHANGED <<cSession, mTransfer_running, loop>>
        /\ oackWait' = IF wait.receiving
                       THEN Completed([wait EXCEPT !.receiving = FALSE], "aborted", NoMsg)
                       ELSE wait
    BY <1>3 DEF cOackTimeout
  <2> HIDE DEF wait
  <2>2. WaitShape(oackWait')
    BY <1>w, <1>1, <2>1, NoMsgType, ReceiveCompletes DEF Kinds
  <2> QED
    BY <1>t, <1>3, <2>1, <2>2 DEF ClientTruth, FlagIsTrue
<1> QED
  BY <1>2, <1>3

LEMMA ClientTruthAnswered ==
  ASSUME TypeOK, ClientTruth,
         \/ cOackAccepted \/ cOackMisfit \/ cOackThrows \/ cOackRefused
         \/ cAnsweredPlainly \/ cNotAnswered
  PROVE  ClientTruth'
<1>w. /\ WaitOver(oackWait') /\ WaitShape(oackWait') /\ cSession = NoSession
      /\ loop = "looping"
  <2>1. \E kinds : /\ Waits(kinds) /\ "timeout" \notin kinds
                   /\ oackWait' = [oackWait EXCEPT !.armed = FALSE, !.handlers = Tail(@)]
    <3>1. CASE \E ops : Answered(ops)
      <4>1. "timeout" \notin {"datagram"}
        OBVIOUS
      <4> QED
        BY <3>1, <4>1 DEF Answered
    <3>2. CASE cNotAnswered
      <4>1. "timeout" \notin {"aborted", "failed"}
        OBVIOUS
      <4> QED
        BY <3>1, <3>2, <4>1 DEF cNotAnswered
    <3> QED
      BY <3>1, <3>2
         DEF cOackAccepted, cOackMisfit, cOackThrows, cOackRefused, cAnsweredPlainly
  <2> QED
    BY <2>1, AnswerEndsWait DEF Waits
<1>f. ~mTransfer_running
  BY <1>w DEF ClientTruth, FlagIsTrue
<1>1. CASE \E s \in NewSessions : StartSession(s, {})
  BY <1>1, <1>w, StartsTrue DEF ClientTruth
<1>2. CASE UNCHANGED <<cSession, mTransfer_running>> /\ loop' # "ready"
  BY <1>2, <1>w, <1>f DEF ClientTruth, FlagIsTrue
<1>3. CASE UNCHANGED cSession /\ OnDone("ERR_OPT_NEGOTIATION")
  BY <1>3, <1>w DEF OnDone, ClientTruth, FlagIsTrue
<1>4. CASE cOackAccepted \/ cAnsweredPlainly
  <2>t. /\ Received.src \in Endpoints /\ Received.options \in OptionMaps
    BY <1>4, AnsweredType DEF TypeOK, cOackAccepted, cAnsweredPlainly
  <2>1. cOackAccepted => OackValues \in OptionMaps
    BY <2>t, AcceptedValues DEF cOackAccepted, OackValues
  <2>2. \A values \in OptionMaps : /\ ReceiverFor(Client, Received.src, 0, values) \in NewSessions
                                   /\ ReceiverFor(Client, Received.src, 1, values) \in NewSessions
                                   /\ SenderFor(Client, Received.src, 1, values) \in NewSessions
    BY <2>t, NewSessionType, EndpointTypes DEF ReceiverFor, SenderFor
  <2>3. CASE cOackAccepted
    BY <1>1, <2>1, <2>2, <2>3 DEF cOackAccepted
  <2>4. CASE cAnsweredPlainly
    BY <1>1, <1>2, <2>2, <2>4, OptionTypes DEF cAnsweredPlainly, Throws
  <2> QED
    BY <1>4, <2>3, <2>4
<1>5. CASE cOackMisfit \/ cOackThrows \/ cOackRefused \/ cNotAnswered
  BY <1>2, <1>3, <1>5, <1>w DEF cOackMisfit, cOackThrows, cOackRefused, cNotAnswered, Throws
<1> QED
  BY <1>4, <1>5

LEMMA ClientTruthSession ==
  ASSUME TypeOK, ClientTruth, (\E m \in net : cSessionHears(m)) \/ cSessionRepeats \/ cSessionEnds
  PROVE  ClientTruth'
<1>s. /\ loop = "looping" /\ mTransfer_running /\ WaitShape(oackWait) /\ WaitOver(oackWait)
  BY DEF cSessionHears, cSessionRepeats, cSessionEnds, cSessionRuns, ClientTruth, FlagIsTrue
<1>1. PICK step \in StepsOf(cSession) : ClientTakes(step)
  BY ClientSessionSteps
<1>2. /\ cSession' = step.session /\ cSession' # NoSession /\ UNCHANGED oackWait
      /\ step.session.running <=> step.result \in {NoResult, Thrown}
      /\ step.result \in Results \cup {NoResult, Thrown}
  BY <1>1, NoSessionIsNone, ResultsApart DEF ClientTakes, cSessionBecomes, StepsOf, OutcomeType
<1>3. CASE step.result \in {NoResult, Thrown}
  <2>1. UNCHANGED mTransfer_running /\ loop' # "ready"
    BY <1>s, <1>1, <1>3, ResultsApart DEF ClientTakes, cSessionBecomes
  <2> QED
    BY <1>s, <1>2, <1>3, <2>1 DEF ClientTruth, FlagIsTrue
<1>4. CASE step.result \in Results
  <2>1. mTransfer_running' = FALSE /\ loop' = "done"
    BY <1>1, <1>4, ResultsApart DEF ClientTakes, cSessionBecomes, OnDone
  <2> QED
    BY <1>s, <1>2, <1>4, <2>1, ResultsApart DEF ClientTruth, FlagIsTrue
<1> QED
  BY <1>2, <1>3, <1>4

LEMMA ClientTruthStep == TypeOK /\ ClientTruth /\ [Next]_vars => ClientTruth'
<1> SUFFICES ASSUME TypeOK, ClientTruth, [Next]_vars PROVE ClientTruth'
  OBVIOUS
<1>1. CASE UNCHANGED clientVars
  BY <1>1 DEF clientVars, ClientTruth, FlagIsTrue
<1>2. CASE ClientMoves
  BY <1>2, ClientTruthStarts, ClientTruthEnv, ClientTruthTimeout, ClientTruthAnswered,
     ClientTruthSession DEF ClientMoves, ClientHandler
<1> QED
  BY <1>1, <1>2, StepOfOneProgram DEF vars

LEMMA ClientTruthInit == Init => ClientTruth
<1> SUFFICES ASSUME Init PROVE ClientTruth
  OBVIOUS
<1>1. OnlyTimeouts(<< >>) /\ OneAnswer(<< >>)
  BY DEF OnlyTimeouts, OneAnswer
<1>2. WaitShape(NoWait)
  BY <1>1 DEF WaitShape, NoWait
<1> QED
  BY <1>2 DEF Init, ClientInit, ClientTruth, FlagIsTrue

\* mTransfer_running is set exactly while the client has a session that has not
\* ended, one that start() ends at once included: the flag is set before
\* start() is called, and the callback comes from within it.
THEOREM FlagTrue == Spec => []RunningMeansLiveSession
<1>1. ClientTruth => RunningMeansLiveSession
  BY DEF ClientTruth, FlagIsTrue, RunningMeansLiveSession
<1> QED
  BY <1>1, InitType, StepType, ClientTruthInit, ClientTruthStep, PTL DEF Spec

\* While a transfer runs, the socket and the timer of the wait for the OACK
\* have nothing outstanding: each of the handlers that starts a session has
\* cancelled the timer, and was the only answer to the receive.
THEOREM WaitIsOver == Spec => []WaitIsOverInTransfer
<1>1. ClientTruth => WaitIsOverInTransfer
  BY DEF ClientTruth, FlagIsTrue, WaitOver, WaitIsOverInTransfer
<1> QED
  BY <1>1, InitType, StepType, ClientTruthInit, ClientTruthStep, PTL DEF Spec

=============================================================================
