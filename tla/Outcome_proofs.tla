---------------------------- MODULE Outcome_proofs ----------------------------
(***************************************************************************)
(* What is proved of Negotiation: the client is not left without an        *)
(* outcome, but for the size of a file, and the negotiation implements     *)
(* Agreement.                                                              *)
(***************************************************************************)
EXTENDS SessionsFit_proofs

(***************************************************************************)
(* The invariant: what the datagrams say of the size of the file, and what *)
(* the wait still has coming.                                              *)
(***************************************************************************)

\* A writer has announced the size of its file, and an OACK that the client
\* would accept suits it, or else sizes do not fit.
SizeTrue(m) ==
  ~isDefault(job.options) =>
    /\ m.op = "WRQ" /\ m.src = Client => m.options["tsize"] = job.size
    /\ m.op = "OACK" /\ m.dst = Client /\ SetOptionsOk(m.options) =>
         Suits(setOptionsFromMap(m.options)) \/ Misfits

\* The handler of the receive is queued, or will be: by a datagram, by the
\* timer, or by the handler of the timer, which is queued already.
AnswerComes(wait) ==
  \/ ~OnlyTimeouts(wait.handlers)
  \/ wait.receiving /\ (wait.armed \/ wait.handlers # << >>)

WaitGoesOn ==
  loop = "looping" =>
    IF cSession = NoSession
    THEN ~isDefault(job.options) /\ (AnswerComes(oackWait) \/ Misfits)
    ELSE cSession.running

SpinInv ==
  /\ \A m \in net \cup Waiting(oackWait) : SizeTrue(m)
  /\ WaitGoesOn

(***************************************************************************)
(* Datagrams                                                               *)
(***************************************************************************)

\* Of a file only requests and OACKs speak.
LEMMA OthersTrue ==
  ASSUME NEW m, m.op \notin {"WRQ", "OACK"}
  PROVE  SizeTrue(m)
  BY DEF SizeTrue

LEMMA SizesStayTrue ==
  ASSUME job' = job, NEW m, SizeTrue(m)
  PROVE  SizeTrue(m)'
  BY DEF SizeTrue, Suits, Misfits

LEMMA RequestSizeTrue ==
  ASSUME job \in Jobs
  PROVE  SizeTrue(Request)
<1> DEFINE tsize == IF job.op = "RRQ" THEN 0 ELSE job.size
           values == [job.options EXCEPT !["tsize"] = tsize]
<1>1. job.options \in OptionMaps
  BY JobTypes
<1>2. Request.op = job.op
  BY DEF Request, RequestMessage, Message
<1>3. CASE ~isDefault(job.options) /\ job.op = "WRQ"
  <2>1. Request.options = getOptionsAsMap(values)
    BY <1>3 DEF Request, RequestMessage, Message
  <2>2. values["tsize"] = job.size
    BY <1>1, <1>3 DEF OptionMaps, OptionNames
  <2> HIDE DEF values
  <2>3. Request.options["tsize"] = job.size
    BY <2>1, <2>2 DEF getOptionsAsMap, OptionNames
  <2> QED
    BY <1>2, <1>3, <2>3 DEF SizeTrue
<1>4. CASE isDefault(job.options)
  BY <1>4 DEF SizeTrue
<1>5. CASE job.op # "WRQ"
  <2>1. job.op # "OACK"
    BY JobTypes
  <2> QED
    BY <1>2, <1>5, <2>1, OthersTrue
<1> QED
  BY <1>3, <1>4, <1>5

LEMMA CurrentOps ==
  ASSUME NEW s
  PROVE  \A m \in Current(s) : m.op \in {"DATA", "ACK"}
  BY DEF Current, Message

LEMMA StepOps ==
  ASSUME NEW s, NEW step \in StepsOf(s)
  PROVE  \A m \in step.sends : m.op \in {"DATA", "ACK", "ERROR"}
  BY CurrentOps DEF StepsOf

LEMMA StartOps ==
  ASSUME NEW s \in NewSessions, NEW step \in Starts(s)
  PROVE  \A m \in step.sends : m.op \in {"DATA", "ACK", "ERROR"}
  BY StartsType, StepOps DEF NewSessions

\* The size that an OACK of the server gives: that of the file it reads, cut to
\* an int when the client reads it back, or the one the client has announced,
\* cut when the server reads it and once more.
LEMMA OackSizes ==
  ASSUME NEW map \in OptionMaps, NEW op, job.size \in Nat,
         LET values == setOptionsFromMap(map)
             answer == getOptionsAsMap(Announced(op, values))
         IN  setOptionsFromMap(answer)["tsize"] # Unset
  PROVE  LET values == setOptionsFromMap(map)
             answer == getOptionsAsMap(Announced(op, values))
         IN  /\ map["tsize"] # Unset
             /\ setOptionsFromMap(answer)["tsize"] =
                  IF op = "RRQ" THEN atoi(job.size) ELSE atoi(atoi(map["tsize"]))
<1> DEFINE values == setOptionsFromMap(map)
           announced == Announced(op, values)
           answer == getOptionsAsMap(announced)
<1>1. values = [o \in OptionNames |-> values[o]] /\ "tsize" \in OptionNames
  BY DEF setOptionsFromMap, OptionNames
<1>2. values["tsize"] = IF map["tsize"] = Unset THEN Unset ELSE atoi(map["tsize"])
  BY DEF setOptionsFromMap, ReadFrom, OptionNames
<1> HIDE DEF values
<1>3. announced["tsize"] =
        IF op = "RRQ" /\ values["tsize"] # Unset THEN job.size ELSE values["tsize"]
  BY <1>1 DEF Announced
<1> HIDE DEF announced
<1>4. answer["tsize"] = announced["tsize"]
  BY <1>1 DEF getOptionsAsMap
<1> HIDE DEF answer
<1>5. setOptionsFromMap(answer)["tsize"] =
        IF answer["tsize"] = Unset THEN Unset ELSE atoi(answer["tsize"])
  BY DEF setOptionsFromMap, ReadFrom, OptionNames
<1>6. setOptionsFromMap(answer)["tsize"] # Unset
  BY DEF answer, announced, values
<1>7. /\ map["tsize"] # Unset
      /\ setOptionsFromMap(answer)["tsize"] =
           IF op = "RRQ" THEN atoi(job.size) ELSE atoi(atoi(map["tsize"]))
  BY <1>2, <1>3, <1>4, <1>5, <1>6
<1> QED
  BY <1>7 DEF answer, announced, values

\* The OACK that answers the client's request.
LEMMA OackSizeTrue ==
  ASSUME TypeOK, NEW m \in Datagram, m.op \in {"RRQ", "WRQ"},
         RequestTrue(m, job), SizeTrue(m), NEW p
  PROVE  SizeTrue(OptionACKMessage(p, m.src,
           getOptionsAsMap(Announced(m.op, setOptionsFromMap(m.options)))))
<1> DEFINE answer == getOptionsAsMap(Announced(m.op, setOptionsFromMap(m.options)))
           oack == OptionACKMessage(p, m.src, answer)
           size == setOptionsFromMap(answer)["tsize"]
<1>1. oack.op = "OACK" /\ oack.dst = m.src /\ oack.options = answer
  BY DEF OptionACKMessage, Message
<1>t. m.options \in OptionMaps /\ job.size \in Nat
  BY JobTypes DEF TypeOK, Datagram
<1>2. ASSUME ~isDefault(job.options), m.src = Client, size # Unset, ~Misfits
      PROVE  IF job.op = "RRQ" THEN size <= job.space ELSE size = job.size
  <2>1. m.op = job.op /\ (m.op = "WRQ" => m.options["tsize"] = job.size)
    BY <1>2 DEF RequestTrue, SizeTrue
  <2>2. size = IF m.op = "RRQ" THEN atoi(job.size) ELSE atoi(atoi(m.options["tsize"]))
    BY <1>t, <1>2, OackSizes
  <2> HIDE DEF size
  <2>3. IF job.op = "RRQ" THEN ~(atoi(job.size) > job.space) ELSE atoi(job.size) = job.size
    BY <1>2 DEF Misfits
  <2>4. atoi(job.size) \in Int /\ job.space \in Int
    BY <1>t, AtoiInt, RequestAssumption DEF TypeOK, RequestAssumption, JobType
  <2> QED
    BY <2>1, <2>2, <2>3, <2>4
<1>3. ASSUME ~isDefault(job.options), m.src = Client
      PROVE  Suits(setOptionsFromMap(answer)) \/ Misfits
  <2> HIDE DEF answer
  <2> QED
    BY <1>2, <1>3 DEF Suits
<1> HIDE DEF oack, answer
<1>4. SizeTrue(oack)
  BY <1>1, <1>3 DEF SizeTrue
<1> QED
  BY <1>4 DEF oack, answer

(***************************************************************************)
(* Every datagram that is sent, or received, tells the true size           *)
(***************************************************************************)

\* The sessions that the client starts, without options or when it is answered.
LEMMA PlainSessions ==
  ASSUME cStartPlain
  PROVE  \E s \in NewSessions : StartSession(s, {Request})
<1>1. /\ ReceiverFor(Client, NoEndpoint, 0, NoOptions) \in NewSessions
      /\ SenderFor(Client, NoEndpoint, 0, NoOptions) \in NewSessions
  BY NewSessionType, EndpointTypes, OptionTypes DEF ReceiverFor, SenderFor
<1> QED
  BY <1>1 DEF cStartPlain

LEMMA AnsweredSessions ==
  ASSUME ClientTypeOK, cOackAccepted \/ cAnsweredPlainly
  PROVE  \/ \E s \in NewSessions : StartSession(s, {})
         \/ Throws("terminated") /\ UNCHANGED net
<1>t. /\ Received.src \in Endpoints /\ Received.options \in OptionMaps
  BY AnsweredType DEF cOackAccepted, cAnsweredPlainly
<1>1. cOackAccepted => OackValues \in OptionMaps
  BY <1>t, AcceptedValues DEF cOackAccepted, OackValues
<1>2. \A values \in OptionMaps : /\ ReceiverFor(Client, Received.src, 0, values) \in NewSessions
                                 /\ ReceiverFor(Client, Received.src, 1, values) \in NewSessions
                                 /\ SenderFor(Client, Received.src, 1, values) \in NewSessions
  BY <1>t, NewSessionType, EndpointTypes DEF ReceiverFor, SenderFor
<1>3. CASE cOackAccepted
  BY <1>1, <1>2, <1>3 DEF cOackAccepted
<1>4. CASE cAnsweredPlainly
  BY <1>2, <1>4, OptionTypes DEF cAnsweredPlainly
<1> QED
  BY <1>3, <1>4

\* What the client's session, a handler and the loop send.
LEMMA ClientSendsNoSize ==
  ASSUME TypeOK, ClientMoves
  PROVE  \A m \in net' : \/ m \in net \/ m = Request
                         \/ m.op \in {"DATA", "ACK", "ERROR"}
<1>1. ASSUME NEW s \in NewSessions, NEW before, before \subseteq {Request},
             StartSession(s, before)
      PROVE  \A m \in net' : \/ m \in net \/ m = Request
                             \/ m.op \in {"DATA", "ACK", "ERROR"}
  BY <1>1, StartOps DEF StartSession, Routed
<1>3. CASE cCannotSend \/ cStartPlain \/ cStartWithOptions
  BY <1>1, <1>3, PlainSessions DEF cCannotSend, cStartWithOptions, Routed
<1>4. CASE (\E m \in net : cArrive(m)) \/ cReceiveFails \/ cExpire
  BY <1>4 DEF cArrive, cReceiveFails, cExpire, Taken
<1>5. CASE ClientHandler
  <2>1. CASE cOackAccepted \/ cAnsweredPlainly
    <3>1. (\E s \in NewSessions : StartSession(s, {})) \/ net' = net
      BY <2>1, AnsweredSessions DEF TypeOK
    <3> QED
      BY <1>1, <3>1
  <2> QED
    BY <1>5, <2>1, ErrorFields
       DEF ClientHandler, cOackTimeout, cOackMisfit, cOackThrows, cOackRefused,
           cNotAnswered, Routed
<1>6. CASE (\E m \in net : cSessionHears(m)) \/ cSessionRepeats \/ cSessionEnds
  BY <1>6, ClientSessionSteps, StepOps DEF ClientTakes
<1> QED
  BY <1>3, <1>4, <1>5, <1>6 DEF ClientMoves

\* What waits to be handled was in flight, or stands for no datagram.
LEMMA WaitingComes ==
  ASSUME TypeOK, ClientMoves
  PROVE  \A m \in Waiting(oackWait') : m \in Waiting(oackWait) \/ m \in net \/ m = NoMsg
<1>t. oackWait \in WaitType
  BY DEF TypeOK, ClientTypeOK
<1>1. CASE cCannotSend \/ cStartPlain \/ cStartWithOptions
  <2>1. CASE oackWait' = oackWait
    BY <2>1
  <2>2. CASE cStartWithOptions
    <3>1. Waiting(oackWait') = {}
      BY <2>2 DEF cStartWithOptions, Waiting, NoWait
    <3> QED
      BY <3>1
  <2> QED
    BY <1>1, <2>1, <2>2 DEF cCannotSend, cStartPlain
<1>2. CASE (\E m \in net : cArrive(m)) \/ cReceiveFails \/ cExpire \/ cOackTimeout
  BY <1>t, <1>2, WaitingKeeps
<1>3. CASE \/ cOackAccepted \/ cOackMisfit \/ cOackThrows \/ cOackRefused
           \/ cAnsweredPlainly \/ cNotAnswered
  <2>1. /\ oackWait.handlers # << >>
        /\ oackWait' = [oackWait EXCEPT !.armed = FALSE, !.handlers = Tail(@)]
    BY <1>3 DEF cOackAccepted, cOackMisfit, cOackThrows, cOackRefused, cAnsweredPlainly,
                cNotAnswered, Answered, Waits
  <2> QED
    BY <1>t, <2>1, WaitingParts
<1>4. CASE (\E m \in net : cSessionHears(m)) \/ cSessionRepeats \/ cSessionEnds
  BY <1>4, ClientSessionSteps DEF ClientTakes, cSessionBecomes
<1> QED
  BY <1>1, <1>2, <1>3, <1>4 DEF ClientMoves, ClientHandler

\* What the server sends: of a size speaks only the OACK of a request.
LEMMA ServerSendsSize ==
  ASSUME TypeOK, ServerMoves, NEW a \in net'
  PROVE  \/ a \in net \/ a.op \in {"DATA", "ACK", "ERROR"}
         \/ \E m \in net, p \in ServerPorts :
              /\ m.op \in {"RRQ", "WRQ"}
              /\ a = OptionACKMessage(p, m.src,
                       getOptionsAsMap(Announced(m.op, setOptionsFromMap(m.options))))
<1>1. ASSUME NEW m, NEW s \in NewSessions, NEW before, StartsSession(m, s, before)
      PROVE  a \in net \/ a \in before \/ a.op \in {"DATA", "ACK", "ERROR"}
  BY <1>1, StartOps, ErrorFields DEF StartsSession, Routed, Taken, UndecodedErrors, sendErrorMsg
<1>d. net \subseteq Datagram /\ NoOptions \in OptionMaps /\ {0, 1} \subseteq 0 .. 1
  BY OptionTypes DEF TypeOK
<1>2. CASE \E m \in net, p \in ServerPorts :
             HandlePlainRequest(m, p) \/ HandleRefusedRequest(m, p)
  BY <1>1, <1>2, <1>d, SessionForType, ErrorFields
     DEF HandlePlainRequest, HandleRefusedRequest, sendErrorMsg
<1>3. CASE \E m \in net, p \in ServerPorts : HandleRequestWithOptions(m, p)
  <2>1. PICK m \in net, p \in ServerPorts : HandleRequestWithOptions(m, p)
    BY <1>3
  <2> DEFINE oack == OptionACKMessage(p, m.src,
                       getOptionsAsMap(Announced(m.op, setOptionsFromMap(m.options))))
  <2>2. m.op \in {"RRQ", "WRQ"} /\ \E s \in NewSessions : StartsSession(m, s, {oack})
    <3>1. m.options \in OptionMaps
      BY <1>d DEF Datagram
    <3>2. setOptionsFromMap(m.options) \in OptionMaps
      BY <2>1, <3>1, AcceptedValues DEF HandleRequestWithOptions
    <3>3. SessionFor(m, p, 0, setOptionsFromMap(m.options)) \in NewSessions
      BY <1>d, <3>2, SessionForType
    <3> QED
      BY <2>1, <3>3 DEF HandleRequestWithOptions, Comes
  <2> HIDE DEF oack
  <2>3. a \in net \/ a = oack \/ a.op \in {"DATA", "ACK", "ERROR"}
    BY <1>1, <2>2
  <2> QED
    BY <2>2, <2>3 DEF oack
<1>4. CASE \/ \E m \in net : \/ HandleThrowingRequest(m) \/ HandleNoRequest(m)
                             \/ HandleFailingSend(m)
           \/ HandleReceiveError
  <2>1. CASE \E m \in net : HandleThrowingRequest(m) \/ HandleNoRequest(m)
    <3>1. PICK m \in net : \E left \in Taken(m),
                             sent \in {UndecodedErrors(m), {sendErrorMsg(m, ERR_ILLEGAL_OP)}} :
                             net' = left \cup Routed(sent)
      BY <2>1 DEF HandleThrowingRequest, HandleNoRequest
    <3>2. \A x \in UndecodedErrors(m) \cup {sendErrorMsg(m, ERR_ILLEGAL_OP)} : x.op = "ERROR"
      BY ErrorFields DEF UndecodedErrors, sendErrorMsg
    <3> QED
      BY <3>1, <3>2 DEF Routed, Taken
  <2>2. CASE \E m \in net : HandleFailingSend(m)
    BY <2>2 DEF HandleFailingSend, Taken
  <2> QED
    BY <1>4, <2>1, <2>2 DEF HandleReceiveError
<1>5. CASE \/ \E m \in net, p \in ServerPorts : SessionHears(p, m)
           \/ \E p \in ServerPorts : SessionRepeats(p) \/ SessionEnds(p)
  BY <1>5, ServerSessionSteps, StepOps DEF ServerTakes
<1>6. CASE \E p \in ServerPorts : SessionThrows(p)
  BY <1>6 DEF SessionThrows
<1> QED
  BY <1>2, <1>3, <1>4, <1>5, <1>6 DEF ServerMoves

LEMMA SizesStep ==
  ASSUME TypeOK, FitInv, \A m \in net \cup Waiting(oackWait) : SizeTrue(m), [Next]_vars
  PROVE  \A m \in net' \cup Waiting(oackWait') : SizeTrue(m)'
<1>j. job' = job
  BY StepOfOneProgram DEF vars
<1>1. ASSUME ClientMoves, NEW m \in net' \cup Waiting(oackWait')
      PROVE  SizeTrue(m)
  <2>1. \/ m \in net \cup Waiting(oackWait) \/ m = Request
        \/ m.op \in {"DATA", "ACK", "ERROR"}
    BY <1>1, ClientSendsNoSize, WaitingComes, ErrorFields DEF NoMsg
  <2> QED
    BY <2>1, RequestSizeTrue, OthersTrue DEF TypeOK
<1>2. ASSUME ServerMoves, NEW m \in net' PROVE SizeTrue(m)
  <2>1. \/ m \in net \/ m.op \in {"DATA", "ACK", "ERROR"}
        \/ \E r \in net, p \in ServerPorts :
             /\ r.op \in {"RRQ", "WRQ"}
             /\ m = OptionACKMessage(p, r.src,
                      getOptionsAsMap(Announced(r.op, setOptionsFromMap(r.options))))
    BY <1>2, ServerSendsSize
  <2>2. \A r \in net : r \in Datagram /\ RequestTrue(r, job)
    BY DEF TypeOK, FitInv, DatagramTrue
  <2> QED
    BY <2>1, <2>2, OackSizeTrue, OthersTrue
<1>3. \A m \in net' \cup Waiting(oackWait') : SizeTrue(m)
  BY <1>1, <1>2, StepOfOneProgram DEF vars, clientVars
<1> QED
  BY <1>j, <1>3, SizesStayTrue

(***************************************************************************)
(* The wait                                                                *)
(***************************************************************************)
LEMMA AnswersQueue ==
  ASSUME NEW H, NEW q \in Seq(H)
  PROVE  /\ \A h \in H : /\ Append(q, h) # << >>
                         /\ h.kind # "timeout" => ~OnlyTimeouts(Append(q, h))
                         /\ ~OnlyTimeouts(q) => ~OnlyTimeouts(Append(q, h))
         /\ q # << >> /\ Head(q).kind = "timeout" =>
              (~OnlyTimeouts(q) => ~OnlyTimeouts(Tail(q)))
<1>1. ASSUME NEW h \in H
      PROVE  /\ Append(q, h) # << >>
             /\ h.kind # "timeout" => ~OnlyTimeouts(Append(q, h))
             /\ ~OnlyTimeouts(q) => ~OnlyTimeouts(Append(q, h))
  <2>1. /\ DOMAIN Append(q, h) = 1 .. Len(q) + 1 /\ DOMAIN q = 1 .. Len(q) /\ Len(q) \in Nat
        /\ Append(q, h)[Len(q) + 1] = h
        /\ \A i \in 1 .. Len(q) : Append(q, h)[i] = q[i]
        /\ Append(q, h) # << >>
    OBVIOUS
  <2> QED
    BY <2>1 DEF OnlyTimeouts
<1>2. ASSUME q # << >>, Head(q).kind = "timeout", ~OnlyTimeouts(q)
      PROVE  ~OnlyTimeouts(Tail(q))
  <2>1. /\ DOMAIN Tail(q) = 1 .. Len(q) - 1 /\ DOMAIN q = 1 .. Len(q) /\ Len(q) \in Nat \ {0}
        /\ Head(q) = q[1]
        /\ \A i \in 1 .. Len(q) - 1 : Tail(q)[i] = q[i + 1]
    BY <1>2
  <2>2. PICK i \in 1 .. Len(q) : q[i].kind # "timeout"
    BY <1>2, <2>1 DEF OnlyTimeouts
  <2>3. i # 1 /\ i - 1 \in 1 .. Len(q) - 1 /\ Tail(q)[i - 1] = q[i]
    BY <1>2, <2>1, <2>2
  <2> QED
    BY <2>1, <2>2, <2>3 DEF OnlyTimeouts
<1> QED
  BY <1>1, <1>2

\* A handler that is queued by the receive is the answer.
LEMMA CompletedComes ==
  ASSUME NEW wait \in WaitType, NEW k \in Kinds, NEW m \in Datagram
  PROVE  /\ k # "timeout" => AnswerComes(Completed(wait, k, m))
         /\ AnswerComes(wait) => AnswerComes(Completed([wait EXCEPT !.armed = FALSE], k, m))
<1> DEFINE H == [kind : Kinds, msg : Datagram]
           h == [kind |-> k, msg |-> m]
           expired == [wait EXCEPT !.armed = FALSE]
<1>1. wait.handlers \in Seq(H) /\ h \in H /\ h.kind = k
  BY DEF WaitType, Kinds
<1>2. /\ Completed(wait, k, m).handlers = Append(wait.handlers, h)
      /\ Completed(expired, k, m).handlers = Append(wait.handlers, h)
      /\ Completed(expired, k, m).receiving = wait.receiving
  BY DEF Completed, WaitType
<1> HIDE DEF H, h, expired
<1>3. k # "timeout" => AnswerComes(Completed(wait, k, m))
  BY <1>1, <1>2, AnswersQueue DEF AnswerComes
<1>4. AnswerComes(wait) => AnswerComes(Completed(expired, k, m))
  BY <1>1, <1>2, AnswersQueue DEF AnswerComes
<1> QED
  BY <1>3, <1>4 DEF expired

LEMMA WaitOfEnv ==
  ASSUME TypeOK, ClientTruth, WaitGoesOn, job' = job,
         (\E m \in net : cArrive(m)) \/ cReceiveFails \/ cExpire
  PROVE  WaitGoesOn'
<1>t. oackWait \in WaitType /\ net \subseteq Datagram
  BY DEF TypeOK, ClientTypeOK
<1>c. /\ loop = "looping" /\ loop' = loop /\ cSession' = cSession /\ cSession = NoSession
      /\ Misfits' = Misfits
  BY DEF ClientTruth, WaitOver, cArrive, cReceiveFails, cExpire, Misfits, Suits
<1> DEFINE received == [oackWait EXCEPT !.receiving = FALSE]
<1>r. received \in WaitType
  BY <1>t, WaitTypes
<1> HIDE DEF received
<1>1. AnswerComes(oackWait) => AnswerComes(oackWait')
  <2>1. CASE \E m \in net : cArrive(m)
    <3>1. \E m \in Datagram : oackWait' = Completed(received, "datagram", m)
      BY <1>t, <2>1 DEF cArrive, received
    <3> QED
      BY <1>r, <3>1, CompletedComes DEF Kinds
  <2>2. CASE cReceiveFails
    <3>1. oackWait' = Completed(received, "failed", NoMsg)
      BY <2>2 DEF cReceiveFails, received
    <3> QED
      BY <1>r, <3>1, NoMsgType, CompletedComes DEF Kinds
  <2>3. CASE cExpire
    <3>1. oackWait' = Completed([oackWait EXCEPT !.armed = FALSE], "timeout", NoMsg)
      BY <2>3 DEF cExpire
    <3> QED
      BY <1>t, <3>1, NoMsgType, CompletedComes DEF Kinds
  <2> QED
    BY <2>1, <2>2, <2>3
<1> QED
  BY <1>c, <1>1 DEF WaitGoesOn

\* The timer's handler cancels the receive, or leaves its handler queued.
LEMMA WaitOfTimeout ==
  ASSUME TypeOK, WaitGoesOn, job' = job, cOackTimeout
  PROVE  WaitGoesOn'
<1> DEFINE H == [kind : Kinds, msg : Datagram]
           wait == [oackWait EXCEPT !.handlers = Tail(@)]
<1>t. /\ oackWait \in WaitType /\ oackWait.handlers \in Seq(H) /\ oackWait.handlers # << >>
      /\ loop = "looping" /\ Head(oackWait.handlers).kind = "timeout"
  BY DEF TypeOK, ClientTypeOK, WaitType, Kinds, cOackTimeout, Waits
<1>w. /\ wait \in WaitType /\ wait.handlers = Tail(oackWait.handlers)
      /\ wait.receiving = oackWait.receiving
      /\ [wait EXCEPT !.receiving = FALSE] \in WaitType
  BY <1>t, WaitTypes DEF WaitType
<1>1. CASE cSession # NoSession
  BY <1>1 DEF cOackTimeout, Throws, WaitGoesOn
<1>2. CASE cSession = NoSession
  <2>1. /\ UNCHANGED <<cSession, loop>>
        /\ oackWait' = IF wait.receiving
                       THEN Completed([wait EXCEPT !.receiving = FALSE], "aborted", NoMsg)
                       ELSE wait
    BY <1>2 DEF cOackTimeout
  <2>2. Misfits' = Misfits
    BY DEF Misfits, Suits
  <2> HIDE DEF wait
  <2>3. AnswerComes(oackWait) => AnswerComes(oackWait')
    <3>1. CASE wait.receiving
      BY <1>w, <2>1, <3>1, NoMsgType, CompletedComes DEF Kinds
    <3>2. CASE ~wait.receiving
      BY <1>t, <1>w, <2>1, <3>2, AnswersQueue DEF AnswerComes
    <3> QED
      BY <3>1, <3>2
  <2> QED
    BY <1>t, <1>2, <2>1, <2>2, <2>3 DEF WaitGoesOn
<1> QED
  BY <1>1, <1>2

\* A session that has been started runs, unless it has called back already.
LEMMA StartedRuns ==
  ASSUME NEW s \in NewSessions, NEW before, StartSession(s, before)
  PROVE  WaitGoesOn'
<1>1. PICK step \in Starts(s) : cSession' = step.session /\ RunsFromStart(step)
  BY DEF StartSession
<1>2. step.session # NoSession
  BY StartsType, NoSessionIsNone DEF StepsOf, OutcomeType, NewSessions
<1>3. step.session.running \/ loop' = "done"
  BY <1>1 DEF RunsFromStart, OnDone
<1> QED
  BY <1>1, <1>2, <1>3 DEF WaitGoesOn

LEMMA WaitOfAnswer ==
  ASSUME TypeOK, ClientTruth, FitInv, SpinInv, job' = job,
         \/ cOackAccepted \/ cOackMisfit \/ cOackThrows \/ cOackRefused
         \/ cAnsweredPlainly \/ cNotAnswered
  PROVE  WaitGoesOn'
<1>1. CASE cOackAccepted \/ cAnsweredPlainly
  <2>1. (\E s \in NewSessions : StartSession(s, {})) \/ Throws("terminated")
    BY <1>1, AnsweredSessions DEF TypeOK
  <2> QED
    BY <2>1, StartedRuns DEF Throws, WaitGoesOn
<1>2. CASE cOackMisfit
  <2>1. Answered({"OACK"}) /\ SetOptionsOk(Received.options) /\ ~Fits
        /\ UNCHANGED <<cSession, loop>>
    BY <1>2 DEF cOackMisfit
  <2>2. cSession = NoSession /\ Received.dst = Client /\ Received.op = "OACK"
    BY <2>1, ReceivedTrue DEF Answered
  <2>3. Received \in Waiting(oackWait)
    BY <2>1, WaitingParts DEF TypeOK, ClientTypeOK, Answered, Waits, Received
  <2>4. loop = "looping" /\ ~isDefault(job.options)
    BY <2>1, <2>2 DEF Answered, Waits, SpinInv, WaitGoesOn
  <2>5. Misfits
    BY <2>1, <2>2, <2>3, <2>4 DEF SpinInv, SizeTrue, Fits, OackValues
  <2>6. Misfits'
    BY <2>5 DEF Misfits, Suits
  <2> QED
    BY <2>1, <2>2, <2>4, <2>6 DEF WaitGoesOn
<1>3. CASE cOackThrows \/ cOackRefused \/ cNotAnswered
  BY <1>3 DEF cOackThrows, cOackRefused, cNotAnswered, Throws, OnDone, WaitGoesOn
<1> QED
  BY <1>1, <1>2, <1>3

LEMMA WaitOfStart ==
  ASSUME TypeOK, ClientTruth, job' = job, cCannotSend \/ cStartPlain \/ cStartWithOptions
  PROVE  WaitGoesOn'
<1>1. CASE cCannotSend
  BY <1>1 DEF cCannotSend, Throws, WaitGoesOn
<1>2. CASE cStartPlain
  BY <1>2, PlainSessions, StartedRuns
<1>3. CASE cStartWithOptions
  <2>1. /\ cSession' = NoSession /\ ~isDefault(job.options)
        /\ oackWait' = [receiving |-> TRUE, armed |-> TRUE, handlers |-> << >>]
    BY <1>3 DEF cStartWithOptions, NoWait, ClientTruth
  <2>2. AnswerComes(oackWait')
    BY <2>1 DEF AnswerComes
  <2> QED
    BY <2>1, <2>2 DEF WaitGoesOn
<1> QED
  BY <1>1, <1>2, <1>3

LEMMA WaitOfSession ==
  ASSUME TypeOK, WaitGoesOn, job' = job,
         (\E m \in net : cSessionHears(m)) \/ cSessionRepeats \/ cSessionEnds
  PROVE  WaitGoesOn'
<1>1. PICK step \in StepsOf(cSession) : ClientTakes(step)
  BY ClientSessionSteps
<1>2. /\ cSession' = step.session /\ cSession' # NoSession
      /\ step.session.running <=> step.result \in {NoResult, Thrown}
      /\ step.result \in Results \cup {NoResult, Thrown}
  BY <1>1, NoSessionIsNone, ResultsApart DEF ClientTakes, cSessionBecomes, StepsOf, OutcomeType
<1>3. step.session.running \/ loop' = "done"
  BY <1>1, <1>2, ResultsApart DEF ClientTakes, cSessionBecomes, OnDone
<1> QED
  BY <1>2, <1>3 DEF WaitGoesOn

(***************************************************************************)
(* The invariant, and what follows from it                                 *)
(***************************************************************************)
LEMMA SpinInit == Init => SpinInv
<1> SUFFICES ASSUME Init PROVE SpinInv
  OBVIOUS
<1>1. ASSUME NEW m \in net PROVE SizeTrue(m)
  <2>1. m \in OtherDatagrams /\ m.src # Client
    BY PortsApart, RequestAssumption DEF Init, RequestAssumption
  <2> QED
    BY <2>1 DEF SizeTrue, Misfits
<1>2. Waiting(oackWait) = {} /\ WaitGoesOn
  BY DEF Init, ClientInit, NoWait, Waiting, WaitGoesOn
<1> QED
  BY <1>1, <1>2 DEF SpinInv

LEMMA SpinStep == TypeOK /\ ClientTruth /\ FitInv /\ SpinInv /\ [Next]_vars => SpinInv'
<1> SUFFICES ASSUME TypeOK, ClientTruth, FitInv, SpinInv, [Next]_vars PROVE SpinInv'
  OBVIOUS
<1>1. \A m \in net' \cup Waiting(oackWait') : SizeTrue(m)'
  BY SizesStep DEF SpinInv
<1>2. job' = job
  BY StepOfOneProgram DEF vars
<1>3. WaitGoesOn'
  <2>1. CASE ClientMoves
    BY <1>2, <2>1, WaitOfStart, WaitOfEnv, WaitOfTimeout, WaitOfAnswer, WaitOfSession
       DEF ClientMoves, ClientHandler, SpinInv
  <2>2. CASE UNCHANGED clientVars
    BY <1>2, <2>2 DEF clientVars, SpinInv, WaitGoesOn, AnswerComes, Misfits, Suits
  <2> QED
    BY <2>1, <2>2, StepOfOneProgram DEF vars
<1> QED
  BY <1>1, <1>3 DEF SpinInv

\* However the answer and the timer of the wait race, whatever is lost and
\* whatever others send, the client is never left without a session, a handler
\* that is queued and a timer that runs, but for the size of a file that does
\* not fit (the empty branches in TftpClient::start).
THEOREM NeverLeftSpinning == Spec => []NeverSpins
<1>1. SpinInv => NeverSpins
  BY DEF SpinInv, WaitGoesOn, AnswerComes, OnlyTimeouts, NeverSpins, Idle
<1> QED
  BY <1>1, InitType, StepType, ClientTruthInit, ClientTruthStep, FitInit, FitStep,
     SpinInit, SpinStep, PTL DEF Spec

(***************************************************************************)
(* The negotiation implements Agreement                                    *)
(***************************************************************************)
EndOf(c) == [role |-> c.role, values |-> ValuesOf(c), partner |-> c.peer]

OfferOf(s) ==
  IF s # NoSession /\ s.peer = Client THEN [role |-> s.role, values |-> ValuesOf(s)]
  ELSE NoSession

LEMMA EndsUnfold ==
  /\ Own = IF cSession = NoSession THEN NoSession ELSE EndOf(cSession)
  /\ Offered = [p \in ServerPorts |-> OfferOf(sessions[p])]
  /\ AG!NoEnd = NoSession
  /\ \A c \in Session : /\ EndOf(c) # NoSession
                        /\ EndOf(c).role = c.role /\ EndOf(c).partner = c.peer
                        /\ EndOf(c).values = ValuesOf(c)
<1>1. ASSUME NEW c \in Session
      PROVE  /\ EndOf(c).role = c.role /\ EndOf(c).partner = c.peer
             /\ EndOf(c).values = ValuesOf(c)
             /\ EndOf(c).role # "none" /\ NoSession.role = "none"
  BY DEF EndOf, Session, NoSession
<1> QED
  BY <1>1, Zenon DEF Own, EndOf, Offered, OfferOf, AG!NoEnd, NoSession

\* An end that fits the server's agrees with it.
LEMMA EndAgrees ==
  ASSUME TypeOK, NEW c \in Session, ClientEndTrue(c, job, sessions)
  PROVE  AG!Agrees(EndOf(c))
<1> SUFFICES ASSUME c.peer \in ServerPorts
             PROVE  /\ Offered[c.peer] # AG!NoEnd /\ Offered[c.peer].role # c.role
                    /\ \/ ValuesOf(c) = Offered[c.peer].values
                       \/ c.role = "sender" /\ ValuesOf(c) = ValuesOf([options |-> NoOptions])
  BY EndsUnfold DEF AG!Agrees
<1> DEFINE t == sessions[c.peer]
<1>1. EndsFit(c, t)
  BY NoSessionIsNone DEF ClientEndTrue
<1>2. t \in Session
  BY <1>1 DEF EndsFit, TypeOK, ServerTypeOK
<1>3. Offered[c.peer] = [role |-> t.role, values |-> ValuesOf(t)]
  BY <1>1, EndsUnfold DEF OfferOf, EndsFit
<1> HIDE DEF t
<1>4. t.role # c.role /\ t.role # "none"
  BY <1>1, <1>2 DEF EndsFit, TransferModes, Session
<1>5. \/ ValuesOf(c) = ValuesOf(t)
      \/ c.role = "sender" /\ ValuesOf(c) = ValuesOf([options |-> NoOptions])
  BY <1>1 DEF EndsFit, SameValues, ValuesOf
<1>6. Offered[c.peer].role = t.role /\ Offered[c.peer].values = ValuesOf(t)
  BY <1>3
<1>7. AG!NoEnd.role = "none"
  BY DEF AG!NoEnd
<1> QED
  BY <1>4, <1>5, <1>6, <1>7

(***************************************************************************)
(* The server's ends                                                       *)
(***************************************************************************)

\* A session is made at a free port, and keeps what makes it an end.
LEMMA ServerKeepsEnds ==
  ASSUME TypeOK, FitInv, ServerMoves
  PROVE  \/ UNCHANGED sessions
         \/ \E p \in ServerPorts, t \in Session :
              /\ sessions' = [sessions EXCEPT ![p] = t]
              /\ FreePort(p) \/ SameEnd(sessions[p], t)
<1>s. \A p \in ServerPorts : sessions[p] # NoSession =>
        sessions[p] \in Session /\ sessions[p].peer # NoEndpoint
  BY PortsApart DEF TypeOK, ServerTypeOK, FitInv, ServerEndTrue
<1>1. CASE \E m \in net, p \in ServerPorts :
             \/ HandlePlainRequest(m, p) \/ HandleRequestWithOptions(m, p)
             \/ HandleRefusedRequest(m, p)
  <2>1. PICK m \in net, p \in ServerPorts :
          \/ HandlePlainRequest(m, p) \/ HandleRequestWithOptions(m, p)
          \/ HandleRefusedRequest(m, p)
    BY <1>1
  <2>2. FreePort(p) /\ \E s \in NewSessions : \E before :
                         s.port = p /\ StartsSession(m, s, before)
    BY <2>1, RequestServed
  <2>3. PICK s \in NewSessions : \E step \in Starts(s) :
                                  sessions' = [sessions EXCEPT ![p] = step.session]
    BY <2>2 DEF StartsSession
  <2>4. \A step \in Starts(s) : step.session \in Session
    BY StartsType DEF StepsOf, OutcomeType, NewSessions
  <2> QED
    BY <2>2, <2>3, <2>4
<1>2. CASE \/ \E m \in net, p \in ServerPorts : SessionHears(p, m)
           \/ \E p \in ServerPorts : SessionRepeats(p) \/ SessionEnds(p)
  <2>1. PICK p \in ServerPorts : \/ \E m \in net : SessionHears(p, m)
                                 \/ SessionRepeats(p) \/ SessionEnds(p)
    BY <1>2
  <2>2. sessions[p] # NoSession /\ \E step \in StepsOf(sessions[p]) : ServerTakes(p, step)
    BY <2>1, ServerSessionSteps
  <2>3. PICK step \in StepsOf(sessions[p]) : ServerTakes(p, step)
    BY <2>2
  <2>4. /\ step.session \in Session /\ step.session # NoSession
        /\ SameSession(sessions[p], step.session)
        /\ sessions' = [sessions EXCEPT ![p] = step.session]
    BY <2>3, NoSessionIsNone DEF StepsOf, OutcomeType, ServerTakes, SessionBecomes
  <2>5. /\ step.session.peer = sessions[p].peer
        /\ sessions[p].count = 1 => step.session.count = 1
    BY <1>s, <2>2, <2>3 DEF ServerTakes, Follows, Stays, Expected, Foreign
  <2>6. SameEnd(sessions[p], step.session)
    BY <2>4, <2>5 DEF SameEnd, SameSession
  <2> QED
    BY <2>4, <2>6
<1>4. CASE UNCHANGED sessions
  BY <1>4
<1> QED
  BY <1>1, <1>2, <1>4
     DEF ServerMoves, HandleThrowingRequest, HandleNoRequest, HandleFailingSend,
         HandleReceiveError, SessionThrows, ServerThrows, serverVars

LEMMA ServerStepAgreed ==
  ASSUME TypeOK, FitInv, ServerMoves, UNCHANGED <<job, clientVars>>
  PROVE  [AG!Next]_(AG!vars)
<1>u. Own' = Own /\ Outcome' = Outcome
  BY DEF clientVars, Own, Outcome
<1>1. CASE UNCHANGED sessions
  BY <1>u, <1>1 DEF AG!vars, Offered
<1>2. ASSUME NEW p \in ServerPorts, NEW t \in Session,
             sessions' = [sessions EXCEPT ![p] = t], FreePort(p) \/ SameEnd(sessions[p], t)
      PROVE  [AG!Next]_(AG!vars)
  <2>1. /\ sessions'[p] = t
        /\ \A q \in ServerPorts \ {p} : sessions'[q] = sessions[q]
    BY <1>2 DEF TypeOK, ServerTypeOK
  <2>2. Offered' = [q \in ServerPorts |-> OfferOf(sessions'[q])]
    BY DEF Offered, OfferOf
  <2>3. Offered = [q \in ServerPorts |-> OfferOf(sessions[q])]
    BY EndsUnfold
  <2>4. Offered' = [Offered EXCEPT ![p] = Offered'[p]] /\ Offered'[p] = OfferOf(t)
    BY <2>1, <2>2, <2>3
  <2>5. CASE OfferOf(t) = OfferOf(sessions[p])
    <3>1. Offered' = Offered
      BY <2>3, <2>4, <2>5
    <3> QED
      BY <1>u, <3>1 DEF AG!vars
  <2>6. CASE FreePort(p) /\ t.peer = Client
    <3>1. Offered[p] = AG!NoEnd
      BY <2>3, <2>6, EndsUnfold DEF FreePort, OfferOf
    <3>2. Offered'[p].role = t.role /\ t.role \in AG!Roles
      BY <2>4, <2>6, NoSessionIsNone DEF OfferOf, Session, AG!Roles
    <3>3. AG!Offer(p)
      BY <1>u, <2>4, <3>1, <3>2 DEF AG!Offer
    <3> QED
      BY <3>3 DEF AG!Next
  <2>7. FreePort(p) /\ t.peer # Client => OfferOf(t) = OfferOf(sessions[p])
    BY DEF FreePort, OfferOf
  <2>8. SameEnd(sessions[p], t) => FreePort(p) \/ OfferOf(t) = OfferOf(sessions[p])
    BY DEF SameEnd, FreePort, OfferOf, ValuesOf
  <2> QED
    BY <1>2, <2>5, <2>6, <2>7, <2>8
<1> QED
  BY <1>1, <1>2, ServerKeepsEnds

(***************************************************************************)
(* The client's end and its outcome                                        *)
(***************************************************************************)
\* What the callback tells, when it is called.
ReportsWell ==
  \/ loop' \in {"looping", "caught", "terminated"}
  \/ /\ loop' = "done"
     /\ IF cSession' = NoSession THEN cResult' = "ERR_OPT_NEGOTIATION"
        ELSE cResult' \in SessionResults

\* The client gets a session once, and it keeps what makes it an end, but for
\* a partner that it did not have.
KeepsEnd(d) ==
  \/ d = cSession
  \/ cSession = NoSession /\ d \in Session
  \/ /\ cSession \in Session /\ d \in Session
     /\ d.role = cSession.role /\ d.options = cSession.options
     /\ d.peer = cSession.peer \/ (cSession.peer = NoEndpoint /\ d.peer # NoEndpoint)

LEMMA StartReports ==
  ASSUME NEW s \in NewSessions, NEW before, StartSession(s, before), cSession = NoSession
  PROVE  ReportsWell /\ KeepsEnd(cSession') /\ loop' # "ready"
<1>1. PICK step \in Starts(s) : cSession' = step.session /\ RunsFromStart(step)
  BY DEF StartSession
<1>2. /\ step.session \in Session /\ step.session # NoSession
      /\ ~step.session.running => step.result \in SessionResults
  BY StartsType, NoSessionIsNone DEF StepsOf, OutcomeType, NewSessions
<1>3. \/ loop' = "looping"
      \/ loop' = "done" /\ cResult' \in SessionResults
  BY <1>1, <1>2 DEF RunsFromStart, OnDone
<1> QED
  BY <1>1, <1>2, <1>3 DEF ReportsWell, KeepsEnd

LEMMA SessionReports ==
  ASSUME TypeOK, FitInv,
         (\E m \in net : cSessionHears(m)) \/ cSessionRepeats \/ cSessionEnds
  PROVE  ReportsWell /\ KeepsEnd(cSession')
<1>s. cSession \in Session /\ loop = "looping"
  BY DEF cSessionHears, cSessionRepeats, cSessionEnds, cSessionRuns, TypeOK, ClientTypeOK
<1>1. PICK step \in StepsOf(cSession) : ClientTakes(step)
  BY ClientSessionSteps
<1> DEFINE c == step.session
<1>2. /\ cSession' = c /\ c \in Session /\ c # NoSession /\ SameSession(cSession, c)
      /\ step.result \in SessionResults \cup {NoResult, Thrown}
  BY <1>1, NoSessionIsNone DEF ClientTakes, cSessionBecomes, StepsOf, OutcomeType
<1>3. \/ loop' = "looping" \/ loop' = "caught"
      \/ loop' = "done" /\ cResult' \in SessionResults
  BY <1>s, <1>1, <1>2, ResultsApart DEF ClientTakes, cSessionBecomes, OnDone
<1>4. \/ c.peer = cSession.peer
      \/ cSession.peer = NoEndpoint /\ c.peer # NoEndpoint
  <2>1. ASSUME NEW m \in net, Expected(cSession, m), c.peer = m.src
        PROVE  c.peer = cSession.peer \/ (cSession.peer = NoEndpoint /\ c.peer # NoEndpoint)
    <3>1. m.src # NoEndpoint
      BY <2>1 DEF Expected, FitInv, DatagramTrue, SourceTrue
    <3> QED
      BY <2>1, <3>1 DEF Expected, Foreign
  <2> QED
    BY <1>1, <2>1 DEF ClientTakes, Follows, Stays
<1> HIDE DEF c
<1>5. KeepsEnd(c)
  BY <1>s, <1>2, <1>4 DEF KeepsEnd, SameSession
<1>6. ReportsWell
  BY <1>2, <1>3 DEF ReportsWell
<1> QED
  BY <1>2, <1>5, <1>6

LEMMA AnswerReports ==
  ASSUME TypeOK, ClientTruth,
         \/ cOackAccepted \/ cOackMisfit \/ cOackThrows \/ cOackRefused
         \/ cAnsweredPlainly \/ cNotAnswered
  PROVE  ReportsWell /\ KeepsEnd(cSession')
<1>c. cSession = NoSession /\ loop = "looping"
  <2>1. \E kinds : /\ Waits(kinds) /\ "timeout" \notin kinds
                   /\ oackWait' = [oackWait EXCEPT !.armed = FALSE, !.handlers = Tail(@)]
    <3>1. "timeout" \notin {"datagram"} /\ "timeout" \notin {"aborted", "failed"}
      OBVIOUS
    <3> QED
      BY <3>1 DEF cOackAccepted, cOackMisfit, cOackThrows, cOackRefused, cAnsweredPlainly,
                  cNotAnswered, Answered
  <2> QED
    BY <2>1, AnswerEndsWait DEF Waits
<1>1. CASE cOackAccepted \/ cAnsweredPlainly
  <2>1. (\E s \in NewSessions : StartSession(s, {})) \/ Throws("terminated")
    BY <1>1, AnsweredSessions DEF TypeOK
  <2> QED
    BY <1>c, <2>1, StartReports DEF Throws, ReportsWell, KeepsEnd
<1>2. CASE cOackMisfit \/ cOackThrows \/ cOackRefused \/ cNotAnswered
  BY <1>c, <1>2 DEF cOackMisfit, cOackThrows, cOackRefused, cNotAnswered, Throws, OnDone,
                    ReportsWell, KeepsEnd
<1> QED
  BY <1>1, <1>2

LEMMA ClientReports ==
  ASSUME TypeOK, ClientTruth, FitInv, ClientMoves
  PROVE  ReportsWell /\ KeepsEnd(cSession') /\ loop \in {"ready", "looping"}
<1>1. CASE cCannotSend \/ cStartPlain \/ cStartWithOptions
  <2>1. loop = "ready" /\ cSession = NoSession
    BY <1>1 DEF ClientTruth, cCannotSend, cStartPlain, cStartWithOptions
  <2>3. cStartPlain => \E s \in NewSessions : StartSession(s, {Request})
    BY PlainSessions
  <2>4. ~cStartPlain => cSession' = cSession /\ loop' \in {"looping", "caught"}
    BY <1>1 DEF cCannotSend, cStartWithOptions, Throws
  <2> QED
    BY <2>1, <2>3, <2>4, StartReports DEF ReportsWell, KeepsEnd
<1>2. CASE (\E m \in net : cArrive(m)) \/ cReceiveFails \/ cExpire \/ cOackTimeout
  BY <1>2 DEF cArrive, cReceiveFails, cExpire, cOackTimeout, Waits, Throws, ReportsWell, KeepsEnd
<1>3. CASE \/ cOackAccepted \/ cOackMisfit \/ cOackThrows \/ cOackRefused
           \/ cAnsweredPlainly \/ cNotAnswered
  <2>1. loop = "looping"
    BY <1>3 DEF cOackAccepted, cOackMisfit, cOackThrows, cOackRefused, cAnsweredPlainly,
                cNotAnswered, Answered, Waits
  <2> QED
    BY <1>3, <2>1, AnswerReports
<1>4. CASE (\E m \in net : cSessionHears(m)) \/ cSessionRepeats \/ cSessionEnds
  <2>1. loop = "looping"
    BY <1>4 DEF cSessionHears, cSessionRepeats, cSessionEnds, cSessionRuns
  <2> QED
    BY <1>4, <2>1, SessionReports
<1> QED
  BY <1>1, <1>2, <1>3, <1>4 DEF ClientMoves, ClientHandler

LEMMA ClientStepAgreed ==
  ASSUME TypeOK, ClientTruth, FitInv, FitInv', ClientMoves, UNCHANGED <<job, serverVars>>
  PROVE  [AG!Next]_(AG!vars)
<1>u. Offered' = Offered
  BY DEF serverVars, Offered
<1>c. ReportsWell /\ KeepsEnd(cSession') /\ loop \in {"ready", "looping"}
  BY ClientReports
<1>e. /\ Own = IF cSession = NoSession THEN NoSession ELSE EndOf(cSession)
      /\ Own' = IF cSession' = NoSession THEN NoSession ELSE EndOf(cSession')
  BY DEF Own, EndOf
<1>a. cSession' \in Session => AG!Agrees(EndOf(cSession'))
  BY EndAgrees DEF FitInv, serverVars
<1>1. AG!Begin \/ AG!Meet \/ Own' = Own
  <2>1. CASE cSession' = cSession
    BY <1>e, <2>1
  <2>2. CASE cSession = NoSession /\ cSession' \in Session
    <3>1. Own = AG!NoEnd /\ Own' = EndOf(cSession') /\ Own'.role = cSession'.role
      BY <1>e, <2>2, EndsUnfold, NoSessionIsNone
    <3>2. cSession'.role \in AG!Roles
      BY <2>2 DEF Session, AG!Roles
    <3> QED
      BY <1>a, <2>2, <3>1, <3>2 DEF AG!Begin
  <2>3. CASE /\ cSession \in Session /\ cSession' \in Session
             /\ cSession'.role = cSession.role /\ cSession'.options = cSession.options
             /\ \/ cSession'.peer = cSession.peer
                \/ cSession.peer = NoEndpoint /\ cSession'.peer # NoEndpoint
    <3>1. Own = EndOf(cSession) /\ Own' = EndOf(cSession') /\ Own # AG!NoEnd
      BY <1>e, <2>3, EndsUnfold, NoSessionIsNone
    <3>2. EndOf(cSession') = [EndOf(cSession) EXCEPT !.partner = cSession'.peer]
      BY <2>3 DEF EndOf, ValuesOf
    <3>3. Own.partner = cSession.peer /\ Own'.partner = cSession'.peer
      BY <2>3, <3>1, EndsUnfold
    <3>4. CASE cSession'.peer = cSession.peer
      BY <2>3, <3>1, <3>4 DEF EndOf, ValuesOf
    <3>5. CASE cSession.peer = NoEndpoint /\ cSession'.peer # NoEndpoint
      BY <1>a, <2>3, <3>1, <3>2, <3>3, <3>5 DEF AG!Meet
    <3> QED
      BY <2>3, <3>4, <3>5
  <2> QED
    BY <1>c, <2>1, <2>2, <2>3 DEF KeepsEnd
<1>2. Outcome = "open"
  BY <1>c DEF Outcome
<1>3. AG!Settle \/ Outcome' = Outcome
  <2>1. CASE loop' = "looping"
    BY <1>2, <2>1 DEF Outcome
  <2>2. CASE loop' \in {"caught", "terminated"}
    <3>1. Outcome' = "thrown"
      BY <2>2 DEF Outcome
    <3> QED
      BY <3>1 DEF AG!Settle
  <2>3. CASE /\ loop' = "done" /\ cSession' = NoSession
             /\ cResult' = "ERR_OPT_NEGOTIATION"
    <3>1. Outcome' = "refused" /\ Own' = AG!NoEnd
      BY <1>e, <2>3, EndsUnfold DEF Outcome
    <3> QED
      BY <3>1 DEF AG!Settle
  <2>4. CASE /\ loop' = "done" /\ cSession' # NoSession
             /\ cResult' \in SessionResults
    <3>1. Outcome' \in {"success", "failed"}
      BY <2>4 DEF Outcome, SessionResults, Results
    <3>2. cSession' \in Session
      BY <1>c, <2>4 DEF KeepsEnd, TypeOK, ClientTypeOK
    <3>3. Own' # AG!NoEnd
      BY <1>e, <2>4, <3>2, EndsUnfold
    <3> QED
      BY <3>1, <3>3 DEF AG!Settle
  <2> QED
    BY <1>c, <2>1, <2>2, <2>3, <2>4 DEF ReportsWell
<1> QED
  BY <1>u, <1>1, <1>2, <1>3 DEF AG!Next, AG!ClientMoves

LEMMA BeginsAgreed == Init => AG!Init
<1> SUFFICES ASSUME Init PROVE AG!Init
  OBVIOUS
<1>1. Offered = [p \in ServerPorts |-> AG!NoEnd]
  BY EndsUnfold DEF Init, ServerInit, OfferOf
<1>2. Own = AG!NoEnd /\ Outcome = "open"
  BY EndsUnfold DEF Init, ClientInit, Outcome
<1> QED
  BY <1>1, <1>2 DEF AG!Init

LEMMA StepsAgreed ==
  TypeOK /\ ClientTruth /\ FitInv /\ [Next]_vars => [AG!Next]_(AG!vars)
<1> SUFFICES ASSUME TypeOK, ClientTruth, FitInv, [Next]_vars PROVE [AG!Next]_(AG!vars)
  OBVIOUS
<1>1. CASE UNCHANGED vars
  BY <1>1 DEF vars, clientVars, serverVars, AG!vars, Offered, Own, Outcome
<1>2. FitInv'
  BY FitStep
<1> QED
  BY <1>1, <1>2, ClientStepAgreed, ServerStepAgreed, StepOfOneProgram

\* Whatever is lost, repeated, reordered or sent by others: neither program
\* makes a session anew or changes what it has told the other of it, the two
\* that find each other agree, then and ever after, and the callback is called
\* once, with a code that tells whether the client had a session.
THEOREM AgreementReached == Spec => ImplementsAgreement
  BY InitType, StepType, ClientTruthInit, ClientTruthStep, FitInit, FitStep,
     BeginsAgreed, StepsAgreed, PTL DEF Spec, ImplementsAgreement, AG!Spec
===============================================================================
