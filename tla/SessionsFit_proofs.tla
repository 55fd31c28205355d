---------------------------- MODULE SessionsFit_proofs -------------------------
(***************************************************************************)
(* What is proved of Negotiation: the two sessions that find each other    *)
(* fit together, and a file has one writer.                                *)
(***************************************************************************)
EXTENDS Negotiation_proofs

(***************************************************************************)
(* The invariant: what a datagram in flight, or with a handler of the      *)
(* client, says of the sessions, and what each session says of the other.  *)
(* j, c and ss stand for job, cSession and sessions.                       *)
(***************************************************************************)
TalksTo(c, p) == c # NoSession /\ c.peer = p

\* A request in the client's name is the one the client has made.
RequestTrue(m, j) ==
  m.op \in {"RRQ", "WRQ"} =>
    /\ m.src \in {Client, Elsewhere}
    /\ m.src = Client => m.op = j.op /\ (NoOptVals(m) <=> isDefault(j.options))

\* The client sends blocks and acknowledgements only to its partner.
AnswerTrue(m, c) ==
  m.src = Client /\ m.dst \in ServerPorts /\ m.op \in {"DATA", "ACK"} => TalksTo(c, m.dst)

\* What comes to the client from a port of the server comes from a session
\* there, and an OACK has the values of that session.
SessionTrue(m, ss) ==
  m.src \in ServerPorts /\ m.dst = Client /\ m.op \in {"OACK", "DATA", "ACK"} =>
    /\ ss[m.src] # NoSession
    /\ ss[m.src].peer = Client
    /\ m.op = "OACK" => /\ ss[m.src].start = 0
                        /\ SameValues(setOptionsFromMap(m.options), ss[m.src].options)
    /\ m.op = "DATA" => ss[m.src].role = "sender" /\ ss[m.src].count = 1
    /\ m.op = "ACK"  => ss[m.src].role = "receiver"

\* A datagram has come from somewhere.
SourceTrue(m) == m.op \notin {"ERROR", "RUNT"} => m.src # NoEndpoint

DatagramTrue(m, j, c, ss) ==
  RequestTrue(m, j) /\ AnswerTrue(m, c) /\ SessionTrue(m, ss) /\ SourceTrue(m)

\* A session of the server that serves the client: how it was started, and
\* that it has got a block, or the ACK of the OACK, only from its partner.
ServerEndTrue(s, p, j, c) ==
  s # NoSession =>
    /\ s.port = p /\ s.peer \in {Client, Elsewhere}
    /\ s.peer = Client =>
         /\ s.role = IF j.op = "RRQ" THEN "sender" ELSE "receiver"
         /\ s.role = "receiver" => s.start = 0
         /\ s.role = "sender" /\ s.start = 1 => s.options = NoOptions
         /\ s.start = 0 /\ s.count = 1 => TalksTo(c, p)
         /\ isDefault(j.options) => /\ s.options = NoOptions
                                    /\ s.role = "sender" => s.start = 1

\* c and t fit together (SessionsFitTransfer).
EndsFit(c, t) ==
  /\ t # NoSession /\ t.peer = Client
  /\ <<t.role, t.start, c.role, c.knew, c.start>> \in TransferModes
  /\ \/ SameValues(c.options, t.options)
     \/ c.role = "sender" /\ c.knew /\ c.options = NoOptions /\ t.options # NoOptions

ClientEndTrue(c, j, ss) ==
  c # NoSession =>
    /\ c.port = Client
    /\ c.peer = NoEndpoint => ~c.knew
    /\ ~c.knew => /\ isDefault(j.options) /\ c.options = NoOptions /\ c.start = 0
                  /\ c.role = IF j.op = "RRQ" THEN "receiver" ELSE "sender"
    /\ c.peer \in ServerPorts => EndsFit(c, ss[c.peer])

Waiting(wait) == {wait.handlers[i].msg : i \in DOMAIN wait.handlers}

\* The receive of the wait gets what is sent to the client.
ForClient(m) == m.op # "ERROR" => m.dst = Client

FitInv ==
  /\ \A m \in Waiting(oackWait) : ForClient(m)
  /\ \A m \in net \cup Waiting(oackWait) : DatagramTrue(m, job, cSession, sessions)
  /\ \A p \in ServerPorts : ServerEndTrue(sessions[p], p, job, cSession)
  /\ ClientEndTrue(cSession, job, sessions)

(***************************************************************************)
(* Options                                                                 *)
(***************************************************************************)

\* atoi() takes a block size, or a timeout, for what it is.
LEMMA AtoiSmall == \A n \in 0 .. MaxBlksize : atoi(n) = n
<1> SUFFICES ASSUME NEW n \in 0 .. MaxBlksize PROVE atoi(n) = n
  OBVIOUS
<1>1. /\ IntModulus \in Nat \ {0} /\ MaxBlksize \in Nat /\ LongMax \in Nat
      /\ IntModulus % 2 = 0
      /\ MaxBlksize < IntModulus \div 2 /\ IntModulus <= LongMax
  BY OptionsAssumption DEF OptionsAssumption
<1>2. IntModulus \div 2 <= IntModulus
  BY <1>1
<1>3. n < IntModulus \div 2 /\ n < IntModulus /\ n <= LongMax /\ n \in Nat
  BY <1>1, <1>2
<1>4. n % IntModulus = n
  BY <1>1, <1>3
<1> QED
  BY <1>1, <1>3, <1>4 DEF atoi

\* The options of an OACK are read back as the values they were made from.
LEMMA OackValuesReturn ==
  ASSUME NEW map \in OptionMaps, SetOptionsOk(map), NEW op, job.size \in Nat
  PROVE  LET values == setOptionsFromMap(map)
             answer == getOptionsAsMap(Announced(op, values))
         IN  SameValues(setOptionsFromMap(answer), values)
<1> DEFINE values == setOptionsFromMap(map)
           answer == getOptionsAsMap(Announced(op, values))
<1>0. values \in OptionMaps
  BY AcceptedValues
<1>1. /\ answer["blksize"] = values["blksize"]
      /\ answer["timeout"] = values["timeout"]
  <2> HIDE DEF values
  <2> QED
    BY <1>0 DEF getOptionsAsMap, Announced, OptionMaps, OptionNames
<1>2. values["blksize"] = IF map["blksize"] = Unset THEN Unset ELSE atoi(map["blksize"])
  BY DEF setOptionsFromMap, ReadFrom, OptionNames
<1>3. values["timeout"] = IF map["timeout"] = Unset THEN Unset ELSE atoi(map["blksize"])
  BY DEF setOptionsFromMap, ReadFrom, OptionNames
<1>4. map["timeout"] # Unset => map["blksize"] # Unset
  BY DEF SetOptionsOk
<1>5. map["blksize"] # Unset => /\ atoi(map["blksize"]) \in 0 .. MaxBlksize
                                /\ atoi(map["blksize"]) # Unset
  BY OptionsAssumption DEF SetOptionsOk, OptionsAssumption, Unset
<1>6. /\ setOptionsFromMap(answer)["blksize"]
           = IF answer["blksize"] = Unset THEN Unset ELSE atoi(answer["blksize"])
      /\ setOptionsFromMap(answer)["timeout"]
           = IF answer["timeout"] = Unset THEN Unset ELSE atoi(answer["blksize"])
  <2> HIDE DEF answer
  <2> QED
    BY DEF setOptionsFromMap, ReadFrom, OptionNames
<1>7. /\ setOptionsFromMap(answer)["blksize"] = values["blksize"]
      /\ setOptionsFromMap(answer)["timeout"] = values["timeout"]
  <2> HIDE DEF answer, values
  <2> QED
    BY <1>1, <1>2, <1>3, <1>4, <1>5, <1>6, AtoiSmall
<1> HIDE DEF answer, values
<1>8. SameValues(setOptionsFromMap(answer), values)
  BY <1>7 DEF SameValues, BlocksizeToUse, TimeoutToUse
<1> QED
  BY <1>8 DEF answer, values

(***************************************************************************)
(* Datagrams                                                               *)
(***************************************************************************)

\* Errors and runts say nothing of the sessions.
LEMMA ErrorsTrue ==
  ASSUME NEW m, m.op \in {"ERROR", "RUNT"}, NEW j, NEW c, NEW ss
  PROVE  DatagramTrue(m, j, c, ss)
  BY DEF DatagramTrue, RequestTrue, AnswerTrue, SessionTrue, SourceTrue

LEMMA PortsApart ==
  /\ \A p \in ServerPorts : p # Client /\ p # Listen /\ p # Elsewhere /\ p # NoEndpoint
  /\ Client # Listen /\ Client # Elsewhere /\ Client # NoEndpoint
  /\ Elsewhere # Listen /\ Elsewhere # NoEndpoint
  BY RequestAssumption DEF RequestAssumption, Client, Listen, Elsewhere, NoEndpoint

\* What a session repeats says who it is.
LEMMA CurrentFields ==
  ASSUME NEW s \in Session, NEW m \in Current(s)
  PROVE  /\ m.src = s.port /\ m.dst = s.peer
         /\ m.op = IF s.role = "sender" THEN "DATA" ELSE "ACK"
         /\ s.role = "sender" => s.count = 1
<1>1. s.role \in {"sender", "receiver"} /\ s.count \in 0 .. 1
  BY DEF Session
<1> QED
  BY <1>1 DEF Current, Message

\* What the client's session c sends is true when c is the client's session.
LEMMA ClientSends ==
  ASSUME NEW s \in Session, s.port = Client, NEW c \in Session, c.peer = s.peer,
         NEW m \in Current(s), NEW j, NEW ss
  PROVE  DatagramTrue(m, j, c, ss)
<1>1. m.src = Client /\ m.dst = c.peer /\ m.op \in {"DATA", "ACK"}
  BY CurrentFields
<1>2. c # NoSession
  BY NoSessionIsNone
<1> QED
  BY <1>1, <1>2, PortsApart
     DEF DatagramTrue, RequestTrue, AnswerTrue, SessionTrue, SourceTrue, TalksTo

\* What the session at port p sends is true when it is the session there.
LEMMA ServerSends ==
  ASSUME NEW s \in Session, NEW p \in ServerPorts, s.port = p,
         NEW j, NEW c, NEW ss, ss[p] \in Session,
         ss[p].peer = s.peer, ss[p].role = s.role, s.count = 1 => ss[p].count = 1,
         NEW m \in Current(s)
  PROVE  DatagramTrue(m, j, c, ss)
<1>1. /\ m.src = p /\ m.dst = s.peer /\ m.op = IF s.role = "sender" THEN "DATA" ELSE "ACK"
      /\ s.role = "sender" => s.count = 1
      /\ s.role \in {"sender", "receiver"}
  BY CurrentFields DEF Session
<1>2. ss[p] # NoSession
  BY NoSessionIsNone
<1> QED
  BY <1>1, <1>2, PortsApart
     DEF DatagramTrue, RequestTrue, AnswerTrue, SessionTrue, SourceTrue

(***************************************************************************)
(* What a step leaves true                                                 *)
(***************************************************************************)
SameEnd(s, t) ==
  /\ t # NoSession
  /\ t.port = s.port /\ t.peer = s.peer /\ t.role = s.role /\ t.start = s.start
  /\ t.options = s.options
  /\ s.count = 1 => t.count = 1

\* The client keeps its partner, and the server its sessions.
Kept(c, d, ss, tt) ==
  /\ \A p \in ServerPorts : TalksTo(c, p) => TalksTo(d, p)
  /\ \A p \in ServerPorts : ss[p] # NoSession => SameEnd(ss[p], tt[p])

LEMMA KeptElsewhere ==
  ASSUME NEW c, NEW ss, NEW tt, NEW p \in ServerPorts,
         SameEnd(ss[p], tt[p]), \A q \in ServerPorts \ {p} : tt[q] = ss[q]
  PROVE  Kept(c, c, ss, tt)
<1>1. \A q \in ServerPorts \ {p} : ss[q] # NoSession => SameEnd(ss[q], tt[q])
  BY DEF SameEnd
<1> QED
  BY <1>1 DEF Kept

LEMMA DatagramsStayTrue ==
  ASSUME NEW j, NEW c, NEW d, NEW ss, NEW tt, Kept(c, d, ss, tt),
         NEW m, DatagramTrue(m, j, c, ss)
  PROVE  DatagramTrue(m, j, d, tt)
<1>1. RequestTrue(m, j) /\ AnswerTrue(m, d)
  BY DEF DatagramTrue, AnswerTrue, Kept
<1>2. SessionTrue(m, tt)
  BY DEF DatagramTrue, SessionTrue, Kept, SameEnd
<1> QED
  BY <1>1, <1>2 DEF DatagramTrue

LEMMA ServerEndStaysTrue ==
  ASSUME NEW j, NEW c, NEW d, NEW p \in ServerPorts, TalksTo(c, p) => TalksTo(d, p),
         NEW s, ServerEndTrue(s, p, j, c)
  PROVE  ServerEndTrue(s, p, j, d)
  BY DEF ServerEndTrue

LEMMA ClientEndStaysTrue ==
  ASSUME NEW j, NEW c, NEW ss, NEW tt, Kept(c, c, ss, tt), ClientEndTrue(c, j, ss)
  PROVE  ClientEndTrue(c, j, tt)
<1>1. ASSUME c # NoSession, c.peer \in ServerPorts PROVE EndsFit(c, tt[c.peer])
  BY <1>1 DEF Kept, SameEnd, EndsFit, ClientEndTrue
<1> QED
  BY <1>1 DEF ClientEndTrue

LEMMA WaitingParts ==
  ASSUME NEW wait \in WaitType
  PROVE  /\ \A b \in BOOLEAN : /\ Waiting([wait EXCEPT !.receiving = b]) = Waiting(wait)
                               /\ Waiting([wait EXCEPT !.armed = b]) = Waiting(wait)
         /\ \A k, m : Waiting(Completed(wait, k, m)) \subseteq Waiting(wait) \cup {m}
         /\ wait.handlers # << >> =>
              /\ Waiting([wait EXCEPT !.handlers = Tail(@)]) \subseteq Waiting(wait)
              /\ Waiting([wait EXCEPT !.armed = FALSE, !.handlers = Tail(@)]) \subseteq Waiting(wait)
              /\ Head(wait.handlers).msg \in Waiting(wait)
<1> DEFINE q == wait.handlers
<1>q. q \in Seq([kind : Kinds, msg : Datagram])
  BY DEF WaitType, Kinds
<1>1. \A b \in BOOLEAN : /\ Waiting([wait EXCEPT !.receiving = b]) = Waiting(wait)
                         /\ Waiting([wait EXCEPT !.armed = b]) = Waiting(wait)
  BY DEF Waiting, WaitType
<1>2. ASSUME NEW k, NEW m PROVE Waiting(Completed(wait, k, m)) \subseteq Waiting(wait) \cup {m}
  <2>1. Completed(wait, k, m).handlers = Append(q, [kind |-> k, msg |-> m])
    BY DEF Completed, WaitType
  <2>2. /\ DOMAIN Append(q, [kind |-> k, msg |-> m]) = 1 .. Len(q) + 1
        /\ DOMAIN q = 1 .. Len(q) /\ Len(q) \in Nat
        /\ Append(q, [kind |-> k, msg |-> m])[Len(q) + 1] = [kind |-> k, msg |-> m]
        /\ \A i \in 1 .. Len(q) : Append(q, [kind |-> k, msg |-> m])[i] = q[i]
    BY <1>q
  <2> QED
    BY <2>1, <2>2 DEF Waiting
<1>3. ASSUME q # << >>
      PROVE  /\ Waiting([wait EXCEPT !.handlers = Tail(@)]) \subseteq Waiting(wait)
             /\ Waiting([wait EXCEPT !.armed = FALSE, !.handlers = Tail(@)])
                  \subseteq Waiting(wait)
             /\ Head(q).msg \in Waiting(wait)
  <2>1. /\ [wait EXCEPT !.handlers = Tail(@)].handlers = Tail(q)
        /\ [wait EXCEPT !.armed = FALSE, !.handlers = Tail(@)].handlers = Tail(q)
    BY DEF WaitType
  <2>2. /\ DOMAIN Tail(q) = 1 .. Len(q) - 1 /\ DOMAIN q = 1 .. Len(q)
        /\ Len(q) \in Nat \ {0} /\ Head(q) = q[1]
        /\ \A i \in 1 .. Len(q) - 1 : Tail(q)[i] = q[i + 1]
    BY <1>q, <1>3
  <2> QED
    BY <2>1, <2>2 DEF Waiting
<1> QED
  BY <1>1, <1>2, <1>3

\* A step of the client.
LEMMA ClientStepTrue ==
  ASSUME FitInv, UNCHANGED <<job, serverVars>>,
         \A p \in ServerPorts : TalksTo(cSession, p) => TalksTo(cSession', p),
         \A m \in net' \cup Waiting(oackWait') :
           m \in net \cup Waiting(oackWait) \/ DatagramTrue(m, job, cSession', sessions),
         \A m \in Waiting(oackWait') : m \in Waiting(oackWait) \/ ForClient(m),
         ClientEndTrue(cSession', job, sessions)
  PROVE  FitInv'
<1>u. job' = job /\ sessions' = sessions
  BY DEF serverVars
<1>1. Kept(cSession, cSession', sessions, sessions)
  BY DEF Kept, SameEnd
<1>2. \A m \in net' \cup Waiting(oackWait') : DatagramTrue(m, job, cSession', sessions)
  BY <1>1, DatagramsStayTrue DEF FitInv
<1>3. \A p \in ServerPorts : ServerEndTrue(sessions[p], p, job, cSession')
  BY ServerEndStaysTrue DEF FitInv
<1> QED
  BY <1>u, <1>2, <1>3 DEF FitInv

\* A step of the server.
LEMMA ServerStepTrue ==
  ASSUME FitInv, UNCHANGED <<job, clientVars>>,
         Kept(cSession, cSession, sessions, sessions'),
         \A m \in net' : m \in net \/ DatagramTrue(m, job, cSession, sessions'),
         \A p \in ServerPorts : ServerEndTrue(sessions'[p], p, job, cSession)
  PROVE  FitInv'
<1>u. job' = job /\ cSession' = cSession /\ oackWait' = oackWait
  BY DEF clientVars
<1>1. \A m \in net' \cup Waiting(oackWait) : DatagramTrue(m, job, cSession, sessions')
  BY DatagramsStayTrue DEF FitInv
<1>2. ClientEndTrue(cSession, job, sessions')
  BY ClientEndStaysTrue DEF FitInv
<1> QED
  BY <1>u, <1>1, <1>2 DEF FitInv

(***************************************************************************)
(* The client                                                              *)
(***************************************************************************)
LEMMA RequestIsTrue ==
  ASSUME job \in Jobs, job.op # "INVALID", NEW c, NEW ss
  PROVE  DatagramTrue(Request, job, c, ss)
<1> DEFINE tsize == IF job.op = "RRQ" THEN 0 ELSE job.size
           values == IF isDefault(job.options) THEN job.options
                     ELSE [job.options EXCEPT !["tsize"] = tsize]
<1>1. job.op \in {"RRQ", "WRQ"} /\ job.options \in OptionMaps /\ tsize \in Nat
  BY JobTypes
<1>2. isDefault(values) <=> isDefault(job.options)
  <2>1. CASE isDefault(job.options)
    BY <2>1
  <2>2. CASE ~isDefault(job.options)
    <3>1. values["tsize"] = tsize /\ tsize # Unset
      BY <1>1, <2>2 DEF OptionMaps, OptionNames, Unset
    <3> HIDE DEF values
    <3> QED
      BY <2>2, <3>1 DEF isDefault, Present, OptionNames
  <2> QED
    BY <2>1, <2>2
<1> HIDE DEF values
<1>3. isDefault(getOptionsAsMap(values)) <=> isDefault(values)
  BY DEF getOptionsAsMap, isDefault, Present, OptionNames
<1>4. /\ Request.op = job.op /\ Request.src = Client /\ Request.dst = Listen
      /\ Request.options = getOptionsAsMap(values) /\ ~Request.extra
  BY DEF Request, RequestMessage, Message, values
<1> HIDE DEF tsize
<1> QED
  BY <1>1, <1>2, <1>3, <1>4, PortsApart
     DEF DatagramTrue, RequestTrue, AnswerTrue, SessionTrue, SourceTrue, NoOptVals

LEMMA ClientStarts ==
  ASSUME TypeOK, FitInv, UNCHANGED <<job, serverVars>>, cSession = NoSession,
         NEW s \in NewSessions, s.port = Client, ClientEndTrue(s, job, sessions),
         NEW before, \A m \in before : \A c : DatagramTrue(m, job, c, sessions),
         StartSession(s, before),
         Waiting(oackWait') \subseteq Waiting(oackWait)
  PROVE  FitInv'
<1>0. PICK step \in Starts(s) : /\ cSession' = step.session
                                /\ net' = net \cup Routed(before \cup step.sends)
  BY DEF StartSession
<1>s. s \in Session /\ s # NoSession
  BY NoSessionIsNone DEF NewSessions
<1>1. /\ cSession' \in Session /\ cSession' # NoSession
      /\ SameSession(s, cSession') /\ cSession'.peer = s.peer
      /\ \A m \in step.sends : m.op = "ERROR" \/ m \in Current(cSession')
  BY <1>0, StartsType, NoSessionIsNone DEF StepsOf, OutcomeType, Stays, NewSessions
<1>2. \A p \in ServerPorts : TalksTo(cSession, p) => TalksTo(cSession', p)
  BY DEF TalksTo
<1>3. \A m \in step.sends : DatagramTrue(m, job, cSession', sessions)
  BY <1>1, ClientSends, ErrorsTrue DEF SameSession
<1>4. \A m \in net' : m \in net \/ m \in before \/ m \in step.sends
  BY <1>0 DEF Routed
<1>5. ClientEndTrue(cSession', job, sessions)
  BY <1>s, <1>1 DEF ClientEndTrue, EndsFit, SameSession
<1> QED
  BY <1>2, <1>3, <1>4, <1>5, ClientStepTrue

LEMMA NewFields ==
  ASSUME NEW port \in Endpoints, NEW peer \in Endpoints, NEW start \in 0 .. 1,
         NEW options \in OptionMaps
  PROVE  /\ SenderFor(port, peer, start, options) \in NewSessions
         /\ ReceiverFor(port, peer, start, options) \in NewSessions
         /\ \A s \in {SenderFor(port, peer, start, options),
                      ReceiverFor(port, peer, start, options)} :
              /\ s.port = port /\ s.peer = peer /\ s.start = start /\ s.count = start
              /\ s.options = options
              /\ s.knew <=> peer # NoEndpoint
         /\ SenderFor(port, peer, start, options).role = "sender"
         /\ ReceiverFor(port, peer, start, options).role = "receiver"
<1>1. /\ SenderFor(port, peer, start, options) \in NewSessions
      /\ ReceiverFor(port, peer, start, options) \in NewSessions
  BY NewSessionType DEF SenderFor, ReceiverFor
<1>2. ASSUME NEW role
      PROVE  LET s == NewSession(role, port, peer, start, options) IN
             /\ s.port = port /\ s.peer = peer /\ s.start = start /\ s.count = start
             /\ s.options = options /\ s.role = role
             /\ s.knew <=> peer # NoEndpoint
  BY DEF NewSession
<1> QED
  BY <1>1, <1>2 DEF SenderFor, ReceiverFor

LEMMA FitStarts ==
  ASSUME TypeOK, ClientTruth, FitInv, UNCHANGED <<job, serverVars>>,
         cCannotSend \/ cStartPlain \/ cStartWithOptions
  PROVE  FitInv'
<1>t. oackWait \in WaitType /\ job \in Jobs
  BY DEF TypeOK, ClientTypeOK
<1>c. cSession = NoSession /\ oackWait = NoWait
  BY DEF ClientTruth, cCannotSend, cStartPlain, cStartWithOptions
<1>1. CASE cCannotSend
  <2>1. UNCHANGED <<cSession, oackWait, net>>
    BY <1>1 DEF cCannotSend, Throws
  <2> QED
    BY <1>c, <2>1, ClientStepTrue DEF FitInv
<1>2. CASE cStartPlain
  <2> DEFINE s == IF job.op = "RRQ" THEN ReceiverFor(Client, NoEndpoint, 0, NoOptions)
                  ELSE SenderFor(Client, NoEndpoint, 0, NoOptions)
  <2>1. job.op # "INVALID" /\ isDefault(job.options) /\ UNCHANGED oackWait
        /\ StartSession(s, {Request})
    BY <1>2 DEF cStartPlain
  <2>2. /\ s \in NewSessions /\ s.port = Client /\ s.peer = NoEndpoint /\ s.start = 0
        /\ s.options = NoOptions /\ ~s.knew
        /\ s.role = IF job.op = "RRQ" THEN "receiver" ELSE "sender"
    BY NewFields, EndpointTypes, OptionTypes
  <2> HIDE DEF s
  <2>3. ClientEndTrue(s, job, sessions)
    BY <2>1, <2>2, PortsApart DEF ClientEndTrue
  <2>4. \A m \in {Request} : \A c : DatagramTrue(m, job, c, sessions)
    BY <1>t, <2>1, RequestIsTrue
  <2> QED
    BY <1>c, <2>1, <2>2, <2>3, <2>4, ClientStarts
<1>3. CASE cStartWithOptions
  <2>1. /\ UNCHANGED cSession /\ oackWait' = [NoWait EXCEPT !.receiving = TRUE, !.armed = TRUE]
        /\ job.op # "INVALID" /\ net' = net \cup Routed({Request})
    BY <1>3 DEF cStartWithOptions
  <2>2. Waiting(oackWait') = {}
    BY <2>1 DEF Waiting, NoWait
  <2>3. \A m \in net' : m \in net \/ DatagramTrue(m, job, cSession, sessions)
    BY <1>t, <2>1, RequestIsTrue DEF Routed
  <2> QED
    BY <2>1, <2>2, <2>3, ClientStepTrue DEF FitInv
<1> QED
  BY <1>1, <1>2, <1>3

\* What waits to be handled was in flight, and sent to the client.
LEMMA WaitingKeeps ==
  ASSUME oackWait \in WaitType,
         (\E m \in net : cArrive(m)) \/ cReceiveFails \/ cExpire \/ cOackTimeout
  PROVE  /\ \A m \in net' : m \in net
         /\ \A m \in Waiting(oackWait') :
              m \in Waiting(oackWait) \/ (m \in net /\ m.dst = Client) \/ m = NoMsg
<1> DEFINE received == [oackWait EXCEPT !.receiving = FALSE]
           expired == [oackWait EXCEPT !.armed = FALSE]
<1>w. /\ received \in WaitType /\ Waiting(received) = Waiting(oackWait)
      /\ expired \in WaitType /\ Waiting(expired) = Waiting(oackWait)
  BY WaitTypes, WaitingParts
<1> HIDE DEF received, expired
<1>1. CASE \E m \in net : cArrive(m)
  <2>1. PICK m \in net : cArrive(m)
    BY <1>1
  <2>2. m.dst = Client /\ net' \in Taken(m) /\ oackWait' = Completed(received, "datagram", m)
    BY <2>1 DEF cArrive, received
  <2>3. Waiting(oackWait') \subseteq Waiting(oackWait) \cup {m}
    BY <1>w, <2>2, WaitingParts
  <2> QED
    BY <2>2, <2>3 DEF Taken
<1>2. CASE cReceiveFails
  <2>1. net' = net /\ oackWait' = Completed(received, "failed", NoMsg)
    BY <1>2 DEF cReceiveFails, received
  <2>2. Waiting(oackWait') \subseteq Waiting(oackWait) \cup {NoMsg}
    BY <1>w, <2>1, WaitingParts
  <2> QED
    BY <2>1, <2>2
<1>3. CASE cExpire
  <2>1. net' = net /\ oackWait' = Completed(expired, "timeout", NoMsg)
    BY <1>3 DEF cExpire, expired
  <2>2. Waiting(oackWait') \subseteq Waiting(oackWait) \cup {NoMsg}
    BY <1>w, <2>1, WaitingParts
  <2> QED
    BY <2>1, <2>2
<1>4. CASE cOackTimeout
  <2> DEFINE wait == [oackWait EXCEPT !.handlers = Tail(@)]
  <2>1. /\ net' = net /\ oackWait.handlers # << >>
        /\ \/ oackWait' = wait
           \/ oackWait' = Completed([wait EXCEPT !.receiving = FALSE], "aborted", NoMsg)
    BY <1>4 DEF cOackTimeout, Waits
  <2>2. wait \in WaitType /\ Waiting(wait) \subseteq Waiting(oackWait)
    BY <2>1, WaitTypes, WaitingParts
  <2> HIDE DEF wait
  <2>3. /\ [wait EXCEPT !.receiving = FALSE] \in WaitType
        /\ Waiting([wait EXCEPT !.receiving = FALSE]) = Waiting(wait)
    BY <2>2, WaitTypes, WaitingParts
  <2>4. Waiting(oackWait') \subseteq Waiting(oackWait) \cup {NoMsg}
    BY <2>1, <2>2, <2>3, WaitingParts
  <2> QED
    BY <2>1, <2>4
<1> QED
  BY <1>1, <1>2, <1>3, <1>4

LEMMA FitWaits ==
  ASSUME TypeOK, FitInv, UNCHANGED <<job, serverVars>>,
         (\E m \in net : cArrive(m)) \/ cReceiveFails \/ cExpire \/ cOackTimeout
  PROVE  FitInv'
<1>c. cSession' = cSession
  BY DEF cArrive, cReceiveFails, cExpire, cOackTimeout, Throws
<1>n. ForClient(NoMsg) /\ DatagramTrue(NoMsg, job, cSession, sessions)
  BY ErrorFields, ErrorsTrue DEF NoMsg, ForClient
<1>1. /\ \A m \in net' : m \in net
      /\ \A m \in Waiting(oackWait') :
           m \in Waiting(oackWait) \/ (m \in net /\ m.dst = Client) \/ m = NoMsg
  BY WaitingKeeps DEF TypeOK, ClientTypeOK
<1>2. \A m \in net' \cup Waiting(oackWait') :
        m \in net \cup Waiting(oackWait) \/ DatagramTrue(m, job, cSession, sessions)
  BY <1>1, <1>n
<1>3. \A m \in Waiting(oackWait') : m \in Waiting(oackWait) \/ ForClient(m)
  BY <1>1, <1>n DEF ForClient
<1> QED
  BY <1>c, <1>2, <1>3, ClientStepTrue DEF FitInv

\* What the client has received when it has no session yet.
LEMMA ReceivedTrue ==
  ASSUME TypeOK, ClientTruth, FitInv, NEW ops, Answered(ops), "ERROR" \notin ops
  PROVE  /\ cSession = NoSession /\ Received.dst = Client /\ Received \in Datagram
         /\ DatagramTrue(Received, job, cSession, sessions)
         /\ Waiting(oackWait') \subseteq Waiting(oackWait)
<1>t. oackWait \in WaitType /\ oackWait.handlers # << >>
  BY DEF TypeOK, ClientTypeOK, Answered, Waits
<1>1. cSession = NoSession
  <2>1. "timeout" \notin {"datagram"}
    OBVIOUS
  <2> QED
    BY <2>1, AnswerEndsWait DEF Answered
<1>2. Received \in Waiting(oackWait) /\ Received \in Datagram
  BY <1>t, WaitingParts, AnsweredType DEF Received, TypeOK
<1>3. Received.op # "ERROR"
  BY DEF Answered
<1>4. Waiting(oackWait') \subseteq Waiting(oackWait)
  BY <1>t, WaitingParts DEF Answered
<1> QED
  BY <1>1, <1>2, <1>3, <1>4 DEF FitInv, ForClient

\* An OACK that is accepted leads to two sessions that fit.
LEMMA FitOack ==
  ASSUME TypeOK, ClientTruth, FitInv, UNCHANGED <<job, serverVars>>, cOackAccepted
  PROVE  FitInv'
<1> DEFINE s == IF job.op = "RRQ" THEN ReceiverFor(Client, Received.src, 0, OackValues)
                ELSE SenderFor(Client, Received.src, 1, OackValues)
<1>1. /\ cSession = NoSession /\ Received.dst = Client /\ Received \in Datagram
      /\ DatagramTrue(Received, job, cSession, sessions)
      /\ Waiting(oackWait') \subseteq Waiting(oackWait)
  BY ReceivedTrue DEF cOackAccepted
<1>2. /\ Received.op = "OACK" /\ Received.options \in OptionMaps
      /\ Received.src \in Endpoints /\ OackValues \in OptionMaps
      /\ StartSession(s, {})
  BY <1>1, AcceptedValues DEF cOackAccepted, Answered, OackValues, Datagram
<1>3. /\ s \in NewSessions /\ s.port = Client /\ s.peer = Received.src /\ s.options = OackValues
      /\ s.knew <=> Received.src # NoEndpoint
      /\ s.role = IF job.op = "RRQ" THEN "receiver" ELSE "sender"
      /\ s.start = IF job.op = "RRQ" THEN 0 ELSE 1
  BY <1>2, NewFields, EndpointTypes
<1>4. Received.src # NoEndpoint
  BY <1>1, <1>2 DEF DatagramTrue, SourceTrue
<1> HIDE DEF s
<1>5. ASSUME s.peer \in ServerPorts PROVE EndsFit(s, sessions[s.peer])
  <2> DEFINE t == sessions[s.peer]
  <2>1. /\ t # NoSession /\ t.peer = Client /\ t.start = 0 /\ SameValues(OackValues, t.options)
    BY <1>1, <1>2, <1>3, <1>5 DEF DatagramTrue, SessionTrue, OackValues
  <2>2. ServerEndTrue(t, s.peer, job, cSession)
    BY <1>5 DEF FitInv
  <2>3. t.role = IF job.op = "RRQ" THEN "sender" ELSE "receiver"
    BY <2>1, <2>2 DEF ServerEndTrue
  <2> HIDE DEF t
  <2> QED
    BY <1>3, <1>4, <2>1, <2>3 DEF EndsFit, TransferModes, t
<1>6. ClientEndTrue(s, job, sessions)
  BY <1>3, <1>4, <1>5 DEF ClientEndTrue
<1> QED
  BY <1>1, <1>2, <1>3, <1>6, ClientStarts

\* So does a DATA 1, or an ACK 0, from a server that has no use for the options.
LEMMA FitPlainly ==
  ASSUME TypeOK, ClientTruth, FitInv, UNCHANGED <<job, serverVars>>, cAnsweredPlainly
  PROVE  FitInv'
<1> DEFINE s == IF job.op = "RRQ" THEN ReceiverFor(Client, Received.src, 1, NoOptions)
                ELSE SenderFor(Client, Received.src, 1, NoOptions)
<1>1. /\ cSession = NoSession /\ Received.dst = Client /\ Received \in Datagram
      /\ DatagramTrue(Received, job, cSession, sessions)
      /\ Waiting(oackWait') \subseteq Waiting(oackWait)
  <2>1. Answered({TheAnswer}) /\ "ERROR" \notin {TheAnswer}
    BY DEF cAnsweredPlainly, TheAnswer
  <2> QED
    BY <2>1, ReceivedTrue
<1>2. Received.op = IF job.op = "RRQ" THEN "DATA" ELSE "ACK"
  BY DEF cAnsweredPlainly, Answered, TheAnswer
<1>3. Received.src \in Endpoints /\ Received.src # NoEndpoint
  BY <1>1, <1>2 DEF DatagramTrue, SourceTrue, Datagram
<1>4. /\ s \in NewSessions /\ s.port = Client /\ s.peer = Received.src /\ s.options = NoOptions
      /\ s.knew /\ s.start = 1
      /\ s.role = IF job.op = "RRQ" THEN "receiver" ELSE "sender"
  BY <1>3, NewFields, EndpointTypes, OptionTypes
<1>5. CASE UNCHANGED <<cSession, net>>
  BY <1>1, <1>5, ClientStepTrue DEF FitInv
<1>6. CASE StartSession(s, {})
  <2> HIDE DEF s
  <2>1. ASSUME s.peer \in ServerPorts PROVE EndsFit(s, sessions[s.peer])
    <3> DEFINE t == sessions[s.peer]
    <3>1. /\ t # NoSession /\ t.peer = Client
          /\ job.op = "RRQ" => t.role = "sender" /\ t.count = 1
          /\ job.op # "RRQ" => t.role = "receiver"
      BY <1>1, <1>2, <1>4, <2>1 DEF DatagramTrue, SessionTrue
    <3>2. ServerEndTrue(t, s.peer, job, cSession)
      BY <2>1 DEF FitInv
    <3>3. t \in Session
      BY <2>1, <3>1 DEF TypeOK, ServerTypeOK
    <3> HIDE DEF t
    <3>4. t.start \in {0, 1}
      BY <3>3 DEF Session
    <3>5. ~TalksTo(cSession, s.peer)
      BY <1>1 DEF TalksTo
    <3>6. CASE job.op = "RRQ"
      <4>1. t.start = 1 /\ t.options = NoOptions
        BY <3>1, <3>2, <3>4, <3>5, <3>6 DEF ServerEndTrue
      <4> QED
        BY <1>4, <3>1, <3>6, <4>1 DEF EndsFit, TransferModes, SameValues, t
    <3>7. CASE job.op # "RRQ"
      <4>1. t.start = 0
        BY <3>1, <3>2, <3>7 DEF ServerEndTrue
      <4>2. SameValues(s.options, t.options) \/ t.options # NoOptions
        BY <1>4 DEF SameValues
      <4> QED
        BY <1>4, <3>1, <3>7, <4>1, <4>2 DEF EndsFit, TransferModes, t
    <3> QED
      BY <3>6, <3>7
  <2>2. ClientEndTrue(s, job, sessions)
    BY <1>3, <1>4, <2>1 DEF ClientEndTrue
  <2> QED
    BY <1>1, <1>4, <1>6, <2>2, ClientStarts
<1>7. job.op = "WRQ" => job.op # "RRQ"
  OBVIOUS
<1> QED
  BY <1>5, <1>6, <1>7 DEF cAnsweredPlainly, Throws

\* The answers that end the client's wait without a session.
LEMMA FitWithout ==
  ASSUME TypeOK, FitInv, UNCHANGED <<job, serverVars>>,
         cOackMisfit \/ cOackThrows \/ cOackRefused \/ cNotAnswered
  PROVE  FitInv'
<1>1. cSession' = cSession
  BY DEF cOackMisfit, cOackThrows, cOackRefused, cNotAnswered, Throws
<1>2. Waiting(oackWait') \subseteq Waiting(oackWait)
  <2>1. /\ oackWait.handlers # << >>
        /\ oackWait' = [oackWait EXCEPT !.armed = FALSE, !.handlers = Tail(@)]
    BY DEF cOackMisfit, cOackThrows, cOackRefused, cNotAnswered, Answered, Waits
  <2> QED
    BY <2>1, WaitingParts DEF TypeOK, ClientTypeOK
<1>3. \A m \in net' : m \in net \/ m.op = "ERROR"
  BY ErrorFields DEF cOackMisfit, cOackThrows, cOackRefused, cNotAnswered, Routed
<1>4. \A m \in net' \cup Waiting(oackWait') :
        m \in net \cup Waiting(oackWait) \/ DatagramTrue(m, job, cSession, sessions)
  BY <1>2, <1>3, ErrorsTrue
<1> QED
  BY <1>1, <1>2, <1>4, ClientStepTrue DEF FitInv

\* The client's session finds its partner, or keeps it.
LEMMA FitSession ==
  ASSUME TypeOK, FitInv, UNCHANGED <<job, serverVars>>,
         (\E m \in net : cSessionHears(m)) \/ cSessionRepeats \/ cSessionEnds
  PROVE  FitInv'
<1>t. cSession \in Session /\ cSession # NoSession
  BY NoSessionIsNone
     DEF TypeOK, ClientTypeOK, cSessionHears, cSessionRepeats, cSessionEnds, cSessionRuns
<1>0. PICK step \in StepsOf(cSession) : ClientTakes(step)
  BY ClientSessionSteps
<1> DEFINE c == step.session
<1>1. /\ cSession' = c /\ oackWait' = oackWait
      /\ \A a \in net' : a \in net \/ a \in step.sends
  BY <1>0 DEF ClientTakes, cSessionBecomes
<1>2. ClientEndTrue(cSession, job, sessions)
  BY DEF FitInv
<1>3. /\ c \in Session /\ c # NoSession /\ SameSession(cSession, c) /\ c.port = Client
      /\ \A a \in step.sends : a.op = "ERROR" \/ a \in Current(c)
  BY <1>t, <1>2, NoSessionIsNone DEF StepsOf, OutcomeType, SameSession, ClientEndTrue
<1>p. c.peer = cSession.peer \/ \E m \in net : /\ m.dst = Client /\ Expected(cSession, m)
                                              /\ c.peer = m.src
  BY <1>0 DEF ClientTakes, Follows, Stays
<1>k. cSession.peer # NoEndpoint => c.peer = cSession.peer
  BY <1>p DEF Expected, Foreign
<1> HIDE DEF c
<1>4. \A a \in step.sends : DatagramTrue(a, job, c, sessions)
  BY <1>3, ClientSends, ErrorsTrue
<1>5. \A p \in ServerPorts : TalksTo(cSession, p) => TalksTo(c, p)
  BY <1>3, <1>k, PortsApart DEF TalksTo
<1>6. ClientEndTrue(c, job, sessions)
  <2>1. /\ c.peer = NoEndpoint => ~c.knew
        /\ ~c.knew => /\ isDefault(job.options) /\ c.options = NoOptions /\ c.start = 0
                      /\ c.role = IF job.op = "RRQ" THEN "receiver" ELSE "sender"
    BY <1>t, <1>2, <1>3, <1>k DEF ClientEndTrue, SameSession
  <2>2. ASSUME c.peer \in ServerPorts, cSession.peer # NoEndpoint
        PROVE  EndsFit(c, sessions[c.peer])
    <3>1. EndsFit(cSession, sessions[c.peer])
      BY <1>t, <1>2, <1>k, <2>2 DEF ClientEndTrue
    <3> QED
      BY <1>3, <3>1 DEF EndsFit, SameSession
  <2>3. ASSUME c.peer \in ServerPorts, cSession.peer = NoEndpoint
        PROVE  EndsFit(c, sessions[c.peer])
    <3> DEFINE t == sessions[c.peer]
    <3>1. PICK m \in net : m.dst = Client /\ Expected(cSession, m) /\ m.src = c.peer
      BY <1>p, <2>3, PortsApart
    <3>2. t # NoSession /\ t.peer = Client
      <4>1. m.op \in {"DATA", "ACK"} /\ DatagramTrue(m, job, cSession, sessions)
        BY <3>1 DEF Expected, FitInv
      <4> QED
        BY <2>3, <3>1, <4>1 DEF DatagramTrue, SessionTrue
    <3>3. ServerEndTrue(t, c.peer, job, cSession)
      BY <2>3 DEF FitInv
    <3>4. ~c.knew
      BY <1>t, <1>2, <1>3, <2>3 DEF ClientEndTrue, SameSession
    <3> HIDE DEF t
    <3>5. /\ t.options = NoOptions
          /\ t.role = "sender" => t.start = 1
          /\ t.role = "receiver" => t.start = 0
          /\ t.role = IF job.op = "RRQ" THEN "sender" ELSE "receiver"
      BY <2>1, <3>2, <3>3, <3>4 DEF ServerEndTrue
    <3>6. c.knew = FALSE
      BY <1>3, <3>4 DEF Session
    <3> QED
      BY <2>1, <3>2, <3>5, <3>6 DEF EndsFit, TransferModes, SameValues, t
  <2> QED
    BY <1>3, <2>1, <2>2, <2>3 DEF ClientEndTrue
<1> QED
  BY <1>1, <1>4, <1>5, <1>6, ClientStepTrue DEF FitInv

(***************************************************************************)
(* The server                                                              *)
(***************************************************************************)

\* What a session is constructed with for the request m.  What leaves
\* before its first datagram is errors, or an OACK with its values.
ServesWell(m, s, before) ==
  /\ s.peer = m.src /\ s.count = s.start
  /\ s.role = IF m.op = "RRQ" THEN "sender" ELSE "receiver"
  /\ s.role = "receiver" => s.start = 0
  /\ s.role = "sender" /\ s.start = 1 => s.options = NoOptions
  /\ NoOptVals(m) => /\ s.options = NoOptions
                     /\ s.role = "sender" => s.start = 1
  /\ \A a \in before :
       \/ a.op = "ERROR"
       \/ /\ a.op = "OACK" /\ a.src = s.port /\ a.dst = s.peer /\ s.start = 0
          /\ SameValues(setOptionsFromMap(a.options), s.options)

LEMMA RequestServed ==
  ASSUME TypeOK, NEW m \in net, NEW p \in ServerPorts,
         HandlePlainRequest(m, p) \/ HandleRequestWithOptions(m, p) \/ HandleRefusedRequest(m, p)
  PROVE  /\ FreePort(p) /\ m.op \in {"RRQ", "WRQ"}
         /\ \E s \in NewSessions : \E before :
              s.port = p /\ ServesWell(m, s, before) /\ StartsSession(m, s, before)
<1>t. m \in Datagram /\ m.src \in Endpoints /\ m.options \in OptionMaps /\ job.size \in Nat
  BY JobTypes DEF TypeOK, Datagram
<1>c. FreePort(p) /\ m.op \in {"RRQ", "WRQ"}
  BY DEF HandlePlainRequest, HandleRequestWithOptions, HandleRefusedRequest, Comes
<1>s. ASSUME NEW ack \in 0 .. 1, NEW options \in OptionMaps
      PROVE  LET s == SessionFor(m, p, ack, options) IN
             /\ s \in NewSessions /\ s.port = p /\ s.peer = m.src /\ s.count = s.start
             /\ s.options = options
             /\ s.role = IF m.op = "RRQ" THEN "sender" ELSE "receiver"
             /\ s.start = IF m.op = "RRQ" THEN ack ELSE 0
  BY <1>t, <1>c, NewFields, EndpointTypes DEF SessionFor
<1>1. CASE HandlePlainRequest(m, p)
  <2> DEFINE s == SessionFor(m, p, 1, NoOptions)
  <2>1. StartsSession(m, s, {})
    BY <1>1 DEF HandlePlainRequest
  <2>2. s \in NewSessions /\ s.port = p /\ ServesWell(m, s, {})
    <3>1. 1 \in 0 .. 1
      OBVIOUS
    <3> QED
      BY <1>s, <3>1, OptionTypes DEF ServesWell
  <2> HIDE DEF s
  <2> QED
    BY <1>c, <2>1, <2>2
<1>2. CASE HandleRequestWithOptions(m, p)
  <2> DEFINE values == setOptionsFromMap(m.options)
             answer == getOptionsAsMap(Announced(m.op, values))
             oack == OptionACKMessage(p, m.src, answer)
             s == SessionFor(m, p, 0, values)
  <2>1. StartsSession(m, s, {oack}) /\ ~NoOptVals(m) /\ SetOptionsOk(m.options)
    BY <1>2 DEF HandleRequestWithOptions
  <2>2. values \in OptionMaps /\ SameValues(setOptionsFromMap(answer), values)
    BY <1>t, <2>1, AcceptedValues, OackValuesReturn
  <2> HIDE DEF values, answer
  <2>3. oack.op = "OACK" /\ oack.src = p /\ oack.dst = m.src /\ oack.options = answer
    BY DEF OptionACKMessage, Message
  <2> HIDE DEF oack
  <2>4. s \in NewSessions /\ s.port = p /\ ServesWell(m, s, {oack})
    <3>1. 0 \in 0 .. 1
      OBVIOUS
    <3>2. /\ s \in NewSessions /\ s.port = p /\ s.peer = m.src /\ s.count = s.start
          /\ s.options = values
          /\ s.role = IF m.op = "RRQ" THEN "sender" ELSE "receiver"
          /\ s.start = 0
      BY <1>s, <2>2, <3>1
    <3> HIDE DEF s
    <3> QED
      BY <2>1, <2>2, <2>3, <3>2 DEF ServesWell
  <2> HIDE DEF s
  <2> QED
    BY <1>c, <2>1, <2>4
<1>3. CASE HandleRefusedRequest(m, p)
  <2> DEFINE s == SessionFor(m, p, 1, NoOptions)
             error == sendErrorMsg(m, ERR_OPT_NEGOTIATION)
  <2>1. StartsSession(m, s, {error}) /\ error.op = "ERROR"
    BY <1>3, ErrorFields DEF HandleRefusedRequest, sendErrorMsg
  <2> HIDE DEF error
  <2>2. s \in NewSessions /\ s.port = p /\ ServesWell(m, s, {error})
    <3>1. 1 \in 0 .. 1
      OBVIOUS
    <3> QED
      BY <1>s, <2>1, <3>1, OptionTypes DEF ServesWell
  <2> HIDE DEF s
  <2> QED
    BY <1>c, <2>1, <2>2
<1> QED
  BY <1>1, <1>2, <1>3

LEMMA FitRequest ==
  ASSUME TypeOK, FitInv, UNCHANGED <<job, clientVars>>,
         NEW m \in net, NEW p \in ServerPorts,
         HandlePlainRequest(m, p) \/ HandleRequestWithOptions(m, p) \/ HandleRefusedRequest(m, p)
  PROVE  FitInv'
<1>s. PICK s \in NewSessions : \E before :
        s.port = p /\ ServesWell(m, s, before) /\ StartsSession(m, s, before)
  BY RequestServed
<1>1. PICK before : s.port = p /\ ServesWell(m, s, before) /\ StartsSession(m, s, before)
  BY <1>s
<1>2. sessions[p] = NoSession /\ m.op \in {"RRQ", "WRQ"} /\ RequestTrue(m, job)
  BY RequestServed DEF FreePort, FitInv, DatagramTrue
<1>0. PICK left \in Taken(m), step \in Starts(s) :
        /\ net' = left \cup Routed(UndecodedErrors(m) \cup before \cup step.sends)
        /\ sessions' = [sessions EXCEPT ![p] = step.session]
  BY <1>1 DEF StartsSession
<1> DEFINE t == step.session
<1>3. /\ sessions'[p] = t
      /\ \A q \in ServerPorts \ {p} : sessions'[q] = sessions[q]
  BY <1>0 DEF TypeOK, ServerTypeOK
<1>4. /\ t \in Session /\ t # NoSession
      /\ t.port = p /\ t.peer = s.peer /\ t.role = s.role /\ t.start = s.start
      /\ t.count = s.count /\ t.options = s.options
      /\ \A a \in step.sends : a.op = "ERROR" \/ a \in Current(t)
  BY <1>1, StartsType, NoSessionIsNone DEF StepsOf, OutcomeType, SameSession, Stays, NewSessions
<1> HIDE DEF t
<1>5. Kept(cSession, cSession, sessions, sessions')
  BY <1>2, <1>3 DEF Kept, SameEnd
<1>6. ServerEndTrue(t, p, job, cSession)
  <2>1. t.peer = m.src /\ t.peer \in {Client, Elsewhere} /\ ~(t.start = 0 /\ t.count = 1)
    BY <1>1, <1>2, <1>4 DEF ServesWell, RequestTrue
  <2>2. /\ t.role = IF m.op = "RRQ" THEN "sender" ELSE "receiver"
        /\ t.role = "receiver" => t.start = 0
        /\ t.role = "sender" /\ t.start = 1 => t.options = NoOptions
        /\ NoOptVals(m) => /\ t.options = NoOptions
                           /\ t.role = "sender" => t.start = 1
    BY <1>1, <1>4 DEF ServesWell
  <2>3. t.peer = Client => m.op = job.op /\ (isDefault(job.options) => NoOptVals(m))
    BY <1>2, <2>1 DEF RequestTrue
  <2>4. ASSUME t.peer = Client
        PROVE  /\ t.role = IF job.op = "RRQ" THEN "sender" ELSE "receiver"
               /\ t.role = "receiver" => t.start = 0
               /\ t.role = "sender" /\ t.start = 1 => t.options = NoOptions
               /\ t.start = 0 /\ t.count = 1 => TalksTo(cSession, p)
               /\ isDefault(job.options) => /\ t.options = NoOptions
                                            /\ t.role = "sender" => t.start = 1
    BY <2>1, <2>2, <2>3, <2>4
  <2>5. t.port = p /\ t.peer \in {Client, Elsewhere}
    BY <1>4, <2>1
  <2> QED
    BY <2>4, <2>5 DEF ServerEndTrue
<1>7. ASSUME NEW a \in net' PROVE a \in net \/ DatagramTrue(a, job, cSession, sessions')
  <2>1. \/ a \in net
        \/ a \in UndecodedErrors(m) \cup before
        \/ a \in step.sends
    BY <1>0, <1>7 DEF Routed, Taken
  <2>2. a \in UndecodedErrors(m) => a.op = "ERROR"
    BY ErrorFields DEF UndecodedErrors, sendErrorMsg
  <2>3. ASSUME a \in before, a.op # "ERROR" PROVE DatagramTrue(a, job, cSession, sessions')
    <3>1. /\ a.op = "OACK" /\ a.src = p /\ a.dst = s.peer /\ s.start = 0
          /\ SameValues(setOptionsFromMap(a.options), s.options)
      BY <1>1, <2>3 DEF ServesWell
    <3> QED
      BY <1>3, <1>4, <3>1, PortsApart
         DEF DatagramTrue, RequestTrue, AnswerTrue, SessionTrue, SourceTrue
  <2>4. a \in Current(t) => DatagramTrue(a, job, cSession, sessions')
    BY <1>3, <1>4, ServerSends
  <2> QED
    BY <1>4, <2>1, <2>2, <2>3, <2>4, ErrorsTrue
<1>8. \A q \in ServerPorts : ServerEndTrue(sessions'[q], q, job, cSession)
  BY <1>3, <1>6 DEF FitInv
<1> QED
  BY <1>5, <1>7, <1>8, ServerStepTrue

\* A session of the server is given its first block, or the ACK of the OACK,
\* by the client's session that talks to it.
LEMMA FitServerSession ==
  ASSUME TypeOK, FitInv, UNCHANGED <<job, clientVars>>, NEW p \in ServerPorts,
         (\E m \in net : SessionHears(p, m)) \/ SessionRepeats(p) \/ SessionEnds(p)
  PROVE  FitInv'
<1> DEFINE s == sessions[p]
<1>t. s \in Session /\ s # NoSession
  BY ServerSessionSteps
<1>0. PICK step \in StepsOf(s) : ServerTakes(p, step)
  BY ServerSessionSteps
<1> DEFINE t == step.session
<1>1. /\ sessions'[p] = t
      /\ \A q \in ServerPorts \ {p} : sessions'[q] = sessions[q]
      /\ \A a \in net' : a \in net \/ a \in step.sends
  BY <1>0 DEF TypeOK, ServerTypeOK, ServerTakes, SessionBecomes
<1>2. ServerEndTrue(s, p, job, cSession)
  BY DEF FitInv
<1>p. \/ t.peer = s.peer /\ t.count = s.count
      \/ \E m \in net : m.dst = p /\ Expected(s, m) /\ t.peer = m.src /\ t.count = 1
  BY <1>0 DEF ServerTakes, Follows, Stays
<1>3. s.port = p /\ s.peer \in {Client, Elsewhere} /\ s.peer # NoEndpoint
  BY <1>t, <1>2, PortsApart DEF ServerEndTrue
<1>4. /\ t \in Session /\ t # NoSession
      /\ t.port = p /\ t.role = s.role /\ t.start = s.start /\ t.options = s.options
      /\ \A a \in step.sends : a.op = "ERROR" \/ a \in Current(t)
  BY <1>3, NoSessionIsNone DEF StepsOf, OutcomeType, SameSession
<1> HIDE DEF s, t
<1>5. /\ t.peer = s.peer
      /\ s.count = 1 => t.count = 1
  BY <1>3, <1>p DEF Expected, Foreign
<1>6. Kept(cSession, cSession, sessions, sessions')
  <2>1. SameEnd(s, t)
    BY <1>3, <1>4, <1>5 DEF SameEnd
  <2>2. SameEnd(sessions[p], sessions'[p])
    BY <1>1, <2>1 DEF s
  <2> QED
    BY <1>1, <2>2, KeptElsewhere
<1>7. \A a \in net' : a \in net \/ DatagramTrue(a, job, cSession, sessions')
  <2>1. \A a \in Current(t) : DatagramTrue(a, job, cSession, sessions')
    BY <1>1, <1>4, ServerSends
  <2> QED
    BY <1>1, <1>4, <2>1, ErrorsTrue
<1>8. ServerEndTrue(t, p, job, cSession)
  <2>1. s.peer = Client => t.count = s.count \/ TalksTo(cSession, p)
    <3> SUFFICES ASSUME NEW m \in net, m.dst = p, Expected(s, m), s.peer = Client
                 PROVE  TalksTo(cSession, p)
      BY <1>p
    <3>1. m.src = Client /\ m.op \in {"DATA", "ACK"} /\ DatagramTrue(m, job, cSession, sessions)
      BY <1>3 DEF Expected, Foreign, FitInv
    <3> QED
      BY <3>1 DEF DatagramTrue, AnswerTrue
  <2> QED
    BY <1>t, <1>2, <1>4, <1>5, <2>1 DEF ServerEndTrue
<1>9. \A q \in ServerPorts : ServerEndTrue(sessions'[q], q, job, cSession)
  BY <1>1, <1>8 DEF FitInv
<1> QED
  BY <1>6, <1>7, <1>9, ServerStepTrue

\* What starts no session sends nothing but errors.
LEMMA FitListening ==
  ASSUME FitInv, UNCHANGED <<job, clientVars>>,
         \/ \E m \in net : \/ HandleThrowingRequest(m) \/ HandleNoRequest(m)
                           \/ HandleFailingSend(m)
         \/ HandleReceiveError
         \/ \E p \in ServerPorts : SessionThrows(p)
  PROVE  FitInv'
<1>1. sessions' = sessions
  BY DEF HandleThrowingRequest, HandleNoRequest, HandleFailingSend, HandleReceiveError,
         SessionThrows, ServerThrows, serverVars
<1>2. \A a \in net' : a \in net \/ a.op = "ERROR"
  BY ErrorFields DEF HandleThrowingRequest, HandleNoRequest, HandleFailingSend,
     HandleReceiveError, SessionThrows, Routed, Taken, UndecodedErrors, sendErrorMsg
<1>3. \A a \in net' : a \in net \/ DatagramTrue(a, job, cSession, sessions)
  BY <1>2, ErrorsTrue
<1>4. Kept(cSession, cSession, sessions, sessions)
  BY DEF Kept, SameEnd
<1> QED
  BY <1>1, <1>3, <1>4, ServerStepTrue DEF FitInv

(***************************************************************************)
(* The invariant, and what follows from it                                 *)
(***************************************************************************)
LEMMA FitInit == Init => FitInv
<1> SUFFICES ASSUME Init PROVE FitInv
  OBVIOUS
<1>1. \A m \in net : DatagramTrue(m, job, cSession, sessions)
  <2>1. \A m \in net : m.src = Elsewhere
    BY RequestAssumption DEF Init, RequestAssumption
  <2> QED
    BY <2>1, PortsApart
       DEF DatagramTrue, RequestTrue, AnswerTrue, SessionTrue, SourceTrue
<1>2. Waiting(oackWait) = {}
  BY DEF Init, ClientInit, NoWait, Waiting
<1>3. \A p \in ServerPorts : ServerEndTrue(sessions[p], p, job, cSession)
  BY DEF Init, ServerInit, ServerEndTrue
<1>4. ClientEndTrue(cSession, job, sessions)
  BY DEF Init, ClientInit, ClientEndTrue
<1> QED
  BY <1>1, <1>2, <1>3, <1>4 DEF FitInv

LEMMA FitStep == TypeOK /\ ClientTruth /\ FitInv /\ [Next]_vars => FitInv'
<1> SUFFICES ASSUME TypeOK, ClientTruth, FitInv, [Next]_vars PROVE FitInv'
  OBVIOUS
<1>1. CASE ClientMoves /\ UNCHANGED <<job, serverVars>>
  BY <1>1, FitStarts, FitWaits, FitOack, FitPlainly, FitWithout, FitSession
     DEF ClientMoves, ClientHandler
<1>2. CASE ServerMoves /\ UNCHANGED <<job, clientVars>>
  BY <1>2, FitRequest, FitServerSession, FitListening DEF ServerMoves
<1>3. CASE UNCHANGED vars
  BY <1>3 DEF vars, clientVars, serverVars, FitInv
<1> QED
  BY <1>1, <1>2, <1>3, StepOfOneProgram

LEMMA FitAlways == Spec => []FitInv
  BY InitType, StepType, ClientTruthInit, ClientTruthStep, FitInit, FitStep, PTL DEF Spec

\* Whatever is lost, reordered or duplicated, whatever other hosts send, and
\* however the server takes the options: the session of the client and the one
\* of the server that it talks to are constructed as one of the modes in which
\* Transfer starts, and agree on block size and timeout, but for a writer that
\* has taken the ACK 0 for the answer to its options.
THEOREM SessionsFit == Spec => []SessionsFitTransfer
<1>1. FitInv => SessionsFitTransfer
  <2> SUFFICES ASSUME FitInv, Paired PROVE SessionsFitTransfer
    BY DEF SessionsFitTransfer
  <2>1. EndsFit(cSession, Partner)
    BY DEF FitInv, ClientEndTrue, Paired, Partner
  <2> QED
    BY <2>1 DEF EndsFit, SessionsFitTransfer, Ack0TakenForAnswer
<1> QED
  BY <1>1, FitAlways, PTL

\* Of the sessions that a repeated request has started for the same file only
\* the client's partner is ever given a block.
THEOREM OneIsGivenBlocks == Spec => []OneWriter
<1>1. TypeOK /\ FitInv => OneWriter
  <2> SUFFICES ASSUME TypeOK, FitInv,
                      NEW p \in ServerPorts, NEW q \in ServerPorts,
                      \A r \in {p, q} : /\ sessions[r] # NoSession
                                       /\ sessions[r].role = "receiver"
                                       /\ sessions[r].peer = Client
                                       /\ sessions[r].count > 0
               PROVE  p = q
    BY DEF OneWriter
  <2>1. ASSUME NEW r \in {p, q} PROVE TalksTo(cSession, r)
    <3>1. sessions[r] \in Session /\ sessions[r].count = 1
      BY DEF TypeOK, ServerTypeOK, Session
    <3>2. ServerEndTrue(sessions[r], r, job, cSession)
      BY DEF FitInv
    <3> QED
      BY <3>1, <3>2 DEF ServerEndTrue
  <2> QED
    BY <2>1 DEF TalksTo
<1> QED
  BY <1>1, InitType, StepType, FitAlways, PTL DEF Spec
=============================================================================
