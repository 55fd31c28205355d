------------------------------ MODULE TftpServer ------------------------------
(***************************************************************************)
(* TftpServer: the listening socket, the requests, and the sessions they   *)
(* start.  One action per outcome of HandleRequest, each with the whole of *)
(* the handler: the errors it sends, the options, the session it starts.   *)
(*                                                                         *)
(* Only one receive is outstanding on the listening socket, and all the    *)
(* handler uses of the server's state is what that receive has filled in,  *)
(* so a datagram arrives and is handled in one step.  main() catches no    *)
(* exception of the server: one that leaves a handler ends the program.    *)
(***************************************************************************)
EXTENDS RequestWire

VARIABLES
  serving,        \* "accepting", "deaf" (no receive any more), "terminated"
  sessions,       \* by port
  mSenderList,    \* ports of the senders that are listed
  mReceiverList

serverVars == <<serving, sessions, mSenderList, mReceiverList>>

ServerInit ==
  /\ serving = "accepting"
  /\ sessions = [p \in ServerPorts |-> NoSession]
  /\ mSenderList = {}
  /\ mReceiverList = {}

\* Throws out of the handler: run() ends, and with it every session.
ServerThrows ==
  /\ serving' = "terminated"
  /\ UNCHANGED <<sessions, mSenderList, mReceiverList>>

(***************************************************************************)
(* Requests                                                                *)
(***************************************************************************)
Comes(m, ops) ==
  /\ serving = "accepting"
  /\ m \in net /\ m.dst = Listen /\ m.op \in ops

sendErrorMsg(m, code) == ErrorTo(Listen, m.src, code)

\* A request that cannot be decoded to its end is answered with an error, and
\* handled by its opcode and the options before that point nevertheless.
UndecodedErrors(m) == IF m.whole THEN {} ELSE {sendErrorMsg(m, ERR_ILLEGAL_OP)}

\* RRQ: a tsize is answered with the size of the file.
Announced(op, values) ==
  IF op = "RRQ" /\ values["tsize"] # Unset THEN [values EXCEPT !["tsize"] = job.size]
  ELSE values

SessionFor(m, p, ack, options) ==
  IF m.op = "RRQ" THEN SenderFor(p, m.src, ack, options)
  ELSE ReceiverFor(p, m.src, 0, options)

ListAfterStart(s, after) ==   \* mutant: push_back() after start()
  /\ mSenderList' = mSenderList \cup IF s.role = "sender" THEN {s.port} ELSE {}
  /\ mReceiverList' = mReceiverList \cup IF s.role = "receiver" THEN {s.port} ELSE {}

\* push_back(), then start(), which may end the session and unlist it at once.
List(s, after) ==
  LET listed == IF after.running THEN {s.port} ELSE {} IN
  /\ mSenderList' = mSenderList \cup IF s.role = "sender" THEN listed ELSE {}
  /\ mReceiverList' = mReceiverList \cup IF s.role = "receiver" THEN listed ELSE {}

StartsSession(m, s, before) ==
  \E left \in Taken(m), step \in Starts(s) :
    /\ net' = left \cup Routed(UndecodedErrors(m) \cup before \cup step.sends)
    /\ sessions' = [sessions EXCEPT ![s.port] = step.session]
    /\ List(s, step.session)
    /\ UNCHANGED serving

FreePort(p) == sessions[p] = NoSession

\* getOptVals().empty(): a name that the program does not know is an option too.
NoOptVals(m) == isDefault(m.options) /\ ~m.extra

HandlePlainRequest(m, p) ==
  /\ Comes(m, {"RRQ", "WRQ"}) /\ FreePort(p)
  /\ NoOptVals(m)
  /\ StartsSession(m, SessionFor(m, p, 1, NoOptions), {})

HandleRequestWithOptionsAck1(m, p) ==   \* mutant: a sender does not wait for ACK 0
  /\ Comes(m, {"RRQ", "WRQ"}) /\ FreePort(p)
  /\ ~NoOptVals(m) /\ SetOptionsOk(m.options)
  /\ LET values == setOptionsFromMap(m.options) IN
     StartsSession(m, SessionFor(m, p, 1, values),
       {OptionACKMessage(p, m.src, getOptionsAsMap(Announced(m.op, values)))})

\* wasSetByClient: the OACK leaves from the new socket, and a sender waits for
\* the ACK 0 that answers it; so too when the OACK has nothing to say.
HandleRequestWithOptions(m, p) ==
  /\ Comes(m, {"RRQ", "WRQ"}) /\ FreePort(p)
  /\ ~NoOptVals(m) /\ SetOptionsOk(m.options)
  /\ LET values == setOptionsFromMap(m.options) IN
     StartsSession(m, SessionFor(m, p, 0, values),
       {OptionACKMessage(p, m.src, getOptionsAsMap(Announced(m.op, values)))})

HandleRefusedRequestKeeping(m, p) ==   \* mutant: the session gets the refused values
  /\ Comes(m, {"RRQ", "WRQ"}) /\ FreePort(p)
  /\ SetOptionsRefuses(m.options)
  /\ StartsSession(m, SessionFor(m, p, 1, setOptionsFromMap(m.options)),
                   {sendErrorMsg(m, ERR_OPT_NEGOTIATION)})

\* A value is refused: an error from the listening socket, and a session with
\* the default values all the same.
HandleRefusedRequest(m, p) ==
  /\ Comes(m, {"RRQ", "WRQ"}) /\ FreePort(p)
  /\ SetOptionsRefuses(m.options)
  /\ StartsSession(m, SessionFor(m, p, 1, NoOptions), {sendErrorMsg(m, ERR_OPT_NEGOTIATION)})

\* setOptionsFromMap() throws.
HandleThrowingRequest(m) ==
  /\ Comes(m, {"RRQ", "WRQ"})
  /\ SetOptionsThrows(m.options)
  /\ \E left \in Taken(m) : net' = left \cup Routed(UndecodedErrors(m))
  /\ ServerThrows

\* Too short, or another opcode.
HandleNoRequest(m) ==
  /\ Comes(m, {"RUNT", "OACK", "DATA", "ACK", "ERROR"})
  /\ \E left \in Taken(m) : net' = left \cup Routed({sendErrorMsg(m, ERR_ILLEGAL_OP)})
  /\ UNCHANGED serverVars

\* One of the synchronous sends fails, of an error or of the OACK.
HandleFailingSend(m) ==
  /\ FALSE \in MaySend
  /\ Comes(m, {"RRQ", "WRQ", "RUNT", "OACK", "DATA", "ACK", "ERROR"})
  /\ m.op \in {"RRQ", "WRQ"} => ~m.whole \/ ~NoOptVals(m)
  /\ net' \in Taken(m)
  /\ ServerThrows

\* The receive on the listening socket fails, and is not started again.
HandleReceiveError ==
  /\ "recv" \in RequestFaults /\ serving = "accepting"
  /\ serving' = "deaf"
  /\ UNCHANGED <<sessions, mSenderList, mReceiverList, net>>

(***************************************************************************)
(* Sessions                                                                *)
(***************************************************************************)
SessionRuns(p) ==
  serving # "terminated" /\ sessions[p] # NoSession /\ sessions[p].running

SessionBecomesUnlisted(p, step) ==   \* mutant: only senders are taken off their list
  /\ sessions' = [sessions EXCEPT ![p] = step.session]
  /\ mSenderList' = mSenderList \ IF step.session.running THEN {} ELSE {p}
  /\ serving' = IF step.result = Thrown THEN "terminated" ELSE serving
  /\ UNCHANGED mReceiverList

\* handleOperationFinished() when it has ended; what it throws ends the program.
SessionBecomes(p, step) ==
  /\ sessions' = [sessions EXCEPT ![p] = step.session]
  /\ LET gone == IF step.session.running THEN {} ELSE {p} IN
     /\ mSenderList' = mSenderList \ gone
     /\ mReceiverList' = mReceiverList \ gone
  /\ serving' = IF step.result = Thrown THEN "terminated" ELSE serving

SessionHears(p, m) ==
  /\ SessionRuns(p) /\ ~sessions[p].stranded /\ m \in net /\ m.dst = p
  /\ \E step \in Hears(sessions[p], m), left \in Taken(m) :
       SessionBecomes(p, step) /\ net' = left \cup Routed(step.sends)

SessionRepeats(p) ==
  /\ SessionRuns(p) /\ ~sessions[p].stranded /\ Timed(sessions[p])
  /\ \E step \in Repeats(sessions[p], {}) :
       SessionBecomes(p, step) /\ net' = net \cup Routed(step.sends)

SessionEnds(p) ==
  /\ SessionRuns(p)
  /\ \E step \in Endings(sessions[p]) :
       SessionBecomes(p, step) /\ net' = net \cup Routed(step.sends)

\* A timer of a session that has ended, which had expired by then: its handler
\* cancels a closed socket (what NoneStranded of Transfer leaves possible).
SessionThrows(p) ==
  /\ serving # "terminated"
  /\ sessions[p] # NoSession /\ ~sessions[p].running
  /\ ~StreamBad(sessions[p]) /\ Timed(sessions[p])
  /\ ServerThrows
  /\ UNCHANGED net

ServerTypeOK ==
  /\ serving \in {"accepting", "deaf", "terminated"}
  /\ sessions \in [ServerPorts -> Session \cup {NoSession}]
  /\ mSenderList \subseteq ServerPorts
  /\ mReceiverList \subseteq ServerPorts
=============================================================================
