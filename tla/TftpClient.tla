------------------------------ MODULE TftpClient ------------------------------
(***************************************************************************)
(* TftpClient and the loop in main() that runs it: the request, the wait   *)
(* for an OACK with its timer, the session that follows, and the callback. *)
(* One action per handler and outcome.                                     *)
(*                                                                         *)
(* The wait is one receive and one timer on one strand: oackWait holds     *)
(* which of the two are outstanding, and the handlers of those that have   *)
(* completed, in order.                                                    *)
(***************************************************************************)
EXTENDS RequestWire, Sequences

VARIABLES
  oackWait,          \* [receiving, armed, handlers]
  cSession,          \* the session that start() or the wait constructed
  mTransfer_running,
  cResult,           \* what mTransferDoneCallback was called with
  loop               \* main(): "ready", "looping", or how it ended

clientVars == <<oackWait, cSession, mTransfer_running, cResult, loop>>

\* "caught" is a runtime_error that main() reports, "terminated" any other
\* exception, "done" the callback's result reported.
LoopStates == {"ready", "looping", "done", "caught", "terminated"}

NoWait == [receiving |-> FALSE, armed |-> FALSE, handlers |-> << >>]

ClientInit ==
  /\ oackWait = NoWait
  /\ cSession = NoSession
  /\ mTransfer_running = FALSE
  /\ cResult = NoResult
  /\ loop = "ready"

\* "INVALID" is a job that start() refuses: no such request, no address.
Request ==
  LET tsize == IF job.op = "RRQ" THEN 0 ELSE job.size
      values == IF isDefault(job.options) THEN job.options
                ELSE [job.options EXCEPT !["tsize"] = tsize]
  IN  RequestMessage(Client, job.op, getOptionsAsMap(values))

(***************************************************************************)
(* Steps that several handlers share                                       *)
(***************************************************************************)

\* An exception leaves the handler, or start().
Throws(how) ==
  /\ loop' = how
  /\ UNCHANGED <<cSession, mTransfer_running, cResult>>

\* on_sender_done, on_receiver_done: the callback ends the loop.
OnDone(code) ==
  /\ mTransfer_running' = FALSE
  /\ cResult' = code
  /\ loop' = "done"

RunsAfterStart(step) ==   \* mutant: mTransfer_running is set after start()
  /\ mTransfer_running' = TRUE
  /\ cResult' = IF step.session.running THEN cResult ELSE step.result
  /\ loop' = IF step.session.running THEN "looping" ELSE "done"

\* mTransfer_running is set, then start() is called, which ends the session
\* at once when the file cannot be opened.
RunsFromStart(step) ==
  \/ ~step.session.running /\ OnDone(step.result)
  \/ /\ step.session.running
     /\ mTransfer_running' = TRUE
     /\ loop' = "looping"
     /\ UNCHANGED cResult

StartSession(s, before) ==
  \E step \in Starts(s) :
    /\ cSession' = step.session
    /\ net' = net \cup Routed(before \cup step.sends)
    /\ RunsFromStart(step)

(***************************************************************************)
(* start()                                                                 *)
(***************************************************************************)
cCannotSend ==
  /\ loop = "ready"
  /\ job.op = "INVALID" \/ FALSE \in MaySend
  /\ Throws("caught")
  /\ UNCHANGED <<oackWait, net>>

\* Without options a session waits for the answer itself.
cStartPlain ==
  /\ loop = "ready" /\ job.op # "INVALID" /\ isDefault(job.options)
  /\ UNCHANGED oackWait
  /\ StartSession(IF job.op = "RRQ" THEN ReceiverFor(Client, NoEndpoint, 0, NoOptions)
                  ELSE SenderFor(Client, NoEndpoint, 0, NoOptions),
                  {Request})

cStartWithOptionsUntimed ==   \* mutant: timeout_no_oack is not started
  /\ loop = "ready" /\ job.op # "INVALID" /\ ~isDefault(job.options)
  /\ oackWait' = [NoWait EXCEPT !.receiving = TRUE]
  /\ net' = net \cup Routed({Request})
  /\ loop' = "looping"
  /\ UNCHANGED <<cSession, mTransfer_running, cResult>>

cStartWithOptions ==
  /\ loop = "ready" /\ job.op # "INVALID" /\ ~isDefault(job.options)
  /\ oackWait' = [NoWait EXCEPT !.receiving = TRUE, !.armed = TRUE]
  /\ net' = net \cup Routed({Request})
  /\ loop' = "looping"
  /\ UNCHANGED <<cSession, mTransfer_running, cResult>>

(***************************************************************************)
(* The wait for the OACK                                                   *)
(***************************************************************************)
Completed(wait, kind, m) ==
  [wait EXCEPT !.handlers = Append(@, [kind |-> kind, msg |-> m])]

NoMsg == ErrorTo(Elsewhere, NoEndpoint, 0)

cArrive(m) ==
  /\ loop = "looping" /\ oackWait.receiving /\ m \in net /\ m.dst = Client
  /\ oackWait' = Completed([oackWait EXCEPT !.receiving = FALSE], "datagram", m)
  /\ net' \in Taken(m)
  /\ UNCHANGED <<cSession, mTransfer_running, cResult, loop>>

cReceiveFails ==
  /\ "recv" \in RequestFaults /\ loop = "looping" /\ oackWait.receiving
  /\ oackWait' = Completed([oackWait EXCEPT !.receiving = FALSE], "failed", NoMsg)
  /\ UNCHANGED <<cSession, mTransfer_running, cResult, loop, net>>

cExpire ==
  /\ loop = "looping" /\ oackWait.armed
  /\ oackWait' = Completed([oackWait EXCEPT !.armed = FALSE], "timeout", NoMsg)
  /\ UNCHANGED <<cSession, mTransfer_running, cResult, loop, net>>

Waits(kinds) ==
  loop = "looping" /\ oackWait.handlers # << >> /\ Head(oackWait.handlers).kind \in kinds

Received == Head(oackWait.handlers).msg

\* Expiry of timeout_no_oack.  cancel() throws on a socket that has been
\* moved into a session.
cOackTimeout ==
  /\ Waits({"timeout"})
  /\ LET wait == [oackWait EXCEPT !.handlers = Tail(@)] IN
     \/ /\ cSession # NoSession
        /\ oackWait' = wait
        /\ Throws("caught")
     \/ /\ cSession = NoSession
        /\ oackWait' = IF wait.receiving
                       THEN Completed([wait EXCEPT !.receiving = FALSE], "aborted", NoMsg)
                       ELSE wait
        /\ UNCHANGED <<cSession, mTransfer_running, cResult, loop>>
  /\ UNCHANGED net

AnsweredTimed(ops) ==   \* mutant: timeout_no_oack goes on
  /\ Waits({"datagram"}) /\ Received.op \in ops
  /\ oackWait' = [oackWait EXCEPT !.handlers = Tail(@)]

\* The handler of the receive begins with timeout_no_oack.cancel().
Answered(ops) ==
  /\ Waits({"datagram"}) /\ Received.op \in ops
  /\ oackWait' = [oackWait EXCEPT !.armed = FALSE, !.handlers = Tail(@)]

OackValues == setOptionsFromMap(Received.options)

\* A reader must have the room, a writer the file that is announced.
Suits(values) ==
  values["tsize"] # Unset =>
    IF job.op = "RRQ" THEN values["tsize"] <= job.space ELSE values["tsize"] = job.size

Fits == Suits(OackValues)

cOackAccepted ==
  /\ Answered({"OACK"}) /\ SetOptionsOk(Received.options) /\ Fits
  /\ StartSession(IF job.op = "RRQ"
                  THEN ReceiverFor(Client, Received.src, 0, OackValues)
                  ELSE SenderFor(Client, Received.src, 1, OackValues),
                  {})

\* The branch is empty: no session, no callback.
cOackMisfit ==
  /\ Answered({"OACK"}) /\ SetOptionsOk(Received.options) /\ ~Fits
  /\ UNCHANGED <<cSession, mTransfer_running, cResult, loop, net>>

cOackThrows ==
  /\ Answered({"OACK"}) /\ SetOptionsThrows(Received.options)
  /\ Throws("terminated")
  /\ UNCHANGED net

cOackRefused ==
  /\ Answered({"OACK"}) /\ SetOptionsRefuses(Received.options)
  /\ \E sent \in MaySend :
       \/ /\ sent
          /\ net' = net \cup Routed({ErrorTo(Client, Received.src, ERR_OPT_NEGOTIATION)})
          /\ OnDone("ERR_OPT_NEGOTIATION")
          /\ UNCHANGED cSession
       \/ /\ ~sent
          /\ Throws("caught")
          /\ UNCHANGED net

TheAnswer == IF job.op = "RRQ" THEN "DATA" ELSE "ACK"

\* The server has ignored the options.  A receiver is constructed with DATA 1,
\* which throws bad_weak_ptr when the output cannot be opened.
cAnsweredPlainly ==
  /\ Answered({TheAnswer})
  /\ \/ /\ job.op = "RRQ" /\ ~job.writable
        /\ Throws("terminated")
        /\ UNCHANGED net
     \/ /\ job.op = "RRQ" /\ job.writable
        /\ StartSession(ReceiverFor(Client, Received.src, 1, NoOptions), {})
     \/ /\ job.op = "WRQ"
        /\ StartSession(SenderFor(Client, Received.src, 1, NoOptions), {})

cNotAnsweredSilent ==   \* mutant: without the callback
  /\ \/ Answered({"DATA", "ACK", "ERROR", "RUNT"} \ {TheAnswer})
     \/ /\ Waits({"aborted", "failed"})
        /\ oackWait' = [oackWait EXCEPT !.armed = FALSE, !.handlers = Tail(@)]
  /\ UNCHANGED <<cSession, mTransfer_running, cResult, loop, net>>

\* Anything else, an error or nothing at all.
cNotAnswered ==
  /\ \/ Answered({"DATA", "ACK", "ERROR", "RUNT"} \ {TheAnswer})
     \/ /\ Waits({"aborted", "failed"})
        /\ oackWait' = [oackWait EXCEPT !.armed = FALSE, !.handlers = Tail(@)]
  /\ OnDone("ERR_OPT_NEGOTIATION")
  /\ UNCHANGED <<cSession, net>>

ClientHandler ==
  \/ cOackTimeout \/ cOackAccepted \/ cOackMisfit \/ cOackThrows \/ cOackRefused
  \/ cAnsweredPlainly \/ cNotAnswered

(***************************************************************************)
(* The client's session                                                    *)
(***************************************************************************)
cSessionRuns == loop = "looping" /\ cSession # NoSession /\ cSession.running

\* A session that ends calls back; main() reports what it throws.
cSessionBecomes(step) ==
  /\ cSession' = step.session
  /\ \/ step.result = NoResult /\ UNCHANGED <<mTransfer_running, cResult, loop>>
     \/ step.result = Thrown /\ loop' = "caught" /\ UNCHANGED <<mTransfer_running, cResult>>
     \/ step.result \in Results /\ OnDone(step.result)
  /\ UNCHANGED oackWait

cSessionHears(m) ==
  /\ cSessionRuns /\ ~cSession.stranded /\ m \in net /\ m.dst = Client
  /\ \E step \in Hears(cSession, m), left \in Taken(m) :
       cSessionBecomes(step) /\ net' = left \cup Routed(step.sends)

cSessionRepeats ==
  /\ cSessionRuns /\ ~cSession.stranded /\ Timed(cSession)
  /\ \E step \in Repeats(cSession, {}) :
       cSessionBecomes(step) /\ net' = net \cup Routed(step.sends)

cSessionEnds ==
  /\ cSessionRuns
  /\ \E step \in Endings(cSession) :
       cSessionBecomes(step) /\ net' = net \cup Routed(step.sends)

WaitType ==
  [receiving : BOOLEAN, armed : BOOLEAN,
   handlers : Seq([kind : {"datagram", "aborted", "failed", "timeout"}, msg : Datagram])]

ClientTypeOK ==
  /\ oackWait \in WaitType
  /\ cSession \in Session \cup {NoSession}
  /\ mTransfer_running \in BOOLEAN
  /\ cResult \in Results \cup {NoResult}
  /\ loop \in LoopStates
=============================================================================
