----------------------------- MODULE Negotiation ------------------------------
(***************************************************************************)
(* One client with one job, the server, the network between them and other *)
(* hosts that send to either of them: from start() to the two sessions of  *)
(* a transfer, or to the callback without one.                             *)
(***************************************************************************)
EXTENDS TftpClient, TftpServer

vars == <<job, net, clientVars, serverVars>>

Init ==
  /\ job \in Jobs
  /\ net \in SUBSET OtherDatagrams
  /\ ClientInit
  /\ ServerInit

ClientStep(A) == A /\ UNCHANGED <<job, serverVars>>
ServerStep(A) == A /\ UNCHANGED <<job, clientVars>>

Next ==
  \/ ClientStep(cCannotSend) \/ ClientStep(cStartPlain) \/ ClientStep(cStartWithOptions)
  \/ ClientStep(cOackTimeout) \/ ClientStep(cOackAccepted) \/ ClientStep(cOackMisfit)
  \/ ClientStep(cOackThrows) \/ ClientStep(cOackRefused)
  \/ ClientStep(cAnsweredPlainly) \/ ClientStep(cNotAnswered)
  \/ ClientStep(cExpire) \/ ClientStep(cReceiveFails)
  \/ \E m \in net : ClientStep(cArrive(m))
  \/ \E m \in net : ClientStep(cSessionHears(m))
  \/ ClientStep(cSessionRepeats) \/ ClientStep(cSessionEnds)
  \/ \E m \in net, p \in ServerPorts : ServerStep(HandlePlainRequest(m, p))
  \/ \E m \in net, p \in ServerPorts : ServerStep(HandleRequestWithOptions(m, p))
  \/ \E m \in net, p \in ServerPorts : ServerStep(HandleRefusedRequest(m, p))
  \/ \E m \in net : ServerStep(HandleThrowingRequest(m))
  \/ \E m \in net : ServerStep(HandleNoRequest(m))
  \/ \E m \in net : ServerStep(HandleFailingSend(m))
  \/ ServerStep(HandleReceiveError)
  \/ \E p \in ServerPorts, m \in net : ServerStep(SessionHears(p, m))
  \/ \E p \in ServerPorts : ServerStep(SessionRepeats(p))
  \/ \E p \in ServerPorts : ServerStep(SessionEnds(p)) \/ ServerStep(SessionThrows(p))

Spec == Init /\ [][Next]_vars

(***************************************************************************)
(* Fairness: main() calls start() and runs the handlers that are queued; a *)
(* timer that is not cancelled expires; a session that waits with a timer, *)
(* and whose sends succeed, ends, whatever its receives do (ReceiverEnds,  *)
(* SenderEndsOnceStarted).  Datagrams may be lost.                         *)
(***************************************************************************)
MustEnd(s) == s # NoSession /\ Timed(s) /\ ~s.stranded

FairSpec ==
  /\ Spec
  /\ WF_vars(ClientStep(cCannotSend \/ cStartPlain \/ cStartWithOptions))
  /\ WF_vars(ClientStep(ClientHandler))
  /\ WF_vars(ClientStep(cExpire))
  /\ WF_vars(ClientStep(cSessionEnds /\ MustEnd(cSession)))
  /\ \A p \in ServerPorts : WF_vars(ServerStep(SessionEnds(p) /\ MustEnd(sessions[p])))

(***************************************************************************)
(* Invariants                                                              *)
(***************************************************************************)

\* Every variable has its type.
TypeOK ==
  /\ job \in Jobs
  /\ net \subseteq Datagram
  /\ ClientTypeOK
  /\ ServerTypeOK

\* The session of the server that the client's session talks to.
Paired == cSession # NoSession /\ cSession.peer \in ServerPorts
Partner == sessions[cSession.peer]

\* Which ends go together, by what they were constructed with: the server's
\* role and start, the client's role, whether it knew its partner, and start.
\* These are the modes in which Transfer starts.
TransferModes ==
  { <<"sender",   1, "receiver", FALSE, 0>>,    \* RRQ
    <<"sender",   0, "receiver", TRUE,  0>>,    \* RRQ_OACK
    <<"sender",   1, "receiver", TRUE,  1>>,    \* RRQ_DATA1
    <<"receiver", 0, "sender",   FALSE, 0>>,    \* WRQ
    <<"receiver", 0, "sender",   TRUE,  1>> }   \* WRQ_OACK, WRQ_ACK0

SameValues(v, w) == BlocksizeToUse(v) = BlocksizeToUse(w) /\ TimeoutToUse(v) = TimeoutToUse(w)

\* The receiver's ACK 0 has overtaken the OACK of a write request, or the OACK
\* is lost: the client has taken the ACK for the answer.
Ack0TakenForAnswer ==
  /\ cSession.role = "sender" /\ cSession.knew
  /\ cSession.options = NoOptions /\ Partner.options # NoOptions

\* Whatever is lost, reordered or duplicated, and however the server refuses
\* the options, the two ends that find each other are constructed as one of
\* the modes of Transfer and use the same block size and timeout, which is
\* what Transfer assumes.  The exception is an ACK 0 taken for the answer
\* (NegotiatedValues in NegotiationClaims).
SessionsFitTransfer ==
  Paired =>
    /\ Partner # NoSession /\ Partner.peer = Client
    /\ <<Partner.role, Partner.start, cSession.role, cSession.knew, cSession.start>>
         \in TransferModes
    /\ SameValues(cSession.options, Partner.options) \/ Ack0TakenForAnswer

\* A request that arrives twice starts two sessions that append to the same
\* file (std::ios_base::app in HandleSubRequest_WRQ): only one of them is ever
\* given a block of it.
OneWriter ==
  \A p, q \in ServerPorts :
    (\A r \in {p, q} : /\ sessions[r] # NoSession
                       /\ sessions[r].role = "receiver"
                       /\ sessions[r].peer = Client
                       /\ sessions[r].count > 0) => p = q

\* mTransfer_running tells whether there is a session that has not ended, the
\* one that ends within start() included (on_sender_done, on_receiver_done).
\* Only an exception leaves it set when the client is gone.
RunningMeansLiveSession ==
  loop \in {"looping", "done"} =>
    (mTransfer_running <=> cSession # NoSession /\ cSession.running)

\* The lists hold the sessions that have not ended, and nothing else: what is
\* never removed keeps its socket for ever (handleOperationFinished).
ListsHoldLiveSessions ==
  LET Live(role) == {p \in ServerPorts : /\ sessions[p] # NoSession
                                         /\ sessions[p].role = role
                                         /\ sessions[p].running}
  IN  mSenderList = Live("sender") /\ mReceiverList = Live("receiver")

\* The reader of a file has no room for it, or the writer's announcement did
\* not come back as it was: an int holds no 2 GiB (the empty branches in
\* TftpClient::start).  Another host may say the same of any file.
Misfits ==
  /\ ~isDefault(job.options)
  /\ \/ IF job.op = "RRQ" THEN atoi(job.size) > job.space ELSE atoi(job.size) # job.size
     \/ \E m \in OtherDatagrams :
          /\ m.op = "OACK" /\ m.dst = Client
          /\ SetOptionsOk(m.options) /\ ~Suits(setOptionsFromMap(m.options))

\* main() loops, and nothing is bound to happen: no handler is queued, no timer
\* runs, there is no session.  A receive alone waits for what may never come.
Idle ==
  /\ loop = "looping" /\ oackWait.handlers = << >> /\ ~oackWait.armed
  /\ ~(cSession # NoSession /\ cSession.running)

\* main() is never left to spin without a session and without a callback,
\* except by the size of a file: the wait for the OACK has its timer or the
\* handler of one of its two operations until it has led to one or the other.
\* What becomes of a session is left to JobEnds.
NeverSpins == Idle => Misfits

\* While a transfer runs nothing is outstanding on the socket and the timer of
\* the wait that began it: only an expiry that was queued behind the answer,
\* which cancel() does not take back, can still end the transfer, by an
\* exception (timeout_no_oack.cancel() in the handlers of TftpClient::start).
WaitIsOverInTransfer ==
  mTransfer_running => ~oackWait.armed /\ ~oackWait.receiving

(***************************************************************************)
(* The negotiation implements Agreement.                                   *)
(***************************************************************************)
ValuesOf(s) == <<BlocksizeToUse(s.options), TimeoutToUse(s.options)>>

\* Sessions that serve other hosts do not count.
Offered ==
  [p \in ServerPorts |->
     IF sessions[p] # NoSession /\ sessions[p].peer = Client
     THEN [role |-> sessions[p].role, values |-> ValuesOf(sessions[p])]
     ELSE NoSession]

Own ==
  IF cSession = NoSession THEN NoSession
  ELSE [role |-> cSession.role, values |-> ValuesOf(cSession), partner |-> cSession.peer]

Outcome ==
  CASE loop \in {"ready", "looping"}     -> "open"
    [] loop \in {"caught", "terminated"} -> "thrown"
    [] OTHER -> CASE cResult = "ERR_NOERR"           -> "success"
                  [] cResult = "ERR_OPT_NEGOTIATION" -> "refused"
                  [] OTHER                           -> "failed"

AG == INSTANCE Agreement WITH
        Ports <- ServerPorts,
        NoPartner <- NoEndpoint,
        Defaults <- ValuesOf([options |-> NoOptions]),
        offered <- Offered,
        own <- Own,
        outcome <- Outcome

\* No session is made anew, changed or given another partner, the two that find
\* each other agree when they do and ever after, and the callback is called
\* once, with a code that tells whether there was a session.
ImplementsAgreement == AG!Spec

(***************************************************************************)
(* Liveness                                                                *)
(***************************************************************************)
AwaitsAck0(s) == s # NoSession /\ s.running /\ ~Timed(s)

\* A session that never calls back, because a send has failed: the handlers of
\* async_send_to have no branch for an error (sendNextBlock, handleACKsent).
Stranded(s) == s # NoSession /\ s.running /\ s.stranded

\* Every job comes to its end, with the callback or an exception, whatever is
\* lost and whatever receives do.  Not so a client whose session waits for
\* ACK 0 without a timer or is stranded by a send, nor one whose file does not
\* fit.
JobEnds ==
  <>(loop \in {"done", "caught", "terminated"}
       \/ AwaitsAck0(cSession) \/ Stranded(cSession) \/ Misfits)

\* Every session leaves its list in the end: it is not kept by a client that
\* has gone away, unless it waits for the ACK 0 that answers an OACK, or is
\* stranded by a send.
SessionsLeaveTheirLists ==
  \A p \in ServerPorts :
    <>[](p \notin mSenderList \cup mReceiverList
           \/ AwaitsAck0(sessions[p]) \/ Stranded(sessions[p]) \/ serving = "terminated")
=============================================================================
