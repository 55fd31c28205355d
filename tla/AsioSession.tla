---------------------------- MODULE AsioSession -----------------------------
(***************************************************************************)
(* The boost::asio objects that Tftpsender and TftpReceiver are built on,  *)
(* as those classes use them: one UDP socket, one deadline_timer, and the  *)
(* completion handlers waiting on the strand both share.  Handlers run one *)
(* at a time, in the order in which their operations completed.            *)
(*                                                                         *)
(* Two facts of asio matter here.  Cancelling an operation that has        *)
(* already completed has no effect: its handler is in the queue and runs   *)
(* as if nothing had happened.  And socket::cancel() and send_to() throw   *)
(* on a socket that is not open, while the async_ operations report the    *)
(* error to their handler.                                                 *)
(*                                                                         *)
(* Handlers that do nothing are not queued: waits that end in              *)
(* operation_aborted, sends of error messages, and sends that failed.      *)
(***************************************************************************)
EXTENDS TftpWire

\* "start" is the call of start(); "sent" the completion of async_send_to;
\* "datagram", "aborted" and "failed" are the completions of
\* async_receive_from; "timeout" is the expiry of the timer.
HandlerKinds == {"start", "sent", "datagram", "aborted", "failed", "timeout"}

Handler == [kind : HandlerKinds, msg : Datagram]

NoMsg == ErrorMessage(Stranger, NoEndpoint, 0)

Session ==
  [open      : BOOLEAN,        \* the socket is open
   receiving : BOOLEAN,        \* an async_receive_from is outstanding
   armed     : BOOLEAN,        \* an async_wait is outstanding
   handlers  : Seq(Handler)]   \* completed, not yet run

\* A session with one handler to run: start(), after a constructor.
FreshSession(k) ==
  [open |-> TRUE, receiving |-> FALSE, armed |-> FALSE,
   handlers |-> <<[kind |-> k, msg |-> NoMsg]>>]

NewSession == FreshSession("start")

Queue(io, k, m) ==
  [io EXCEPT !.handlers = Append(@, [kind |-> k, msg |-> m])]

\* The session once the handler at the head of the queue has been taken off.
Running(io) == [io EXCEPT !.handlers = Tail(@)]

\* expires_from_now(..) and async_wait(..); cancel()
ArmTimer(io)    == [io EXCEPT !.armed = TRUE]
CancelTimer(io) == [io EXCEPT !.armed = FALSE]

AsyncReceive(io) ==
  IF io.open THEN [io EXCEPT !.receiving = TRUE] ELSE Queue(io, "failed", NoMsg)

\* The outstanding receive, if there is one, completes with operation_aborted.
CancelSocket(io) ==
  IF io.receiving THEN Queue([io EXCEPT !.receiving = FALSE], "aborted", NoMsg) ELSE io

CloseSocket(io) == [CancelSocket(io) EXCEPT !.open = FALSE]

\* Whether a send can succeed (TRUE) or fail (FALSE).
SendOutcomes(io) ==
  IF ~io.open THEN {FALSE} ELSE IF "send" \in Faults THEN BOOLEAN ELSE {TRUE}

\* The datagrams that leave the host when these are sent.
Leaving(io, msgs) == IF io.open THEN {m \in msgs : m.dst # NoEndpoint} ELSE {}

\* Completions that the environment decides on.
Arrives(io, m)   == Queue([io EXCEPT !.receiving = FALSE], "datagram", m)
ReceiveFails(io) == Queue([io EXCEPT !.receiving = FALSE], "failed", NoMsg)
TimerExpires(io) == Queue([io EXCEPT !.armed = FALSE], "timeout", NoMsg)

HandlerWaits(io, kinds) == io.handlers # << >> /\ Head(io.handlers).kind \in kinds

\* The kinds of a handler that continues the session's chain of operations:
\* send, then receive, then send again.
ChainKinds == HandlerKinds \ {"timeout"}

TimeoutQueued(io) == \E i \in DOMAIN io.handlers : io.handlers[i].kind = "timeout"
=============================================================================
