-------------------------- MODULE NegotiationClaims ---------------------------
(* What comments in the code say of requests and options, and the code does  *)
(* not do.                                                                   *)
EXTENDS MCNegotiation

\* "Then after receiving OPTACK, client sends Data packet 1 with the negotiated
\* values": the two ends of a transfer use the same block size and timeout
\* (HandleSubRequest_WRQ).
NegotiatedValues == Paired => SameValues(cSession.options, Partner.options)

\* "Timeout time in seconds": a session that is given a timeout is given the
\* one that was asked for (TransactionOptionValues::mTimeout).
TimeoutInSeconds ==
  Paired /\ Partner.options["timeout"] # Unset
    => Partner.options["timeout"] = job.options["timeout"]
=============================================================================
