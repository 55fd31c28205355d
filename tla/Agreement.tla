------------------------------ MODULE Agreement -------------------------------
(***************************************************************************)
(* What a negotiation promises, whatever is lost, repeated, reordered or   *)
(* sent by others.  The client comes to have at most one end of a          *)
(* transfer and the server at most one at each port, none of which is ever *)
(* made anew or changed.  The client's end takes one partner and keeps it; *)
(* an end of the server that it takes has the other role and the same      *)
(* values, but for a sender that was answered with an ACK and goes on with *)
(* the defaults.  The client's job has one outcome, and that tells whether *)
(* there was an end.                                                       *)
(***************************************************************************)
CONSTANTS
  Ports,      \* of the server's ends
  NoPartner,
  Defaults    \* the values that are used when none are agreed on

VARIABLES
  offered,  \* by port: role and values of the server's end, or NoEnd
  own,      \* role, values and partner of the client's end, or NoEnd
  outcome   \* "open", "success", "failed", "refused" or "thrown"

vars == <<offered, own, outcome>>

NoEnd == [role |-> "none"]

Roles == {"sender", "receiver"}

Agrees(e) ==
  e.partner \in Ports =>
    LET other == offered[e.partner] IN
    /\ other # NoEnd /\ other.role # e.role
    /\ \/ e.values = other.values
       \/ e.role = "sender" /\ e.values = Defaults

Init ==
  /\ offered = [p \in Ports |-> NoEnd]
  /\ own = NoEnd
  /\ outcome = "open"

Offer(p) ==
  /\ offered[p] = NoEnd
  /\ offered' = [offered EXCEPT ![p] = offered'[p]] /\ offered'[p].role \in Roles
  /\ UNCHANGED <<own, outcome>>

Begin ==
  /\ own = NoEnd
  /\ own'.role \in Roles /\ Agrees(own')

Meet ==
  /\ own # NoEnd /\ own.partner = NoPartner
  /\ own' = [own EXCEPT !.partner = own'.partner] /\ own'.partner # NoPartner
  /\ Agrees(own')

\* Success and failure are those of a transfer; a refusal comes before there
\* is one, an exception at any time.
Settle ==
  \/ outcome' \in {"success", "failed"} /\ own' # NoEnd
  \/ outcome' = "refused" /\ own' = NoEnd
  \/ outcome' = "thrown"

ClientMoves ==
  /\ outcome = "open"
  /\ Begin \/ Meet \/ UNCHANGED own
  /\ Settle \/ UNCHANGED outcome
  /\ UNCHANGED offered

Next == ClientMoves \/ \E p \in Ports : Offer(p)

Spec == Init /\ [][Next]_vars
===============================================================================
