---------------------------- MODULE StopAndWait ------------------------------
(***************************************************************************)
(* What a transfer promises, whatever the two sessions, the network and    *)
(* the timers do: the receiver takes in one block at a time and only when  *)
(* the sender knows of all the blocks before it, the sender learns of a    *)
(* block only after the receiver has taken it in, and what is stored of    *)
(* the file is always its beginning, piece by piece.  A block taken in may *)
(* fail to be stored; then nothing after it is stored.  Where the file can *)
(* fail to be read a piece may be cut short; then nothing more is taken    *)
(* in.  Either end may stop at any point.                                  *)
(***************************************************************************)
EXTENDS Naturals, Sequences

CONSTANTS
  BlockSize,
  MayCut     \* whether the sender may fail to read all of a block

VARIABLES
  file,      \* its number of blocks, and the length of the last one
  stored,    \* the pieces stored
  received,  \* how many blocks the receiver has taken in
  acked      \* how many of them the sender knows of

vars == <<file, stored, received, acked>>

LengthOf(n) == IF n < file.blocks THEN BlockSize ELSE file.tail

PiecesOf(n) ==
  {[block |-> n, len |-> l] : l \in IF MayCut THEN 0 .. LengthOf(n) ELSE {LengthOf(n)}}

NothingCut == \A i \in DOMAIN stored : stored[i].len = LengthOf(i)

\* A transfer begins with nothing stored, or with the first block, when it
\* came as the answer to the request.
Init ==
  /\ \/ received = 0 /\ stored = << >>
     \/ received = 1 /\ stored \in {<<p>> : p \in PiecesOf(1)}
  /\ acked = 0

Take ==
  /\ received = acked /\ received < file.blocks
  /\ NothingCut
  /\ received' = received + 1
  /\ \/ stored' = stored
     \/ Len(stored) = received /\ stored' \in {Append(stored, p) : p \in PiecesOf(received')}
  /\ UNCHANGED <<file, acked>>

Confirm ==
  /\ acked < received
  /\ acked' = received
  /\ UNCHANGED <<file, stored, received>>

Next == Take \/ Confirm

Spec == Init /\ [][Next]_vars
=============================================================================
