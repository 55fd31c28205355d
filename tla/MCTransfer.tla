----------------------------- MODULE MCTransfer ------------------------------
(* Values for TLC: files, and datagrams of the third host.                 *)
EXTENDS Transfer

File(n, t) == [blocks |-> n, tail |-> t]

\* One short block; two blocks, the last one empty; three, of which a
\* MaxBlock of 2 leaves the last one without a number.
MCFiles    == {File(1, 1), File(2, 0), File(3, 1)}
AllFiles   == {File(n, t) : n \in 1 .. 3, t \in {0, 1}}
SmallFiles == {File(1, 1), File(2, 0)}

FromStranger(dst, op, num) ==
  [src |-> Stranger, dst |-> dst, op |-> op, num |-> num, block |-> 0, len |-> 2]

\* A full block that is next in line and not of the file, an early ACK, a
\* datagram that makes no sense.
MCNoise == {FromStranger(Receiver, "DATA", 2), FromStranger(Sender, "ACK", 1)}
RuntNoise == MCNoise \cup {FromStranger(Sender, "RUNT", 0)}
NoNoise == {}

=============================================================================
