---------------------------- MODULE MCNegotiation -----------------------------
(* Values for TLC: jobs, and datagrams of other hosts.  The numbers of the   *)
(* options keep their order: 2 .. 6 are block sizes, 0 .. 4 timeouts, an int  *)
(* has 16 values.                                                            *)
EXTENDS Negotiation, TLC

CONSTANTS p1, p2

\* Nothing tells one port from another.
PortSymmetry == Permutations(ServerPorts)

Job(op, options, size, space, writable) ==
  [op |-> op, options |-> options, size |-> size, space |-> space,
   readable |-> size # UintMax, writable |-> writable]

\* A file that may not be read has a size nevertheless.
Forbidden(op, options) == [Job(op, options, 3, 5, TRUE) EXCEPT !.readable = FALSE]

Blksize(n) == [NoOptions EXCEPT !["blksize"] = n]
Timeout(n) == [NoOptions EXCEPT !["timeout"] = n]
Both(n, t) == [Blksize(n) EXCEPT !["timeout"] = t]

\* No options, a small block size with a timeout, a timeout alone.
MCOptions == {NoOptions, Both(3, 2), Timeout(2)}

\* Sizes: 3 fits; 6 is larger than the room; 9 is more than an int holds, and
\* 17 looks small when an int has cut it; UintMax is that of no file.
\* Refused are a large block size with a timeout, one that is out of range, and a
\* writer's size that is negative as an int.
MCJobs ==
  {Job(op, o, 3, 5, TRUE) : op \in {"RRQ", "WRQ"}, o \in MCOptions}
    \cup {Job("RRQ", Both(6, 2), 3, 5, TRUE)}
    \cup {Job(op, Blksize(3), s, 5, TRUE) : op \in {"RRQ", "WRQ"}, s \in {9, 17, UintMax}}
    \cup {Job("RRQ", Blksize(3), 6, 5, TRUE)}
    \cup {Job(op, o, s, 5, FALSE) : op \in {"RRQ", "WRQ"}, o \in {NoOptions, Blksize(1)},
                                    s \in {3, UintMax}}
    \cup {Forbidden(op, o) : op \in {"RRQ", "WRQ"}, o \in {NoOptions, Blksize(3)}}
    \cup {Job("INVALID", NoOptions, 3, 5, TRUE)}

\* As few as lead to every answer: a plain one, an OACK, a server that throws,
\* one that refuses, and a file that does not fit.
SmallJobs ==
  {Job(op, o, 3, 5, TRUE) : op \in {"RRQ", "WRQ"}, o \in {NoOptions, Both(3, 2)}}
    \cup { Job("RRQ", Timeout(2), 3, 5, TRUE), Job("WRQ", Blksize(1), 3, 5, TRUE),
           Job("RRQ", Blksize(3), 6, 5, TRUE) }

Runt(dst) == Message(Elsewhere, dst, "RUNT", 0)

\* A request that names an option nobody knows and then breaks off, runts, and a
\* server that grants the timeout alone.
MCOthers ==
  { [RequestMessage(Elsewhere, "RRQ", NoOptions) EXCEPT !.extra = TRUE, !.whole = FALSE],
    Runt(Listen), Runt(Client), Runt(p1),
    OptionACKMessage(Elsewhere, Client, Timeout(2)) }

NoOthers == {}

\* Another server, which speaks of a file that some of the jobs have and some not.
OtherServer == {OptionACKMessage(Elsewhere, Client, [NoOptions EXCEPT !["tsize"] = 3])}
=============================================================================
