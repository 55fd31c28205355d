---------------------------- MODULE MCCommandLine -----------------------------
(* Command lines for TLC: the program, up to four arguments in any order and  *)
(* number, and an address or none.                                            *)
EXTENDS CommandLine, SequencesExt

MCNumbers == [none |-> 0, one |-> 1, two |-> 2, six |-> 6, seven |-> 7, wraps |-> 19]

MCWords ==
  {"ttftp", "192.0.2.1", "./", "client", "server", "read", "write", "name"}
    \cup DOMAIN MCNumbers

MCAddresses == {<<"192.0.2.1">>}

\* Values at both ends of their ranges and outside; a name without a value, one
\* within a value, and a number that an int or a port cannot hold.
Arguments ==
  { <<"--type=", "client">>, <<"--type=", "server">>,
    <<"--request=", "read">>, <<"--file=", "name">>, <<"--file=">>,
    <<"--file=", "name", "--blksize=", "two">>,
    <<"--blksize=", "one">>, <<"--blksize=", "six">>, <<"--blksize=", "wraps">>,
    <<"--timeout=", "none">>, <<"--timeout=", "two">>, <<"--port=", "seven">> }

MCCommandLines ==
  {<< <<"ttftp">> >> \o args \o last :
     args \in BoundedSeq(Arguments, 4), last \in {<< >>, << <<"192.0.2.1">> >>}}
=============================================================================
