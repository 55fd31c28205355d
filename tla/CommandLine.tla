------------------------------ MODULE CommandLine -----------------------------
(***************************************************************************)
(* run() in main.cpp: what the arguments of the program say, and the       *)
(* client or the server that is started with it.                           *)
(*                                                                         *)
(* A text is a sequence of words; a name such as "--file=" is a word, and  *)
(* so is all that may stand behind or before one.                          *)
(***************************************************************************)
EXTENDS Options, Sequences

CONSTANTS
  CommandLines,        \* what the program may be called with
  Words,               \* the words of an argument that are not names
  Numbers,             \* the numbers that some of these words spell
  Addresses,           \* the texts that make_address takes
  PortModulus,         \* 2^16
  SERVER_LISTEN_PORT   \* 69

VARIABLES
  argv,
  i,                \* the argument that is looked at
  namedArgValues,
  outcome           \* what run() came to

vars == <<argv, i, namedArgValues, outcome>>

\* The order in which a std::map of strings is walked.
NamesInOrder ==
  <<"--blksize=", "--file=", "--port=", "--request=", "--root=", "--timeout=", "--type=">>

Names == {NamesInOrder[k] : k \in DOMAIN NamesInOrder}

ASSUME CommandLineAssumption ==
  /\ Words \cap Names = {}
  /\ DOMAIN Numbers \subseteq Words /\ \A w \in DOMAIN Numbers : Numbers[w] \in Nat
  /\ CommandLines \subseteq Seq(Seq(Words \cup Names)) \ {<< >>}
  /\ PortModulus \in Nat \ {0} /\ SERVER_LISTEN_PORT \in 0 .. PortModulus - 1

\* atoi() reads the number at the head of a text, and 0 when there is none.
NumberOf(text) ==
  IF text # << >> /\ Head(text) \in DOMAIN Numbers THEN atoi(Numbers[Head(text)]) ELSE 0

(***************************************************************************)
(* One argument                                                            *)
(***************************************************************************)

\* find() looks for a name anywhere in the argument.
Contained(arg) == {k \in DOMAIN NamesInOrder : \E j \in DOMAIN arg : arg[j] = NamesInOrder[k]}

NameOf(arg) == NamesInOrder[CHOOSE k \in Contained(arg) : \A l \in Contained(arg) : k <= l]

ValueFrom(arg, name) ==   \* mutant: the name is left in its value
  LET first == CHOOSE j \in DOMAIN arg : arg[j] = name /\ \A l \in 1 .. j - 1 : arg[l] # name
  IN  SubSeq(arg, first, Len(arg))

ValueBehind(arg, name) ==
  LET first == CHOOSE j \in DOMAIN arg : arg[j] = name /\ \A l \in 1 .. j - 1 : arg[l] # name
  IN  SubSeq(arg, first + 1, Len(arg))

(***************************************************************************)
(* run()                                                                   *)
(***************************************************************************)
CurrentFolder == <<"./">>

Running == [program |-> "running"]
UsageMessage == [program |-> "usage"]

Init ==
  /\ argv \in CommandLines
  /\ i = 1
  /\ namedArgValues = [n \in Names |-> IF n = "--root=" THEN CurrentFolder ELSE << >>]
  /\ outcome = Running

Looking == outcome = Running /\ i <= Len(argv)

SkipArgument ==
  /\ Looking /\ Contained(argv[i]) = {}
  /\ i' = i + 1
  /\ UNCHANGED <<argv, namedArgValues, outcome>>

TakeLastArgument ==   \* mutant: a name given again takes the new value
  /\ Looking /\ Contained(argv[i]) # {}
  /\ LET name == NameOf(argv[i]) IN
       namedArgValues' = [namedArgValues EXCEPT ![name] = ValueBehind(argv[i], name)]
  /\ i' = i + 1
  /\ UNCHANGED <<argv, outcome>>

\* Only a name without a value takes one.
TakeArgument ==
  /\ Looking /\ Contained(argv[i]) # {}
  /\ LET name == NameOf(argv[i]) IN
       /\ namedArgValues[name] = << >>
       /\ namedArgValues' = [namedArgValues EXCEPT ![name] = ValueBehind(argv[i], name)]
  /\ i' = i + 1
  /\ UNCHANGED <<argv, outcome>>

\* Any other prints the usage message, which exits.
RefuseArgument ==
  /\ Looking /\ Contained(argv[i]) # {}
  /\ namedArgValues[NameOf(argv[i])] # << >>
  /\ outcome' = UsageMessage
  /\ UNCHANGED <<argv, i, namedArgValues>>

Given(name) == namedArgValues[name] # << >>
ValueOf(name) == NumberOf(namedArgValues[name])

AllSeen == outcome = Running /\ i > Len(argv)

\* The port is cut to a uint16_t.
Port == IF Given("--port=") THEN ValueOf("--port=") % PortModulus ELSE SERVER_LISTEN_PORT

requestType ==
  CASE namedArgValues["--request="] = <<"write">> -> "WRQ"
    [] namedArgValues["--request="] = <<"read">>  -> "RRQ"
    [] OTHER                                      -> "INVALID"

ClientOptions ==
  [NoOptions EXCEPT
     !["blksize"] = IF Given("--blksize=") THEN ValueOf("--blksize=") ELSE Unset,
     !["timeout"] = IF Given("--timeout=") THEN ValueOf("--timeout=") ELSE Unset]

InRangeBelow ==   \* mutant: off by one
  /\ Given("--blksize=") => ValueOf("--blksize=") \in MinBlksize - 1 .. MaxBlksize
  /\ Given("--timeout=") => ValueOf("--timeout=") \in 1 .. MaxTimeout

InRange ==
  /\ Given("--blksize=") => ValueOf("--blksize=") \in MinBlksize .. MaxBlksize
  /\ Given("--timeout=") => ValueOf("--timeout=") \in 1 .. MaxTimeout

\* The last argument, whatever it is, must be the address.
StartClient ==
  /\ AllSeen /\ namedArgValues["--type="] = <<"client">>
  /\ outcome' =
       IF argv[Len(argv)] \in Addresses /\ InRange
       THEN [program |-> "client", address |-> argv[Len(argv)], port |-> Port,
             request |-> requestType, file |-> namedArgValues["--file="],
             options |-> ClientOptions, root |-> namedArgValues["--root="]]
       ELSE UsageMessage
  /\ UNCHANGED <<argv, i, namedArgValues>>

StartServer ==
  /\ AllSeen /\ namedArgValues["--type="] = <<"server">>
  /\ outcome' = [program |-> "server", port |-> Port, root |-> namedArgValues["--root="]]
  /\ UNCHANGED <<argv, i, namedArgValues>>

NeitherOfThem ==
  /\ AllSeen /\ namedArgValues["--type="] \notin {<<"client">>, <<"server">>}
  /\ outcome' = UsageMessage
  /\ UNCHANGED <<argv, i, namedArgValues>>

Next ==
  \/ SkipArgument \/ TakeArgument \/ RefuseArgument
  \/ StartClient \/ StartServer \/ NeitherOfThem

Spec == Init /\ [][Next]_vars

(***************************************************************************)
(* Properties                                                              *)
(***************************************************************************)

\* The arguments whose first word is the name.
Naming(name) == {k \in DOMAIN argv : argv[k] # << >> /\ Head(argv[k]) = name}

\* What the usage message describes: each argument but the program and the
\* address is a name and its value, which holds no name, and each name is
\* given once.
WellFormed ==
  /\ \A k \in DOMAIN argv :
       Contained(argv[k]) # {} =>
         \E name \in Names \ {"--root="}, word \in Words : argv[k] = <<name, word>>
  /\ \A name \in Names : \A k, l \in Naming(name) : k = l

Asked(name) ==
  IF Naming(name) = {} THEN << >> ELSE Tail(argv[CHOOSE k \in Naming(name) : TRUE])

OutOfRange(name, range) == Asked(name) # << >> /\ NumberOf(Asked(name)) \notin range

\* Whatever the order of its arguments, a command line of the form the usage
\* message describes starts what it asks for, and is refused only when it
\* misses the type or the address, or a number is out of range (run()).
StartsWhatIsAsked ==
  WellFormed =>
    /\ outcome.program \in {"client", "server"} =>
         /\ Asked("--type=") = <<outcome.program>>
         /\ outcome.root = CurrentFolder
         /\ Asked("--port=") # << >> => outcome.port = NumberOf(Asked("--port=")) % PortModulus
    /\ outcome.program = "client" =>
         /\ outcome.file = Asked("--file=")
         /\ outcome.request = "WRQ" <=> Asked("--request=") = <<"write">>
         /\ outcome.request = "RRQ" <=> Asked("--request=") = <<"read">>
         /\ \A o \in {<<"blksize", "--blksize=">>, <<"timeout", "--timeout=">>} :
              outcome.options[o[1]] =
                IF Asked(o[2]) = << >> THEN Unset ELSE NumberOf(Asked(o[2]))
    /\ outcome.program = "usage" =>
         \/ Asked("--type=") \notin {<<"client">>, <<"server">>}
         \/ /\ Asked("--type=") = <<"client">>
            /\ \/ argv[Len(argv)] \notin Addresses
               \/ OutOfRange("--blksize=", MinBlksize .. MaxBlksize)
               \/ OutOfRange("--timeout=", 1 .. MaxTimeout)

\* Nothing is started when two arguments give a name different values: no
\* value is replaced by a later one (the test of namedArgVal.second in run()).
NoValueIsReplaced ==
  outcome.program \in {"client", "server"} =>
    \A k \in DOMAIN argv :
      Contained(argv[k]) # {} =>
        ValueBehind(argv[k], NameOf(argv[k])) \in {<< >>, namedArgValues[NameOf(argv[k])]}

\* What run() lets through as a block size is what a server lets through: the
\* two are checked apart (run(), setOptionsFromMap()).
ServerTakesBlksize ==
  outcome.program = "client" => SetOptionsOk([outcome.options EXCEPT !["timeout"] = Unset])
=============================================================================
