-------------------------- MODULE CommandLine_proofs --------------------------
(***************************************************************************)
(* What run() starts is what its arguments say, for every set of command   *)
(* lines.  The invariant, ArgsInv, follows the loop: what each argument    *)
(* that has been looked at left in namedArgValues.                         *)
(***************************************************************************)
EXTENDS CommandLine, SequenceTheorems, TLAPS

\* A name among the arguments looked at has the value it was given first.
KeepsFirst ==
  \A k \in 1 .. i - 1 :
    Contained(argv[k]) # {} =>
      ValueBehind(argv[k], NameOf(argv[k])) \in {<< >>, namedArgValues[NameOf(argv[k])]}

\* In a command line of the usage message's form, a name has a value exactly
\* when one of the arguments looked at is that name and that value.
TakesWhatIsSaid ==
  WellFormed =>
    /\ namedArgValues["--root="] = CurrentFolder
    /\ \A name \in Names \ {"--root="} :
         /\ \A k \in 1 .. i - 1 : k \in Naming(name) => namedArgValues[name] = Tail(argv[k])
         /\ namedArgValues[name] # << >> => \E k \in 1 .. i - 1 : k \in Naming(name)

ArgsTypeOK ==
  /\ argv \in CommandLines
  /\ i \in 1 .. Len(argv) + 1
  /\ namedArgValues = [n \in Names |-> namedArgValues[n]]

Started == NoValueIsReplaced /\ StartsWhatIsAsked /\ ServerTakesBlksize

ArgsInv == ArgsTypeOK /\ KeepsFirst /\ TakesWhatIsSaid /\ Started

(***************************************************************************)
(* Names and values                                                        *)
(***************************************************************************)
LEMMA NamesAre ==
  /\ DOMAIN NamesInOrder = 1 .. 7
  /\ Names = {"--blksize=", "--file=", "--port=", "--request=", "--root=", "--timeout=",
              "--type="}
  /\ \A k, l \in 1 .. 7 : NamesInOrder[k] = NamesInOrder[l] => k = l
<1>1. /\ DOMAIN NamesInOrder = 1 .. 7
      /\ NamesInOrder[1] = "--blksize=" /\ NamesInOrder[2] = "--file="
      /\ NamesInOrder[3] = "--port=" /\ NamesInOrder[4] = "--request="
      /\ NamesInOrder[5] = "--root=" /\ NamesInOrder[6] = "--timeout="
      /\ NamesInOrder[7] = "--type="
  BY DEF NamesInOrder
<1>2. \A k \in 1 .. 7 : k \in {1, 2, 3, 4, 5, 6, 7}
  OBVIOUS
<1>3. 1 .. 7 = {1, 2, 3, 4, 5, 6, 7}
  OBVIOUS
<1> QED
  BY <1>1, <1>2, <1>3 DEF Names

\* The name an argument is taken for is the first in order of those it holds.
LEMMA NameIsFirst ==
  ASSUME NEW arg, Contained(arg) # {}
  PROVE  \E k \in Contained(arg) : NameOf(arg) = NamesInOrder[k] /\ NameOf(arg) \in Names
<1> DEFINE first == CHOOSE k \in Contained(arg) : \A l \in Contained(arg) : k <= l
<1>1. Contained(arg) \subseteq 1 .. 7
  BY NamesAre DEF Contained
<1>2. \A n \in 1 .. 7 : n \in Contained(arg) =>
        \E k \in Contained(arg) : \A l \in Contained(arg) : k <= l
  <2>1. ASSUME NEW n \in 1 .. 7, \A l \in Contained(arg) : l >= n, n \in Contained(arg)
        PROVE  \E k \in Contained(arg) : \A l \in Contained(arg) : k <= l
    BY <1>1, <2>1
  <2>2. \/ \E n \in 1 .. 7 : n \in Contained(arg) /\ \A l \in Contained(arg) : l >= n
        \/ \A n \in 1 .. 7 : n \notin Contained(arg)
    BY <1>1
  <2> QED
    BY <2>1, <2>2
<1>3. first \in Contained(arg)
  BY <1>1, <1>2
<1>4. NameOf(arg) = NamesInOrder[first]
  BY DEF NameOf
<1> HIDE DEF first
<1> QED
  BY <1>1, <1>3, <1>4, NamesAre DEF Names

\* An argument of the usage message's form is taken for what it says.
LEMMA WellFormedArgument ==
  ASSUME NEW name \in Names, NEW word \in Words
  PROVE  /\ Contained(<<name, word>>) # {}
         /\ NameOf(<<name, word>>) = name
         /\ ValueBehind(<<name, word>>, name) = <<word>>
<1> DEFINE arg == <<name, word>>
<1>1. word \notin Names /\ arg[1] = name /\ arg[2] = word /\ DOMAIN arg = {1, 2}
  BY CommandLineAssumption
<1>2. PICK n \in 1 .. 7 : NamesInOrder[n] = name
  BY NamesAre DEF Names
<1>3. \A k \in 1 .. 7 : NamesInOrder[k] \in Names
  BY NamesAre DEF Names
<1> HIDE DEF arg
<1>4. Contained(arg) = {n}
  BY <1>1, <1>2, <1>3, NamesAre DEF Contained
<1>5. NameOf(arg) = name
  BY <1>2, <1>4, NameIsFirst
<1>6. ValueBehind(arg, name) = <<word>>
  <2> DEFINE first == CHOOSE j \in DOMAIN arg : arg[j] = name /\ \A l \in 1 .. j - 1 : arg[l] # name
  <2>1. \A j \in DOMAIN arg :
          (arg[j] = name /\ \A l \in 1 .. j - 1 : arg[l] # name) <=> j = 1
    BY <1>1
  <2>f. first = 1
    BY <1>1, <2>1
  <2>2. ValueBehind(arg, name) = SubSeq(arg, first + 1, Len(arg))
    BY DEF ValueBehind
  <2> HIDE DEF first
  <2>3. SubSeq(arg, 2, 2) = <<word>>
    <3> DEFINE rest == SubSeq(arg, 2, 2)
    <3>1. \A j \in 2 .. 2 : arg[j] \in {word}
      BY <1>1
    <3>2. rest \in Seq({word}) /\ Len(rest) = 1 /\ rest[1] = word
      BY <1>1, <3>1, SubSeqProperties
    <3> HIDE DEF rest
    <3>3. rest = <<word>>
      BY <3>2
    <3> QED
      BY <3>3 DEF rest
  <2>4. Len(arg) = 2
    BY DEF arg
  <2> QED
    BY <2>f, <2>2, <2>3, <2>4
<1> QED
  BY <1>4, <1>5, <1>6 DEF arg

LEMMA Arguments ==
  ASSUME argv \in CommandLines
  PROVE  /\ Len(argv) \in Nat /\ DOMAIN argv = 1 .. Len(argv) /\ Len(argv) # 0
         /\ \A k \in DOMAIN argv : argv[k] \in Seq(Words \cup Names)
<1>1. argv \in Seq(Seq(Words \cup Names)) /\ argv # << >>
  BY CommandLineAssumption
<1> HIDE DEF Names
<1> QED
  BY <1>1

LEMMA NamingIsTaken ==
  ASSUME argv \in CommandLines, NEW name \in Names, NEW k \in Naming(name)
  PROVE  k \in DOMAIN argv /\ Contained(argv[k]) # {}
<1>1. /\ k \in DOMAIN argv /\ argv[k] # << >> /\ Head(argv[k]) = name
      /\ argv[k] \in Seq(Words \cup Names)
  BY Arguments DEF Naming
<1>2. 1 \in DOMAIN argv[k] /\ argv[k][1] = name
  BY <1>1
<1>3. PICK n \in DOMAIN NamesInOrder : NamesInOrder[n] = name
  BY DEF Names
<1> QED
  BY <1>1, <1>2, <1>3 DEF Contained

\* An argument with a name in a command line of the usage message's form.
LEMMA SaidBy ==
  ASSUME argv \in CommandLines, WellFormed, NEW k \in DOMAIN argv, Contained(argv[k]) # {}
  PROVE  \E name \in Names \ {"--root="} :
            /\ NameOf(argv[k]) = name
            /\ \A other : k \in Naming(other) <=> other = name
            /\ ValueBehind(argv[k], name) = Tail(argv[k])
            /\ Tail(argv[k]) # << >>
<1>1. PICK name \in Names \ {"--root="}, word \in Words : argv[k] = <<name, word>>
  BY DEF WellFormed
<1>2. /\ Head(argv[k]) = name /\ Tail(argv[k]) = <<word>> /\ argv[k] # << >>
      /\ <<word>> # << >>
  BY <1>1
<1>3. NameOf(argv[k]) = name /\ ValueBehind(argv[k], name) = <<word>>
  BY <1>1, WellFormedArgument
<1>4. \A other : k \in Naming(other) <=> other = name
  BY <1>2 DEF Naming
<1> QED
  BY <1>2, <1>3, <1>4

(***************************************************************************)
(* The loop                                                                *)
(***************************************************************************)
LEMMA InitArgs == Init => ArgsInv
<1> SUFFICES ASSUME Init PROVE ArgsInv
  OBVIOUS
<1>1. ArgsTypeOK
  <2>1. Len(argv) \in Nat
    BY Arguments DEF Init
  <2>2. namedArgValues = [n \in Names |-> namedArgValues[n]]
    BY DEF Init
  <2> QED
    BY <2>1, <2>2 DEF Init, ArgsTypeOK
<1>2. KeepsFirst
  BY DEF Init, KeepsFirst
<1>3. TakesWhatIsSaid
  BY NamesAre DEF Init, TakesWhatIsSaid
<1>4. Started
  BY DEF Init, Started, Running, NoValueIsReplaced, StartsWhatIsAsked, ServerTakesBlksize
<1> QED
  BY <1>1, <1>2, <1>3, <1>4 DEF ArgsInv

\* The two ways to go on to the next argument.
LEMMA LoopKeeps ==
  ASSUME ArgsInv, SkipArgument \/ TakeArgument
  PROVE  ArgsTypeOK' /\ KeepsFirst' /\ TakesWhatIsSaid'
<1>t. /\ argv \in CommandLines /\ argv' = argv /\ i' = i + 1
      /\ i \in 1 .. Len(argv) /\ i \in DOMAIN argv /\ Len(argv) \in Nat
      /\ 1 .. i' - 1 = (1 .. i - 1) \cup {i}
  <2>1. /\ argv \in CommandLines /\ argv' = argv /\ i' = i + 1
        /\ i \in 1 .. Len(argv) + 1 /\ i <= Len(argv)
    BY DEF ArgsInv, ArgsTypeOK, SkipArgument, TakeArgument, Looking
  <2> QED
    BY <2>1, Arguments
<1>w. WellFormed' <=> WellFormed
  BY <1>t DEF WellFormed, Naming
<1>n. \A name : Naming(name)' = Naming(name)
  BY <1>t DEF Naming
<1>1. CASE SkipArgument
  <2>1. namedArgValues' = namedArgValues /\ Contained(argv[i]) = {}
    BY <1>1 DEF SkipArgument
  <2>2. ArgsTypeOK'
    BY <1>t, <2>1 DEF ArgsInv, ArgsTypeOK
  <2>3. KeepsFirst'
    BY <1>t, <2>1 DEF ArgsInv, KeepsFirst
  <2>4. \A name \in Names : i \notin Naming(name)
    BY <1>t, <2>1, NamingIsTaken
  <2>5. TakesWhatIsSaid'
    BY <1>t, <1>w, <1>n, <2>1, <2>4 DEF ArgsInv, TakesWhatIsSaid
  <2> QED
    BY <2>2, <2>3, <2>5
<1>2. CASE TakeArgument
  <2> DEFINE name == NameOf(argv[i])
             value == ValueBehind(argv[i], name)
  <2>1. /\ Contained(argv[i]) # {} /\ namedArgValues[name] = << >>
        /\ namedArgValues' = [namedArgValues EXCEPT ![name] = value]
    BY <1>2 DEF TakeArgument
  <2>2. name \in Names
    BY <2>1, NameIsFirst
  <2>3. namedArgValues = [n \in Names |-> namedArgValues[n]]
    BY DEF ArgsInv, ArgsTypeOK
  <2>m. name = NameOf(argv[i]) /\ value = ValueBehind(argv[i], name)
    OBVIOUS
  <2> HIDE DEF name, value
  <2>4. /\ namedArgValues' = [n \in Names |-> namedArgValues'[n]]
        /\ namedArgValues'[name] = value
        /\ \A n \in Names \ {name} : namedArgValues'[n] = namedArgValues[n]
    BY <2>1, <2>2, <2>3
  <2>5. ArgsTypeOK'
    BY <1>t, <2>4 DEF ArgsTypeOK
  <2>6. KeepsFirst'
    <3> SUFFICES ASSUME NEW k \in 1 .. i' - 1, Contained(argv[k]) # {}
                 PROVE  ValueBehind(argv[k], NameOf(argv[k]))
                          \in {<< >>, namedArgValues'[NameOf(argv[k])]}
      BY <1>t DEF KeepsFirst
    <3>1. CASE k = i
      BY <2>4, <2>m, <3>1
    <3>2. CASE k \in 1 .. i - 1
      <4>1. NameOf(argv[k]) \in Names
        BY NameIsFirst
      <4>2. ValueBehind(argv[k], NameOf(argv[k])) \in {<< >>, namedArgValues[NameOf(argv[k])]}
        BY <3>2 DEF ArgsInv, KeepsFirst
      <4> QED
        BY <2>1, <2>4, <4>1, <4>2
    <3> QED
      BY <1>t, <3>1, <3>2
  <2>7. TakesWhatIsSaid'
    <3> SUFFICES ASSUME WellFormed
                 PROVE  /\ namedArgValues'["--root="] = CurrentFolder
                        /\ \A n \in Names \ {"--root="} :
                             /\ \A k \in 1 .. i' - 1 :
                                  k \in Naming(n) => namedArgValues'[n] = Tail(argv[k])
                             /\ namedArgValues'[n] # << >> =>
                                  \E k \in 1 .. i' - 1 : k \in Naming(n)
      BY <1>t, <1>w, <1>n DEF TakesWhatIsSaid
    <3>1. /\ name # "--root=" /\ value = Tail(argv[i])
          /\ \A other : i \in Naming(other) <=> other = name
      BY <1>t, <2>1, <2>m, SaidBy
    <3>2. /\ namedArgValues["--root="] = CurrentFolder
          /\ \A n \in Names \ {"--root="} :
               /\ \A k \in 1 .. i - 1 : k \in Naming(n) => namedArgValues[n] = Tail(argv[k])
               /\ namedArgValues[n] # << >> => \E k \in 1 .. i - 1 : k \in Naming(n)
      BY DEF ArgsInv, TakesWhatIsSaid
    <3>3. namedArgValues'["--root="] = CurrentFolder
      BY <2>4, <3>1, <3>2, NamesAre
    <3>4. ASSUME NEW n \in Names \ {"--root="}, n # name
          PROVE  /\ \A k \in 1 .. i' - 1 :
                      k \in Naming(n) => namedArgValues'[n] = Tail(argv[k])
                 /\ namedArgValues'[n] # << >> =>
                      \E k \in 1 .. i' - 1 : k \in Naming(n)
      <4>1. namedArgValues'[n] = namedArgValues[n] /\ i \notin Naming(n)
        BY <2>4, <3>1, <3>4
      <4> QED
        BY <1>t, <3>2, <4>1
    <3>5. /\ \A k \in 1 .. i' - 1 : k \in Naming(name) => namedArgValues'[name] = Tail(argv[k])
          /\ \E k \in 1 .. i' - 1 : k \in Naming(name)
      <4>1. i \in Naming(name) /\ \A k \in Naming(name) : k = i
        BY <2>2, <3>1 DEF WellFormed
      <4> QED
        BY <1>t, <2>4, <3>1, <4>1
    <3> QED
      BY <3>3, <3>4, <3>5
  <2> QED
    BY <2>5, <2>6, <2>7
<1> QED
  BY <1>1, <1>2

\* A command line of the usage message's form gives no name a second value.
LEMMA RefusedForItsForm ==
  ASSUME ArgsInv, RefuseArgument
  PROVE  ~WellFormed
<1> SUFFICES ASSUME WellFormed PROVE FALSE
  OBVIOUS
<1>1. /\ argv \in CommandLines /\ i \in 1 .. Len(argv) + 1 /\ i <= Len(argv)
      /\ Contained(argv[i]) # {} /\ namedArgValues[NameOf(argv[i])] # << >>
  BY DEF ArgsInv, ArgsTypeOK, RefuseArgument, Looking
<1>2. i \in DOMAIN argv /\ i \in Nat
  BY <1>1, Arguments
<1>3. PICK name \in Names \ {"--root="} : NameOf(argv[i]) = name /\ i \in Naming(name)
  BY <1>1, <1>2, SaidBy
<1>4. PICK k \in 1 .. i - 1 : k \in Naming(name)
  BY <1>1, <1>3 DEF ArgsInv, TakesWhatIsSaid
<1>5. k = i
  BY <1>3, <1>4 DEF WellFormed
<1> QED
  BY <1>2, <1>4, <1>5

\* After the loop, a name has the value that the command line gives it.
LEMMA AskedIsTaken ==
  ASSUME ArgsInv, AllSeen, WellFormed, NEW name \in Names \ {"--root="}
  PROVE  Asked(name) = namedArgValues[name]
<1>1. argv \in CommandLines /\ 1 .. i - 1 = DOMAIN argv
  <2>1. argv \in CommandLines /\ i \in 1 .. Len(argv) + 1 /\ i > Len(argv)
    BY DEF ArgsInv, ArgsTypeOK, AllSeen
  <2> QED
    BY <2>1, Arguments
<1>2. /\ \A k \in DOMAIN argv : k \in Naming(name) => namedArgValues[name] = Tail(argv[k])
      /\ namedArgValues[name] # << >> => Naming(name) # {}
  BY <1>1 DEF ArgsInv, TakesWhatIsSaid
<1>3. Naming(name) \subseteq DOMAIN argv
  BY DEF Naming
<1>4. CASE Naming(name) = {}
  BY <1>2, <1>4 DEF Asked
<1>5. CASE Naming(name) # {}
  <2> DEFINE first == CHOOSE k \in Naming(name) : TRUE
  <2>1. first \in Naming(name)
    BY <1>5
  <2>2. Asked(name) = Tail(argv[first])
    BY <1>5 DEF Asked
  <2> HIDE DEF first
  <2> QED
    BY <1>2, <1>3, <2>1, <2>2
<1> QED
  BY <1>4, <1>5

\* A number in the range of block sizes is what atoi reads back from its text.
LEMMA BlksizeReadBack ==
  ASSUME NEW n \in MinBlksize .. MaxBlksize
  PROVE  atoi(n) = n
<1>1. /\ n \in Nat /\ n < IntModulus \div 2 /\ n < IntModulus /\ n <= LongMax
      /\ IntModulus \in Nat \ {0}
  BY OptionsAssumption
<1>2. n % IntModulus = n
  BY <1>1
<1> DEFINE held == IF n > LongMax THEN LongMax ELSE n
           cut == held % IntModulus
           half == IntModulus \div 2
<1>3. held = n
  BY <1>1, OptionsAssumption
<1>4. atoi(n) = IF cut < half THEN cut ELSE cut - IntModulus
  BY DEF atoi
<1>5. cut = n /\ n < half
  BY <1>1, <1>2, <1>3
<1> HIDE DEF held, cut, half
<1> QED
  BY <1>4, <1>5

(***************************************************************************)
(* What is started                                                         *)
(***************************************************************************)
LEMMA SameChoice ==
  ASSUME NEW S, NEW T, S = T
  PROVE  (CHOOSE k \in S : TRUE) = (CHOOSE k \in T : TRUE)
  OBVIOUS

\* The arguments are left as they are.
LEMMA ArgumentsStay ==
  ASSUME UNCHANGED <<argv, i, namedArgValues>>, ArgsInv
  PROVE  /\ ArgsTypeOK' /\ KeepsFirst' /\ TakesWhatIsSaid'
         /\ WellFormed' = WellFormed
         /\ \A name : Asked(name)' = Asked(name)
<1>1. ArgsTypeOK'
  BY DEF ArgsInv, ArgsTypeOK
<1>2. KeepsFirst'
  BY DEF ArgsInv, KeepsFirst
<1>3. WellFormed' = WellFormed
  BY DEF WellFormed, Naming
<1>4. \A name : Naming(name)' = Naming(name)
  BY DEF Naming
<1>5. ASSUME NEW name PROVE Asked(name)' = Asked(name)
  <2>1. Naming(name)' = Naming(name) /\ argv' = argv
    BY <1>4
  <2>2. (CHOOSE k \in Naming(name)' : TRUE) = (CHOOSE k \in Naming(name) : TRUE)
    BY <2>1, SameChoice
  <2>3. Asked(name)' = IF Naming(name)' = {} THEN << >>
                       ELSE Tail(argv'[CHOOSE k \in Naming(name)' : TRUE])
    BY DEF Asked
  <2>4. Asked(name) = IF Naming(name) = {} THEN << >>
                      ELSE Tail(argv[CHOOSE k \in Naming(name) : TRUE])
    BY DEF Asked
  <2> QED
    BY <2>1, <2>2, <2>3, <2>4
<1>6. TakesWhatIsSaid'
  BY <1>3, <1>4 DEF ArgsInv, TakesWhatIsSaid
<1> QED
  BY <1>1, <1>2, <1>3, <1>5, <1>6

\* After the loop, no argument says something else than what was taken.
LEMMA NoneElse ==
  ASSUME ArgsInv, AllSeen, UNCHANGED <<argv, i, namedArgValues>>
  PROVE  NoValueIsReplaced'
<1>1. argv \in CommandLines /\ 1 .. i - 1 = DOMAIN argv
  <2>1. argv \in CommandLines /\ i \in 1 .. Len(argv) + 1 /\ i > Len(argv)
    BY DEF ArgsInv, ArgsTypeOK, AllSeen
  <2> QED
    BY <2>1, Arguments
<1> QED
  BY <1>1 DEF ArgsInv, KeepsFirst, NoValueIsReplaced

\* What the properties say of the arguments, in terms of what was taken.
LEMMA Taken ==
  ASSUME ArgsInv, AllSeen, WellFormed
  PROVE  /\ namedArgValues["--root="] = CurrentFolder
         /\ \A name \in {"--type=", "--port=", "--file=", "--request=", "--blksize=",
                         "--timeout="} : Asked(name) = namedArgValues[name]
<1>1. namedArgValues["--root="] = CurrentFolder
  BY DEF ArgsInv, TakesWhatIsSaid
<1>2. {"--type=", "--port=", "--file=", "--request=", "--blksize=", "--timeout="}
        \subseteq Names \ {"--root="}
  BY NamesAre
<1> QED
  BY <1>1, <1>2, AskedIsTaken

\* The options of a client that is started are what was taken, in range.
LEMMA OptionsTaken ==
  ASSUME InRange
  PROVE  /\ ClientOptions["blksize"] = IF Given("--blksize=") THEN ValueOf("--blksize=") ELSE Unset
         /\ ClientOptions["timeout"] = IF Given("--timeout=") THEN ValueOf("--timeout=") ELSE Unset
         /\ SetOptionsOk([ClientOptions EXCEPT !["timeout"] = Unset])
<1> DEFINE blksize == IF Given("--blksize=") THEN ValueOf("--blksize=") ELSE Unset
           timeout == IF Given("--timeout=") THEN ValueOf("--timeout=") ELSE Unset
           asked == [ClientOptions EXCEPT !["timeout"] = Unset]
<1>1. blksize # Unset => blksize \in MinBlksize .. MaxBlksize
  BY DEF InRange
<1>2. ClientOptions = [NoOptions EXCEPT !["blksize"] = blksize, !["timeout"] = timeout]
  BY DEF ClientOptions
<1> HIDE DEF blksize, timeout
<1>3. ClientOptions["blksize"] = blksize /\ ClientOptions["timeout"] = timeout
  BY <1>2 DEF NoOptions, OptionNames
<1>4. asked["blksize"] = blksize /\ asked["timeout"] = Unset /\ asked["tsize"] = Unset
  BY <1>2 DEF NoOptions, OptionNames
<1>5. blksize # Unset => atoi(blksize) \in MinBlksize .. MaxBlksize
  BY <1>1, BlksizeReadBack
<1> HIDE DEF asked
<1>6. SetOptionsOk(asked)
  BY <1>4, <1>5 DEF SetOptionsOk
<1> QED
  BY <1>3, <1>6 DEF blksize, timeout, asked

LEMMA ClientIsWhatIsAsked ==
  ASSUME ArgsInv, StartClient
  PROVE  StartsWhatIsAsked' /\ ServerTakesBlksize'
<1>1. /\ AllSeen /\ UNCHANGED <<argv, i, namedArgValues>>
      /\ namedArgValues["--type="] = <<"client">>
  BY DEF StartClient
<1>2. WellFormed' = WellFormed /\ \A name : Asked(name)' = Asked(name)
  BY <1>1, ArgumentsStay
<1>3. CASE argv[Len(argv)] \in Addresses /\ InRange
  <2> DEFINE options == ClientOptions
             request == requestType
             port == Port
  <2>1. outcome' = [program |-> "client", address |-> argv[Len(argv)], port |-> port,
                    request |-> request, file |-> namedArgValues["--file="],
                    options |-> options, root |-> namedArgValues["--root="]]
    BY <1>3 DEF StartClient
  <2>2. /\ options["blksize"] = IF Given("--blksize=") THEN ValueOf("--blksize=") ELSE Unset
        /\ options["timeout"] = IF Given("--timeout=") THEN ValueOf("--timeout=") ELSE Unset
        /\ SetOptionsOk([options EXCEPT !["timeout"] = Unset])
    BY <1>3, OptionsTaken
  <2>3. /\ request = "WRQ" <=> namedArgValues["--request="] = <<"write">>
        /\ request = "RRQ" <=> namedArgValues["--request="] = <<"read">>
    <3>1. <<"write">> # <<"read">>
      OBVIOUS
    <3> QED
      BY <3>1 DEF requestType
  <2>4. Given("--port=") => port = ValueOf("--port=") % PortModulus
    BY DEF Port
  <2> HIDE DEF options, request, port
  <2>5. /\ outcome'.program = "client" /\ outcome'.root = namedArgValues["--root="]
        /\ outcome'.file = namedArgValues["--file="] /\ outcome'.port = port
        /\ outcome'.request = request /\ outcome'.options = options
    BY <2>1
  <2>6. ServerTakesBlksize'
    BY <2>2, <2>5 DEF ServerTakesBlksize
  <2>7. ASSUME WellFormed
        PROVE  /\ Asked("--type=") = <<"client">> /\ outcome'.root = CurrentFolder
               /\ Asked("--port=") # << >> =>
                    outcome'.port = NumberOf(Asked("--port=")) % PortModulus
               /\ outcome'.file = Asked("--file=")
               /\ outcome'.request = "WRQ" <=> Asked("--request=") = <<"write">>
               /\ outcome'.request = "RRQ" <=> Asked("--request=") = <<"read">>
    BY <1>1, <2>3, <2>4, <2>5, <2>7, Taken DEF Given, ValueOf
  <2>8. ASSUME WellFormed,
               NEW o \in {<<"blksize", "--blksize=">>, <<"timeout", "--timeout=">>}
        PROVE  outcome'.options[o[1]] =
                 IF Asked(o[2]) = << >> THEN Unset ELSE NumberOf(Asked(o[2]))
    BY <1>1, <2>2, <2>5, <2>8, Taken DEF Given, ValueOf
  <2>9. StartsWhatIsAsked'
    <3> SUFFICES ASSUME WellFormed
                 PROVE  /\ Asked("--type=") = <<outcome'.program>>
                        /\ outcome'.root = CurrentFolder
                        /\ Asked("--port=") # << >> =>
                             outcome'.port = NumberOf(Asked("--port=")) % PortModulus
                        /\ outcome'.file = Asked("--file=")
                        /\ outcome'.request = "WRQ" <=> Asked("--request=") = <<"write">>
                        /\ outcome'.request = "RRQ" <=> Asked("--request=") = <<"read">>
                        /\ \A o \in {<<"blksize", "--blksize=">>, <<"timeout", "--timeout=">>} :
                             outcome'.options[o[1]] =
                               IF Asked(o[2]) = << >> THEN Unset ELSE NumberOf(Asked(o[2]))
      BY <1>2, <2>5 DEF StartsWhatIsAsked
    <3> QED
      BY <2>5, <2>7, <2>8
  <2> QED
    BY <2>6, <2>9
<1>4. CASE ~(argv[Len(argv)] \in Addresses /\ InRange)
  <2>1. outcome'.program = "usage"
    BY <1>4 DEF StartClient, UsageMessage
  <2>2. ASSUME WellFormed
        PROVE  /\ Asked("--type=") = <<"client">>
               /\ \/ argv[Len(argv)] \notin Addresses
                  \/ OutOfRange("--blksize=", MinBlksize .. MaxBlksize)
                  \/ OutOfRange("--timeout=", 1 .. MaxTimeout)
    BY <1>1, <1>4, <2>2, Taken DEF InRange, Given, ValueOf, OutOfRange
  <2>3. StartsWhatIsAsked'
    BY <1>1, <1>2, <2>1, <2>2 DEF StartsWhatIsAsked, OutOfRange
  <2> QED
    BY <2>1, <2>3 DEF ServerTakesBlksize
<1> QED
  BY <1>3, <1>4

LEMMA ServerIsWhatIsAsked ==
  ASSUME ArgsInv, StartServer
  PROVE  StartsWhatIsAsked' /\ ServerTakesBlksize'
<1>1. /\ AllSeen /\ UNCHANGED <<argv, i, namedArgValues>>
      /\ namedArgValues["--type="] = <<"server">>
      /\ outcome'.program = "server" /\ outcome'.port = Port
      /\ outcome'.root = namedArgValues["--root="]
  BY DEF StartServer
<1>2. WellFormed' = WellFormed /\ \A name : Asked(name)' = Asked(name)
  BY <1>1, ArgumentsStay
<1>3. ASSUME WellFormed
      PROVE  /\ Asked("--type=") = <<"server">> /\ outcome'.root = CurrentFolder
             /\ Asked("--port=") # << >> =>
                  outcome'.port = NumberOf(Asked("--port=")) % PortModulus
  BY <1>1, <1>3, Taken DEF Port, Given, ValueOf
<1>4. StartsWhatIsAsked'
  BY <1>1, <1>2, <1>3 DEF StartsWhatIsAsked
<1> QED
  BY <1>1, <1>4 DEF ServerTakesBlksize

(***************************************************************************)
(* Every step                                                              *)
(***************************************************************************)
LEMMA NextArgs == ArgsInv /\ [Next]_vars => ArgsInv'
<1> SUFFICES ASSUME ArgsInv, [Next]_vars PROVE ArgsInv'
  OBVIOUS
<1>1. CASE SkipArgument \/ TakeArgument
  <2>1. ArgsTypeOK' /\ KeepsFirst' /\ TakesWhatIsSaid'
    BY <1>1, LoopKeeps
  <2>2. outcome' = Running
    BY <1>1 DEF SkipArgument, TakeArgument, Looking
  <2>3. Started'
    BY <2>2 DEF Started, Running, NoValueIsReplaced, StartsWhatIsAsked, ServerTakesBlksize
  <2> QED
    BY <2>1, <2>3 DEF ArgsInv
<1>2. CASE RefuseArgument
  <2>1. UNCHANGED <<argv, i, namedArgValues>> /\ outcome'.program = "usage"
    BY <1>2 DEF RefuseArgument, UsageMessage
  <2>2. ArgsTypeOK' /\ KeepsFirst' /\ TakesWhatIsSaid' /\ WellFormed' = WellFormed
    BY <2>1, ArgumentsStay
  <2>3. ~WellFormed'
    BY <1>2, <2>2, RefusedForItsForm
  <2>4. Started'
    BY <2>1, <2>3 DEF Started, NoValueIsReplaced, StartsWhatIsAsked, ServerTakesBlksize
  <2> QED
    BY <2>2, <2>4 DEF ArgsInv
<1>3. CASE StartClient
  <2>1. AllSeen /\ UNCHANGED <<argv, i, namedArgValues>>
    BY <1>3 DEF StartClient
  <2>2. ArgsTypeOK' /\ KeepsFirst' /\ TakesWhatIsSaid' /\ NoValueIsReplaced'
    BY <2>1, ArgumentsStay, NoneElse
  <2>3. StartsWhatIsAsked' /\ ServerTakesBlksize'
    BY <1>3, ClientIsWhatIsAsked
  <2> QED
    BY <2>2, <2>3 DEF ArgsInv, Started
<1>4. CASE StartServer
  <2>1. AllSeen /\ UNCHANGED <<argv, i, namedArgValues>>
    BY <1>4 DEF StartServer
  <2>2. ArgsTypeOK' /\ KeepsFirst' /\ TakesWhatIsSaid' /\ NoValueIsReplaced'
    BY <2>1, ArgumentsStay, NoneElse
  <2>3. StartsWhatIsAsked' /\ ServerTakesBlksize'
    BY <1>4, ServerIsWhatIsAsked
  <2> QED
    BY <2>2, <2>3 DEF ArgsInv, Started
<1>5. CASE NeitherOfThem
  <2>1. /\ AllSeen /\ UNCHANGED <<argv, i, namedArgValues>> /\ outcome'.program = "usage"
        /\ namedArgValues["--type="] \notin {<<"client">>, <<"server">>}
    BY <1>5 DEF NeitherOfThem, UsageMessage
  <2>2. /\ ArgsTypeOK' /\ KeepsFirst' /\ TakesWhatIsSaid'
        /\ WellFormed' = WellFormed /\ Asked("--type=")' = Asked("--type=")
    BY <2>1, ArgumentsStay
  <2>3. WellFormed => Asked("--type=") \notin {<<"client">>, <<"server">>}
    BY <2>1, Taken
  <2>4. StartsWhatIsAsked'
    BY <2>1, <2>2, <2>3 DEF StartsWhatIsAsked
  <2>5. NoValueIsReplaced' /\ ServerTakesBlksize'
    BY <2>1 DEF NoValueIsReplaced, ServerTakesBlksize
  <2> QED
    BY <2>2, <2>4, <2>5 DEF ArgsInv, Started
<1>6. CASE UNCHANGED vars
  <2>1. UNCHANGED <<argv, i, namedArgValues>> /\ outcome' = outcome
    BY <1>6 DEF vars
  <2>2. /\ ArgsTypeOK' /\ KeepsFirst' /\ TakesWhatIsSaid'
        /\ WellFormed' = WellFormed /\ \A name : Asked(name)' = Asked(name)
    BY <2>1, ArgumentsStay
  <2>3. NoValueIsReplaced' /\ ServerTakesBlksize'
    BY <2>1 DEF ArgsInv, Started, NoValueIsReplaced, ServerTakesBlksize
  <2>4. StartsWhatIsAsked'
    BY <2>1, <2>2 DEF ArgsInv, Started, StartsWhatIsAsked, OutOfRange
  <2> QED
    BY <2>2, <2>3, <2>4 DEF ArgsInv, Started
<1> QED
  BY <1>1, <1>2, <1>3, <1>4, <1>5, <1>6 DEF Next

(***************************************************************************)
(* Theorems                                                                *)
(***************************************************************************)

\* A command line of the usage message's form starts what it asks for, in
\* whatever order its arguments are, and is refused only for a type, an
\* address or a number (run()).
THEOREM ArgumentsObeyed == Spec => []StartsWhatIsAsked
<1>1. ArgsInv => StartsWhatIsAsked
  BY DEF ArgsInv, Started
<1> QED
  BY <1>1, InitArgs, NextArgs, PTL DEF Spec

\* Nothing is started when a name is given two values (the test of
\* namedArgVal.second in run()).
THEOREM FirstValuesKept == Spec => []NoValueIsReplaced
<1>1. ArgsInv => NoValueIsReplaced
  BY DEF ArgsInv, Started
<1> QED
  BY <1>1, InitArgs, NextArgs, PTL DEF Spec

\* A block size that run() lets through is let through by the server's own
\* test (run(), setOptionsFromMap()).
THEOREM BlksizeAccepted == Spec => []ServerTakesBlksize
<1>1. ArgsInv => ServerTakesBlksize
  BY DEF ArgsInv, Started
<1> QED
  BY <1>1, InitArgs, NextArgs, PTL DEF Spec
=============================================================================
