------------------------------- MODULE Options --------------------------------
(***************************************************************************)
(* TransactionOptionValues: the options of RFC 2347 that a request and an  *)
(* OACK carry.                                                             *)
(*                                                                         *)
(* A map of options gives each name the number that its text spells, or    *)
(* Unset; a text that spells no number counts as 0, which is what atoi     *)
(* makes of it.  A TransactionOptionValues has the same form: each member, *)
(* by the name of its option, has a value or is Unset.                     *)
(***************************************************************************)
EXTENDS Integers

CONSTANTS
  MinBlksize, MaxBlksize,  \* 8 and 65464 in the code
  MaxTimeout,              \* 255, the largest uint8_t
  IntModulus,              \* 2^32: the width of int
  LongMax,                 \* 2^63 - 1, where strtol stops
  UintMax,                 \* 2^64 - 1, file_size() of a file it cannot find
  DEFAULT_BLOCKSIZE,       \* 512
  RETRANSMISSION_TIME      \* 2 seconds

OptionNames == {"blksize", "timeout", "tsize"}

ASSUME OptionsAssumption ==
  /\ {MinBlksize, MaxBlksize, MaxTimeout, LongMax, UintMax} \subseteq Nat
  /\ MinBlksize <= DEFAULT_BLOCKSIZE /\ DEFAULT_BLOCKSIZE <= MaxBlksize
  /\ MaxTimeout < DEFAULT_BLOCKSIZE
  /\ IntModulus \in Nat \ {0} /\ IntModulus % 2 = 0
  /\ MaxBlksize < IntModulus \div 2
  /\ IntModulus <= LongMax /\ LongMax < UintMax
  /\ DEFAULT_BLOCKSIZE \in Nat /\ RETRANSMISSION_TIME \in 1 .. MaxTimeout

Unset == -1

OptionMaps == [OptionNames -> Nat \cup {Unset}]

NoOptions == [o \in OptionNames |-> Unset]

Present(options) == {o \in OptionNames : options[o] # Unset}

\* glibc's atoi is (int) strtol(..): clamped to a long, then cut to an int.
atoi(n) ==
  LET cut == (IF n > LongMax THEN LongMax ELSE n) % IntModulus
  IN  IF cut < IntModulus \div 2 THEN cut ELSE cut - IntModulus

(***************************************************************************)
(* setOptionsFromMap().  The timeout is read from the entry of blksize: at *)
(* throws std::out_of_range when there is none.                            *)
(***************************************************************************)
SetOptionsThrows(map) == map["timeout"] # Unset /\ map["blksize"] = Unset

SetOptionsOkUnsigned(map) ==   \* mutant: a negative tsize is let through
  /\ map["blksize"] # Unset => atoi(map["blksize"]) \in MinBlksize .. MaxBlksize
  /\ map["timeout"] # Unset =>
       map["blksize"] # Unset /\ atoi(map["blksize"]) \in 0 .. MaxTimeout

SetOptionsOk(map) ==
  /\ map["blksize"] # Unset => atoi(map["blksize"]) \in MinBlksize .. MaxBlksize
  /\ map["timeout"] # Unset =>
       map["blksize"] # Unset /\ atoi(map["blksize"]) \in 0 .. MaxTimeout
  /\ map["tsize"] # Unset => atoi(map["tsize"]) >= 0

SetOptionsRefuses(map) == ~SetOptionsThrows(map) /\ ~SetOptionsOk(map)

\* The entry of the map that a member is read from.
ReadFrom(o) == IF o = "timeout" THEN "blksize" ELSE o

setOptionsFromMap(map) ==
  [o \in OptionNames |-> IF map[o] = Unset THEN Unset ELSE atoi(map[ReadFrom(o)])]

\* getOptionsAsMap(): an entry for each member that is set, spelt in full.
getOptionsAsMap(values) == [o \in OptionNames |-> values[o]]

isDefault(values) == Present(values) = {}

\* value_or() in the constructions of sessions
ValueOr(value, default) == IF value = Unset THEN default ELSE value

BlocksizeToUse(values) == ValueOr(values["blksize"], DEFAULT_BLOCKSIZE)
TimeoutToUse(values)   == ValueOr(values["timeout"], RETRANSMISSION_TIME)
=============================================================================
