------------------------ MODULE MCProcessSystemInfo ------------------------
(***************************************************************************)
(* Model-checking instance of ProcessSystemInfo: u64 as 4 bits (one hex    *)
(* digit), cpuinfo lists of up to two entries whose first value is any     *)
(* string of up to four of "0", "x", "f", "+", lsb-release files of up to  *)
(* three lines, and the test_processor dump's version, with and without   *)
(* its CSD version.                                                        *)
(***************************************************************************)
EXTENDS ProcessSystemInfo

Tokens == {"0", "x", "f", "+"}
ShortStrings == UNION {[1..n -> Tokens] : n \in 0..4}

\* Every short string, an upper-case digit, and an invalid byte.
MicrocodeVals == ShortStrings \cup {<<"0", "x", "F">>, <<"0", "x", "f", "bad">>}
\* A second entry's value: valid and different, or invalid.
SecondVals == {<<"0", "x", "f">>, <<"0", "x", "0">>, <<"x">>}
CpuKeys == {"microcode", "model"}

CpuInfoLists ==
  {<<>>}
  \cup {<<[key |-> k, val |-> v]>> : k \in CpuKeys, v \in MicrocodeVals}
  \cup {<<[key |-> k1, val |-> v], [key |-> k2, val |-> w]>> :
          k1, k2 \in CpuKeys, v \in MicrocodeVals, w \in SecondVals}

\* An lsb-release name, the os-release name of the same field, another
\* field's name and an unknown key; a valid value and one with an invalid
\* byte.
LsbKeys == {"DISTRIB_ID", "ID", "PRETTY_NAME", "other"}
LsbVals == {<<"a">>, <<"b", "bad">>}
LsbLists ==
  {None} \cup UNION {[1..n -> [key: LsbKeys, val: LsbVals]] : n \in 0..3}

Input(csd, cpuPairs, lsbPairs) ==
  [os |-> "Windows", raw |-> <<5, 1, 2600>>, csd |-> csd, cpu |-> "X86",
   cpuInfo |-> None, processors |-> 1,
   cpuInfoPairs |-> cpuPairs, lsbPairs |-> lsbPairs]

MCInputs ==
  {Input(csd, c, None) : csd \in {None, "Service Pack 2"}, c \in CpuInfoLists}
  \cup {Input(csd, <<>>, l) : csd \in {None, "Service Pack 2"}, l \in LsbLists}
=============================================================================
