------------------------- MODULE ProcessSystemInfo -------------------------
(***************************************************************************)
(* The system information process_minidump_with_options assembles         *)
(* (src/minidump-processor/src/processor.rs 105-171) into SystemInfo      *)
(* (system_info.rs) and the Linux standard base of the ProcessState: the  *)
(* OS version string, the microcode version from /proc/cpuinfo, and the    *)
(* lsb-release fields.                                                     *)
(*                                                                         *)
(* The Linux sidecar streams are handed over by the minidump crate as     *)
(* sequences of (key, value) byte strings; the loops over them are folds  *)
(* here.  A byte string is a sequence of tokens: "0", "f", "x", "+", and  *)
(* letters stand for themselves, "bad" for a byte that is not UTF-8.      *)
(* u64 is scaled to Bits bits so that overflow is reachable.              *)
(***************************************************************************)
EXTENDS Naturals, Sequences, SequencesExt

CONSTANTS
  Bits,        \* width of u64 in the model
  Inputs,      \* the streams as read: see Input below
  None

(***************************************************************************)
(* Lines 105-114: major.minor.build, then a space and the CSD version      *)
(* when there is one.                                                      *)
(***************************************************************************)
OsVersion(raw, csd) ==
  <<raw[1], ".", raw[2], ".", raw[3]>>
    \o (IF csd = None THEN <<>> ELSE <<" ", csd>>)

\* str::from_utf8(..).ok(): the whole string or nothing.
ToStr(s) == IF "bad" \in ToSet(s) THEN None ELSE s

\* String::from_utf8_lossy: each invalid byte becomes U+FFFD.
ToStringLossy(s) == [j \in DOMAIN s |-> IF s[j] = "bad" THEN "U+FFFD" ELSE s[j]]

HexDigit == "0" :> 0 @@ "f" :> 15 @@ "F" :> 15

\* Mutant: the digits are accumulated without the overflow checks.
AccumulateUnchecked(acc, ds) ==
  LET RECURSIVE Go(_, _)
      Go(a, s) == IF s = <<>> THEN a
                  ELSE IF Head(s) \notin DOMAIN HexDigit THEN None
                  ELSE Go(a * 16 + HexDigit[Head(s)], Tail(s))
  IN Go(acc, ds)

\* u64::from_str_radix(_, 16)'s digit loop: checked_mul then checked_add,
\* an error on a non-digit or on overflow.
RECURSIVE Accumulate(_, _)
Accumulate(acc, ds) ==
  IF ds = <<>> THEN acc
  ELSE IF Head(ds) \notin DOMAIN HexDigit THEN None
  ELSE LET v == acc * 16 + HexDigit[Head(ds)]
       IN IF v >= 2^Bits THEN None ELSE Accumulate(v, Tail(ds))

\* u64::from_str_radix(s, 16).ok(): an empty string and a lone sign are
\* errors; one leading '+' is accepted.
FromStrRadix16(s) ==
  CASE s = <<>> \/ s = <<"+">> -> None
    [] Head(s) = "+" -> Accumulate(0, Tail(s))
    [] OTHER -> Accumulate(0, s)

\* Lines 132-136: to_str, strip_prefix("0x"), from_str_radix.
ParseMicrocode(val) ==
  LET s == ToStr(val)
  IN IF s = None \/ Len(s) < 2 \/ SubSeq(s, 1, 2) # <<"0", "x">> THEN None
     ELSE FromStrRadix16(SubSeq(s, 3, Len(s)))

\* Mutant: the loop does not break at the first microcode entry.
RECURSIVE MicrocodeLoopNoBreak(_)
MicrocodeLoopNoBreak(pairs) ==
  IF pairs = <<>> THEN None
  ELSE LET rest == MicrocodeLoopNoBreak(Tail(pairs))
       IN IF \E k \in DOMAIN Tail(pairs) : Tail(pairs)[k].key = "microcode"
          THEN rest
          ELSE IF Head(pairs).key = "microcode"
               THEN ParseMicrocode(Head(pairs).val) ELSE None

\* Lines 129-139: the first entry whose key is "microcode" decides, and
\* the loop breaks there.
RECURSIVE MicrocodeLoop(_)
MicrocodeLoop(pairs) ==
  IF pairs = <<>> THEN None
  ELSE IF Head(pairs).key = "microcode" THEN ParseMicrocode(Head(pairs).val)
  ELSE MicrocodeLoop(Tail(pairs))

LsbFields == {"id", "release", "codename", "description"}

\* Mutant: only the lsb-release names, not the os-release ones.
KeyFieldDistribOnly ==
  "DISTRIB_ID" :> "id" @@ "DISTRIB_RELEASE" :> "release"
  @@ "DISTRIB_CODENAME" :> "codename" @@ "DISTRIB_DESCRIPTION" :> "description"

\* Lines 144-155: the match arms, lsb-release and os-release names.
KeyField ==
  "DISTRIB_ID" :> "id" @@ "ID" :> "id"
  @@ "DISTRIB_RELEASE" :> "release" @@ "VERSION_ID" :> "release"
  @@ "DISTRIB_CODENAME" :> "codename" @@ "VERSION_CODENAME" :> "codename"
  @@ "DISTRIB_DESCRIPTION" :> "description" @@ "PRETTY_NAME" :> "description"

\* Lines 141-158: LinuxStandardBase::default() (empty strings), then each
\* line with a known key overwrites its field; None without the stream.
LinuxStandardBase(pairs) ==
  LET RECURSIVE Fold(_, _)
      Fold(lsb, s) ==
        IF s = <<>> THEN lsb
        ELSE Fold(IF Head(s).key \in DOMAIN KeyField
                  THEN [lsb EXCEPT ![KeyField[Head(s).key]] =
                          ToStringLossy(Head(s).val)]
                  ELSE lsb, Tail(s))
  IN IF pairs = None THEN None ELSE Fold([f \in LsbFields |-> <<>>], pairs)

\* The fields of struct SystemInfo (system_info.rs 4-28).
SystemInfoFields ==
  {"os", "os_version", "os_build", "cpu", "cpu_info",
   "cpu_microcode_version", "cpu_count"}

(***************************************************************************)
(* Lines 160-171: the SystemInfo literal.  It sets no os_build (the CSD    *)
(* version went into os_version above); os_build is None here, the value  *)
(* the fuzz target gives it.                                               *)
(***************************************************************************)
SystemInfoOf(inp) ==
  [os |-> inp.os,
   os_version |-> OsVersion(inp.raw, inp.csd),
   os_build |-> None,
   cpu |-> inp.cpu,
   cpu_info |-> inp.cpuInfo,
   cpu_microcode_version |-> MicrocodeLoop(inp.cpuInfoPairs),
   cpu_count |-> inp.processors]

VARIABLES input, result
vars == <<input, result>>

Init == input = None /\ result = None

\* Lines 105-171, run once per call.
Assemble ==
  /\ input = None
  /\ \E inp \in Inputs :
       /\ input' = inp
       /\ result' = [system_info |-> SystemInfoOf(inp),
                     linux_standard_base |-> LinuxStandardBase(inp.lsbPairs)]

\* The values are assembled; nothing changes any more.
Returned == input # None /\ UNCHANGED vars

Next == Assemble \/ Returned

Spec == Init /\ [][Next]_vars

-----------------------------------------------------------------------------
\* A SystemInfo with every field, the microcode version a u64 or None, and
\* every lsb field valid UTF-8.
TypeOK ==
  result = None \/
    /\ DOMAIN result.system_info = SystemInfoFields
    /\ result.system_info.cpu_microcode_version \in 0..(2^Bits - 1) \cup {None}
    /\ result.linux_standard_base = None
       \/ \A f \in LsbFields : "bad" \notin ToSet(result.linux_standard_base[f])

\* The value of a string of hex digits, without any bound.
RECURSIVE HexValue(_)
HexValue(ds) ==
  IF ds = <<>> THEN 0
  ELSE HexDigit[Last(ds)] + 16 * HexValue(SubSeq(ds, 1, Len(ds) - 1))

\* A microcode value as /proc/cpuinfo writes it: "0x", an optional '+',
\* one or more hex digits, no invalid byte.
IsHexLiteral(v) ==
  /\ Len(v) >= 3 /\ SubSeq(v, 1, 2) = <<"0", "x">>
  /\ LET ds == IF v[3] = "+" THEN SubSeq(v, 4, Len(v)) ELSE SubSeq(v, 3, Len(v))
     IN ds # <<>> /\ ToSet(ds) \subseteq DOMAIN HexDigit

HexLiteralValue(v) ==
  HexValue(IF v[3] = "+" THEN SubSeq(v, 4, Len(v)) ELSE SubSeq(v, 3, Len(v)))

(***************************************************************************)
(* The microcode version is that of the FIRST "microcode" entry of        *)
(* cpuinfo, the hex number after "0x", when it fits in a u64, and None     *)
(* when that first entry is not such a number, even if a later one is.     *)
(* About the loop's break (line 137) and from_str_radix's overflow check  *)
(* on each digit, which leading zeros must not trip.                       *)
(***************************************************************************)
MicrocodeOfFirstEntry ==
  input # None =>
    LET pairs == input.cpuInfoPairs
        ks == {k \in DOMAIN pairs : pairs[k].key = "microcode"}
        v == pairs[Min(ks)].val
    IN result.system_info.cpu_microcode_version =
         IF ks = {} \/ ~IsHexLiteral(v) \/ HexLiteralValue(v) >= 2^Bits
         THEN None ELSE HexLiteralValue(v)

(***************************************************************************)
(* Each lsb field is the (lossily decoded) value of the LAST line naming   *)
(* it, by its lsb-release or its os-release key, and empty when no line   *)
(* does: a file with both DISTRIB_ID and ID takes whichever comes later.  *)
(* About the match arms of lines 144-155 and their overwriting.            *)
(***************************************************************************)
LsbOfLastLines ==
  LET \* the names of each field in lsb-release and in os-release
      names == [id |-> {"DISTRIB_ID", "ID"},
                release |-> {"DISTRIB_RELEASE", "VERSION_ID"},
                codename |-> {"DISTRIB_CODENAME", "VERSION_CODENAME"},
                description |-> {"DISTRIB_DESCRIPTION", "PRETTY_NAME"}]
  IN
  input # None /\ input.lsbPairs # None =>
    \A f \in LsbFields :
      LET pairs == input.lsbPairs
          ks == {k \in DOMAIN pairs : pairs[k].key \in names[f]}
      IN result.linux_standard_base[f] =
           IF ks = {} THEN <<>> ELSE ToStringLossy(pairs[Max(ks)].val)

(***************************************************************************)
(* test_processor (tests/test_processor.rs 56-58): for a dump of Windows   *)
(* 5.1.2600 with CSD version "Service Pack 2", os_version is "5.1.2600"   *)
(* and os_build is "Service Pack 2".                                       *)
(***************************************************************************)
TestProcessorSystemInfo ==
  input # None /\ input.raw = <<5, 1, 2600>> /\ input.csd = "Service Pack 2"
    => /\ result.system_info.os_version = <<5, ".", 1, ".", 2600>>
       /\ result.system_info.os_build = "Service Pack 2"
=============================================================================
