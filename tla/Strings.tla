------------------------------ MODULE Strings ------------------------------
(***************************************************************************)
(* The byte-string helpers of LinuxOsStr (src/minidump/src/strings.rs,    *)
(* lines 64-131).  Every helper borrows from its input, so a result is a  *)
(* slice: a 0-based start and a length into the input, not a copy.        *)
(* Bytes are model values; which of them are ASCII whitespace is given as  *)
(* a constant, following u8::is_ascii_whitespace (space, tab, LF, FF, CR;  *)
(* not VT).                                                                *)
(*                                                                         *)
(* A behaviour is one call of all helpers on one input and one separator. *)
(***************************************************************************)
EXTENDS Naturals, Sequences, SequencesExt

CONSTANTS
  Bytes,            \* the byte values an input is made of
  AsciiWhitespace,  \* the bytes u8::is_ascii_whitespace accepts
  LF,               \* b'\n', the separator of lines()
  MaxLen,           \* bound on the input's length
  None              \* Option::None

ASSUME AsciiWhitespace \subseteq Bytes /\ LF \in AsciiWhitespace
ASSUME MaxLen \in Nat /\ None \notin Bytes

\* &input[from..to]
Sl(from, to) == [start |-> from, len |-> to - from]

\* The bytes a slice of s denotes.
Content(s, sl) == SubSeq(s, sl.start + 1, sl.start + sl.len)

\* Mutant: the last separator is taken (rposition for position).
SplitOnceLast(s, sep) ==
  LET idx == SelectLastInSeq(s, LAMBDA b : b = sep)
  IN IF idx = 0 THEN None ELSE <<Sl(0, idx - 1), Sl(idx, Len(s))>>

\* Lines 64-71: iter().position of the first separator, then the slices
\* before it and after it.  SelectInSeq is 1-based, idx below is 0-based
\* idx + 1.
SplitOnce(s, sep) ==
  LET idx == SelectInSeq(s, LAMBDA b : b = sep)
  IN IF idx = 0 THEN None ELSE <<Sl(0, idx - 1), Sl(idx, Len(s))>>

\* Lines 72-79: the same around the last separator (rposition).
RSplitOnce(s, sep) ==
  LET idx == SelectLastInSeq(s, LAMBDA b : b = sep)
  IN IF idx = 0 THEN None ELSE <<Sl(0, idx - 1), Sl(idx, Len(s))>>

(***************************************************************************)
(* <[u8]>::split with the predicate "b is in seps": the piece up to the   *)
(* next matching byte, then the rest after it; the last piece runs to the *)
(* end, so n matches give n + 1 pieces, empty ones included.              *)
(***************************************************************************)
RECURSIVE SplitFrom(_, _, _)
SplitFrom(s, seps, from) ==
  LET hits == {k \in from..(Len(s) - 1) : s[k + 1] \in seps}
  IN IF hits = {} THEN <<Sl(from, Len(s))>>
     ELSE LET k == Min(hits)
          IN <<Sl(from, k)>> \o SplitFrom(s, seps, k + 1)

\* Mutant: a trailing empty piece is dropped, as str::lines does.
SplitDropEmptyTail(s, seps) ==
  LET p == SplitFrom(s, seps, 0)
  IN IF Len(p) > 1 /\ p[Len(p)].len = 0 THEN SubSeq(p, 1, Len(p) - 1) ELSE p

\* Lines 81-85: split(separator).
Split(s, seps) == SplitFrom(s, seps, 0)

\* Mutant: empty pieces are kept.
SplitAsciiWhitespaceUnfiltered(s) == Split(s, AsciiWhitespace)

\* Lines 87-94: split on every whitespace byte, drop the empty pieces.
SplitAsciiWhitespace(s) ==
  SelectSeq(Split(s, AsciiWhitespace), LAMBDA p : p.len # 0)

\* Lines 96-101: split(b'\n'), with no special case for \r or a final \n.
Lines(s) == Split(s, {LF})

\* Mutant: the end is exclusive (first..last for first..=last).
TrimExclusiveEnd(s) ==
  LET first == SelectInSeq(s, LAMBDA b : b \notin AsciiWhitespace)
      last == SelectLastInSeq(s, LAMBDA b : b \notin AsciiWhitespace)
  IN IF first # 0 /\ last # 0 THEN Sl(first - 1, last - 1) ELSE Sl(0, 0)

\* Mutant: the end is one past the last non-whitespace byte (..=last+1).
TrimPastEnd(s) ==
  LET first == SelectInSeq(s, LAMBDA b : b \notin AsciiWhitespace)
      last == SelectLastInSeq(s, LAMBDA b : b \notin AsciiWhitespace)
  IN IF first # 0 /\ last # 0 THEN Sl(first - 1, last + 1) ELSE Sl(0, 0)

\* Lines 103-131: the first and the last non-whitespace index, the slice
\* first..=last between them, and input[0..0] when there is none.
TrimAsciiWhitespace(s) ==
  LET first == SelectInSeq(s, LAMBDA b : b \notin AsciiWhitespace)
      last == SelectLastInSeq(s, LAMBDA b : b \notin AsciiWhitespace)
  IN IF first # 0 /\ last # 0 THEN Sl(first - 1, last) ELSE Sl(0, 0)

VARIABLES
  input,   \* <<bytes, separator>> of the call, or None before it
  result   \* the helpers' results, or None before the call

vars == <<input, result>>

Init == input = None /\ result = None

\* One call of every helper on an input of at most MaxLen bytes.
Call ==
  /\ input = None
  /\ \E s \in BoundedSeq(Bytes, MaxLen), sep \in Bytes :
       /\ input' = [bytes |-> s, sep |-> sep]
       /\ result' = [splitOnce |-> SplitOnce(s, sep),
                     rsplitOnce |-> RSplitOnce(s, sep),
                     split |-> Split(s, {sep}),
                     words |-> SplitAsciiWhitespace(s),
                     lines |-> Lines(s),
                     trim |-> TrimAsciiWhitespace(s)]

Returned == input # None /\ UNCHANGED vars

Next == Call \/ Returned

Spec == Init /\ [][Next]_vars

-----------------------------------------------------------------------------
Slices == [start: 0..MaxLen, len: 0..MaxLen]

\* A slice that lies inside the input it borrows from.
InBounds(s, sl) == sl \in Slices /\ sl.start + sl.len <= Len(s)

(***************************************************************************)
(* Every result is a slice of the input: indexing never runs past its end *)
(* (which would panic in `&input[first..=last]` and the like).             *)
(***************************************************************************)
TypeOK ==
  input # None =>
    LET s == input.bytes
        Ok(l) == \A k \in DOMAIN l : InBounds(s, l[k])
    IN /\ s \in BoundedSeq(Bytes, MaxLen) /\ input.sep \in Bytes
       /\ result.splitOnce = None \/ Ok(result.splitOnce)
       /\ result.rsplitOnce = None \/ Ok(result.rsplitOnce)
       /\ Ok(result.split) /\ Ok(result.words) /\ Ok(result.lines)
       /\ InBounds(s, result.trim)

\* The 0-based positions of s whose byte is in seps, in increasing order.
Hits(s, seps) == SetToSortSeq({k \in 0..(Len(s) - 1) : s[k + 1] \in seps}, <)

(***************************************************************************)
(* split_once and rsplit_once cut at the first and at the last separator: *)
(* left, the separator and right are the whole input, and the separator   *)
(* does not occur on the near side; None exactly when there is none.      *)
(***************************************************************************)
CutsAt(s, sep, r, side) ==
  /\ r # None
  /\ r[1].start = 0 /\ r[2].start + r[2].len = Len(s)
  /\ Content(s, r[1]) \o <<sep>> \o Content(s, r[2]) = s
  /\ sep \notin ToSet(Content(s, r[side]))

SplitOnceSpec ==
  input # None =>
    LET s == input.bytes
        sep == input.sep
    IN IF sep \in ToSet(s)
       THEN CutsAt(s, sep, result.splitOnce, 1)
            /\ CutsAt(s, sep, result.rsplitOnce, 2)
       ELSE result.splitOnce = None /\ result.rsplitOnce = None

(***************************************************************************)
(* split and lines: the pieces are exactly the gaps between consecutive   *)
(* separators, from the start of the input to its end, so n separators    *)
(* give n + 1 pieces and a trailing separator a trailing empty line.       *)
(***************************************************************************)
Gaps(s, seps) ==
  LET cuts == <<-1>> \o Hits(s, seps) \o <<Len(s)>>
  IN [j \in 1..(Len(cuts) - 1) |-> Sl(cuts[j] + 1, cuts[j + 1])]

SplitSpec ==
  input # None =>
    /\ result.split = Gaps(input.bytes, {input.sep})
    /\ result.lines = Gaps(input.bytes, {LF})

(***************************************************************************)
(* split_ascii_whitespace yields the maximal runs of non-whitespace bytes, *)
(* each once, in input order, and nothing else.                            *)
(***************************************************************************)
IsWord(s, a, b) ==
  /\ a < b
  /\ \A k \in a..(b - 1) : s[k + 1] \notin AsciiWhitespace
  /\ a = 0 \/ s[a] \in AsciiWhitespace
  /\ b = Len(s) \/ s[b + 1] \in AsciiWhitespace

WordsSpec ==
  input # None =>
    LET s == input.bytes
        w == result.words
        bounds == (0..Len(s)) \X (0..Len(s))
    IN /\ ToSet(w) = {Sl(q[1], q[2]) : q \in {q \in bounds : IsWord(s, q[1], q[2])}}
       /\ \A j \in 1..(Len(w) - 1) : w[j].start < w[j + 1].start

(***************************************************************************)
(* trim_ascii_whitespace removes exactly the leading and trailing         *)
(* whitespace: what precedes and follows the slice is whitespace, the     *)
(* slice starts and ends with a non-whitespace byte, and an input of      *)
(* whitespace only gives the empty slice at its start.                     *)
(***************************************************************************)
TrimSpec ==
  input # None =>
    LET s == input.bytes
        t == result.trim
    IN /\ \A k \in 1..t.start : s[k] \in AsciiWhitespace
       /\ \A k \in (t.start + t.len + 1)..Len(s) : s[k] \in AsciiWhitespace
       /\ t.len > 0 => /\ s[t.start + 1] \notin AsciiWhitespace
                       /\ s[t.start + t.len] \notin AsciiWhitespace
       /\ t.len = 0 => t.start = 0 /\ ToSet(s) \subseteq AsciiWhitespace

====
