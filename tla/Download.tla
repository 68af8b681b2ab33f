------------------------------ MODULE Download ------------------------------
(* One object downloaded, in whole or the range a player asks for: the     *)
(* header is parsed, the object read from an offset and copied out up to a *)
(* length.  Numbers are signed machine integers.  The object and its       *)
(* store are external; a seek out of the object is refused.                *)
EXTENDS Integers, Sequences

CONSTANTS
  MaxInt,    \* the largest integer, 2^63-1 in the program
  Named,     \* the integers a range may name
  MaxRanges  \* bound on the ranges of a header

(* What is assumed of the constants.                                       *)
Widths ==
  MaxInt \in Nat \ {0} /\ Named \subseteq (-MaxInt - 1)..MaxInt /\ MaxRanges \in Nat

Sizes == 0..MaxInt

(* Sums and differences of two integers leave the width once at most.      *)
Wrap(x) ==
  IF x > MaxInt THEN x - 2 * (MaxInt + 1)
  ELSE IF x < -MaxInt - 1 THEN x + 2 * (MaxInt + 1) ELSE x

(* "a-b" with neither, either or both: a bound is a sequence of at most    *)
(* one number.  The first "-" divides them, so that only b may be          *)
(* negative.  "-" stands for all that is no range.                         *)
Bounds == {<<>>} \cup {<<n>> : n \in Named}
Ranges == [start : {b \in Bounds : b = <<>> \/ b[1] >= 0}, end : Bounds]
Headers == UNION {[1..n -> Ranges] : n \in 0..MaxRanges}

VARIABLES
  size,      \* of the object
  asked,     \* the ranges of the header, <<>> without one
  phase,     \* "stat", "copy", "ended"
  status,    \* of the answer: 0, 200, 206, 500
  offset, length, sent,
  failed     \* the store or the connection failed

vars == <<size, asked, phase, status, offset, length, sent, failed>>

-----------------------------------------------------------------------------
(* Mutant: a suffix longer than the object is not cut.                     *)
Suffix_Uncut(n, total) == Wrap(total - n)

Suffix(n, total) == Wrap(total - (IF n > total THEN total ELSE n))

Until(first, last, total) == (IF last >= total THEN total - 1 ELSE last) - first + 1

Invalid(ra, total) ==
  \/ ra.start = <<>> /\ ra.end = <<>>
  \/ ra.start # <<>> /\ (ra.start[1] >= total \/ ra.start[1] < 0)
  \/ ra.start # <<>> /\ ra.end # <<>> /\ ra.start[1] > ra.end[1]

Start(ra, total) == IF ra.start = <<>> THEN Suffix(ra.end[1], total) ELSE ra.start[1]

Length(ra, total) ==
  IF ra.start # <<>> /\ ra.end # <<>> THEN Until(ra.start[1], ra.end[1], total)
  ELSE Wrap(total - Start(ra, total))

-----------------------------------------------------------------------------
Init ==
  /\ size \in Sizes /\ asked \in Headers
  /\ phase = "stat" /\ status = 0 /\ offset = 0 /\ length = 0 /\ sent = 0
  /\ failed = FALSE

(* Stat or the copy fails; a copy that does has announced more.            *)
Fails ==
  /\ phase # "ended" /\ phase' = "ended" /\ failed' = TRUE
  /\ status' = IF phase = "stat" THEN 500 ELSE status
  /\ UNCHANGED <<size, asked, offset, length, sent>>

(* All ranges must be valid, and the first is served: Seek refuses what is *)
(* not in the object or just behind it.                                    *)
AllValid == \A k \in 1..Len(asked) : ~Invalid(asked[k], size)

Seeks == asked # <<>> => Start(asked[1], size) \in 0..size

Refuse ==
  /\ phase = "stat" /\ (AllValid => ~Seeks)
  /\ phase' = "ended" /\ status' = 500
  /\ UNCHANGED <<size, asked, offset, length, sent, failed>>

Serve ==
  /\ phase = "stat" /\ AllValid /\ Seeks
  /\ phase' = "copy" /\ UNCHANGED <<size, asked, sent, failed>>
  /\ IF asked = <<>>
     THEN status' = 200 /\ offset' = 0 /\ length' = size
     ELSE /\ status' = 206
          /\ offset' = Start(asked[1], size) /\ length' = Length(asked[1], size)

(* io.Copy of a reader limited to length.                                  *)
Copy ==
  /\ phase = "copy" /\ sent < length /\ offset + sent < size
  /\ sent' = sent + 1
  /\ UNCHANGED <<size, asked, phase, status, offset, length, failed>>

CopyEnds ==
  /\ phase = "copy" /\ (sent >= length \/ offset + sent >= size)
  /\ phase' = "ended"
  /\ UNCHANGED <<size, asked, status, offset, length, sent, failed>>

Next == Fails \/ Refuse \/ Serve \/ Copy \/ CopyEnds
Spec == Init /\ [][Next]_vars

-----------------------------------------------------------------------------
(* Properties.                                                             *)

DownloadTypeOK ==
  /\ size \in Sizes /\ asked \in Headers
  /\ phase \in {"stat", "copy", "ended"} /\ status \in {0, 200, 206, 500}
  /\ offset \in 0..size /\ length \in Int /\ sent \in 0..size
  /\ failed \in BOOLEAN

(* The bytes a range names, by the definition of HTTP.                     *)
BytesNamed(ra, total) ==
  {p \in 0..(total - 1) :
     IF ra.start = <<>> THEN ra.end # <<>> /\ p >= total - ra.end[1]
     ELSE p >= ra.start[1] /\ (ra.end = <<>> \/ p <= ra.end[1])}

(* What is sent of a range is what it names, to the byte, and what was     *)
(* announced, and a range is refused only if some range of the header      *)
(* names nothing: for suffixes longer than the object, ends past it,       *)
(* negative and overflowing numbers, and empty objects.                    *)
ServedAsNamed ==
  phase = "ended" /\ ~failed =>
    /\ status = 206 => /\ offset..(offset + sent - 1) = BytesNamed(asked[1], size)
                       /\ sent = length
    /\ status = 500 => \E k \in 1..Len(asked) : BytesNamed(asked[k], size) = {}

(* No byte outside the object is announced or read.                        *)
WithinObject ==
  phase # "stat" /\ status # 500 => length >= 0 /\ offset + length <= size
=============================================================================
