---------------------------- MODULE ErasureSets ----------------------------
(* How the drives named by "minio server" arguments are divided into       *)
(* erasure sets, and which parities they allow.  An argument is the        *)
(* sequence of the lengths of its ellipses ({1...4} is 4 long); finding    *)
(* them is external.                                                       *)
EXTENDS Integers, Sequences, SequencesExt

CONSTANTS
  Lengths,                  \* lengths an ellipsis may have
  MaxArgs, MaxPatterns      \* bounds on arguments and on ellipses of one

VARIABLES
  args,     \* the arguments
  sets      \* <<>>; then per argument the sizes of its sets, or an error

(* What is assumed of the parameters: no ellipsis is empty.                *)
Counts == Lengths \subseteq Nat \ {0} /\ {MaxArgs, MaxPatterns} \subseteq Nat

SetSizes == 4..16
Error == <<<<>>>>

Args == UNION {[1..n -> Lengths] : n \in 1..MaxPatterns}

Init ==
  /\ args \in UNION {[1..n -> Args] : n \in 1..MaxArgs}
  /\ sets = <<>>

Divides(d, n) == n % d = 0

Product(arg) ==
  LET product[n \in 0..Len(arg)] == IF n = 0 THEN 1 ELSE product[n - 1] * arg[n]
  IN product[Len(arg)]
getTotalSizes == [k \in DOMAIN args |-> Product(args[k])]

(* Mutant: the first total size is taken for all.                          *)
getDivisibleSize_First(sizes) == sizes[1]

(* The loop that replaces x, y by y, x % y while y is not 0.               *)
gcd[y \in Nat] == [x \in Nat |-> IF y = 0 THEN x ELSE gcd[x % y][y]]
getDivisibleSize(sizes) ==
  LET result[n \in 1..Len(sizes)] ==
        IF n = 1 THEN sizes[1] ELSE gcd[sizes[n]][result[n - 1]]
  IN result[Len(sizes)]

(* Of the ellipses of all arguments the last one decides.                  *)
Symmetric(count) ==
  LET n == Last(Last(args))
  IN IF n > count THEN Divides(count, n) ELSE Divides(n, count)

(* Counts are tried in ascending order, so that the last of the least      *)
(* ratio is the largest.                                                   *)
commonSetDriveCount(divisible, counts) ==
  LET least == CHOOSE c \in counts : \A d \in counts : c <= d
      best[n \in 3..16] ==
        IF n = 3 THEN [ratio |-> divisible \div least, size |-> 0]
        ELSE IF /\ n \in counts
                /\ Divides(n, divisible)
                /\ divisible \div n <= best[n - 1].ratio
             THEN [ratio |-> divisible \div n, size |-> n] ELSE best[n - 1]
  IN IF \E c \in counts : divisible < c THEN divisible ELSE best[16].size

getSetIndexes ==
  /\ sets = <<>>
  /\ LET totals == getTotalSizes
         common == getDivisibleSize(totals)
         counts == {s \in SetSizes : Divides(s, common) /\ Symmetric(s)}
         setSize == commonSetDriveCount(common, counts)
     IN sets' = IF \/ \E k \in DOMAIN totals : totals[k] < 4
                   \/ counts = {}
                   \/ setSize \notin SetSizes
                THEN Error
                ELSE [k \in DOMAIN totals |-> [j \in 1..(totals[k] \div setSize) |-> setSize]]
  /\ UNCHANGED args

PossibleParityValues == {p \in 2..16 : 2 * p <= sets[1][1]}

Next == getSetIndexes
Spec == Init /\ [][Next]_<<args, sets>>

-----------------------------------------------------------------------------
(* Every drive of every argument is in a set, all sets are of one size the *)
(* store supports, no larger size would do, and a set keeps at least as    *)
(* many drives for data as for parity.                                     *)
SetsFit ==
  sets \notin {<<>>, Error} =>
    LET size == sets[1][1]
        totals == getTotalSizes
    IN /\ size \in SetSizes
       /\ \A k \in DOMAIN sets :
            /\ \A j \in DOMAIN sets[k] : sets[k][j] = size
            /\ Len(sets[k]) * size = totals[k]
       /\ \A s \in SetSizes : s > size /\ Symmetric(s) =>
            \E k \in DOMAIN totals : ~Divides(s, totals[k])
       /\ \A p \in PossibleParityValues : size - p >= p
=============================================================================
