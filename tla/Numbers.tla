-------------------------------- MODULE Numbers --------------------------------
(***************************************************************************)
(* nb_eng and nb_engtod: numbers as the labels and menus show them, three  *)
(* digits and a prefix, and back.  A label is read again by the arrows,    *)
(* compared with the entries of a menu, printed again.                     *)
(*                                                                         *)
(* A double near the decimal m * 10^e is [m, e, hair]: m has four digits,  *)
(* one more than are printed; hair is where the double lies: 0 for the     *)
(* double next to the decimal, -1 or 1 for another one below or above it.  *)
(* A hair matters where a number is compared with a power of ten.  Half-   *)
(* way between two labels it does not: scaling may carry a double from one *)
(* side to the other.  Signs are left out, zero is (its log10 has no       *)
(* value; see README), and so are numbers beyond the prefixes.             *)
(***************************************************************************)
EXTENDS Integers

CONSTANT Values   \* numbers the instrument answers with

ASSUME NumbersAssumption ==
  \A v \in Values : v \in [m : Int, e : Int, hair : {-1, 0, 1}] /\ 1000 <= v.m /\ v.m <= 9999

VARIABLES
  value,   \* the double
  label    \* how it is printed: num / 10^dec with the prefix for 10^exp

numVars == <<value, label>>

Magnitude(v) == v.e + 3   \* v is in 10^K .. 10^(K+1)

IsPower(v) == v.m = 1000

JustBelow(v) == IsPower(v) /\ v.hair = -1

(***************************************************************************)
(* nb_eng                                                                  *)
(***************************************************************************)

\* (int) log10(value): towards zero; the logarithm of a neighbour of a power
\* of ten may come out whole.
IntLog(v) ==
  LET K == Magnitude(v)
  IN IF ~IsPower(v) THEN {IF K >= 0 THEN K ELSE K + 1}
     ELSE CASE v.hair = 0 -> {K}
            [] v.hair = 1 -> IF K >= 0 THEN {K} ELSE {K, K + 1}
            [] v.hair = -1 -> IF K >= 1 THEN {K - 1, K} ELSE {K}

\* Mutation of Expof10: negative exponents are rounded like positive ones.
Expof10Short(t) == IF t > 0 THEN (t \div 3) * 3 ELSE -(((-t) \div 3) * 3)

Expof10(t) == IF t > 0 THEN (t \div 3) * 3 ELSE -(((3 - t) \div 3) * 3)

\* Digits in front of the point, less one, of the number once it is scaled;
\* a number just below a power of ten may be there after the multiplication.
Places(v, x) ==
  LET n == Magnitude(v) - x IN IF JustBelow(v) THEN {n - 1, n} ELSE {n}

\* Three digits of m.  Half-way either is printed, on whichever side of the
\* half the double lies: the product with the power of ten is rounded, and the
\* one just below 8035 times 0.001 becomes the one just above 8.035.
Rounded(v) ==
  {d \in {v.m \div 10, v.m \div 10 + 1} : v.m - 10 * d \in -5 .. 5}

\* Mutation of Decimals: hundreds keep a decimal.
DecimalsLong(n) == IF n >= 3 \/ n <= 0 THEN 2 ELSE 1

\* digits - 1, after the comparisons with 1000, 100 and 10.
Decimals(n) == IF n >= 3 \/ n <= 0 THEN 2 ELSE 2 - n

\* A thousand or more goes to the next prefix.
Carry(n) == IF n >= 3 THEN 3 ELSE 0

\* The number that is printed, without its point: a number just below a power
\* of ten may have been counted one place short, or just reach the ten when it
\* has been carried over, and comes out with four digits.
Printed(v, x, n) ==
  IF Magnitude(v) - x - Carry(n) + Decimals(n) = 3 THEN {1000} ELSE Rounded(v)

\* Mutation of Eng: 1000 is not carried over to the next prefix.
EngUncarried(v) ==
  UNION {UNION {{[num |-> d, dec |-> IF n >= 3 THEN 0 ELSE Decimals(n), exp |-> Expof10(t)]
                   : d \in Printed(v, Expof10(t), n)}
                : n \in Places(v, Expof10(t))}
         : t \in IntLog(v)}

\* The labels nb_eng may print.
Eng(v) ==
  UNION {UNION {{[num |-> d, dec |-> Decimals(n), exp |-> Expof10(t) + Carry(n)]
                   : d \in Printed(v, Expof10(t), n)}
                : n \in Places(v, Expof10(t))}
         : t \in IntLog(v)}

(***************************************************************************)
(* nb_engtod                                                               *)
(***************************************************************************)

\* A prefix multiplies by a power of ten, which may miss by a hair.
Engtod(l) ==
  LET wide == l.num >= 1000
  IN {[m |-> IF wide THEN l.num ELSE 10 * l.num,
       e |-> l.exp - l.dec - IF wide THEN 0 ELSE 1,
       hair |-> hair] : hair \in IF l.exp = 0 THEN {0} ELSE {-1, 0, 1}}

(***************************************************************************)
(* A number is answered, shown, and its label read and printed again       *)
(***************************************************************************)
NInit == value \in Values /\ label \in Eng(value)

Reprint == value' \in Engtod(label) /\ label' \in Eng(value')

\* A label as an entry of g_strvdivs or g_strtdivs would be written.
Entry(digit, K) ==
  LET n == K % 3 IN [num |-> digit * 100, dec |-> 2 - n, exp |-> K - n]

\* 20 mV to 100 V; 2 ns to 10 s and 50 s.
Vdivs == ({Entry(d, K) : d \in {1, 2, 5}, K \in -2 .. 1} \ {Entry(1, -2)})
           \cup {Entry(1, 2)}

Tdivs == ({Entry(d, K) : d \in {1, 2, 5}, K \in -9 .. 0} \ {Entry(1, -9)})
           \cup {Entry(1, 1), Entry(5, 1)}

(***************************************************************************)
(* Properties                                                              *)
(***************************************************************************)

\* The three significant digits of a label and their power of ten.
Denotes(l) == IF l.num >= 1000 THEN <<l.num \div 10, l.exp - l.dec + 1>>
              ELSE <<l.num, l.exp - l.dec>>

\* The reply handlers find the entry of a menu with strcmp (gui.c 1234, 2251):
\* when the instrument answers with the value of an entry, what nb_eng prints
\* is that entry to the last character, and not "100.0 mV" or "0.10 V".
EntriesMatch ==
  value.hair = 0 =>
    \A l \in Vdivs \cup Tdivs :
      <<value.m, value.e>> = <<10 * l.num, l.exp - l.dec - 1>> => label = l

\* A label shows its number rounded to three digits: what it denotes is at most
\* half of the last digit, 5 * 10^e, from m * 10^e.  (Half-way both directions
\* will do.)  One to three digits are in front of the point, four only for 1000
\* by rounding.
LabelRounds ==
  LET d == Denotes(label)[1]
      k == Denotes(label)[2]
  IN /\ d \in 100 .. 999
     /\ \/ k = value.e + 1 /\ 10 * d - value.m \in -5 .. 5
        \/ k = value.e + 2 /\ 100 * d - value.m \in -5 .. 5
     /\ label.dec \in 0 .. 2
     /\ label.exp % 3 = 0

\* The two together: what the user reads is what the instrument has.
LabelRight == EntriesMatch /\ LabelRounds

\* Reading a label and printing it again, however often, does not walk away
\* from the number, though the label may change its form ("1000 mV", "1.00 V")
\* and the double be missed by a hair (numbers.c 88).
NoDrift == [][Denotes(label') = Denotes(label)]_label
================================================================================
