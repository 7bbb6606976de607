----------------------------- MODULE FunctionProofs -----------------------------
(***************************************************************************)
(* Proofs about Trace and Numbers: for any grid, any number of samples and *)
(* of levels, and for any numbers of four digits and any power of ten.     *)
(***************************************************************************)
EXTENDS MCFunctions, TLAPS

(***************************************************************************)
(* nb_eng and nb_engtod                                                    *)
(***************************************************************************)

Doubles == {v \in [m : Int, e : Int, hair : {-1, 0, 1}] : 1000 <= v.m /\ v.m <= 9999}

\* Labels as they are printed.
Labels == [num : 100 .. 1000, dec : 0 .. 2, exp : Int]

\* The logarithm is cut towards zero, and misses by one next to a power of ten
\* at most.
LEMMA IntLogFacts ==
  ASSUME NEW v \in Doubles, NEW t \in IntLog(v)
  PROVE  /\ t \in Int
         /\ t = Magnitude(v) \/ t = Magnitude(v) - 1 \/ (t = Magnitude(v) + 1 /\ t <= 0)
         /\ t = Magnitude(v) - 1 => JustBelow(v) /\ t >= 0
BY SMTT(40) DEF Doubles, IntLog, Magnitude, IsPower, JustBelow

\* The prefix is a multiple of three at most two places below the logarithm,
\* three if that is not positive.
LEMMA ExpFacts ==
  ASSUME NEW t \in Int
  PROVE  /\ Expof10(t) \in Int /\ Expof10(t) % 3 = 0
         /\ t > 0 => t - Expof10(t) \in 0 .. 2
         /\ t <= 0 => t - Expof10(t) \in 1 .. 3
BY DEF Expof10


\* The four digits are printed as three, rounded.
LEMMA RoundedFacts ==
  ASSUME NEW v \in Doubles, NEW d \in Rounded(v)
  PROVE  /\ d \in 100 .. 1000
         /\ v.m \in Int /\ v.m - 10 * d \in -5 .. 5
         /\ IsPower(v) => d = 100
<1>1. PICK m \in Int : m = v.m
  <2>1. v.m \in Int
    BY DEF Doubles
  <2> QED
    BY <2>1
<1>2. 1000 <= m /\ m <= 9999
  BY <1>1 DEF Doubles
<1>3. m \div 10 \in 100 .. 999 /\ (m = 1000 => m \div 10 = 100)
  BY <1>2
<1>4. d \in {m \div 10, m \div 10 + 1} /\ m - 10 * d \in -5 .. 5
  <2>1. d \in {m \div 10, m \div 10 + 1}
    BY <1>1 DEF Rounded
  <2>2. m - 10 * d \in -5 .. 5
    BY <1>1 DEF Rounded
  <2>3. d \in Int
    BY <1>3, <2>1
  <2> QED
    BY <1>2, <2>1, <2>2, <2>3
<1>5. d \in 100 .. 1000
  BY <1>3, <1>4, SMTT(40)
<1>6. m = 1000 => d = 100
  BY <1>3, <1>4
<1> QED
  BY <1>1, <1>4, <1>5, <1>6 DEF IsPower

\* The digits in front of the point, and those behind it.
LEMMA PlacesFacts ==
  ASSUME NEW v \in Doubles, NEW t \in IntLog(v), NEW n \in Places(v, Expof10(t))
  PROVE  /\ n \in Int /\ n \in -1 .. 4
         /\ Decimals(n) \in 0 .. 2 /\ Carry(n) \in {0, 3}
         /\ Magnitude(v) - Expof10(t) - Carry(n) + Decimals(n) \in {2, 3}
         /\ Magnitude(v) - Expof10(t) - Carry(n) + Decimals(n) = 3 => IsPower(v)
<1>1. PICK K : K = Magnitude(v)
  OBVIOUS
<1>2. PICK x : x = Expof10(t)
  OBVIOUS
<1>3. K \in Int /\ t \in Int /\ x \in Int
  <2>1. v.e \in Int
    BY SMTT(60) DEF Doubles
  <2>2. Magnitude(v) \in Int
    BY <2>1, SMTT(60) DEF Magnitude
  <2>3. t \in Int
    BY IntLogFacts, SMTT(60)
  <2>4. Expof10(t) \in Int
    BY <2>3, ExpFacts, SMTT(60)
  <2> QED
    BY <1>1, <1>2, <2>2, <2>3, <2>4, Zenon
<1>4. /\ t = K \/ (t = K - 1 /\ JustBelow(v) /\ t >= 0) \/ (t = K + 1 /\ t <= 0)
      /\ t > 0 => t - x \in 0 .. 2
      /\ t <= 0 => t - x \in 1 .. 3
  BY <1>1, <1>2, <1>3, IntLogFacts, ExpFacts
<1>5. n = K - x \/ (n = K - x - 1 /\ JustBelow(v))
  BY <1>1, <1>2 DEF Places
<1>6. K - x \in 0 .. 4 /\ (K - x = 4 => JustBelow(v))
  BY <1>3, <1>4
<1>7. n \in -1 .. 4
  BY <1>3, <1>5, <1>6
<1>8. Decimals(n) \in 0 .. 2 /\ Carry(n) \in {0, 3}
  BY <1>7 DEF Decimals, Carry
<1>9. JustBelow(v) => IsPower(v)
  BY DEF JustBelow
<1>10. /\ K - x - Carry(n) + Decimals(n) \in {2, 3}
       /\ K - x - Carry(n) + Decimals(n) = 3 => JustBelow(v)
  BY <1>3, <1>5, <1>6, <1>7 DEF Decimals, Carry
<1> QED
  BY <1>1, <1>2, <1>7, <1>8, <1>9, <1>10

\* What nb_eng prints is the number, rounded.
LEMMA EngFacts ==
  ASSUME NEW v \in Doubles, NEW l \in Eng(v)
  PROVE  /\ l \in Labels /\ l.exp % 3 = 0
         /\ \E d \in Rounded(v) :
              Denotes(l) = IF d = 1000 THEN <<100, v.e + 2>> ELSE <<d, v.e + 1>>
<1>0. PICK t \in IntLog(v) : \E n \in Places(v, Expof10(t)) :
        \E d \in Printed(v, Expof10(t), n) :
          l = [num |-> d, dec |-> Decimals(n), exp |-> Expof10(t) + Carry(n)]
  BY DEF Eng
<1>1. PICK n \in Places(v, Expof10(t)) :
        \E d \in Printed(v, Expof10(t), n) :
          l = [num |-> d, dec |-> Decimals(n), exp |-> Expof10(t) + Carry(n)]
  BY <1>0
<1>2. PICK d \in Printed(v, Expof10(t), n) :
        l = [num |-> d, dec |-> Decimals(n), exp |-> Expof10(t) + Carry(n)]
  BY <1>1
<1>3. PICK x, p, q : x = Expof10(t) /\ p = Decimals(n) /\ q = Carry(n)
  OBVIOUS
<1>4. /\ x \in Int /\ x % 3 = 0 /\ p \in 0 .. 2 /\ q \in {0, 3}
      /\ Magnitude(v) = v.e + 3 /\ v.e \in Int
      /\ Magnitude(v) - x - q + p \in {2, 3}
      /\ Magnitude(v) - x - q + p = 3 => IsPower(v)
  <2>1. t \in Int
    BY <1>0, IntLogFacts
  <2>2. x \in Int /\ x % 3 = 0
    BY <1>3, <2>1, ExpFacts
  <2>3. /\ p \in 0 .. 2 /\ q \in {0, 3} /\ Magnitude(v) - x - q + p \in {2, 3}
        /\ Magnitude(v) - x - q + p = 3 => IsPower(v)
    BY <1>0, <1>1, <1>3, PlacesFacts
  <2> QED
    BY <2>2, <2>3, SMTT(60) DEF Magnitude, Doubles
<1>5. l.num = d /\ l.dec = p /\ l.exp = x + q
  BY <1>2, <1>3
<1>6. l.exp % 3 = 0 /\ l.exp \in Int
  BY <1>4, <1>5
<1>7. CASE Magnitude(v) - x - q + p = 3
  <2>1. d = 1000
    BY <1>2, <1>3, <1>7 DEF Printed
  <2>2. v.e + 1 = l.exp - l.dec + 1
    BY <1>4, <1>5, <1>7
  <2>3. 100 \in Rounded(v)
    BY <1>4, <1>7 DEF Rounded, IsPower
  <2>4. Denotes(l) = <<100, v.e + 1>>
    BY <1>5, <2>1, <2>2 DEF Denotes
  <2>5. l \in Labels
    BY <1>2, <1>3, <1>4, <1>6, <2>1, <1>5 DEF Labels
  <2> QED
    BY <1>6, <2>3, <2>4, <2>5
<1>8. CASE Magnitude(v) - x - q + p = 2
  <2>1. d \in Rounded(v)
    BY <1>2, <1>3, <1>8 DEF Printed
  <2>2. d \in 100 .. 1000
    BY <2>1, RoundedFacts
  <2>3. v.e + 1 = l.exp - l.dec
    BY <1>4, <1>5, <1>8
  <2>4. CASE d = 1000
    <3>1. l.exp - l.dec + 1 = v.e + 2
      BY <2>3, <1>4, <1>5
    <3>2. Denotes(l) = <<100, v.e + 2>>
      BY <1>5, <2>4, <3>1 DEF Denotes
    <3>3. l \in Labels
      BY <1>2, <1>3, <1>4, <1>5, <1>6, <2>2 DEF Labels
    <3> QED
      BY <1>6, <2>1, <2>4, <3>2, <3>3
  <2>5. CASE d # 1000
    <3>1. Denotes(l) = <<d, v.e + 1>>
      BY <1>5, <2>2, <2>3, <2>5 DEF Denotes
    <3>2. l \in Labels
      BY <1>2, <1>3, <1>4, <1>5, <1>6, <2>2 DEF Labels
    <3> QED
      BY <1>6, <2>1, <2>5, <3>1, <3>2
  <2> QED
    BY <2>4, <2>5
<1> QED
  BY <1>4, <1>7, <1>8


\* The value of a menu's entry is printed as that entry, whatever the decade.
LEMMA EntryPrinted ==
  ASSUME NEW v \in Doubles, NEW digit \in {1, 2, 5}, NEW K \in Int,
         v.m = 1000 * digit, v.e = K - 3, v.hair = 0, NEW l \in Eng(v)
  PROVE  l = Entry(digit, K)
<1>1. PICK t \in IntLog(v) : \E n \in Places(v, Expof10(t)) :
        \E d \in Printed(v, Expof10(t), n) :
          l = [num |-> d, dec |-> Decimals(n), exp |-> Expof10(t) + Carry(n)]
  BY DEF Eng
<1>2. PICK n \in Places(v, Expof10(t)) :
        \E d \in Printed(v, Expof10(t), n) :
          l = [num |-> d, dec |-> Decimals(n), exp |-> Expof10(t) + Carry(n)]
  BY <1>1
<1>3. PICK d \in Printed(v, Expof10(t), n) :
        l = [num |-> d, dec |-> Decimals(n), exp |-> Expof10(t) + Carry(n)]
  BY <1>2
<1>4. Magnitude(v) = K /\ ~JustBelow(v)
  BY DEF Magnitude, JustBelow
<1>5. PICK x : x = Expof10(t)
  OBVIOUS
<1>6. /\ t \in Int /\ x \in Int /\ x % 3 = 0
      /\ t = K \/ (t = K + 1 /\ t <= 0)
      /\ t > 0 => t - x \in 0 .. 2
      /\ t <= 0 => t - x \in 1 .. 3
  BY <1>4, <1>5, IntLogFacts, ExpFacts
<1>7. n = K - x
  BY <1>2, <1>4, <1>5 DEF Places
<1>8. n \in 0 .. 3 /\ (n = 3 => K % 3 = 0) /\ (n # 3 => K % 3 = n)
  BY <1>6, <1>7
<1>9. Decimals(n) = 2 - (K % 3) /\ Carry(n) \in {0, 3} /\ x + Carry(n) = K - (K % 3)
  <2>1. CASE n = 3
    <3>1. Decimals(n) = 2 /\ Carry(n) = 3
      BY <2>1 DEF Decimals, Carry
    <3>2. K % 3 = 0 /\ x + 3 = K
      BY <1>6, <1>7, <1>8, <2>1
    <3> QED
      BY <3>1, <3>2
  <2>2. CASE n # 3
    <3>1. n \in 0 .. 2 /\ K % 3 = n
      BY <1>8, <2>2
    <3>2. Decimals(n) = 2 - n /\ Carry(n) = 0
      BY <3>1 DEF Decimals, Carry
    <3>3. x = K - n
      BY <1>6, <1>7
    <3> QED
      BY <1>6, <3>1, <3>2, <3>3
  <2> QED
    BY <2>1, <2>2
<1>10. d = digit * 100
  <2>1. K - x - Carry(n) + Decimals(n) # 3
    <3>1. K % 3 \in 0 .. 2
      OBVIOUS
    <3> QED
      BY <1>6, <1>9, <3>1
  <2>2. d \in Rounded(v)
    BY <1>3, <1>4, <1>5, <2>1 DEF Printed
  <2>3. d \in {v.m \div 10, v.m \div 10 + 1}
    BY <2>2 DEF Rounded
  <2>4. v.m - 10 * d \in -5 .. 5
    BY <2>2 DEF Rounded
  <2>5. v.m \div 10 = digit * 100
    OBVIOUS
  <2> QED
    BY <2>3, <2>4, <2>5
<1>11. Entry(digit, K) = [num |-> digit * 100, dec |-> 2 - (K % 3), exp |-> K - (K % 3)]
  BY DEF Entry
<1> QED
  BY <1>3, <1>5, <1>9, <1>10, <1>11

\* The label printed is one for the number.
Shown == value \in Doubles /\ label \in Eng(value)

\* The doubles a label can be read as.
LEMMA EngtodFacts ==
  ASSUME NEW l \in Labels, NEW v \in Engtod(l)
  PROVE  /\ v \in Doubles
         /\ l.num < 1000 => v.m = 10 * l.num /\ v.e = l.exp - l.dec - 1
         /\ l.num = 1000 => v.m = 1000 /\ v.e = l.exp - l.dec
<1>1. PICK hair \in {-1, 0, 1} :
        v = [m |-> IF l.num >= 1000 THEN l.num ELSE 10 * l.num,
             e |-> l.exp - l.dec - IF l.num >= 1000 THEN 0 ELSE 1,
             hair |-> hair]
  BY DEF Engtod
<1>2. l.num \in 100 .. 1000 /\ l.exp \in Int /\ l.dec \in Int
  BY DEF Labels
<1>3. CASE l.num = 1000
  <2>1. v = [m |-> 1000, e |-> l.exp - l.dec - 0, hair |-> hair]
    BY <1>1, <1>3
  <2> QED
    BY <1>2, <1>3, <2>1 DEF Doubles
<1>4. CASE l.num < 1000
  <2>1. ~(l.num >= 1000)
    BY <1>2, <1>4, SMTT(40)
  <2>2. v = [m |-> 10 * l.num, e |-> l.exp - l.dec - 1, hair |-> hair]
    BY <1>1, <2>1
  <2>3. l.exp - l.dec - 1 \in Int
    BY <1>2
  <2>4. PICK n, k : n = l.num /\ k = l.exp - l.dec - 1
    OBVIOUS
  <2>5. n \in 100 .. 999
    BY <1>2, <1>4, <2>4
  <2>6. k \in Int
    BY <2>3, <2>4, Zenon
  <2>7. [m |-> 10 * n, e |-> k, hair |-> hair] \in Doubles
    BY <2>5, <2>6 DEF Doubles
  <2>8. v = [m |-> 10 * n, e |-> k, hair |-> hair]
    BY <2>2, <2>4, Zenon
  <2>9. v \in Doubles
    BY <2>7, <2>8, Zenon
  <2> QED
    BY <1>2, <1>4, <2>2, <2>9
<1> QED
  BY <1>2, <1>3, <1>4, SMTT(60)

\* Both numbers and labels stay what they are.
LEMMA ShownAlways == Spec => []Shown
<1>1. Init => Shown
  BY NumbersAssumption, SMTT(60) DEF Init, NInit, Shown, Doubles
<1>2. Shown /\ [Next]_<<traceVars, numVars>> => Shown'
  <2> SUFFICES ASSUME Shown, [Next]_<<traceVars, numVars>> PROVE Shown'
    OBVIOUS
  <2>1. CASE UNCHANGED numVars
    BY <2>1 DEF numVars, Shown
  <2>2. CASE Reprint
    BY <2>2, EngFacts, EngtodFacts DEF Reprint, Shown
  <2> QED
    BY <2>1, <2>2 DEF Next
<1> QED
  BY <1>1, <1>2, PTL DEF Spec

\* What a label shows is the instrument's number rounded to three digits, one
\* of the two when it is half-way, and the value of a menu's entry is found in
\* the menu.
THEOREM LabelsRight == Spec => []LabelRight
<1>1. ASSUME Shown PROVE LabelRounds
  <2>1. label.dec \in 0 .. 2 /\ label.exp % 3 = 0
    BY <1>1, EngFacts DEF Shown, Labels
  <2>2. PICK d \in Rounded(value) :
          Denotes(label) = IF d = 1000 THEN <<100, value.e + 2>> ELSE <<d, value.e + 1>>
    BY <1>1, EngFacts DEF Shown
  <2>3. d \in 100 .. 1000 /\ value.m \in Int /\ value.m - 10 * d \in -5 .. 5
    BY <1>1, <2>2, RoundedFacts DEF Shown
  <2>4. PICK D, k, m : D = Denotes(label)[1] /\ k = Denotes(label)[2] /\ m = value.m
    OBVIOUS
  <2>5. CASE d = 1000
    <3>1. D = 100 /\ k = value.e + 2
      BY <2>2, <2>4, <2>5
    <3>2. 100 * D - m \in -5 .. 5
      BY <2>3, <2>4, <2>5, <3>1
    <3> QED
      BY <2>1, <2>4, <3>1, <3>2 DEF LabelRounds
  <2>6. CASE d # 1000
    <3>1. D = d /\ k = value.e + 1
      BY <2>2, <2>4, <2>6
    <3>2. D \in 100 .. 999 /\ 10 * D - m \in -5 .. 5
      BY <2>3, <2>4, <2>6, <3>1
    <3> QED
      BY <2>1, <2>4, <3>1, <3>2 DEF LabelRounds
  <2> QED
    BY <2>5, <2>6
<1>2. ASSUME Shown PROVE EntriesMatch
  <2> SUFFICES ASSUME value.hair = 0, NEW l \in Vdivs \cup Tdivs,
                      value.m = 10 * l.num, value.e = l.exp - l.dec - 1
               PROVE  label = l
    BY DEF EntriesMatch
  <2>1. PICK digit \in {1, 2, 5}, K \in Int : l = Entry(digit, K)
    BY DEF Vdivs, Tdivs
  <2>2. l = [num |-> digit * 100, dec |-> 2 - (K % 3), exp |-> K - (K % 3)]
    BY <2>1 DEF Entry
  <2>3. l.num = digit * 100 /\ l.dec = 2 - (K % 3) /\ l.exp = K - (K % 3)
    BY <2>2
  <2>4. K % 3 \in 0 .. 2
    OBVIOUS
  <2>5. 10 * (digit * 100) = 1000 * digit /\ K - (K % 3) - (2 - (K % 3)) - 1 = K - 3
    BY <2>4
  <2>6. value.m = 1000 * digit /\ value.e = K - 3
    BY <2>3, <2>5
  <2> QED
    BY <1>1, <1>2, <2>1, <2>6, EntryPrinted DEF Shown
<1> QED
  BY <1>1, <1>2, ShownAlways, PTL DEF LabelRight

\* A label that is read and printed again denotes the same number.
THEOREM NumbersStay == Spec => NoDrift
<1>1. Shown /\ [Next]_<<traceVars, numVars>> => [Denotes(label') = Denotes(label)]_label
  <2> SUFFICES ASSUME Shown, Reprint PROVE Denotes(label') = Denotes(label)
    BY DEF Next, numVars
  <2>1. label \in Labels /\ value' \in Engtod(label) /\ label' \in Eng(value')
    BY EngFacts DEF Shown, Reprint
  <2>2. PICK v : v = value'
    OBVIOUS
  <2>3. v \in Doubles /\ label.num \in 100 .. 1000 /\ label.exp \in Int /\ label.dec \in Int
    BY <2>1, <2>2, EngtodFacts DEF Labels
  <2>4. PICK d \in Rounded(v) :
          Denotes(label') = IF d = 1000 THEN <<100, v.e + 2>> ELSE <<d, v.e + 1>>
    BY <2>1, <2>2, <2>3, EngFacts
  <2>5. d \in {v.m \div 10, v.m \div 10 + 1}
    BY <2>4 DEF Rounded
  <2>6. v.m - 10 * d \in -5 .. 5
    BY <2>4 DEF Rounded
  <2>7. CASE label.num < 1000
    <3>1. v.m = 10 * label.num /\ v.e = label.exp - label.dec - 1
      BY <2>1, <2>2, <2>7, EngtodFacts
    <3>2. d = label.num
      <4>1. PICK n : n = label.num
        OBVIOUS
      <4>2. n \in 100 .. 999 /\ v.m = 10 * n
        BY <2>3, <2>7, <3>1, <4>1
      <4>3. (10 * n) \div 10 = n
        BY <4>2
      <4>4. d \in {n, n + 1}
        BY <2>5, <4>2, <4>3
      <4> QED
        BY <2>6, <4>1, <4>2, <4>4, SMTT(40)
    <3>3. v.e + 1 = label.exp - label.dec
      BY <2>3, <3>1
    <3>4. Denotes(label') = <<d, v.e + 1>>
      BY <2>3, <2>4, <2>7, <3>2
    <3>5. Denotes(label) = <<label.num, label.exp - label.dec>>
      BY <2>3, <2>7, SMTT(40) DEF Denotes
    <3> QED
      BY <3>2, <3>3, <3>4, <3>5
  <2>8. CASE label.num = 1000
    <3>1. v.m = 1000 /\ v.e = label.exp - label.dec
      BY <2>1, <2>2, <2>8, EngtodFacts
    <3>2. d = 100
      BY <2>5, <2>6, <3>1
    <3>3. Denotes(label') = <<100, label.exp - label.dec + 1>>
      BY <2>4, <3>1, <3>2
    <3>4. Denotes(label) = <<100, label.exp - label.dec + 1>>
      BY <2>8 DEF Denotes
    <3> QED
      BY <3>3, <3>4
  <2> QED
    BY <2>3, <2>7, <2>8, SMTT(60)
<1> QED
  BY <1>1, ShownAlways, PTL DEF Spec, NoDrift


(***************************************************************************)
(* Products, quotients and rounding                                        *)
(***************************************************************************)

\* Multiplication is monotonic.
LEMMA TimesMono ==
  ASSUME NEW x \in Int, NEW y \in Int, NEW z \in Nat, x <= y
  PROVE  z * x <= z * y
OBVIOUS

\* Its converse.
LEMMA TimesLess ==
  ASSUME NEW x \in Int, NEW y \in Int, NEW z \in Nat, z * x < z * y
  PROVE  x < y
OBVIOUS

\* What a quotient is.
LEMMA DivFacts ==
  ASSUME NEW a \in Int, NEW b \in Nat \ {0}
  PROVE  a \div b \in Int /\ b * (a \div b) <= a /\ a < b * (a \div b) + b
OBVIOUS

\* A rounded quotient is at most half a unit off, and a half goes up if it is
\* not negative.
LEMMA RoundFacts ==
  ASSUME NEW a \in Int, NEW b \in Nat \ {0}
  PROVE  /\ Round(a, b) \in Int
         /\ 2 * (b * Round(a, b) - a) <= b /\ 2 * (a - b * Round(a, b)) <= b
         /\ a >= 0 => 2 * (a - b * Round(a, b)) < b
<1>1. CASE a >= 0
  <2>1. PICK n, m : n = 2 * a + b /\ m = 2 * b
    OBVIOUS
  <2>2. PICK q : q = (2 * a + b) \div (2 * b)
    OBVIOUS
  <2>3. n \in Int /\ m \in Nat \ {0} /\ q = n \div m
    BY <2>1, <2>2
  <2>4. q \in Int /\ m * q <= n /\ n < m * q + m
    BY <2>3, DivFacts
  <2>5. (2 * b) * q <= 2 * a + b /\ 2 * a + b < (2 * b) * q + 2 * b
    BY <2>1, <2>4
  <2>6. (2 * b) * q = 2 * (b * q) /\ b * q \in Int
    BY <2>4
  <2>7. Round(a, b) = q
    BY <1>1, <2>2 DEF Round
  <2> QED
    BY <2>4, <2>5, <2>6, <2>7
<1>2. CASE a < 0
  <2>1. PICK n, m : n = b - 2 * a /\ m = 2 * b
    OBVIOUS
  <2>2. PICK q : q = (b - 2 * a) \div (2 * b)
    OBVIOUS
  <2>3. n \in Int /\ m \in Nat \ {0} /\ q = n \div m
    BY <2>1, <2>2
  <2>4. q \in Int /\ m * q <= n /\ n < m * q + m
    BY <2>3, DivFacts
  <2>5. (2 * b) * q <= b - 2 * a /\ b - 2 * a < (2 * b) * q + 2 * b
    BY <2>1, <2>4
  <2>6. (2 * b) * q = 2 * (b * q) /\ b * q \in Int /\ b * (-q) = -(b * q)
    BY <2>4
  <2>7. Round(a, b) = -q
    BY <1>2, <2>2 DEF Round
  <2> QED
    BY <1>2, <2>4, <2>5, <2>6, <2>7
<1> QED
  BY <1>1, <1>2

\* It lies between the whole numbers the quotient lies between.
LEMMA RoundBounds ==
  ASSUME NEW a \in Int, NEW b \in Nat \ {0}, NEW lo \in Int, NEW hi \in Int,
         b * lo <= a, a <= b * hi
  PROVE  Round(a, b) \in lo .. hi
<1>1. PICK r : r = Round(a, b)
  OBVIOUS
<1>2. r \in Int /\ 2 * (b * r - a) <= b /\ 2 * (a - b * r) <= b
  BY <1>1, RoundFacts
<1>3. PICK br, bl, bh : br = b * r /\ bl = b * lo /\ bh = b * hi
  OBVIOUS
<1>4. br \in Int /\ bl \in Int /\ bh \in Int
  BY <1>2, <1>3
<1>5. 2 * br <= 2 * bh + b /\ 2 * bl <= 2 * br + b
  BY <1>2, <1>3, <1>4
<1>6. br < bh + b /\ bl < br + b
  BY <1>4, <1>5
<1>7. b * (hi + 1) = bh + b /\ b * (r + 1) = br + b
  BY <1>2, <1>3
<1>8. r < hi + 1 /\ lo < r + 1
  BY <1>2, <1>3, <1>6, <1>7, TimesLess
<1> QED
  BY <1>1, <1>2, <1>8

\* It grows with its numerator.
LEMMA RoundMono ==
  ASSUME NEW a \in Nat, NEW e \in Nat, a <= e, NEW b \in Nat \ {0}
  PROVE  Round(a, b) <= Round(e, b)
<1>1. PICK r, s : r = Round(a, b) /\ s = Round(e, b)
  OBVIOUS
<1>2. r \in Int /\ 2 * (b * r - a) <= b /\ s \in Int /\ 2 * (e - b * s) < b
  BY <1>1, RoundFacts
<1>3. PICK br, bs : br = b * r /\ bs = b * s
  OBVIOUS
<1>4. br \in Int /\ bs \in Int
  BY <1>2, <1>3
<1>5. br < bs + b
  BY <1>2, <1>3, <1>4
<1>6. b * (s + 1) = bs + b
  BY <1>2, <1>3
<1>7. r < s + 1
  BY <1>2, <1>3, <1>5, <1>6, TimesLess
<1> QED
  BY <1>1, <1>2, <1>7

(***************************************************************************)
(* gui_drawline                                                            *)
(***************************************************************************)

Between(y, y1, y2) == (y1 <= y /\ y <= y2) \/ (y2 <= y /\ y <= y1)

Longer(dx, y1, y2) == IF Distance(y1, y2) > dx THEN Distance(y1, y2) ELSE dx

\* A pixel of a line from <<x1, y1>> to <<x2, y2>>.
OnLine(p, x1, y1, x2, y2) ==
  /\ p \in Int \X Int
  /\ x1 <= p[1] /\ p[1] <= x2 /\ Between(p[2], y1, y2)
  /\ 2 * Distance((x2 - x1) * (p[2] - y1), (y2 - y1) * (p[1] - x1)) <= Longer(x2 - x1, y1, y2)

\* A pixel is known by its coordinates.
LEMMA PixelOnLine ==
  ASSUME NEW x1 \in Int, NEW y1 \in Int, NEW x2 \in Int, NEW y2 \in Int,
         NEW x \in Int, NEW y \in Int, NEW d \in Int,
         x1 <= x, x <= x2, Between(y, y1, y2),
         d = (x2 - x1) * (y - y1) - (y2 - y1) * (x - x1),
         2 * d <= Longer(x2 - x1, y1, y2), -(2 * d) <= Longer(x2 - x1, y1, y2)
  PROVE  OnLine(<<x, y>>, x1, y1, x2, y2)
<1>1. PICK u, v : u = (x2 - x1) * (y - y1) /\ v = (y2 - y1) * (x - x1)
  OBVIOUS
<1>2. u \in Int /\ v \in Int /\ d = u - v
  BY <1>1
<1>3. Longer(x2 - x1, y1, y2) \in Int
  BY DEF Longer, Distance
<1>4. 2 * Distance(u, v) <= Longer(x2 - x1, y1, y2)
  BY <1>2, <1>3 DEF Distance
<1>5. PICK p : p = <<x, y>>
  OBVIOUS
<1>6. p \in Int \X Int /\ p[1] = x /\ p[2] = y
  BY <1>5
<1> QED
  BY <1>1, <1>4, <1>5, <1>6 DEF OnLine

\* A vertical line.
LEMMA VerticalOnLine ==
  ASSUME NEW x \in Int, NEW y1 \in Int, NEW y2 \in Int, NEW p \in VerticalBar(x, y1, y2)
  PROVE  OnLine(p, x, y1, x, y2)
<1>1. \E y \in Int : Between(y, y1, y2) /\ p = <<x, y>>
  <2>1. CASE y2 > y1
    <3>1. PICK k \in 0 .. y2 - y1 - 1 : p = <<x, y1 + k>>
      BY <2>1 DEF VerticalBar
    <3>2. y1 + k \in Int /\ Between(y1 + k, y1, y2)
      BY <3>1 DEF Between
    <3> QED
      BY <3>1, <3>2
  <2>2. CASE y1 > y2
    <3>1. ~(y2 > y1)
      BY <2>2
    <3>2. PICK k \in 0 .. y1 - y2 - 1 : p = <<x, y2 + k>>
      BY <2>2, <3>1 DEF VerticalBar
    <3>3. y2 + k \in Int /\ Between(y2 + k, y1, y2)
      BY <3>2 DEF Between
    <3> QED
      BY <3>2, <3>3
  <2>3. CASE y1 = y2
    <3>1. ~(y2 > y1) /\ ~(y1 > y2)
      BY <2>3
    <3>2. p = <<x, y1>>
      BY <3>1 DEF VerticalBar
    <3> QED
      BY <2>3, <3>2 DEF Between
  <2> QED
    BY <2>1, <2>2, <2>3
<1>2. PICK y \in Int : Between(y, y1, y2) /\ p = <<x, y>>
  BY <1>1
<1>3. 0 = (x - x) * (y - y1) - (y2 - y1) * (x - x)
  OBVIOUS
<1>4. 0 <= Longer(x - x, y1, y2)
  BY DEF Longer, Distance
<1> QED
  BY <1>2, <1>3, <1>4, PixelOnLine

\* A horizontal line leaves out its last pixel.
LEMMA HorizontalOnLine ==
  ASSUME NEW x1 \in Int, NEW x2 \in Int, NEW y \in Int, NEW p \in HorizontalBar(x1, y, x2)
  PROVE  OnLine(p, x1, y, x2, y)
<1>1. PICK k \in 0 .. x2 - x1 - 1 : p = <<x1 + k, y>>
  BY DEF HorizontalBar
<1>2. x1 + k \in Int /\ x1 <= x1 + k /\ x1 + k <= x2 /\ Between(y, y, y)
  BY <1>1 DEF Between
<1>3. 0 = (x2 - x1) * (y - y) - (y - y) * ((x1 + k) - x1)
  OBVIOUS
<1>4. 0 <= Longer(x2 - x1, y, y)
  BY <1>1 DEF Longer, Distance
<1> QED
  BY <1>1, <1>2, <1>3, <1>4, PixelOnLine

\* An ascending steep line: a pixel per row.
LEMMA AscendingOnLine ==
  ASSUME NEW x1 \in Int, NEW x2 \in Int, NEW y1 \in Int, NEW y2 \in Int, x1 < x2,
         y2 - y1 > x2 - x1, NEW k \in 0 .. y2 - y1
  PROVE  OnLine(<<x1 + Round((x2 - x1) * k, y2 - y1), y1 + k>>, x1, y1, x2, y2)
<1>1. PICK dx, dy : dx = x2 - x1 /\ dy = y2 - y1
  OBVIOUS
<1>2. dx \in Nat \ {0} /\ dy \in Nat \ {0} /\ dy > dx /\ k \in 0 .. dy
  BY <1>1
<1>3. PICK a : a = dx * k
  OBVIOUS
<1>4. a \in Int /\ dy * 0 <= a /\ a <= dy * dx
  <2>1. k * dx <= dy * dx
    BY <1>2, TimesMono
  <2> QED
    BY <1>2, <1>3, <2>1
<1>5. PICK r : r = Round(a, dy)
  OBVIOUS
<1>6. r \in 0 .. dx
  BY <1>2, <1>4, <1>5, RoundBounds
<1>7. 2 * (dy * r - a) <= dy /\ 2 * (a - dy * r) <= dy
  BY <1>2, <1>4, <1>5, RoundFacts
<1>8. PICK d : d = a - dy * r
  OBVIOUS
<1>9. d \in Int /\ 2 * d <= dy /\ -(2 * d) <= dy
  <2>1. dy * r \in Int
    BY <1>2, <1>6
  <2> QED
    BY <1>2, <1>4, <1>7, <1>8, <2>1
<1>10. Longer(x2 - x1, y1, y2) = dy
  BY <1>1, <1>2 DEF Longer, Distance
<1>11. x1 + r \in Int /\ y1 + k \in Int /\ x1 <= x1 + r /\ x1 + r <= x2
  BY <1>1, <1>2, <1>6
<1>12. Between(y1 + k, y1, y2)
  BY <1>1, <1>2 DEF Between
<1>13. d = (x2 - x1) * ((y1 + k) - y1) - (y2 - y1) * ((x1 + r) - x1)
  <2>1. (y1 + k) - y1 = k /\ (x1 + r) - x1 = r
    BY <1>2, <1>6
  <2> QED
    BY <1>1, <1>3, <1>8, <2>1
<1>14. OnLine(<<x1 + r, y1 + k>>, x1, y1, x2, y2)
  BY <1>9, <1>10, <1>11, <1>12, <1>13, PixelOnLine
<1> QED
  BY <1>1, <1>3, <1>5, <1>14

\* A descending steep line: a pixel per row from its lower end.
LEMMA DescendingOnLine ==
  ASSUME NEW x1 \in Int, NEW x2 \in Int, NEW y1 \in Int, NEW y2 \in Int, x1 < x2,
         y2 - y1 < -(x2 - x1), NEW k \in 0 .. -(y2 - y1)
  PROVE  OnLine(<<x2 + Round(-(x2 - x1) * k, -(y2 - y1)), y2 + k>>, x1, y1, x2, y2)
<1>1. PICK dx, e : dx = x2 - x1 /\ e = -(y2 - y1)
  OBVIOUS
<1>2. dx \in Nat \ {0} /\ e \in Nat \ {0} /\ e > dx /\ k \in 0 .. e
  BY <1>1
<1>3. PICK a, b : a = -(x2 - x1) * k /\ b = dx * k
  OBVIOUS
<1>4. a = -b /\ b \in Int /\ a \in Int
  BY <1>1, <1>2, <1>3
<1>5. e * (-dx) <= a /\ a <= e * 0
  <2>1. 0 * dx <= k * dx /\ k * dx <= e * dx
    BY <1>2, TimesMono
  <2>2. e * (-dx) = -(e * dx) /\ k * dx = b
    BY <1>2, <1>3
  <2> QED
    BY <1>2, <1>4, <2>1, <2>2
<1>6. PICK r : r = Round(a, e)
  OBVIOUS
<1>7. r \in -dx .. 0
  BY <1>2, <1>4, <1>5, <1>6, RoundBounds
<1>8. 2 * (e * r - a) <= e /\ 2 * (a - e * r) <= e
  BY <1>2, <1>4, <1>6, RoundFacts
<1>9. PICK d : d = b + e * r
  OBVIOUS
<1>10. d \in Int /\ 2 * d <= e /\ -(2 * d) <= e
  <2>1. e * r \in Int
    BY <1>2, <1>7
  <2> QED
    BY <1>2, <1>4, <1>8, <1>9, <2>1
<1>11. Longer(x2 - x1, y1, y2) = e
  BY <1>1, <1>2 DEF Longer, Distance
<1>12. x2 + r \in Int /\ y2 + k \in Int /\ x1 <= x2 + r /\ x2 + r <= x2
  BY <1>1, <1>2, <1>7
<1>13. Between(y2 + k, y1, y2)
  BY <1>1, <1>2 DEF Between
<1>14. d = (x2 - x1) * ((y2 + k) - y1) - (y2 - y1) * ((x2 + r) - x1)
  <2>1. (y2 + k) - y1 = k - e /\ (x2 + r) - x1 = dx + r /\ y2 - y1 = -e
    BY <1>1, <1>2, <1>7
  <2>2. dx * (k - e) - (-e) * (dx + r) = dx * k + e * r
    BY <1>2, <1>7
  <2> QED
    BY <1>1, <1>3, <1>9, <2>1, <2>2
<1>15. OnLine(<<x2 + r, y2 + k>>, x1, y1, x2, y2)
  BY <1>10, <1>11, <1>12, <1>13, <1>14, PixelOnLine
<1> QED
  BY <1>1, <1>3, <1>6, <1>15

\* A flat line: a pixel per column.
LEMMA FlatOnLine ==
  ASSUME NEW x1 \in Int, NEW x2 \in Int, NEW y1 \in Int, NEW y2 \in Int, x1 < x2,
         y2 - y1 <= x2 - x1, -(x2 - x1) <= y2 - y1, NEW k \in 0 .. x2 - x1
  PROVE  OnLine(<<x1 + k, y1 + Round((y2 - y1) * k, x2 - x1)>>, x1, y1, x2, y2)
<1>1. PICK dx, dy : dx = x2 - x1 /\ dy = y2 - y1
  OBVIOUS
<1>2. dx \in Nat \ {0} /\ dy \in Int /\ dy <= dx /\ -dx <= dy /\ k \in 0 .. dx
  BY <1>1
<1>3. PICK a : a = dy * k
  OBVIOUS
<1>4. a \in Int
  BY <1>2, <1>3
<1>5. PICK r : r = Round(a, dx)
  OBVIOUS
<1>6. r \in Int /\ Between(y1 + r, y1, y2)
  <2>1. CASE dy >= 0
    <3>1. 0 * dy <= k * dy /\ k * dy <= dx * dy
      BY <1>2, <2>1, TimesMono
    <3>2. dx * 0 <= a /\ a <= dx * dy
      BY <1>2, <1>3, <3>1
    <3>3. 0 \in Int /\ dy \in Int /\ dx \in Nat \ {0}
      BY <1>2
    <3>4. r \in 0 .. dy
      BY <1>4, <1>5, <3>2, <3>3, RoundBounds, Zenon
    <3> QED
      BY <1>1, <1>2, <3>4 DEF Between
  <2>2. CASE dy < 0
    <3>1. PICK e : e = -dy
      OBVIOUS
    <3>2. 0 * e <= k * e /\ k * e <= dx * e
      BY <1>2, <2>2, <3>1, TimesMono
    <3>3. k * e = -a /\ dx * e = -(dx * dy) /\ 0 * e = 0 /\ dx * dy \in Int /\ dx * 0 = 0
      BY <1>2, <1>3, <3>1
    <3>4. dx * dy <= a /\ a <= dx * 0
      <4>1. 0 <= -a /\ -a <= -(dx * dy)
        BY <3>2, <3>3
      <4>2. PICK u : u = dx * dy
        OBVIOUS
      <4> QED
        BY <1>4, <3>3, <4>1, <4>2
    <3>5. 0 \in Int /\ dy \in Int /\ dx \in Nat \ {0}
      BY <1>2
    <3>6. r \in dy .. 0
      BY <1>4, <1>5, <3>4, <3>5, RoundBounds, Zenon
    <3> QED
      BY <1>1, <1>2, <3>6 DEF Between
  <2> QED
    BY <1>2, <2>1, <2>2
<1>7. 2 * (dx * r - a) <= dx /\ 2 * (a - dx * r) <= dx
  BY <1>2, <1>4, <1>5, RoundFacts
<1>8. PICK d : d = dx * r - a
  OBVIOUS
<1>9. d \in Int /\ 2 * d <= dx /\ -(2 * d) <= dx
  <2>1. dx * r \in Int
    BY <1>2, <1>6
  <2> QED
    BY <1>2, <1>4, <1>7, <1>8, <2>1
<1>10. Longer(x2 - x1, y1, y2) = dx
  BY <1>1, <1>2 DEF Longer, Distance
<1>11. x1 + k \in Int /\ y1 + r \in Int /\ x1 <= x1 + k /\ x1 + k <= x2
  BY <1>1, <1>2, <1>6
<1>12. d = (x2 - x1) * ((y1 + r) - y1) - (y2 - y1) * ((x1 + k) - x1)
  <2>1. (y1 + r) - y1 = r /\ (x1 + k) - x1 = k
    BY <1>2, <1>6
  <2> QED
    BY <1>1, <1>3, <1>8, <2>1
<1>13. OnLine(<<x1 + k, y1 + r>>, x1, y1, x2, y2)
  BY <1>6, <1>9, <1>10, <1>11, <1>12, PixelOnLine
<1> QED
  BY <1>1, <1>3, <1>5, <1>13

\* gui_drawline draws the line it was asked for, in whatever direction it goes.
LEMMA DrawlineOnLine ==
  ASSUME NEW x1 \in Int, NEW x2 \in Int, NEW y1 \in Int, NEW y2 \in Int, x1 <= x2,
         NEW p \in Drawline(x1, y1, x2, y2)
  PROVE  OnLine(p, x1, y1, x2, y2)
<1>1. CASE x1 = x2
  <2>1. p \in VerticalBar(x1, y1, y2)
    BY <1>1 DEF Drawline
  <2> QED
    BY <1>1, <2>1, VerticalOnLine
<1>2. CASE x1 # x2 /\ y1 = y2
  <2>1. p \in HorizontalBar(x1, y1, x2)
    BY <1>2 DEF Drawline
  <2> QED
    BY <1>2, <2>1, HorizontalOnLine
<1>3. CASE x1 # x2 /\ y1 # y2
  <2>1. p \in Oblique(x1, y1, x2, y2) /\ x1 < x2
    BY <1>3 DEF Drawline
  <2>2. CASE y2 - y1 > x2 - x1
    <3>1. PICK k \in 0 .. y2 - y1 : p = <<x1 + Round((x2 - x1) * k, y2 - y1), y1 + k>>
      BY <2>1, <2>2 DEF Oblique
    <3>2. OnLine(<<x1 + Round((x2 - x1) * k, y2 - y1), y1 + k>>, x1, y1, x2, y2)
      BY <2>1, <2>2, <3>1, AscendingOnLine
    <3> QED
      BY <3>1, <3>2
  <2>3. CASE y2 - y1 < -(x2 - x1)
    <3>1. ~(y2 - y1 > x2 - x1)
      BY <2>1, <2>3
    <3>2. PICK k \in 0 .. -(y2 - y1) :
            p = <<x2 + Round(-(x2 - x1) * k, -(y2 - y1)), y2 + k>>
      BY <2>1, <2>3, <3>1 DEF Oblique
    <3>3. OnLine(<<x2 + Round(-(x2 - x1) * k, -(y2 - y1)), y2 + k>>, x1, y1, x2, y2)
      BY <2>1, <2>3, <3>2, DescendingOnLine
    <3> QED
      BY <3>2, <3>3
  <2>4. CASE y2 - y1 <= x2 - x1 /\ -(x2 - x1) <= y2 - y1
    <3>1. ~(y2 - y1 > x2 - x1) /\ ~(y2 - y1 < -(x2 - x1))
      BY <2>1, <2>4
    <3>2. \E k \in 0 .. x2 - x1 : p = <<x1 + k, y1 + Round((y2 - y1) * k, x2 - x1)>>
      BY <2>1, <3>1 DEF Oblique
    <3> QED
      BY <2>1, <2>4, <3>2, FlatOnLine
  <2> QED
    BY <2>2, <2>3, <2>4
<1> QED
  BY <1>1, <1>2, <1>3

(***************************************************************************)
(* The grid and the place of a sample                                      *)
(***************************************************************************)

\* Equal steps stay within their sum.
LEMMA StepsWithin ==
  ASSUME NEW len \in Nat, NEW n \in Nat, NEW k \in 0 .. n
  PROVE  len * k \in 0 .. len * n
<1>1. len * k \in Int /\ len * n \in Int /\ len * 0 = 0
  OBVIOUS
<1>2. len * 0 <= len * k /\ len * k <= len * n
  BY TimesMono
<1> QED
  BY <1>1, <1>2

\* A division has room for the dashes on both sides of its middle, and there
\* are five dots to it.
LEMMA Sizes ==
  /\ DivLen \in Nat /\ DivLen >= 5 /\ Width \in Nat /\ Height \in Nat
  /\ Width = SubDivLen * (5 * TDivs) /\ Height = SubDivLen * (5 * VDivs)
<1>1. PICK u, t, v : u = SubDivLen /\ t = TDivs /\ v = VDivs
  OBVIOUS
<1>2. u \in Nat \ {0} /\ t \in Nat /\ v \in Nat
  BY <1>1, TraceAssumption
<1>3. 5 * u \in Nat /\ 5 * u >= 5
  BY <1>2
<1>4. (5 * u) * t = u * (5 * t) /\ (5 * u) * v = u * (5 * v)
  BY <1>2
<1>5. (5 * u) * t \in Nat /\ (5 * u) * v \in Nat
  BY <1>2, <1>3
<1> QED
  BY <1>1, <1>3, <1>4, <1>5 DEF DivLen, Width, Height

\* The offsets of the dashes from a line through a middle stay in the grid.
LEMMA DashWithin ==
  ASSUME NEW len \in Nat, len >= 5, NEW n \in Nat \ {0, 1}, NEW k \in {-2, -1, 1, 2}
  PROVE  len * (n \div 2) + k \in 0 .. len * n
<1>1. PICK h : h = n \div 2
  OBVIOUS
<1>2. h \in Nat /\ 1 <= h /\ h + 1 <= n
  BY <1>1
<1>3. len * 1 <= len * h /\ len * (h + 1) <= len * n
  BY <1>2, TimesMono
<1>4. len * 1 = len /\ len * (h + 1) = len * h + len /\ len * h \in Int /\ len * n \in Int
  BY <1>2
<1>5. PICK a, b : a = len * h /\ b = len * n
  OBVIOUS
<1> QED
  BY <1>1, <1>3, <1>4, <1>5

\* A point is in the image if it is in the grid.
LEMMA InsideGrid ==
  ASSUME NEW x \in 0 .. Width, NEW y \in 0 .. Height
  PROVE  <<Pad + x, Pad + y>> \in Image
<1>1. Pad \in Nat /\ Width \in Nat /\ Height \in Nat
  BY TraceAssumption, Sizes
<1>2. Pad + x \in 0 .. Width + 2 * Pad /\ Pad + y \in 0 .. Height + 2 * Pad
  BY <1>1
<1> QED
  BY <1>2 DEF Image

\* gui_drawgrid stays in the image.
LEMMA GridInImage == Grid \subseteq Image
<1> USE Sizes
<1>1. 0 \in 0 .. Width /\ 0 \in 0 .. Height /\ Width \in 0 .. Width /\ Height \in 0 .. Height
  OBVIOUS
<1>2. ASSUME NEW p \in Frame PROVE p \in Image
  <2>1. PICK x \in 0 .. Width, y \in 0 .. Height : p = <<Pad + x, Pad + y>>
    <3>1. CASE \E k \in 0 .. Width - 1 : p = <<Pad + k, Pad>>
      <4>1. PICK k \in 0 .. Width - 1 : p = <<Pad + k, Pad>>
        BY <3>1
      <4>2. k \in 0 .. Width /\ Pad = Pad + 0
        BY TraceAssumption
      <4> QED
        BY <1>1, <4>1, <4>2
    <3>2. CASE \E k \in 1 .. Width : p = <<Pad + k, Pad + Height>>
      <4>1. PICK k \in 1 .. Width : p = <<Pad + k, Pad + Height>>
        BY <3>2
      <4> QED
        BY <1>1, <4>1
    <3>3. CASE \E k \in 1 .. Height : p = <<Pad, Pad + k>>
      <4>1. PICK k \in 1 .. Height : p = <<Pad, Pad + k>>
        BY <3>3
      <4>2. k \in 0 .. Height /\ Pad = Pad + 0
        BY TraceAssumption
      <4> QED
        BY <1>1, <4>1, <4>2
    <3>4. CASE \E k \in 0 .. Height - 1 : p = <<Pad + Width, Pad + k>>
      <4>1. PICK k \in 0 .. Height - 1 : p = <<Pad + Width, Pad + k>>
        BY <3>4
      <4>2. k \in 0 .. Height
        OBVIOUS
      <4> QED
        BY <1>1, <4>1, <4>2
    <3> QED
      BY <1>2, <3>1, <3>2, <3>3, <3>4 DEF Frame
  <2> QED
    BY <2>1, InsideGrid
<1>3. ASSUME NEW d \in 1 .. TDivs - 1 PROVE DivLen * d \in 0 .. Width
  BY TraceAssumption, StepsWithin DEF Width
<1>4. ASSUME NEW d \in 1 .. VDivs - 1 PROVE DivLen * d \in 0 .. Height
  BY TraceAssumption, StepsWithin DEF Height
<1>5. ASSUME NEW k \in 1 .. 5 * TDivs - 1 PROVE SubDivLen * k \in 0 .. Width
  <2>1. SubDivLen \in Nat /\ 5 * TDivs \in Nat /\ k \in 0 .. 5 * TDivs
    BY TraceAssumption
  <2> QED
    BY <2>1, StepsWithin
<1>6. ASSUME NEW k \in 1 .. 5 * VDivs - 1 PROVE SubDivLen * k \in 0 .. Height
  <2>1. SubDivLen \in Nat /\ 5 * VDivs \in Nat /\ k \in 0 .. 5 * VDivs
    BY TraceAssumption
  <2> QED
    BY <2>1, StepsWithin
<1>7. ASSUME NEW p \in Bars PROVE p \in Image
  <2>1. CASE \E d \in 1 .. TDivs - 1, k \in 1 .. 5 * VDivs - 1 :
               p = <<Pad + DivLen * d, Pad + SubDivLen * k>>
    BY <2>1, <1>3, <1>6, InsideGrid
  <2>2. CASE \E k \in 1 .. 5 * TDivs - 1, d \in 1 .. VDivs - 1 :
               p = <<Pad + SubDivLen * k, Pad + DivLen * d>>
    BY <2>2, <1>4, <1>5, InsideGrid
  <2> QED
    BY <1>7, <2>1, <2>2 DEF Bars
<1>8. ASSUME NEW k \in {-2, -1, 1, 2} PROVE DivLen * (TDivs \div 2) + k \in 0 .. Width
  BY TraceAssumption, DashWithin DEF Width
<1>9. ASSUME NEW k \in {-2, -1, 1, 2} PROVE DivLen * (VDivs \div 2) + k \in 0 .. Height
  BY TraceAssumption, DashWithin DEF Height
<1>10. ASSUME NEW p \in Dashes PROVE p \in Image
  <2>1. CASE \E k \in {-2, -1, 1, 2}, d \in 1 .. VDivs - 1 :
               p = <<Pad + DivLen * (TDivs \div 2) + k, Pad + DivLen * d>>
    <3>1. PICK k \in {-2, -1, 1, 2}, d \in 1 .. VDivs - 1 :
            p = <<Pad + DivLen * (TDivs \div 2) + k, Pad + DivLen * d>>
      BY <2>1
    <3>2. PICK m : m = DivLen * (TDivs \div 2)
      OBVIOUS
    <3>3. m \in Int /\ Pad + m + k = Pad + (m + k)
      BY <3>2, TraceAssumption
    <3>4. <<Pad + (m + k), Pad + DivLen * d>> \in Image
      BY <3>2, <1>4, <1>8, InsideGrid
    <3> QED
      BY <3>1, <3>2, <3>3, <3>4
  <2>2. CASE \E d \in 1 .. TDivs - 1, k \in {-2, -1, 1, 2} :
               p = <<Pad + DivLen * d, Pad + DivLen * (VDivs \div 2) + k>>
    <3>1. PICK d \in 1 .. TDivs - 1, k \in {-2, -1, 1, 2} :
            p = <<Pad + DivLen * d, Pad + DivLen * (VDivs \div 2) + k>>
      BY <2>2
    <3>2. PICK m : m = DivLen * (VDivs \div 2)
      OBVIOUS
    <3>3. m \in Int /\ Pad + m + k = Pad + (m + k)
      BY <3>2, TraceAssumption
    <3>4. <<Pad + DivLen * d, Pad + (m + k)>> \in Image
      BY <3>2, <1>3, <1>9, InsideGrid
    <3> QED
      BY <3>1, <3>2, <3>3, <3>4
  <2> QED
    BY <1>10, <2>1, <2>2 DEF Dashes
<1> QED
  BY <1>2, <1>7, <1>10 DEF Grid

\* The columns of the samples go from the left of the grid to its right.
LEMMA Columns ==
  ASSUME c \in Nat \ {0, 1}, NEW n \in 0 .. c - 2
  PROVE  /\ X(n) \in Pad .. Pad + Width /\ X(n + 1) \in Pad .. Pad + Width
         /\ X(n) <= X(n + 1)
<1>1. PICK b, w : b = c - 1 /\ w = Width
  OBVIOUS
<1>2. b \in Nat \ {0} /\ w \in Nat /\ Pad \in Nat /\ n \in 0 .. b /\ n + 1 \in 0 .. b
  BY <1>1, Sizes, TraceAssumption
<1>3. ASSUME NEW k \in 0 .. b PROVE Round(k * w, b) \in 0 .. w
  <2>1. w * k \in 0 .. w * b
    BY <1>2, StepsWithin
  <2>2. w * k = k * w /\ w * b = b * w /\ b * 0 = 0 /\ b * w \in Int /\ w * k \in Int
    BY <1>2
  <2>3. b * 0 <= k * w /\ k * w <= b * w /\ k * w \in Int
    BY <2>1, <2>2
  <2>4. 0 \in Int /\ w \in Int /\ b \in Nat \ {0}
    BY <1>2
  <2> QED
    BY <2>3, <2>4, RoundBounds, Zenon
<1>4. Round(n * w, b) <= Round((n + 1) * w, b)
  <2>1. (n + 1) * w = n * w + w /\ n * w \in Nat
    BY <1>2
  <2>2. (n + 1) * w \in Nat /\ n * w <= (n + 1) * w
    BY <1>2, <2>1
  <2> QED
    BY <1>2, <2>1, <2>2, RoundMono
<1>5. X(n) = Pad + Round(n * w, b) /\ X(n + 1) = Pad + Round((n + 1) * w, b)
  BY <1>1 DEF X
<1>6. Round(n * w, b) \in 0 .. w /\ Round((n + 1) * w, b) \in 0 .. w
  BY <1>2, <1>3
<1> QED
  BY <1>1, <1>2, <1>4, <1>5, <1>6

\* The rows of the samples are rows of the grid.
LEMMA Rows ==
  ASSUME NEW s \in Samples
  PROVE  Y(s) \in Pad .. Pad + Height
<1>1. PICK b, h, u : b = 2 * Half - 1 /\ h = Height /\ u = s + Half
  OBVIOUS
<1>2. b \in Nat \ {0} /\ h \in Nat /\ Pad \in Nat /\ u \in 0 .. b
  BY <1>1, Sizes, TraceAssumption DEF Samples
<1>3. Round(u * h, b) \in 0 .. h
  <2>1. h * u \in 0 .. h * b
    BY <1>2, StepsWithin
  <2>2. h * u = u * h /\ h * b = b * h /\ b * 0 = 0 /\ b * h \in Int /\ h * u \in Int
    BY <1>2
  <2>3. b * 0 <= u * h /\ u * h <= b * h /\ u * h \in Int
    BY <2>1, <2>2
  <2>4. 0 \in Int /\ h \in Int /\ b \in Nat \ {0}
    BY <1>2
  <2> QED
    BY <2>3, <2>4, RoundBounds, Zenon
<1>4. Y(s) = Pad + h - Round(u * h, b)
  BY <1>1 DEF Y
<1> QED
  BY <1>1, <1>2, <1>3, <1>4

(***************************************************************************)
(* The loop of gui_dtwave                                                  *)
(***************************************************************************)

\* The inductive invariant: there is a segment to draw once the answer is
\* complete, and it joins two samples.
Traced ==
  /\ here \in Samples /\ next \in Samples
  /\ \/ c = 0 /\ i = 0
     \/ c \in 2 .. MaxSamples /\ i \in 0 .. c - 2

\* The loop never passes the last pair of samples.
LEMMA TracedAlways == Spec => []Traced
<1>1. Init => Traced
  <2>1. -Half \in Samples
    BY TraceAssumption DEF Samples
  <2> SUFFICES ASSUME Init PROVE Traced
    OBVIOUS
  <2>2. c = 0 /\ i = 0 /\ here = -Half /\ next = -Half
    BY DEF Init, Idle
  <2> QED
    BY <2>1, <2>2, Zenon DEF Traced
<1>2. Traced /\ [Next]_<<traceVars, numVars>> => Traced'
  <2> SUFFICES ASSUME Traced, [Next]_<<traceVars, numVars>> PROVE Traced'
    OBVIOUS
  <2>1. CASE UNCHANGED traceVars
    BY <2>1 DEF traceVars, Traced
  <2>2. CASE Start
    <3>1. here' \in Samples /\ next' \in Samples /\ c' \in 2 .. MaxSamples /\ i' = i /\ c = 0
      BY <2>2 DEF Start
    <3>2. i = 0
      BY <3>1, TraceAssumption DEF Traced
    <3>3. i' = 0
      BY <3>1, <3>2
    <3>4. PICK k : k = c'
      OBVIOUS
    <3>5. 0 \in 0 .. k - 2
      <4>1. MaxSamples \in Nat /\ k \in 2 .. MaxSamples
        BY <3>1, <3>4, TraceAssumption
      <4> QED
        BY <4>1, SMT
    <3> QED
      BY <3>1, <3>3, <3>4, <3>5 DEF Traced
  <2>3. CASE DrawSegment
    <3>1. here' \in Samples /\ next' \in Samples /\ i' = i + 1 /\ c' = c /\ i + 1 < c - 1
      BY <2>3 DEF DrawSegment, Traced
    <3>2. c \in 2 .. MaxSamples /\ i \in 0 .. c - 2
      BY <3>1 DEF Traced
    <3>3. i' \in 0 .. c' - 2
      BY <3>1, <3>2, TraceAssumption
    <3> QED
      BY <3>1, <3>2, <3>3 DEF Traced
  <2> QED
    BY <2>1, <2>2, <2>3 DEF Next, Draw
<1> QED
  BY <1>1, <1>2, PTL DEF Spec

\* A segment's pixels are those of a line between two places in the grid.
LEMMA SegmentFacts ==
  ASSUME Traced, Drawing, NEW p \in Now
  PROVE  /\ OnLine(p, X(i), Y(here), X(i + 1), Y(next))
         /\ X(i) \in Pad .. Pad + Width /\ X(i + 1) \in Pad .. Pad + Width
         /\ Y(here) \in Pad .. Pad + Height /\ Y(next) \in Pad .. Pad + Height
<1>1. c \in Nat \ {0, 1} /\ i \in 0 .. c - 2
  BY TraceAssumption DEF Traced, Drawing
<1>2. here \in Samples /\ next \in Samples
  BY DEF Traced
<1>3. /\ X(i) \in Pad .. Pad + Width /\ X(i + 1) \in Pad .. Pad + Width
      /\ X(i) <= X(i + 1)
  BY <1>1, Columns
<1>4. Y(here) \in Pad .. Pad + Height /\ Y(next) \in Pad .. Pad + Height
  BY <1>2, Rows
<1>5. p \in Drawline(X(i), Y(here), X(i + 1), Y(next))
  BY DEF Now, Segment
<1>6. X(i) \in Int /\ X(i + 1) \in Int /\ Y(here) \in Int /\ Y(next) \in Int
  BY <1>3, <1>4
<1>7. OnLine(p, X(i), Y(here), X(i + 1), Y(next))
  BY <1>3, <1>5, <1>6, DrawlineOnLine
<1> QED
  BY <1>3, <1>4, <1>7

\* No pixel is put outside the image: not by the grid, and not by a trace,
\* whatever its samples.
THEOREM PixelsInImage == Spec => []InImage
<1>1. ASSUME Traced, Drawing, NEW p \in Now PROVE p \in Image
  <2>1. PICK x1, x2, y1, y2 : x1 = X(i) /\ x2 = X(i + 1) /\ y1 = Y(here) /\ y2 = Y(next)
    OBVIOUS
  <2>2. /\ OnLine(p, x1, y1, x2, y2)
        /\ x1 \in Pad .. Pad + Width /\ x2 \in Pad .. Pad + Width
        /\ y1 \in Pad .. Pad + Height /\ y2 \in Pad .. Pad + Height
    BY <1>1, <2>1, SegmentFacts
  <2>3. PICK x \in Int, y \in Int : p = <<x, y>>
    BY <2>2 DEF OnLine
  <2>4. x1 <= x /\ x <= x2 /\ Between(y, y1, y2)
    BY <2>2, <2>3 DEF OnLine
  <2>5. Pad \in Nat /\ Width \in Nat /\ Height \in Nat
    BY TraceAssumption, Sizes
  <2>6. x \in 0 .. Width + 2 * Pad
    BY <2>2, <2>4, <2>5
  <2>7. y \in 0 .. Height + 2 * Pad
    BY <2>2, <2>4, <2>5 DEF Between
  <2> QED
    BY <2>3, <2>6, <2>7 DEF Image
<1>2. Traced => InImage
  BY <1>1, GridInImage DEF InImage
<1> QED
  BY <1>2, TracedAlways, PTL

\* A trace passes through its samples: what is drawn between two of them lies
\* within half a pixel of the straight line.
THEOREM PixelsOnTheLine == Spec => []OnTheLine
<1>1. ASSUME Traced, Drawing, NEW p \in Now
      PROVE  OnLine(p, X(i), Y(here), X(i + 1), Y(next))
  BY <1>1, SegmentFacts
<1>2. Traced => OnTheLine
  <2> SUFFICES ASSUME Traced PROVE OnTheLine
    OBVIOUS
  <2>1. PICK x1, x2, y1, y2 : x1 = X(i) /\ x2 = X(i + 1) /\ y1 = Y(here) /\ y2 = Y(next)
    OBVIOUS
  <2>2. ASSUME Drawing, NEW p \in Now PROVE OnLine(p, x1, y1, x2, y2)
    BY <1>1, <2>1, <2>2
  <2>3. ASSUME Drawing, NEW p \in Now
        PROVE  /\ x1 <= p[1] /\ p[1] <= x2
               /\ (y1 <= p[2] /\ p[2] <= y2) \/ (y2 <= p[2] /\ p[2] <= y1)
               /\ 2 * Distance((x2 - x1) * (p[2] - y1), (y2 - y1) * (p[1] - x1))
                    <= IF Distance(y1, y2) > x2 - x1 THEN Distance(y1, y2) ELSE x2 - x1
    BY <2>2, <2>3 DEF OnLine, Between, Longer
  <2> QED
    BY <2>1, <2>3, Zenon DEF OnTheLine
<1> QED
  BY <1>2, TracedAlways, PTL

(***************************************************************************)
(* A trace has no gaps                                                     *)
(***************************************************************************)

\* A quotient is rounded the same way on both sides of zero.
LEMMA RoundOdd ==
  ASSUME NEW a \in Nat, NEW b \in Nat \ {0}
  PROVE  Round(-a, b) = -Round(a, b)
<1>1. CASE a <= 0
  <2>1. Round(0, b) \in 0 .. 0
    <3>1. b * 0 <= 0 /\ 0 <= b * 0 /\ 0 \in Int
      OBVIOUS
    <3> QED
      BY <3>1, RoundBounds, Zenon
  <2>2. Round(0, b) = 0
    BY <2>1
  <2>3. Round(-a, b) = 0 /\ Round(a, b) = 0
    <3>1. -a = 0 /\ a = 0
      BY <1>1
    <3>2. Round(-a, b) = Round(0, b)
      BY <3>1, Zenon
    <3>3. Round(a, b) = Round(0, b)
      BY <3>1, Zenon
    <3> QED
      BY <2>2, <3>2, <3>3, Zenon
  <2> QED
    BY <2>3
<1>2. CASE a > 0
  <2>1. ~(-a >= 0) /\ a >= 0 /\ b - 2 * (-a) = 2 * a + b
    BY <1>2
  <2>2. Round(-a, b) = -((b - 2 * (-a)) \div (2 * b))
    BY <2>1, Zenon DEF Round
  <2>3. Round(a, b) = (2 * a + b) \div (2 * b)
    BY <2>1, Zenon DEF Round
  <2> QED
    BY <2>1, <2>2, <2>3, Zenon
<1> QED
  BY <1>1, <1>2

\* One unit more in the quotient is one unit more when it is rounded.
LEMMA RoundUnit ==
  ASSUME NEW a \in Nat, NEW b \in Nat \ {0}
  PROVE  Round(a + b, b) <= Round(a, b) + 1
<1>1. PICK r, s : r = Round(a, b) /\ s = Round(a + b, b)
  OBVIOUS
<1>2. r \in Int /\ 2 * (a - b * r) < b
  BY <1>1, RoundFacts
<1>3. s \in Int /\ 2 * (b * s - (a + b)) <= b
  <2>1. PICK e : e = a + b
    OBVIOUS
  <2>2. e \in Int
    BY <2>1
  <2>3. Round(e, b) \in Int /\ 2 * (b * Round(e, b) - e) <= b
    BY <2>2, RoundFacts
  <2> QED
    BY <1>1, <2>1, <2>3, Zenon
<1>4. PICK br, bs : br = b * r /\ bs = b * s
  OBVIOUS
<1>5. br \in Int /\ bs \in Int
  BY <1>2, <1>3, <1>4
<1>6. bs < br + b + b
  BY <1>2, <1>3, <1>4, <1>5
<1>7. b * (r + 2) = br + b + b
  BY <1>2, <1>4
<1>8. s < r + 2
  BY <1>2, <1>3, <1>4, <1>6, <1>7, TimesLess
<1> QED
  BY <1>1, <1>2, <1>3, <1>8

\* Along a line the rounded height starts at 0, ends at the full height, and
\* grows by one at most from one place to the next.
LEMMA Ramp ==
  ASSUME NEW n \in Nat \ {0}, NEW d \in 0 .. n
  PROVE  /\ Round(d * 0, n) = 0 /\ Round(d * n, n) = d
         /\ \A k \in 0 .. n : Round(d * k, n) \in Nat
         /\ \A k \in 1 .. n : /\ Round(d * (k - 1), n) <= Round(d * k, n)
                              /\ Round(d * k, n) <= Round(d * (k - 1), n) + 1
<1>1. ASSUME NEW k \in 0 .. n PROVE Round(d * k, n) \in 0 .. d
  <2>1. PICK a : a = d * k
    OBVIOUS
  <2>2. a \in Int /\ n * 0 <= a /\ 0 \in Int /\ d \in Int
    BY <2>1
  <2>3. a <= n * d
    <3>1. d * k <= d * n /\ d * n = n * d
      BY TimesMono
    <3> QED
      BY <2>1, <3>1
  <2> QED
    BY <2>1, <2>2, <2>3, RoundBounds
<1>2. Round(d * 0, n) = 0
  <2>1. Round(0, n) \in 0 .. 0
    <3>1. n * 0 <= 0 /\ 0 <= n * 0 /\ 0 \in Int
      OBVIOUS
    <3> QED
      BY <3>1, RoundBounds, Zenon
  <2>2. d * 0 = 0
    OBVIOUS
  <2> QED
    BY <2>1, <2>2
<1>3. Round(d * n, n) = d
  <2>1. PICK a : a = d * n
    OBVIOUS
  <2>2. a \in Int /\ n * d <= a /\ a <= n * d /\ d \in Int
    BY <2>1
  <2>3. Round(a, n) \in d .. d
    BY <2>2, RoundBounds
  <2> QED
    BY <2>1, <2>3
<1>4. ASSUME NEW k \in 1 .. n
      PROVE  /\ Round(d * (k - 1), n) <= Round(d * k, n)
             /\ Round(d * k, n) <= Round(d * (k - 1), n) + 1
  <2>1. PICK a, e : a = d * (k - 1) /\ e = d * k
    OBVIOUS
  <2>2. e = a + d
    BY <2>1
  <2>3. a \in Nat /\ e \in Nat /\ a <= e /\ e <= a + n /\ a + n \in Nat
    BY <2>1, <2>2
  <2>4. Round(a, n) <= Round(e, n) /\ Round(e, n) <= Round(a + n, n)
    BY <2>3, RoundMono
  <2>5. Round(a + n, n) <= Round(a, n) + 1
    BY <2>3, RoundUnit
  <2>6. Round(a, n) \in Int /\ Round(e, n) \in Int /\ Round(a + n, n) \in Int
    BY <2>3, RoundFacts
  <2>7. Round(a, n) <= Round(e, n) /\ Round(e, n) <= Round(a, n) + 1
    BY <2>4, <2>5, <2>6
  <2> QED
    BY <2>1, <2>7, Zenon
<1>5. ASSUME NEW k \in 0 .. n PROVE Round(d * k, n) \in Nat
  BY <1>1
<1> QED
  BY <1>2, <1>3, <1>4, <1>5, Zenon

\* Pixels in a row of which each touches the one before, and is farther from
\* the first, are of one piece.
LEMMA ChainOnePiece ==
  ASSUME NEW n \in Nat, NEW f,
         \A k \in 1 .. n : Touch(f[k], f[k - 1]) /\ Far(f[0], f[k - 1]) < Far(f[0], f[k])
  PROVE  OnePiece({f[k] : k \in 0 .. n})
<1> DEFINE pixels == {f[k] : k \in 0 .. n}
<1>1. f[0] \in pixels
  OBVIOUS
<1>2. ASSUME NEW q \in pixels \ {f[0]}
      PROVE  \E r \in pixels : Touch(q, r) /\ Far(f[0], r) < Far(f[0], q)
  <2>1. PICK k \in 0 .. n : q = f[k]
    OBVIOUS
  <2>2. k # 0
    BY <1>2, <2>1
  <2>3. k \in 1 .. n /\ k - 1 \in 0 .. n
    BY <2>2
  <2>4. f[k - 1] \in pixels
    BY <2>3
  <2> QED
    BY <2>1, <2>3, <2>4, Zenon
<1> HIDE DEF pixels
<1>3. OnePiece(pixels)
  BY <1>1, <1>2, Zenon DEF OnePiece
<1> QED
  BY <1>3 DEF pixels

\* h leaves zero in one direction, never by more than one at a time.
Climbs(h, n) ==
  /\ h \in [0 .. n -> Int] /\ h[0] = 0
  /\ \/ \A k \in 1 .. n : 0 <= h[k - 1] /\ h[k - 1] <= h[k] /\ h[k] <= h[k - 1] + 1
     \/ \A k \in 1 .. n : h[k - 1] <= 0 /\ h[k] <= h[k - 1] /\ h[k - 1] <= h[k] + 1

\* Two neighbours of a line touch, and the later is farther from the beginning.
LEMMA ClimbStep ==
  ASSUME NEW n \in Nat, NEW h, Climbs(h, n), NEW k \in 1 .. n, NEW x \in Int, NEW y \in Int
  PROVE  /\ Distance(x + h[k], x + h[k - 1]) <= 1 /\ Distance(y + k, y + (k - 1)) <= 1
         /\ Distance(x + h[0], x + h[k - 1]) + Distance(y + 0, y + (k - 1))
              < Distance(x + h[0], x + h[k]) + Distance(y + 0, y + k)
<1>1. PICK a, b : a = h[k - 1] /\ b = h[k]
  OBVIOUS
<1>2. a \in Int /\ b \in Int /\ h[0] = 0
  BY <1>1 DEF Climbs
<1>3. \/ 0 <= a /\ a <= b /\ b <= a + 1
      \/ a <= 0 /\ b <= a /\ a <= b + 1
  BY <1>1 DEF Climbs
<1>4. Distance(x + b, x + a) <= 1 /\ Distance(y + k, y + (k - 1)) <= 1
  BY <1>2, <1>3 DEF Distance
<1>5. Distance(x + 0, x + a) <= Distance(x + 0, x + b)
  BY <1>2, <1>3 DEF Distance
<1>6. Distance(y + 0, y + (k - 1)) = k - 1 /\ Distance(y + 0, y + k) = k
  BY DEF Distance
<1>7. Distance(x + 0, x + a) \in Int /\ Distance(x + 0, x + b) \in Int
  BY <1>2 DEF Distance
<1>8. Distance(x + 0, x + a) + Distance(y + 0, y + (k - 1))
        < Distance(x + 0, x + b) + Distance(y + 0, y + k)
  BY <1>5, <1>6, <1>7
<1> QED
  BY <1>1, <1>2, <1>4, <1>8, Zenon

\* A line with a pixel per row, and one with a pixel per column.
PerRow(x, y, h, n) == {<<x + h[k], y + k>> : k \in 0 .. n}
PerColumn(x, y, h, n) == {<<x + k, y + h[k]>> : k \in 0 .. n}

\* Neither has gaps.
LEMMA ClimbOnePiece ==
  ASSUME NEW n \in Nat, NEW h, Climbs(h, n), NEW x \in Int, NEW y \in Int
  PROVE  OnePiece(PerRow(x, y, h, n)) /\ OnePiece(PerColumn(x, y, h, n))
<1>1. OnePiece({<<x + h[k], y + k>> : k \in 0 .. n})
  <2> DEFINE f == [k \in 0 .. n |-> <<x + h[k], y + k>>]
  <2>1. ASSUME NEW k \in 0 .. n PROVE f[k] = <<x + h[k], y + k>>
    OBVIOUS
  <2>2. {f[k] : k \in 0 .. n} = {<<x + h[k], y + k>> : k \in 0 .. n}
    BY <2>1
  <2>3. ASSUME NEW k \in 1 .. n
        PROVE  Touch(f[k], f[k - 1]) /\ Far(f[0], f[k - 1]) < Far(f[0], f[k])
    <3>1. k \in 0 .. n /\ k - 1 \in 0 .. n /\ 0 \in 0 .. n
      OBVIOUS
    <3>2. /\ f[k] = <<x + h[k], y + k>> /\ f[k - 1] = <<x + h[k - 1], y + (k - 1)>>
          /\ f[0] = <<x + h[0], y + 0>>
      BY <2>1, <3>1, Zenon
    <3> HIDE DEF f
    <3>3. /\ f[k][1] = x + h[k] /\ f[k][2] = y + k
          /\ f[k - 1][1] = x + h[k - 1] /\ f[k - 1][2] = y + (k - 1)
          /\ f[0][1] = x + h[0] /\ f[0][2] = y + 0
      BY <3>2
    <3> QED
      BY <3>3, ClimbStep, Zenon DEF Touch, Far
  <2> HIDE DEF f
  <2>4. OnePiece({f[k] : k \in 0 .. n})
    BY <2>3, ChainOnePiece
  <2> QED
    BY <2>2, <2>4, Zenon
<1>2. OnePiece({<<x + k, y + h[k]>> : k \in 0 .. n})
  <2> DEFINE f == [k \in 0 .. n |-> <<x + k, y + h[k]>>]
  <2>1. ASSUME NEW k \in 0 .. n PROVE f[k] = <<x + k, y + h[k]>>
    OBVIOUS
  <2>2. {f[k] : k \in 0 .. n} = {<<x + k, y + h[k]>> : k \in 0 .. n}
    BY <2>1
  <2>3. ASSUME NEW k \in 1 .. n
        PROVE  Touch(f[k], f[k - 1]) /\ Far(f[0], f[k - 1]) < Far(f[0], f[k])
    <3>1. k \in 0 .. n /\ k - 1 \in 0 .. n /\ 0 \in 0 .. n
      OBVIOUS
    <3>2. /\ f[k] = <<x + k, y + h[k]>> /\ f[k - 1] = <<x + (k - 1), y + h[k - 1]>>
          /\ f[0] = <<x + 0, y + h[0]>>
      BY <2>1, <3>1, Zenon
    <3> HIDE DEF f
    <3>3. /\ f[k][1] = x + k /\ f[k][2] = y + h[k]
          /\ f[k - 1][1] = x + (k - 1) /\ f[k - 1][2] = y + h[k - 1]
          /\ f[0][1] = x + 0 /\ f[0][2] = y + h[0]
      BY <3>2
    <3>4. /\ Distance(y + h[k], y + h[k - 1]) <= 1 /\ Distance(x + k, x + (k - 1)) <= 1
          /\ Distance(y + h[0], y + h[k - 1]) + Distance(x + 0, x + (k - 1))
               < Distance(y + h[0], y + h[k]) + Distance(x + 0, x + k)
      BY ClimbStep, Zenon
    <3>5. ASSUME NEW p \in Int, NEW q \in Int PROVE Distance(p, q) \in Int
      BY DEF Distance
    <3>6. /\ y + h[k] \in Int /\ y + h[k - 1] \in Int /\ y + h[0] \in Int
          /\ x + 0 \in Int /\ x + k \in Int /\ x + (k - 1) \in Int
      BY <3>1 DEF Climbs
    <3>7. /\ Distance(y + h[0], y + h[k - 1]) \in Int /\ Distance(x + 0, x + (k - 1)) \in Int
          /\ Distance(y + h[0], y + h[k]) \in Int /\ Distance(x + 0, x + k) \in Int
      BY <3>5, <3>6, Zenon
    <3>8. Distance(x + 0, x + (k - 1)) + Distance(y + h[0], y + h[k - 1])
            < Distance(x + 0, x + k) + Distance(y + h[0], y + h[k])
      BY <3>4, <3>7
    <3> QED
      BY <3>3, <3>4, <3>8, Zenon DEF Touch, Far
  <2> HIDE DEF f
  <2>4. OnePiece({f[k] : k \in 0 .. n})
    BY <2>3, ChainOnePiece
  <2> QED
    BY <2>2, <2>4, Zenon
<1> QED
  BY <1>1, <1>2, Zenon DEF PerRow, PerColumn

\* A vertical bar.
LEMMA VerticalPiece ==
  ASSUME NEW x \in Int, NEW y1 \in Int, NEW y2 \in Int
  PROVE  OnePiece(VerticalBar(x, y1, y2))
<1>1. ASSUME NEW n \in Nat, NEW y \in Int PROVE OnePiece({<<x, y + k>> : k \in 0 .. n})
  <2> DEFINE h == [k \in 0 .. n |-> 0]
  <2>1. Climbs(h, n)
    BY DEF Climbs
  <2>2. ASSUME NEW k \in 0 .. n PROVE x + h[k] = x
    OBVIOUS
  <2> HIDE DEF h
  <2>3. PerRow(x, y, h, n) = {<<x, y + k>> : k \in 0 .. n}
    BY <2>2 DEF PerRow
  <2>4. OnePiece(PerRow(x, y, h, n))
    BY <2>1, ClimbOnePiece, Zenon
  <2> QED
    BY <2>3, <2>4
<1>2. CASE y2 > y1
  <2>1. y2 - y1 - 1 \in Nat
    BY <1>2
  <2>2. VerticalBar(x, y1, y2) = {<<x, y1 + k>> : k \in 0 .. y2 - y1 - 1}
    BY <1>2 DEF VerticalBar
  <2> QED
    BY <1>1, <2>1, <2>2, Zenon
<1>3. CASE y1 > y2
  <2>1. y1 - y2 - 1 \in Nat /\ ~(y2 > y1)
    BY <1>3
  <2>2. VerticalBar(x, y1, y2) = {<<x, y2 + k>> : k \in 0 .. y1 - y2 - 1}
    BY <1>3, <2>1 DEF VerticalBar
  <2> QED
    BY <1>1, <2>1, <2>2, Zenon
<1>4. CASE y1 = y2
  <2>1. ~(y2 > y1) /\ ~(y1 > y2)
    BY <1>4
  <2>2. VerticalBar(x, y1, y2) = {<<x, y1>>}
    BY <2>1 DEF VerticalBar
  <2> QED
    BY <2>2 DEF OnePiece
<1> QED
  BY <1>2, <1>3, <1>4

\* A horizontal bar.
LEMMA HorizontalPiece ==
  ASSUME NEW x1 \in Int, NEW x2 \in Int, NEW y \in Int, x1 < x2
  PROVE  OnePiece(HorizontalBar(x1, y, x2))
<1> DEFINE n == x2 - x1 - 1
<1> DEFINE h == [k \in 0 .. n |-> 0]
<1>1. n \in Nat
  OBVIOUS
<1> HIDE DEF n
<1>2. Climbs(h, n)
  BY <1>1 DEF Climbs
<1>3. ASSUME NEW k \in 0 .. n PROVE y + h[k] = y
  OBVIOUS
<1> HIDE DEF h
<1>4. PerColumn(x1, y, h, n) = {<<x1 + k, y>> : k \in 0 .. n}
  BY <1>3 DEF PerColumn
<1>5. OnePiece(PerColumn(x1, y, h, n))
  BY <1>1, <1>2, ClimbOnePiece, Zenon
<1>6. OnePiece({<<x1 + k, y>> : k \in 0 .. n})
  BY <1>4, <1>5
<1> QED
  BY <1>6, Zenon DEF n, HorizontalBar

\* The rounded heights of a line, going up or down.
LEMMA RampClimbs ==
  ASSUME NEW n \in Nat \ {0}, NEW d \in 0 .. n
  PROVE  /\ Climbs([k \in 0 .. n |-> Round(d * k, n)], n)
         /\ Climbs([k \in 0 .. n |-> Round(-d * k, n)], n)
<1> DEFINE up == [k \in 0 .. n |-> Round(d * k, n)]
<1> DEFINE down == [k \in 0 .. n |-> Round(-d * k, n)]
<1>1. ASSUME NEW k \in 0 .. n PROVE up[k] = Round(d * k, n) /\ up[k] \in Nat
  BY Ramp
<1>2. ASSUME NEW k \in 0 .. n PROVE down[k] = -Round(d * k, n)
  <2>1. PICK a : a = d * k
    OBVIOUS
  <2>2. a \in Nat /\ -d * k = -a
    BY <2>1
  <2>3. Round(-a, n) = -Round(a, n)
    BY <2>2, RoundOdd
  <2>4. down[k] = Round(-d * k, n)
    OBVIOUS
  <2> HIDE DEF down
  <2> QED
    BY <2>1, <2>2, <2>3, <2>4, Zenon
<1>3. 0 \in 0 .. n /\ up[0] = 0
  <2>1. 0 \in 0 .. n
    OBVIOUS
  <2> QED
    BY <2>1, <1>1, Ramp
<1>4. ASSUME NEW k \in 1 .. n PROVE up[k - 1] <= up[k] /\ up[k] <= up[k - 1] + 1
  <2>1. k \in 0 .. n /\ k - 1 \in 0 .. n
    OBVIOUS
  <2>2. up[k] = Round(d * k, n) /\ up[k - 1] = Round(d * (k - 1), n)
    BY <1>1, <2>1, Zenon
  <2> HIDE DEF up
  <2>3. Round(d * (k - 1), n) <= Round(d * k, n) /\ Round(d * k, n) <= Round(d * (k - 1), n) + 1
    BY Ramp
  <2> QED
    BY <2>2, <2>3, Zenon
<1>5. ASSUME NEW k \in 0 .. n PROVE down[k] = -up[k]
  BY <1>1, <1>2
<1>6. DOMAIN up = 0 .. n /\ DOMAIN down = 0 .. n /\ up = [k \in 0 .. n |-> up[k]] /\ down = [k \in 0 .. n |-> down[k]]
  OBVIOUS
<1> HIDE DEF up, down
<1>7. Climbs(up, n)
  <2>1. up \in [0 .. n -> Int]
    BY <1>1, <1>6
  <2>2. ASSUME NEW k \in 1 .. n PROVE 0 <= up[k - 1]
    <3>1. k - 1 \in 0 .. n
      OBVIOUS
    <3> QED
      BY <1>1, <3>1
  <2> QED
    BY <1>3, <1>4, <2>1, <2>2, Zenon DEF Climbs
<1>8. Climbs(down, n)
  <2>1. down \in [0 .. n -> Int]
    BY <1>1, <1>5, <1>6
  <2>2. ASSUME NEW k \in 1 .. n
        PROVE  down[k - 1] <= 0 /\ down[k] <= down[k - 1] /\ down[k - 1] <= down[k] + 1
    <3>1. k - 1 \in 0 .. n /\ k \in 0 .. n
      OBVIOUS
    <3>2. PICK a, b : a = up[k - 1] /\ b = up[k]
      OBVIOUS
    <3>3. a \in Nat /\ b \in Nat /\ a <= b /\ b <= a + 1
      BY <1>1, <1>4, <3>1, <3>2
    <3>4. down[k - 1] = -a /\ down[k] = -b
      BY <1>5, <3>1, <3>2
    <3> QED
      BY <3>3, <3>4
  <2>3. down[0] = 0
    <3>1. PICK a : a = up[0]
      OBVIOUS
    <3>2. a \in Nat /\ a <= 0 /\ down[0] = -a
      BY <1>3, <1>5, <3>1
    <3> QED
      BY <3>2
  <2> QED
    BY <2>1, <2>2, <2>3, Zenon DEF Climbs
<1> QED
  BY <1>7, <1>8 DEF up, down

\* An oblique line has no gaps, and both its ends.
LEMMA ObliquePiece ==
  ASSUME NEW x1 \in Int, NEW y1 \in Int, NEW x2 \in Int, NEW y2 \in Int, x1 < x2, y1 # y2
  PROVE  /\ OnePiece(Oblique(x1, y1, x2, y2))
         /\ <<x1, y1>> \in Oblique(x1, y1, x2, y2) /\ <<x2, y2>> \in Oblique(x1, y1, x2, y2)
<1>1. PICK dx, dy : dx = x2 - x1 /\ dy = y2 - y1
  OBVIOUS
<1>2. dx \in Nat \ {0} /\ dy \in Int /\ dy # 0 /\ x1 + dx = x2 /\ y1 + dy = y2
  BY <1>1
<1>3. CASE dy > dx
  <2>1. dy \in Nat \ {0} /\ dx \in 0 .. dy
    BY <1>2, <1>3
  <2> DEFINE h == [k \in 0 .. dy |-> Round(dx * k, dy)]
  <2>2. Climbs(h, dy)
    BY <2>1, RampClimbs
  <2>3. ASSUME NEW k \in 0 .. dy PROVE h[k] = Round(dx * k, dy)
    OBVIOUS
  <2>4. h[0] = 0 /\ h[dy] = dx /\ 0 \in 0 .. dy /\ dy \in 0 .. dy
    <3>1. 0 \in 0 .. dy /\ dy \in 0 .. dy
      BY <2>1
    <3>2. Round(dx * 0, dy) = 0 /\ Round(dx * dy, dy) = dx
      BY <2>1, Ramp
    <3> QED
      BY <2>3, <3>1, <3>2, Zenon
  <2> HIDE DEF h
  <2>5. Oblique(x1, y1, x2, y2) = PerRow(x1, y1, h, dy)
    <3>1. Oblique(x1, y1, x2, y2) = {<<x1 + Round(dx * k, dy), y1 + k>> : k \in 0 .. dy}
      BY <1>1, <1>3 DEF Oblique
    <3> QED
      BY <2>3, <3>1 DEF PerRow
  <2>6. OnePiece(PerRow(x1, y1, h, dy))
    BY <2>1, <2>2, ClimbOnePiece, Zenon
  <2>7. <<x1 + h[0], y1 + 0>> \in PerRow(x1, y1, h, dy) /\ <<x1 + h[dy], y1 + dy>> \in PerRow(x1, y1, h, dy)
    BY <2>4, Zenon DEF PerRow
  <2>8. x1 + h[0] = x1 /\ y1 + 0 = y1 /\ x1 + h[dy] = x2 /\ y1 + dy = y2
    BY <1>2, <2>4
  <2> QED
    BY <2>5, <2>6, <2>7, <2>8, Zenon
<1>4. CASE dy < -dx
  <2>1. PICK n : n = -dy
    OBVIOUS
  <2>2. n \in Nat \ {0} /\ dx \in 0 .. n /\ ~(dy > dx) /\ y2 + n = y1 /\ x2 + (-dx) = x1
    BY <1>2, <1>4, <2>1
  <2> DEFINE h == [k \in 0 .. n |-> Round(-dx * k, n)]
  <2>3. Climbs(h, n)
    BY <2>2, RampClimbs
  <2>4. ASSUME NEW k \in 0 .. n PROVE h[k] = Round(-dx * k, n)
    OBVIOUS
  <2>5. h[0] = 0 /\ h[n] = -dx /\ 0 \in 0 .. n /\ n \in 0 .. n
    <3>1. 0 \in 0 .. n /\ n \in 0 .. n
      BY <2>2
    <3>2. Round(dx * n, n) = dx
      BY <2>2, Ramp
    <3>3. PICK a : a = dx * n
      OBVIOUS
    <3>4. a \in Nat /\ -dx * n = -a
      BY <2>2, <3>3
    <3>5. Round(-a, n) = -Round(a, n)
      BY <2>2, <3>4, RoundOdd
    <3>6. h[n] = -dx
      BY <2>4, <3>1, <3>2, <3>3, <3>4, <3>5, Zenon
    <3>7. h[0] = 0
      BY <2>3, Zenon DEF Climbs
    <3> QED
      BY <3>1, <3>6, <3>7, Zenon
  <2> HIDE DEF h
  <2>6. Oblique(x1, y1, x2, y2) = PerRow(x2, y2, h, n)
    <3>1. Oblique(x1, y1, x2, y2) = {<<x2 + Round(-dx * k, n), y2 + k>> : k \in 0 .. n}
      BY <1>1, <1>4, <2>1, <2>2 DEF Oblique
    <3> QED
      BY <2>4, <3>1 DEF PerRow
  <2>7. OnePiece(PerRow(x2, y2, h, n))
    BY <2>2, <2>3, ClimbOnePiece, Zenon
  <2>8. <<x2 + h[0], y2 + 0>> \in PerRow(x2, y2, h, n) /\ <<x2 + h[n], y2 + n>> \in PerRow(x2, y2, h, n)
    BY <2>5, Zenon DEF PerRow
  <2>9. x2 + h[0] = x2 /\ y2 + 0 = y2 /\ x2 + h[n] = x1
    BY <1>2, <2>2, <2>5
  <2> QED
    BY <2>2, <2>6, <2>7, <2>8, <2>9, Zenon
<1>5. CASE dy <= dx /\ -dx <= dy
  <2>1. ~(dy > dx) /\ ~(dy < -dx)
    BY <1>2, <1>5
  <2> DEFINE h == [k \in 0 .. dx |-> Round(dy * k, dx)]
  <2>2. ASSUME NEW k \in 0 .. dx PROVE h[k] = Round(dy * k, dx)
    OBVIOUS
  <2>3. Climbs(h, dx) /\ h[dx] = dy
    <3>1. 0 \in 0 .. dx /\ dx \in 0 .. dx
      BY <1>2
    <3>2. CASE dy >= 0
      <4>1. dy \in 0 .. dx
        BY <1>2, <1>5, <3>2
      <4>2. Climbs([k \in 0 .. dx |-> Round(dy * k, dx)], dx)
        BY <1>2, <4>1, RampClimbs
      <4>3. Round(dy * dx, dx) = dy
        BY <1>2, <4>1, Ramp
      <4> QED
        BY <2>2, <3>1, <4>2, <4>3, Zenon
    <3>3. CASE dy < 0
      <4>1. PICK d : d = -dy
        OBVIOUS
      <4>2. d \in 0 .. dx /\ dy = -d
        BY <1>2, <1>5, <3>3, <4>1
      <4>3. ASSUME NEW k \in 0 .. dx PROVE dy * k = -d * k
        BY <1>2, <4>2
      <4>4. Climbs([k \in 0 .. dx |-> Round(-d * k, dx)], dx)
        BY <1>2, <4>2, RampClimbs
      <4>5. h = [k \in 0 .. dx |-> Round(-d * k, dx)]
        BY <4>3
      <4>6. Round(dy * dx, dx) = dy
        <5>1. Round(d * dx, dx) = d
          BY <1>2, <4>2, Ramp
        <5>2. PICK a : a = d * dx
          OBVIOUS
        <5>3. a \in Nat /\ dy * dx = -a
          BY <1>2, <4>2, <5>2
        <5>4. Round(-a, dx) = -Round(a, dx)
          BY <1>2, <5>3, RoundOdd
        <5> QED
          BY <4>2, <5>1, <5>2, <5>3, <5>4, Zenon
      <4> QED
        BY <2>2, <3>1, <4>4, <4>5, <4>6, Zenon
    <3> QED
      BY <1>2, <3>2, <3>3
  <2>4. h[0] = 0 /\ 0 \in 0 .. dx /\ dx \in 0 .. dx
    BY <1>2, <2>3 DEF Climbs
  <2> HIDE DEF h
  <2>5. Oblique(x1, y1, x2, y2) = PerColumn(x1, y1, h, dx)
    <3>1. Oblique(x1, y1, x2, y2) = {<<x1 + k, y1 + Round(dy * k, dx)>> : k \in 0 .. dx}
      BY <1>1, <2>1 DEF Oblique
    <3> QED
      BY <2>2, <3>1 DEF PerColumn
  <2>6. OnePiece(PerColumn(x1, y1, h, dx))
    BY <1>2, <2>3, ClimbOnePiece, Zenon
  <2>7. <<x1 + 0, y1 + h[0]>> \in PerColumn(x1, y1, h, dx) /\ <<x1 + dx, y1 + h[dx]>> \in PerColumn(x1, y1, h, dx)
    BY <2>4, Zenon DEF PerColumn
  <2>8. x1 + 0 = x1 /\ y1 + h[0] = y1 /\ y1 + h[dx] = y2
    BY <1>2, <2>3, <2>4
  <2> QED
    BY <1>2, <2>5, <2>6, <2>7, <2>8, Zenon
<1> QED
  BY <1>2, <1>3, <1>4, <1>5

\* Where a line ends, the last pixel is drawn, or the one above it, or the one
\* to its left (rows are counted downwards; a bar stops before its last row).
AtEnd(p, x, y) == p = <<x, y>> \/ p = <<x, y - 1>> \/ p = <<x - 1, y>>

\* Where it begins, the first is, or the one above.
AtStart(p, x, y) == p = <<x, y>> \/ p = <<x, y - 1>>

\* Whatever gui_drawline leaves out, it draws one piece from a neighbour of one
\* end to a neighbour of the other.
LEMMA DrawlinePiece ==
  ASSUME NEW x1 \in Int, NEW y1 \in Int, NEW x2 \in Int, NEW y2 \in Int, x1 <= x2
  PROVE  /\ OnePiece(Drawline(x1, y1, x2, y2))
         /\ \E p \in Drawline(x1, y1, x2, y2) : AtStart(p, x1, y1)
         /\ \E p \in Drawline(x1, y1, x2, y2) : AtEnd(p, x2, y2)
<1>1. CASE x1 = x2
  <2>1. Drawline(x1, y1, x2, y2) = VerticalBar(x1, y1, y2)
    BY <1>1 DEF Drawline
  <2>2. /\ \E p \in VerticalBar(x1, y1, y2) : AtStart(p, x1, y1)
        /\ \E p \in VerticalBar(x1, y1, y2) : AtEnd(p, x1, y2)
    <3>1. CASE y2 > y1
      <4>1. VerticalBar(x1, y1, y2) = {<<x1, y1 + k>> : k \in 0 .. y2 - y1 - 1}
        BY <3>1 DEF VerticalBar
      <4>2. 0 \in 0 .. y2 - y1 - 1 /\ y2 - y1 - 1 \in 0 .. y2 - y1 - 1
        BY <3>1
      <4>3. y1 + 0 = y1 /\ y1 + (y2 - y1 - 1) = y2 - 1
        OBVIOUS
      <4>4. <<x1, y1>> \in VerticalBar(x1, y1, y2) /\ <<x1, y2 - 1>> \in VerticalBar(x1, y1, y2)
        BY <4>1, <4>2, <4>3
      <4> QED
        BY <4>4, Zenon DEF AtStart, AtEnd
    <3>2. CASE y1 > y2
      <4>1. VerticalBar(x1, y1, y2) = {<<x1, y2 + k>> : k \in 0 .. y1 - y2 - 1}
        <5>1. ~(y2 > y1)
          BY <3>2
        <5> QED
          BY <3>2, <5>1 DEF VerticalBar
      <4>2. 0 \in 0 .. y1 - y2 - 1 /\ y1 - y2 - 1 \in 0 .. y1 - y2 - 1
        BY <3>2
      <4>3. y2 + 0 = y2 /\ y2 + (y1 - y2 - 1) = y1 - 1
        OBVIOUS
      <4>4. <<x1, y2>> \in VerticalBar(x1, y1, y2) /\ <<x1, y1 - 1>> \in VerticalBar(x1, y1, y2)
        BY <4>1, <4>2, <4>3
      <4> QED
        BY <4>4, Zenon DEF AtStart, AtEnd
    <3>3. CASE y1 = y2
      <4>1. VerticalBar(x1, y1, y2) = {<<x1, y1>>}
        <5>1. ~(y2 > y1) /\ ~(y1 > y2)
          BY <3>3
        <5> QED
          BY <5>1 DEF VerticalBar
      <4> QED
        BY <3>3, <4>1, Zenon DEF AtStart, AtEnd
    <3> QED
      BY <3>1, <3>2, <3>3
  <2>3. OnePiece(VerticalBar(x1, y1, y2))
    BY VerticalPiece
  <2> QED
    BY <1>1, <2>1, <2>2, <2>3, Zenon
<1>2. CASE x1 # x2 /\ y1 = y2
  <2>1. Drawline(x1, y1, x2, y2) = HorizontalBar(x1, y1, x2)
    BY <1>2 DEF Drawline
  <2>2. x1 < x2
    BY <1>2
  <2>3. OnePiece(HorizontalBar(x1, y1, x2))
    BY <2>2, HorizontalPiece
  <2>4. <<x1, y1>> \in HorizontalBar(x1, y1, x2) /\ <<x2 - 1, y1>> \in HorizontalBar(x1, y1, x2)
    <3>1. 0 \in 0 .. x2 - x1 - 1 /\ x2 - x1 - 1 \in 0 .. x2 - x1 - 1
      BY <2>2
    <3>2. x1 + 0 = x1 /\ x1 + (x2 - x1 - 1) = x2 - 1
      OBVIOUS
    <3> QED
      BY <3>1, <3>2 DEF HorizontalBar
  <2> QED
    BY <1>2, <2>1, <2>3, <2>4, Zenon DEF AtStart, AtEnd
<1>3. CASE x1 # x2 /\ y1 # y2
  <2>1. Drawline(x1, y1, x2, y2) = Oblique(x1, y1, x2, y2)
    BY <1>3 DEF Drawline
  <2>2. x1 < x2
    BY <1>3
  <2> QED
    BY <1>3, <2>1, <2>2, ObliquePiece, Zenon DEF AtStart, AtEnd
<1> QED
  BY <1>1, <1>2, <1>3

\* A pixel at the end of one segment touches one at the start of the next, and
\* both touch the place they are next to.
LEMMA EndsTouch ==
  ASSUME NEW x \in Int, NEW y \in Int, NEW p, NEW q
  PROVE  /\ AtEnd(p, x, y) => Touch(p, <<x, y>>)
         /\ AtStart(p, x, y) => Touch(p, <<x, y>>)
         /\ AtEnd(p, x, y) /\ AtStart(q, x, y) => Touch(p, q)
<1>1. ASSUME NEW a \in Int, NEW b \in Int, NEW d \in Int, NEW e \in Int,
             a - d <= 1, d - a <= 1, b - e <= 1, e - b <= 1
      PROVE  Touch(<<a, b>>, <<d, e>>)
  BY <1>1 DEF Touch, Distance
<1>2. ASSUME NEW a \in Int, NEW b \in Int, NEW d \in Int, NEW e \in Int,
             a \in {x, x - 1}, d \in {x, x - 1}, b \in {y, y - 1}, e \in {y, y - 1}
      PROVE  Touch(<<a, b>>, <<d, e>>)
  <2>1. a - d <= 1 /\ d - a <= 1 /\ b - e <= 1 /\ e - b <= 1
    BY <1>2
  <2> QED
    BY <1>1, <2>1
<1>3. x - 1 \in Int /\ y - 1 \in Int
  OBVIOUS
<1> DEFINE near == {x, x - 1} \X {y, y - 1}
<1>4. ASSUME NEW u \in near, NEW v \in near PROVE Touch(u, v)
  <2>1. PICK a \in {x, x - 1}, b \in {y, y - 1} : u = <<a, b>>
    OBVIOUS
  <2>2. PICK d \in {x, x - 1}, e \in {y, y - 1} : v = <<d, e>>
    OBVIOUS
  <2>3. a \in Int /\ b \in Int /\ d \in Int /\ e \in Int
    BY <1>3
  <2>4. Touch(<<a, b>>, <<d, e>>)
    BY <1>2, <2>3
  <2> QED
    BY <2>1, <2>2, <2>4, Zenon
<1>5. AtEnd(p, x, y) => p \in near
  BY DEF AtEnd
<1>6. AtStart(p, x, y) => p \in near
  BY DEF AtStart
<1>7. AtStart(q, x, y) => q \in near
  BY DEF AtStart
<1>8. <<x, y>> \in near
  OBVIOUS
<1> HIDE DEF near
<1> QED
  BY <1>4, <1>5, <1>6, <1>7, <1>8

\* A segment joins two places.
LEMMA SegmentPiece ==
  ASSUME Traced, Drawing
  PROVE  /\ OnePiece(Now)
         /\ X(i) \in Int /\ Y(here) \in Int /\ X(i + 1) \in Int /\ Y(next) \in Int
         /\ \E p \in Now : AtStart(p, X(i), Y(here))
         /\ \E p \in Now : AtEnd(p, X(i + 1), Y(next))
<1>1. c \in Nat \ {0, 1} /\ i \in 0 .. c - 2 /\ here \in Samples /\ next \in Samples
  <2>1. c \in 2 .. MaxSamples /\ MaxSamples \in Nat
    BY TraceAssumption DEF Traced, Drawing
  <2> QED
    BY <2>1 DEF Traced, Drawing
<1>2. Pad \in Int /\ Pad + Width \in Int /\ Pad + Height \in Int
  BY Sizes, TraceAssumption
<1>3. /\ X(i) \in Pad .. Pad + Width /\ X(i + 1) \in Pad .. Pad + Width /\ X(i) <= X(i + 1)
  BY <1>1, Columns
<1>4. Y(here) \in Pad .. Pad + Height /\ Y(next) \in Pad .. Pad + Height
  BY <1>1, Rows
<1>5. X(i) \in Int /\ Y(here) \in Int /\ X(i + 1) \in Int /\ Y(next) \in Int
  BY <1>2, <1>3, <1>4
<1> QED
  BY <1>3, <1>5, DrawlinePiece, Zenon DEF Now, Segment

\* What was drawn last ends where the next segment begins.
Hangs == i > 0 => \E p \in last : AtEnd(p, X(i), Y(here))

\* The loop draws a trace without gaps, in whatever direction its segments go
\* and whatever end their bars leave out.
THEOREM TraceUnbroken == Spec => []Unbroken
<1>1. Init => Hangs
  <2> SUFFICES ASSUME Init PROVE Hangs
    OBVIOUS
  <2>1. i = 0
    BY DEF Init, Idle
  <2> QED
    BY <2>1 DEF Hangs
<1>2. Traced /\ Hangs /\ [Next]_<<traceVars, numVars>> => Hangs'
  <2> SUFFICES ASSUME Traced, Hangs, [Next]_<<traceVars, numVars>> PROVE Hangs'
    OBVIOUS
  <2>1. CASE UNCHANGED traceVars
    BY <2>1 DEF traceVars, Hangs, X, Y
  <2>2. CASE Start
    <3>1. c = 0 /\ i' = i
      BY <2>2 DEF Start
    <3>2. i = 0
      BY <3>1, TraceAssumption DEF Traced
    <3> QED
      BY <3>1, <3>2 DEF Hangs
  <2>3. CASE DrawSegment
    <3>1. last' = Now /\ i' = i + 1 /\ here' = next /\ c' = c /\ i + 1 < c - 1
      BY <2>3 DEF DrawSegment, Now
    <3>2. Drawing
      <4>1. c = 0 => i = 0
        BY TraceAssumption DEF Traced
      <4>2. c \in Nat
        BY TraceAssumption DEF Traced
      <4> QED
        BY <3>1, <4>1, <4>2 DEF Drawing
    <3>3. PICK p \in Now : AtEnd(p, X(i + 1), Y(next))
      BY <3>2, SegmentPiece
    <3>4. X(i)' = X(i + 1) /\ Y(here)' = Y(next)
      BY <3>1 DEF X, Y
    <3> QED
      BY <3>1, <3>3, <3>4 DEF Hangs
  <2> QED
    BY <2>1, <2>2, <2>3 DEF Next, Draw
<1>3. Traced /\ Hangs => Unbroken
  <2> SUFFICES ASSUME Traced, Hangs, Drawing
               PROVE  /\ OnePiece(Now)
                      /\ i > 0 => \E p \in last, q \in Now : Touch(p, q)
                      /\ \E p \in Now : Touch(p, <<X(i), Y(here)>>)
                      /\ \E p \in Now : Touch(p, <<X(i + 1), Y(next)>>)
    BY DEF Unbroken
  <2>1. /\ OnePiece(Now)
        /\ X(i) \in Int /\ Y(here) \in Int /\ X(i + 1) \in Int /\ Y(next) \in Int
    BY SegmentPiece
  <2>2. PICK q \in Now : AtStart(q, X(i), Y(here))
    BY SegmentPiece
  <2>3. PICK r \in Now : AtEnd(r, X(i + 1), Y(next))
    BY SegmentPiece
  <2>4. Touch(q, <<X(i), Y(here)>>) /\ Touch(r, <<X(i + 1), Y(next)>>)
    BY <2>1, <2>2, <2>3, EndsTouch, Zenon
  <2>5. ASSUME i > 0 PROVE \E p \in last : Touch(p, q)
    <3>1. PICK p \in last : AtEnd(p, X(i), Y(here))
      BY <2>5 DEF Hangs
    <3> QED
      BY <2>1, <2>2, <3>1, EndsTouch, Zenon
  <2> QED
    BY <2>1, <2>4, <2>5, Zenon
<1> QED
  BY <1>1, <1>2, <1>3, TracedAlways, PTL DEF Spec

================================================================================
