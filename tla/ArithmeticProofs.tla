-------------------------- MODULE ArithmeticProofs --------------------------
(***************************************************************************)
(* The arithmetic is exact for every width of a word: proofs about         *)
(* Arithmetic.  The invariants of the loops are those of the comments of   *)
(* mf.web, with the bounds that make every intermediate value fit; for the *)
(* doubles, how far two roundings can go wrong.                            *)
(***************************************************************************)
EXTENDS Arithmetic, TLAPS

Legal == -el_gordo..el_gordo
Dividing == {"make_fraction", "dimen_out"}
Routines == Dividing \cup {"none", "slow_add", "take_fraction", "ab_vs_cd", "square_rt"}
Calls == [routine : Routines, unit : Nat, a : Int, b : Int, c : Int, d : Int]

TypeOK ==
    /\ pc \in {"idle", "compare", "shift", "root", "return"}
    /\ call \in Calls
    /\ a \in Int /\ b \in Int /\ c \in Int /\ d \in Int
    /\ x \in Int /\ y \in Int /\ q \in Int /\ bit \in Int /\ result \in Int /\ arith_error \in BOOLEAN
    /\ pow \in Int /\ rest \in Int
    /\ pc # "return" => ~arith_error

CompareInv ==
    pc = "compare" =>
        /\ call.routine = "ab_vs_cd"
        /\ a \in Nat /\ b \in Nat \ {0} /\ c \in Nat /\ d \in Nat \ {0}
        /\ Sign(a * b - c * d) = Sign(call.a * call.b - call.c * call.d)

RootCall ==
    /\ call.routine = "square_rt" /\ call.a \in 1..el_gordo
    /\ bit \in 1..root_start /\ pow = Four_to[bit]

ShiftInv ==
    pc = "shift" =>
        /\ RootCall /\ q = 2
        /\ x \in 1..el_gordo /\ x * pow = (unity * call.a) * fraction_four

\* q = 2s and y = rest - s^2 + s; only at the beginning y may be 0.
RootInv ==
    pc = "root" =>
        /\ RootCall /\ x \in 0..fraction_four - 1 /\ rest \in Nat
        /\ (rest * fraction_four + x) * pow = (unity * call.a) * fraction_four
        /\ \E s \in Nat \ {0} :
              /\ q = 2 * s /\ y = rest - s * s + s
              /\ \/ y \in 1..q
                 \/ y = 0 /\ s = 1 /\ rest = 0 /\ x >= fraction_two

\* What dimen_out divides.
DimensionInv ==
    call.routine = "dimen_out" =>
        /\ call.unit = unity /\ call.c \in unity..Dimen_top - 1
        /\ \E v \in Int : call.a = sixteen * v /\ Abs(v) <= max_tfm_dimen(call.c)

IInv ==
    /\ TypeOK /\ CompareInv /\ ShiftInv /\ RootInv /\ DimensionInv
    /\ ResultRight /\ InWord

-----------------------------------------------------------------------------
\* A product grows with its factor.
LEMMA Mono ==
  ASSUME NEW u \in Int, NEW v \in Int, NEW w \in Nat, u <= v
  PROVE  u * w <= v * w
BY SMT

\* Quotient and remainder.
LEMMA DivMod ==
  ASSUME NEW u \in Nat, NEW v \in Nat \ {0}
  PROVE  u \div v \in Nat /\ u % v \in 0..v - 1 /\ u = (u \div v) * v + (u % v)
BY SMT

\* A quotient is known by its remainder.
LEMMA DivUnique ==
  ASSUME NEW u \in Int, NEW v \in Nat \ {0}, NEW z \in Int, NEW w \in 0..v - 1,
         u = z * v + w
  PROVE  u \div v = z
<1> DEFINE t == u \div v
<1>1. t \in Int /\ \E r \in 0..v - 1 : u = t * v + r BY SMT
<1> HIDE DEF t
<1>2. PICK r \in 0..v - 1 : u = t * v + r BY <1>1
<1>3. CASE t < z
  <2>1. (t + 1) * v <= z * v BY <1>1, <1>3, Mono
  <2> QED BY <1>1, <1>2, <2>1
<1>4. CASE z < t
  <2>1. (z + 1) * v <= t * v BY <1>1, <1>4, Mono
  <2> QED BY <1>1, <1>2, <2>1
<1> QED BY <1>1, <1>3, <1>4 DEF t

\* The sign of a product.
LEMMA ProductSign ==
  ASSUME NEW u \in Nat, NEW v \in Int
  PROVE  /\ u * v \in Int /\ (u = 0 \/ v = 0 => u * v = 0)
         /\ (u > 0 /\ v > 0 => u * v > 0) /\ (u > 0 /\ v < 0 => u * v < 0)
BY SMT

\* A call is a record of the arguments.
LEMMA CallType ==
  ASSUME NEW routine \in Routines, NEW unit \in Nat, NEW v \in Int, NEW w \in Int,
         NEW s \in Int, NEW t \in Int
  PROVE  [routine |-> routine, unit |-> unit, a |-> v, b |-> w, c |-> s, d |-> t] \in Calls
BY DEF Calls

\* The constants: what the proofs use of WordAssumption.
LEMMA Constants ==
  /\ el_gordo \in Nat /\ fraction_one \in Nat \ {0} /\ unity \in Nat \ {0, 1}
  /\ el_gordo = 8 * fraction_one - 1
  /\ 2 * unity < fraction_one
  /\ fraction_two = 2 * fraction_one /\ fraction_four = 4 * fraction_one
<1>1. fraction_one \in Nat \ {0, 1} /\ unity \in Nat \ {0, 1}
  BY WordAssumption DEF WordAssumption, Units
<1>2. el_gordo \in Nat /\ el_gordo + 1 = 8 * fraction_one /\ 2 * unity < fraction_one
  BY WordAssumption DEF WordAssumption
<1> QED BY <1>1, <1>2 DEF fraction_two, fraction_four

-----------------------------------------------------------------------------
\* The constants of the doubles: what the proofs use of DoubleAssumption.
LEMMA DoubleFacts ==
  /\ half(grain) \in Nat \ {0} /\ grain = 2 * half(grain) /\ grain \in Nat \ {0}
  /\ mantissa \in Nat /\ half(mantissa) \in Nat /\ mantissa = 2 * half(mantissa)
  /\ mantissa >= 8 * (el_gordo + 1)
  /\ low \in Nat \ {0} /\ half(low) \in Nat \ {0} /\ low = 2 * half(low) /\ low * low <= el_gordo + 1
  /\ make_test \in Nat \ {0} /\ take_test \in Nat \ {0}
  /\ \E k \in Nat : low = k * (2 * make_test)
  /\ \E k \in Nat : low = k * (2 * take_test)
  /\ 16 * (fraction_one * (el_gordo + 1)) <= mantissa * make_test
  /\ 16 * (fraction_one * (el_gordo + 1)) <= mantissa * take_test
  /\ 4 * (el_gordo + 1) <= grain * make_test
<1>1. /\ half(grain) \in Nat \ {0} /\ grain = 2 * half(grain)
      /\ mantissa \in Nat /\ mantissa = 2 * half(mantissa) /\ mantissa >= 8 * (el_gordo + 1)
      /\ low \in Nat \ {0} /\ make_test \in Nat \ {0} /\ take_test \in Nat \ {0}
      /\ low % (2 * make_test) = 0 /\ low % (2 * take_test) = 0 /\ low * low <= el_gordo + 1
      /\ 16 * (fraction_one * (el_gordo + 1)) <= mantissa * make_test
      /\ 16 * (fraction_one * (el_gordo + 1)) <= mantissa * take_test
      /\ 4 * (el_gordo + 1) <= grain * make_test
  BY DoubleAssumption DEF DoubleAssumption
<1>2. half(mantissa) \in Nat
  BY <1>1, SMT DEF half
<1>3. ASSUME NEW test \in Nat \ {0}, low % (2 * test) = 0
      PROVE  \E k \in Nat : low = k * (2 * test)
  <2> DEFINE t == 2 * test
  <2>1. t \in Nat \ {0} /\ low % t = 0 BY <1>3
  <2> HIDE DEF t
  <2>2. low \div t \in Nat /\ low = (low \div t) * t + (low % t) BY <1>1, <2>1, DivMod
  <2>3. PICK k \in Nat : low = k * t + 0 BY <2>1, <2>2
  <2> QED BY <2>1, <2>3 DEF t
<1>4. \E k \in Nat : low = k * (2 * make_test) BY <1>1, <1>3
<1>5. half(low) \in Nat \ {0} /\ low = 2 * half(low)
  <2> PICK k \in Nat : low = k * (2 * make_test) BY <1>4
  <2>1. PICK j \in Nat : j = k * make_test BY <1>1
  <2>2. low = 2 * j BY <1>1, <2>1
  <2>3. (2 * j) \div 2 = j BY SMT
  <2> QED BY <1>1, <2>2, <2>3 DEF half
<1>6. \E k \in Nat : low = k * (2 * take_test) BY <1>1, <1>3
<1> QED BY <1>1, <1>2, <1>4, <1>5, <1>6

\* The units of the two kinds of numbers.
LEMMA UnitFacts ==
  ASSUME NEW unit \in Units
  PROVE  /\ unit \in Nat \ {0, 1} /\ unit <= fraction_one
         /\ Top(unit) \in Nat \ {0} /\ el_gordo + 1 = unit * Top(unit)
         /\ \E k \in Nat : unit = k * (2 * low)
         /\ \E k \in Nat \ {0} : grain = k * unit /\ grain \div unit = k
<1>1. unit \in Nat \ {0, 1} /\ unit <= fraction_one
  BY Constants, WordAssumption DEF Units, WordAssumption
<1>2. Top(unit) \in Nat \ {0} /\ el_gordo + 1 = unit * Top(unit)
  <2>1. CASE unit = unity
    <3>1. Top(unity) \in Int BY Constants DEF Top
    <3>2. el_gordo + 1 = unity * Top(unity) BY WordAssumption DEF WordAssumption
    <3>3. Top(unity) > 0 BY <3>1, <3>2, Constants
    <3> QED BY <2>1, <3>1, <3>2, <3>3
  <2>2. CASE unit = fraction_one
    <3>1. Top(fraction_one) = 8
      BY Constants, DivUnique, el_gordo + 1 = 8 * fraction_one + 0 DEF Top
    <3> QED BY <2>2, <3>1, Constants
  <2> QED BY <2>1, <2>2 DEF Units
<1>3. \E k \in Nat : unit = k * (2 * low)
  <2> DEFINE t == 2 * low
  <2>1. t \in Nat \ {0} /\ unit % t = 0 BY DoubleAssumption DEF DoubleAssumption
  <2> HIDE DEF t
  <2>2. unit \div t \in Nat /\ unit = (unit \div t) * t + (unit % t) BY <1>1, <2>1, DivMod
  <2>3. PICK k \in Nat : unit = k * t + 0 BY <2>1, <2>2
  <2> QED BY <2>1, <2>3 DEF t
<1>4. \E k \in Nat \ {0} : grain = k * unit /\ grain \div unit = k
  <2>1. grain % unit = 0 BY DoubleAssumption DEF DoubleAssumption
  <2>2. grain \div unit \in Nat /\ grain = (grain \div unit) * unit + (grain % unit)
    BY <1>1, DoubleFacts, DivMod
  <2>3. PICK k \in Nat : k = grain \div unit /\ grain = k * unit + 0 BY <2>1, <2>2
  <2>4. k # 0 BY <1>1, <2>3, DoubleFacts
  <2> QED BY <1>1, <2>3, <2>4
<1> QED BY <1>1, <1>2, <1>3, <1>4

\* Between which numbers the nearest integer lies.
LEMMA NearestBounds ==
  ASSUME NEW num \in Nat, NEW den \in Nat \ {0}
  PROVE  /\ Nearest(num, den) \in Nat
         /\ (2 * Nearest(num, den) - 1) * den <= 2 * num
         /\ 2 * num < (2 * Nearest(num, den) + 1) * den
<1> DEFINE sum == 2 * num + den  twice == 2 * den  n == sum \div twice
<1>1. sum \in Nat /\ twice \in Nat \ {0} /\ Nearest(num, den) = n BY DEF Nearest
<1> HIDE DEF sum, twice
<1>2. n \in Nat /\ sum % twice \in 0..twice - 1 /\ sum = n * twice + (sum % twice) BY <1>1, DivMod
<1>3. PICK r \in 0..twice - 1 : sum = n * twice + r BY <1>2
<1> HIDE DEF n
<1>4. 2 * num + den = 2 * (n * den) + r /\ r \in 0..2 * den - 1 BY <1>2, <1>3 DEF sum, twice
<1>5. n * den \in Nat /\ (2 * n - 1) * den = 2 * (n * den) - den /\ (2 * n + 1) * den = 2 * (n * den) + den
  BY <1>2
<1> QED BY <1>1, <1>2, <1>4, <1>5

-----------------------------------------------------------------------------
\* A rounded value: k times the meaning of its last bit, or the next one.
Rounding(num, den, s) ==
    \E z \in Nat, r \in 0..den - 1, w \in Powers, k \in Nat, t \in Nat :
        /\ num = z * den + r /\ w \in Nat \ {0} /\ t < w /\ z = k * w + t
        /\ z < mantissa * w /\ (w = 1 \/ mantissa * w <= 2 * z)
        /\ IF t = 0 /\ r = 0 THEN s = k * w ELSE s \in {k * w, k * w + w}

LEMMA RoundedIs ==
  ASSUME NEW num \in Nat, NEW den \in Nat \ {0}, NEW s \in Rounded(num, den)
  PROVE  Rounding(num, den, s)
<1> DEFINE z == num \div den  r == num % den
<1>1. z \in Nat /\ r \in 0..den - 1 /\ num = z * den + r BY DivMod
<1>2. PICK w \in Spacings(z) :
        LET below == z - (z % w)
        IN  s \in IF below * den = num THEN {below} ELSE {below, below + w}
  BY DEF Rounded
<1>3. w \in Powers /\ z < mantissa * w /\ (w = 1 \/ mantissa * w <= 2 * z) BY DEF Spacings
<1>4. w \in Nat \ {0} BY <1>3, DoubleAssumption DEF DoubleAssumption
<1> HIDE DEF z, r
<1>5. z \div w \in Nat /\ z % w \in 0..w - 1 /\ z = (z \div w) * w + (z % w) BY <1>1, <1>4, DivMod
<1>6. PICK k \in Nat, t \in 0..w - 1 : z = k * w + t /\ t = z % w BY <1>5
<1>7. z - (z % w) = k * w BY <1>4, <1>6
<1>8. (k * w) * den = num <=> t = 0 /\ r = 0
  <2>1. PICK c0 \in Nat : c0 = k * w BY <1>4
  <2>2. num = c0 * den + t * den + r /\ c0 * den \in Int BY <1>1, <1>6, <2>1
  <2>3. t * den \in Nat /\ (t > 0 => t * den > 0) /\ (t = 0 => t * den = 0) BY <1>4, <1>6, ProductSign
  <2>4. c0 * den = num <=> t * den = 0 /\ r = 0 BY <1>1, <2>2, <2>3
  <2>5. t * den = 0 <=> t = 0 BY <1>4, <1>6, <2>3
  <2> QED BY <2>1, <2>4, <2>5
<1>9. IF t = 0 /\ r = 0 THEN s = k * w ELSE s \in {k * w, k * w + w}
  BY <1>2, <1>7, <1>8
<1>10. t \in Nat /\ t < w BY <1>4
<1> QED BY <1>1, <1>3, <1>4, <1>6, <1>9, <1>10 DEF Rounding

\* Rounding does not cross a half of an integer, up to 2^32.
LEMMA RoundedSides ==
  ASSUME NEW num \in Nat, NEW den \in Nat \ {0}, NEW s \in Rounded(num, den),
         NEW j \in 0..4 * (el_gordo + 1)
  PROVE  /\ s \in Nat
         /\ num >= (j * half(grain)) * den => s >= j * half(grain)
         /\ num <= (j * half(grain)) * den => s <= j * half(grain)
<1> DEFINE H == half(grain)  h == half(mantissa)
<1>1. /\ H \in Nat \ {0} /\ H \in Powers /\ h \in Nat /\ mantissa = 2 * h /\ mantissa \in Nat
      /\ h >= 4 * (el_gordo + 1) /\ el_gordo \in Nat
  BY DoubleFacts, Constants, DoubleAssumption DEF DoubleAssumption
<1> HIDE DEF H, h
<1>2. PICK z \in Nat, r \in 0..den - 1, w \in Powers, k \in Nat, t \in Nat :
            /\ num = z * den + r /\ w \in Nat \ {0} /\ t < w /\ z = k * w + t
            /\ z < mantissa * w /\ (w = 1 \/ mantissa * w <= 2 * z)
            /\ IF t = 0 /\ r = 0 THEN s = k * w ELSE s \in {k * w, k * w + w}
  BY RoundedIs DEF Rounding
<1>3. j \in Nat /\ j <= h BY <1>1
<1>4. PICK m \in Nat : m = j * H BY <1>1, <1>3
<1>5. s \in Nat /\ s >= k * w /\ k * w \in Nat BY <1>2
<1>6. w > H => h * w <= z
  <2> SUFFICES ASSUME w > H PROVE h * w <= z OBVIOUS
  <2>1. w # 1 BY <1>1
  <2>2. mantissa * w = 2 * (h * w) /\ h * w \in Nat BY <1>1, <1>2
  <2> QED BY <1>2, <2>1, <2>2
<1>7. w <= H => \E c0 \in Nat : m = c0 * w
  <2> SUFFICES ASSUME w <= H PROVE \E c0 \in Nat : m = c0 * w OBVIOUS
  <2>1. H % w = 0 BY <1>1, <1>2, DoubleAssumption DEF DoubleAssumption
  <2>2. H \div w \in Nat /\ H = (H \div w) * w + (H % w) BY <1>1, <1>2, DivMod
  <2>3. PICK i \in Nat : H = i * w + 0 BY <2>1, <2>2
  <2>4. m = (j * i) * w /\ j * i \in Nat BY <1>2, <1>3, <1>4, <2>3
  <2> QED BY <2>4
<1>8. num >= m * den => s >= m
  <2> SUFFICES ASSUME num >= m * den PROVE s >= m OBVIOUS
  <2>1. z >= m
    <3> SUFFICES ASSUME z + 1 <= m PROVE FALSE BY <1>4
    <3>1. (z + 1) * den <= m * den BY <1>4, Mono
    <3>2. (z + 1) * den = z * den + den /\ z * den \in Int /\ m * den \in Int
      BY <1>2, <1>4
    <3> QED BY <1>2, <3>1, <3>2
  <2>2. CASE w <= H
    <3>1. PICK c0 \in Nat : m = c0 * w BY <1>7, <2>2
    <3>2. c0 <= k
      <4> SUFFICES ASSUME k + 1 <= c0 PROVE FALSE BY <3>1
      <4>1. (k + 1) * w <= c0 * w BY <1>2, <3>1, Mono
      <4>2. (k + 1) * w = k * w + w BY <1>2
      <4> QED BY <1>2, <1>5, <2>1, <3>1, <4>1, <4>2
    <3>3. c0 * w <= k * w BY <1>2, <3>1, <3>2, Mono
    <3> QED BY <1>4, <1>5, <3>1, <3>3
  <2>3. CASE w > H
    <3>1. h <= k
      <4> SUFFICES ASSUME k + 1 <= h PROVE FALSE BY <1>1
      <4>1. (k + 1) * w <= h * w BY <1>1, <1>2, Mono
      <4>2. (k + 1) * w = k * w + w /\ h * w \in Int BY <1>1, <1>2
      <4> QED BY <1>2, <1>5, <1>6, <2>3, <4>1, <4>2
    <3>2. h * w <= k * w BY <1>1, <1>2, <3>1, Mono
    <3>3. H * h <= w * h BY <1>1, <1>2, <2>3, Mono
    <3>4. j * H <= h * H BY <1>1, <1>3, Mono
    <3>5. H * h = h * H /\ w * h = h * w /\ h * H \in Int /\ h * w \in Int BY <1>1, <1>2
    <3> QED BY <1>4, <1>5, <3>2, <3>3, <3>4, <3>5
  <2> QED BY <1>1, <1>2, <2>2, <2>3
<1>9. num <= m * den => s <= m
  <2> SUFFICES ASSUME num <= m * den PROVE s <= m OBVIOUS
  <2>1. z <= m
    <3> SUFFICES ASSUME m + 1 <= z PROVE FALSE BY <1>4
    <3>1. (m + 1) * den <= z * den BY <1>4, Mono
    <3>2. (m + 1) * den = m * den + den /\ z * den \in Int /\ m * den \in Int
      BY <1>2, <1>4
    <3> QED BY <1>2, <3>1, <3>2
  <2>2. w <= H
    <3> SUFFICES ASSUME w > H PROVE FALSE BY <1>1, <1>2
    <3>1. h * w <= j * H BY <1>4, <1>6, <2>1, <1>1, <1>2
    <3>2. j * H <= h * H BY <1>1, <1>3, Mono
    <3>3. (H + 1) * h <= w * h BY <1>1, <1>2, Mono
    <3>4. (H + 1) * h = h * H + h /\ w * h = h * w /\ h * H \in Int /\ h * w \in Int BY <1>1, <1>2
    <3> QED BY <1>1, <3>1, <3>2, <3>3, <3>4
  <2>3. PICK c0 \in Nat : m = c0 * w BY <1>7, <2>2
  <2>4. k <= c0
    <3> SUFFICES ASSUME c0 + 1 <= k PROVE FALSE BY <2>3
    <3>1. (c0 + 1) * w <= k * w BY <1>2, <2>3, Mono
    <3>2. (c0 + 1) * w = c0 * w + w BY <1>2, <2>3
    <3> QED BY <1>2, <1>5, <2>1, <2>3, <3>1, <3>2
  <2>5. CASE k = c0
    <3>1. t = 0 /\ z = m BY <1>2, <1>5, <2>1, <2>3, <2>5
    <3>2. r = 0
      <4>1. z * den \in Int BY <1>2
      <4> QED BY <1>2, <3>1, <4>1
    <3> QED BY <1>2, <2>3, <2>5, <3>1, <3>2
  <2>6. CASE k + 1 <= c0
    <3>1. (k + 1) * w <= c0 * w BY <1>2, <2>3, <2>6, Mono
    <3>2. (k + 1) * w = k * w + w BY <1>2
    <3> QED BY <1>2, <1>5, <2>3, <3>1, <3>2
  <2> QED BY <2>3, <2>4, <2>5, <2>6
<1> QED BY <1>4, <1>5, <1>8, <1>9 DEF H

\* How far a rounded value is from the exact one.
LEMMA RoundedNear ==
  ASSUME NEW num \in Nat, NEW den \in Nat \ {0}, NEW s \in Rounded(num, den)
  PROVE  \E e \in Int : /\ s * den = num + e
                        /\ \/ -den < e /\ e < den
                           \/ mantissa * e < 2 * num /\ mantissa * (-e) < 2 * num
<1>0. Rounding(num, den, s) BY RoundedIs
<1>1. PICK z \in Nat, r \in 0..den - 1, w \in Powers, k \in Nat, t \in Nat :
            /\ num = z * den + r /\ w \in Nat \ {0} /\ t < w /\ z = k * w + t
            /\ z < mantissa * w /\ (w = 1 \/ mantissa * w <= 2 * z)
            /\ IF t = 0 /\ r = 0 THEN s = k * w ELSE s \in {k * w, k * w + w}
  BY <1>0 DEF Rounding
<1> DEFINE e == s * den - num
<1>2. PICK g \in Nat : g = k * w BY <1>1
<1>3. s \in Nat /\ e \in Int /\ s * den = num + e BY <1>1, <1>2
<1>4. /\ g * den \in Nat /\ t * den \in Nat /\ w * den \in Nat
      /\ num = g * den + t * den + r
  BY <1>1, <1>2
<1>5. (t + 1) * den <= w * den BY <1>1, Mono
<1>6. (t + 1) * den = t * den + den BY <1>1
<1>7. t > 0 => t * den > 0 BY <1>1, ProductSign
<1>8. -(w * den) < e /\ e < w * den
  <2>1. CASE s = g
    <3>1. e = -(t * den + r) BY <1>1, <1>4, <2>1
    <3>2. w * den > 0 BY <1>1, ProductSign
    <3> HIDE DEF e
    <3> QED BY <1>1, <1>3, <1>4, <1>5, <1>6, <3>1, <3>2
  <2>2. CASE s = g + w /\ ~(t = 0 /\ r = 0)
    <3>1. e = w * den - (t * den + r)
      <4>1. s * den = g * den + w * den BY <1>1, <2>2
      <4> QED BY <1>1, <1>4, <4>1
    <3>2. t * den + r > 0 BY <1>1, <1>4, <1>7, <2>2
    <3> HIDE DEF e
    <3> QED BY <1>1, <1>3, <1>4, <1>5, <1>6, <3>1, <3>2
  <2> QED BY <1>1, <1>2, <2>1, <2>2
<1> HIDE DEF e
<1>9. CASE w = 1
  BY <1>3, <1>8, <1>9
<1>10. CASE mantissa * w <= 2 * z
  <2> DEFINE M == mantissa
  <2>1. M \in Nat \ {0} BY DoubleFacts, Constants
  <2> HIDE DEF M
  <2>2. M * w <= 2 * z BY <1>10 DEF M
  <2>3. (M * w) * den <= (2 * z) * den BY <1>1, <2>1, <2>2, Mono
  <2>4. (M * w) * den = M * (w * den) /\ (2 * z) * den = 2 * (z * den) /\ z * den \in Nat
    BY <1>1, <2>1
  <2>5. M * (w * den) <= 2 * num BY <1>1, <2>1, <2>3, <2>4
  <2> PICK g1 \in Nat : g1 = w * den BY <1>4
  <2>6. (e + 1) * M <= g1 * M /\ (-e + 1) * M <= g1 * M BY <1>3, <1>8, <2>1, Mono
  <2>7. (e + 1) * M = M * e + M /\ (-e + 1) * M = M * (-e) + M /\ g1 * M = M * g1 BY <1>3, <2>1
  <2>8. M * e \in Int /\ M * (-e) \in Int /\ M * g1 \in Int BY <1>3, <2>1
  <2>9. M * e < 2 * num /\ M * (-e) < 2 * num BY <2>1, <2>5, <2>6, <2>7, <2>8
  <2> QED BY <1>3, <2>9 DEF M
<1> QED BY <1>1, <1>9, <1>10

-----------------------------------------------------------------------------
\* A remainder in two's complement.
LEMMA ModForm ==
  ASSUME NEW u \in Int, NEW v \in Nat \ {0}
  PROVE  u % v \in 0..v - 1 /\ \E k \in Int : u % v = u + k * v
<1>1. u % v \in 0..v - 1 /\ u \div v \in Int /\ u = (u \div v) * v + (u % v) BY SMT
<1>2. PICK k \in Int : k = u \div v BY <1>1
<1>3. u % v = u + (-k) * v BY <1>1, <1>2
<1>4. \E i \in Int : u % v = u + i * v
  <2> PICK r \in 0..v - 1 : r = u % v BY <1>1
  <2>1. -k \in Int /\ r = u + (-k) * v BY <1>3
  <2> QED BY <2>1
<1> QED BY <1>1, <1>4

\* The bit that is tested is the sign of a number that is smaller than the bit.
LEMMA BitIsSign ==
  ASSUME NEW test \in Nat \ {0}, NEW i \in Nat, low = i * (2 * test),
         NEW v \in Int, NEW m \in Int, -test < v, v < test
  PROVE  Bit_set(v + m * low, test) <=> v < 0
<1>1. PICK k \in Int : k = m * i OBVIOUS
<1>2. m * low = (2 * k) * test BY <1>1
<1>3. (2 * k) % 2 = 0 /\ (2 * k - 1) % 2 = 1 BY <1>1, SMT
<1>4. CASE v >= 0
  <2>1. (v + m * low) \div test = 2 * k
    BY <1>1, <1>2, <1>4, DivUnique, v + m * low = (2 * k) * test + v, v \in 0..test - 1,
       v + m * low \in Int, 2 * k \in Int
  <2> QED BY <1>3, <1>4, <2>1 DEF Bit_set
<1>5. CASE v < 0
  <2>1. (2 * k - 1) * test = (2 * k) * test - test BY <1>1
  <2>2. (v + m * low) \div test = 2 * k - 1
    BY <1>1, <1>2, <1>5, <2>1, DivUnique, v + m * low = (2 * k - 1) * test + (v + test),
       v + test \in 0..test - 1, v + m * low \in Int, 2 * k - 1 \in Int
  <2> QED BY <1>3, <1>5, <2>2 DEF Bit_set
<1> QED BY <1>4, <1>5

\* A product of masked numbers fits in a word.
LEMMA MaskedFits ==
  ASSUME NEW u \in 0..low - 1, NEW v \in -low..low - 1
  PROVE  u * v \in Int /\ -(u * v) \in -el_gordo - 1..el_gordo /\ u * v \in -el_gordo - 1..el_gordo
<1>1. low \in Nat \ {0} /\ low * low <= el_gordo + 1 /\ el_gordo \in Nat BY DoubleFacts, Constants
<1>2. u * v \in Int BY <1>1
<1>3. v * u <= low * u /\ (-low) * u <= v * u BY <1>1, Mono
<1>4. u * low <= (low - 1) * low BY <1>1, Mono
<1>5. /\ (low - 1) * low = low * low - low /\ low * u = u * low /\ (-low) * u = -(u * low)
      /\ v * u = u * v /\ u * low \in Int /\ low * low \in Int
  BY <1>1
<1>6. u * v <= low * low - low /\ -(low * low - low) <= u * v BY <1>1, <1>2, <1>3, <1>4, <1>5
<1> QED BY <1>1, <1>2, <1>5, <1>6

-----------------------------------------------------------------------------
\* The two roundings do not cross a half of an integer.
LEMMA WithHalfSides ==
  ASSUME NEW num \in Nat, NEW den \in Nat \ {0}, NEW s \in With_half(num, den),
         NEW j \in 0..4 * (el_gordo + 1) - 1
  PROVE  /\ s \in Nat /\ s >= half(grain)
         /\ num >= (j * half(grain)) * den => s >= (j + 1) * half(grain)
         /\ num <= (j * half(grain)) * den => s <= (j + 1) * half(grain)
<1> DEFINE H == half(grain)
<1>1. PICK s1 \in Rounded(num, den) : s \in Rounded(s1 + H, 1) BY DEF With_half
<1>2. H \in Nat \ {0} /\ el_gordo \in Nat BY DoubleFacts, Constants
<1> HIDE DEF H
<1>3. j \in 0..4 * (el_gordo + 1) /\ j + 1 \in 0..4 * (el_gordo + 1) /\ 1 \in 0..4 * (el_gordo + 1)
  BY <1>2
<1>4. /\ s1 \in Nat
      /\ num >= (j * H) * den => s1 >= j * H
      /\ num <= (j * H) * den => s1 <= j * H
  BY <1>1, <1>3, RoundedSides DEF H
<1>5. s1 + H \in Nat /\ 1 \in Nat \ {0} BY <1>2, <1>4
<1>6. /\ s \in Nat
      /\ s1 + H >= ((j + 1) * H) * 1 => s >= (j + 1) * H
      /\ s1 + H <= ((j + 1) * H) * 1 => s <= (j + 1) * H
  BY <1>1, <1>3, <1>5, RoundedSides DEF H
<1>7. s1 + H >= (1 * H) * 1 => s >= 1 * H
  BY <1>1, <1>3, <1>5, RoundedSides DEF H
<1>8. ((j + 1) * H) * 1 = j * H + H /\ (1 * H) * 1 = H /\ 1 * H = H /\ j * H \in Int
  BY <1>2
<1> QED BY <1>2, <1>4, <1>6, <1>7, <1>8 DEF H

\* How far two roundings can be from the exact value.
Off(num, den, s, s1, e1, e2) ==
    /\ s1 * den = num + e1 /\ s = (s1 + half(grain)) + e2
    /\ \/ -den < e1 /\ e1 < den
       \/ mantissa * e1 < 2 * num /\ mantissa * (-e1) < 2 * num
    /\ \/ e2 = 0
       \/ mantissa * e2 < 2 * (s1 + half(grain)) /\ mantissa * (-e2) < 2 * (s1 + half(grain))
LEMMA WithHalfNear ==
  ASSUME NEW num \in Nat, NEW den \in Nat \ {0}, NEW s \in With_half(num, den)
  PROVE  \E s1 \in Nat, e1, e2 \in Int : Off(num, den, s, s1, e1, e2)
<1> DEFINE H == half(grain)
<1>1. PICK s1 \in Rounded(num, den) : s \in Rounded(s1 + H, 1) BY DEF With_half
<1>2. H \in Nat \ {0} /\ el_gordo \in Nat BY DoubleFacts, Constants
<1> HIDE DEF H
<1>3. s1 \in Nat BY <1>1, <1>2, RoundedSides, 0 \in 0..4 * (el_gordo + 1)
<1>4. s1 + H \in Nat /\ 1 \in Nat \ {0} BY <1>2, <1>3
<1>5. s \in Nat BY <1>1, <1>2, <1>4, RoundedSides, 0 \in 0..4 * (el_gordo + 1)
<1>6. PICK e1 \in Int : /\ s1 * den = num + e1
                        /\ \/ -den < e1 /\ e1 < den
                           \/ mantissa * e1 < 2 * num /\ mantissa * (-e1) < 2 * num
  BY <1>1, RoundedNear
<1>7. PICK e2 \in Int : /\ s * 1 = (s1 + H) + e2
                        /\ \/ -1 < e2 /\ e2 < 1
                           \/ mantissa * e2 < 2 * (s1 + H) /\ mantissa * (-e2) < 2 * (s1 + H)
  <2> DEFINE total == s1 + H
  <2>1. total \in Nat /\ s \in Rounded(total, 1) BY <1>1, <1>4
  <2> HIDE DEF total
  <2>2. \E e \in Int : /\ s * 1 = total + e
                       /\ \/ -1 < e /\ e < 1
                          \/ mantissa * e < 2 * total /\ mantissa * (-e) < 2 * total
    BY <1>4, <2>1, RoundedNear
  <2> QED BY <2>2 DEF total
<1>8. s = (s1 + H) + e2 /\ (-1 < e2 /\ e2 < 1 => e2 = 0) BY <1>5, <1>7
<1>9. Off(num, den, s, s1, e1, e2) BY <1>6, <1>7, <1>8 DEF Off, H
<1> QED BY <1>3, <1>9

\* If the sum is a whole number i, its error is less than the bit that is tested.
LEMMA MakePrecise ==
  ASSUME NEW unit \in Units, NEW size \in 0..el_gordo, NEW den \in 1..el_gordo, NEW i \in Nat,
         i * grain \in With_half((unit * size) * grain, den)
  PROVE  /\ 2 * (unit * size) - (2 * i - 1) * den < make_test
         /\ 2 * (unit * size) - (2 * i - 1) * den > -make_test
<1> DEFINE H == half(grain)  G == grain  M == mantissa
           N == unit * size  Y == fraction_one * (el_gordo + 1)
           v == 2 * N - (2 * i - 1) * den
           B == (M * make_test) * G
<1>1. /\ H \in Nat \ {0} /\ G = 2 * H /\ G \in Nat \ {0} /\ M \in Nat /\ M >= 8 * (el_gordo + 1)
      /\ make_test \in Nat \ {0} /\ 16 * Y <= M * make_test /\ 4 * (el_gordo + 1) <= G * make_test
      /\ el_gordo \in Nat /\ fraction_one \in Nat \ {0, 1} /\ el_gordo >= 7
      /\ unit \in Nat \ {0, 1} /\ unit <= fraction_one /\ den \in Nat \ {0} /\ size \in Nat
  BY DoubleFacts, Constants, UnitFacts
<1>2. N \in Nat /\ Y \in Nat /\ N <= Y
  <2>1. unit * size <= fraction_one * size BY <1>1, Mono
  <2>2. size * fraction_one <= (el_gordo + 1) * fraction_one BY <1>1, Mono
  <2>3. unit * size \in Nat /\ fraction_one * (el_gordo + 1) \in Nat /\ fraction_one * size \in Nat
    BY <1>1
  <2>4. /\ fraction_one * size = size * fraction_one
        /\ fraction_one * (el_gordo + 1) = (el_gordo + 1) * fraction_one
    BY <1>1
  <2> QED BY <2>1, <2>2, <2>3, <2>4
<1>3. 2 * (el_gordo + 1) <= Y BY <1>1, Mono
<1> HIDE DEF H, G, M, N, Y
<1> DEFINE X == N * G
<1>4. X \in Nat BY <1>1, <1>2
<1>5. B \in Nat /\ 16 * X <= B /\ 32 * ((el_gordo + 1) * G) <= B /\ B > 0
  <2>1. (16 * Y) * G <= (M * make_test) * G BY <1>1, <1>2, Mono
  <2>2. N * G <= Y * G BY <1>1, <1>2, Mono
  <2>3. (2 * (el_gordo + 1)) * G <= Y * G BY <1>1, <1>2, <1>3, Mono
  <2>4. (16 * Y) * G = 16 * (Y * G) /\ Y * G \in Int /\ B \in Nat BY <1>1, <1>2
  <2>5. (2 * (el_gordo + 1)) * G = 2 * ((el_gordo + 1) * G) /\ (el_gordo + 1) * G \in Int BY <1>1
  <2>6. 1 * G <= (el_gordo + 1) * G BY <1>1, Mono
  <2> HIDE DEF B
  <2> QED BY <1>1, <1>4, <2>1, <2>2, <2>3, <2>4, <2>5, <2>6 DEF B
<1>6. PICK s1 \in Nat, e1 \in Int, e2 \in Int : Off(X, den, i * G, s1, e1, e2)
  BY <1>1, <1>4, WithHalfNear DEF X, N, G
<1>7. /\ s1 * den = X + e1 /\ i * G = (s1 + H) + e2
      /\ \/ -den < e1 /\ e1 < den
         \/ M * e1 < 2 * X /\ M * (-e1) < 2 * X
      /\ \/ e2 = 0
         \/ M * e2 < 2 * (s1 + H) /\ M * (-e2) < 2 * (s1 + H)
  BY <1>6 DEF Off, H, M
<1>8. G * v = -2 * (e1 + e2 * den)
  <2>1. (2 * i - 1) * den = 2 * (i * den) - den /\ i * den \in Int BY <1>1
  <2>2. v = 2 * N - 2 * (i * den) + den BY <1>1, <1>2, <2>1
  <2>3. G * v = 2 * (N * G) - 2 * ((i * G) * den) + G * den BY <1>1, <1>2, <2>2
  <2>4. (i * G) * den = s1 * den + H * den + e2 * den
    <3>1. (i * G) * den = ((s1 + H) + e2) * den BY <1>7
    <3> QED BY <1>1, <1>6, <3>1
  <2>5. G * den = 2 * (H * den) BY <1>1
  <2>6. /\ H * den \in Int /\ e2 * den \in Int /\ s1 * den \in Int /\ (i * G) * den \in Int
        /\ G * den \in Int
    BY <1>1, <1>6
  <2> HIDE DEF v
  <2>7. G * v = 2 * X - 2 * ((i * G) * den) + G * den BY <2>3
  <2> QED BY <1>4, <1>6, <1>7, <2>4, <2>5, <2>6, <2>7
<1> DEFINE E1 == Abs(e1)  E2 == Abs(e2)
<1>9. E1 \in Nat /\ E2 \in Nat /\ e1 \in {E1, -E1} /\ e2 \in {E2, -E2} BY <1>6 DEF Abs
<1>10. E1 < den \/ M * E1 < 2 * X
  BY <1>1, <1>6, <1>7 DEF Abs
<1>11. E2 = 0 \/ M * E2 < 2 * (s1 + H)
  BY <1>6, <1>7 DEF Abs
<1> HIDE DEF E1, E2, X, B
<1>12. M * E1 \in Nat /\ 4 * (M * E1) <= B
  <2>1. CASE E1 < den
    <3>1. (4 * E1) * M <= (G * make_test) * M BY <1>1, <1>9, <2>1, Mono, 4 * E1 <= G * make_test
    <3>2. (4 * E1) * M = 4 * (M * E1) /\ (G * make_test) * M = B BY <1>1, <1>9 DEF B
    <3> QED BY <1>1, <1>9, <3>1, <3>2
  <2>2. CASE M * E1 < 2 * X
    <3>1. M * E1 \in Nat BY <1>1, <1>9
    <3> QED BY <1>4, <1>5, <2>2, <3>1
  <2> QED BY <1>10, <2>1, <2>2
<1>13. 64 * E1 <= B
  <2>1. 16 * E1 <= M * E1 BY <1>1, <1>9, Mono
  <2> QED BY <1>5, <1>9, <1>12, <2>1
<1>14. den * (M * E2) \in Nat /\ 4 * (den * (M * E2)) < B
  <2>0. M * E2 \in Nat BY <1>1, <1>9
  <2>1. CASE E2 = 0
    <3>1. M * E2 = 0 BY <1>1, <2>1
    <3>2. den * (M * E2) = 0 BY <1>1, <3>1
    <3> QED BY <1>5, <3>2
  <2>2. CASE M * E2 < 2 * (s1 + H)
    <3>1. (M * E2) * den <= (2 * (s1 + H)) * den BY <1>1, <1>6, <2>0, <2>2, Mono
    <3>2. (2 * (s1 + H)) * den = 2 * (s1 * den) + G * den BY <1>1, <1>6
    <3>3. den * G <= (el_gordo + 1) * G BY <1>1, Mono
    <3>4. den * G = G * den /\ G * den \in Int /\ (el_gordo + 1) * G \in Int /\ s1 * den \in Int BY <1>1, <1>6
    <3>6. (M * E2) * den = den * (M * E2) /\ den * (M * E2) \in Nat BY <1>1, <2>0
    <3>7. 2 * (s1 * den) <= 2 * X + 2 * E1 BY <1>4, <1>6, <1>7, <1>9
    <3>5. (M * E2) * den <= 2 * X + 2 * E1 + (el_gordo + 1) * G
      BY <1>4, <1>9, <3>1, <3>2, <3>3, <3>4, <3>6, <3>7
    <3> QED BY <1>4, <1>5, <1>9, <1>13, <3>4, <3>5, <3>6
  <2> QED BY <1>11, <2>1, <2>2
<1>15. M * (G * v) < B /\ M * (-(G * v)) < B
  <2>1. /\ M * (G * v) = -2 * (M * e1) - 2 * (den * (M * e2))
        /\ M * (-(G * v)) = 2 * (M * e1) + 2 * (den * (M * e2))
    <3> DEFINE u == G * v
    <3>1. u = -2 * (e1 + e2 * den) BY <1>8
    <3> HIDE DEF u
    <3>2. M * u = -2 * (M * e1) - 2 * (den * (M * e2)) BY <1>1, <1>6, <3>1
    <3>3. M * (-u) = 2 * (M * e1) + 2 * (den * (M * e2)) BY <1>1, <1>6, <3>1
    <3> QED BY <3>2, <3>3 DEF u
  <2>2. M * e1 \in {M * E1, -(M * E1)} BY <1>1, <1>9
  <2>3. den * (M * e2) \in {den * (M * E2), -(den * (M * E2))} BY <1>1, <1>9
  <2> PICK f1 \in Nat : f1 = M * E1 BY <1>12
  <2> PICK f2 \in Nat : f2 = den * (M * E2) BY <1>14
  <2> PICK g1 \in {f1, -f1} : g1 = M * e1 BY <2>2
  <2> PICK g2 \in {f2, -f2} : g2 = den * (M * e2) BY <2>3
  <2>4. 4 * f1 <= B /\ 4 * f2 < B BY <1>12, <1>14
  <2>5. -2 * g1 - 2 * g2 < B /\ 2 * g1 + 2 * g2 < B BY <1>5, <2>4
  <2> QED BY <2>1, <2>5
<1>16. v \in Int BY <1>1, <1>2
<1>17. B = M * (G * make_test) BY <1>1 DEF B
<1> HIDE DEF v
<1>18. ASSUME NEW u \in Int, M * (G * u) < B PROVE u < make_test
  <2> SUFFICES ASSUME make_test <= u PROVE FALSE BY <1>1
  <2>1. G * M \in Nat BY <1>1
  <2>2. make_test * (G * M) <= u * (G * M) BY <1>1, <2>1, Mono
  <2>3. make_test * (G * M) = B BY <1>1, <1>17
  <2>4. u * (G * M) = M * (G * u) /\ M * (G * u) \in Int BY <1>1
  <2> QED BY <1>5, <1>18, <2>2, <2>3, <2>4
<1>19. -v \in Int /\ M * (G * (-v)) = M * (-(G * v)) BY <1>1, <1>16
<1>20. v < make_test /\ -v < make_test BY <1>15, <1>16, <1>18, <1>19
<1> QED BY <1>1, <1>16, <1>20 DEF v, N

\* The product of masked numbers has the low bits of the number whose sign is asked for.
LEMMA MakeCheck ==
  ASSUME NEW unit \in Units, NEW size \in 0..el_gordo, NEW den \in Int, NEW i \in Nat,
         NEW minus \in BOOLEAN
  PROVE  /\ Make_check(den, Signed(i, minus), minus) \in -el_gordo - 1..el_gordo
         /\ \E m \in Int : Make_check(den, Signed(i, minus), minus)
                           = (2 * (unit * size) - (2 * i - 1) * Abs(den)) + m * low
<1> DEFINE D == Abs(den)  h == half(low)  w == (2 * i - 1) * D
<1>1. /\ low \in Nat \ {0} /\ h \in Nat \ {0} /\ low = 2 * h /\ unit \in Nat /\ size \in Nat
      /\ D \in Int
  BY DoubleFacts, Constants, UnitFacts DEF Abs
<1>2. PICK j \in Nat : unit = j * (2 * low) BY UnitFacts
<1>3. 2 * (unit * size) = (4 * (j * size)) * low
  BY <1>1, <1>2
<1>4. w \in Int BY <1>1
<1> HIDE DEF D, h
<1>5. \E u \in 0..low - 1, v \in -low..low - 1, k \in Int :
         Make_check(den, Signed(i, minus), minus) = u * v /\ u * v = -w + k * low
  <2>0. D \in Int /\ -D \in Int /\ i \in Int /\ -i \in Int BY <1>1
  <2>1. CASE minus
    <3>1. PICK k1 \in Int : D % low = D + k1 * low BY <1>1, <2>0, ModForm
    <3>2. PICK k2 \in Int : (-i) % h = -i + k2 * h BY <1>1, <2>0, ModForm
    <3>3. D % low \in 0..low - 1 /\ (-i) % h \in 0..h - 1 BY <1>1, <2>0, ModForm
    <3>4. PICK u \in 0..low - 1, t \in 0..h - 1 : u = D % low /\ t = (-i) % h BY <3>3
    <3> DEFINE v == 2 * t + 1
    <3>5. Make_check(den, Signed(i, minus), minus) = u * v
      BY <2>1, <3>4 DEF Make_check, Signed, D, h
    <3>6. v \in -low..low - 1 BY <1>1
    <3>7. v = (1 - 2 * i) + k2 * low BY <1>1, <3>2, <3>4
    <3>8. u = D + k1 * low BY <3>1, <3>4
    <3> HIDE DEF v
    <3> PICK d0 \in Int : d0 = 1 - 2 * i OBVIOUS
    <3>9. u * v = D * d0 + (k1 * d0 + k2 * D + (k1 * k2) * low) * low
      BY <1>1, <3>7, <3>8
    <3>10. D * d0 = -w BY <1>1 DEF w
    <3>11. k1 * d0 + k2 * D + (k1 * k2) * low \in Int BY <1>1
    <3> QED BY <3>5, <3>6, <3>9, <3>10, <3>11
  <2>2. CASE ~minus
    <3>1. PICK k1 \in Int : (-D) % low = -D + k1 * low BY <1>1, <2>0, ModForm
    <3>2. PICK k2 \in Int : i % h = i + k2 * h BY <1>1, <2>0, ModForm
    <3>3. (-D) % low \in 0..low - 1 /\ i % h \in 0..h - 1 BY <1>1, <2>0, ModForm
    <3>4. PICK u \in 0..low - 1, t \in 0..h - 1 : u = (-D) % low /\ t = i % h BY <3>3
    <3> DEFINE v == 2 * t - 1
    <3>5. Make_check(den, Signed(i, minus), minus) = u * v
      BY <2>2, <3>4 DEF Make_check, Signed, D, h
    <3>6. v \in -low..low - 1 BY <1>1
    <3>7. v = (2 * i - 1) + k2 * low BY <1>1, <3>2, <3>4
    <3>8. u = -D + k1 * low BY <3>1, <3>4
    <3> HIDE DEF v
    <3> PICK d0 \in Int : d0 = 2 * i - 1 OBVIOUS
    <3>9. u * v = -(D * d0) + (k1 * d0 - k2 * D + (k1 * k2) * low) * low
      BY <1>1, <3>7, <3>8
    <3>10. D * d0 = w BY <1>1 DEF w
    <3>11. k1 * d0 - k2 * D + (k1 * k2) * low \in Int BY <1>1
    <3> QED BY <3>5, <3>6, <3>9, <3>10, <3>11
  <2> QED BY <2>1, <2>2
<1> HIDE DEF w
<1>6. PICK u \in 0..low - 1, v \in -low..low - 1, k \in Int :
         Make_check(den, Signed(i, minus), minus) = u * v /\ u * v = -w + k * low
  BY <1>5
<1>7. u * v = (2 * (unit * size) - w) + (k - 4 * (j * size)) * low
  <2>1. (k - 4 * (j * size)) * low = k * low - (4 * (j * size)) * low BY <1>1
  <2>2. k * low \in Int /\ (4 * (j * size)) * low \in Int BY <1>1
  <2>3. (2 * (unit * size) - w) + (k - 4 * (j * size)) * low = -w + k * low
    BY <1>3, <1>4, <2>1, <2>2
  <2> QED BY <1>6, <2>3
<1>8. k - 4 * (j * size) \in Int BY <1>1
<1>9. u * v \in -el_gordo - 1..el_gordo BY MaskedFits
<1> QED BY <1>6, <1>7, <1>8, <1>9 DEF w, D

\* What make_fraction and make_scaled compute is the quotient to the nearest unit.
LEMMA MakeRight ==
  ASSUME NEW unit \in Units, NEW size \in 0..el_gordo, NEW den \in Int,
         Abs(den) \in 1..el_gordo, NEW minus \in BOOLEAN,
         NEW s \in With_half((unit * size) * grain, Abs(den))
  PROVE  LET check == Make_check(den, Signed(s \div grain, minus), minus)
             n == Nearest(unit * size, Abs(den)) IN
         /\ s >= TWEXP31 => n > el_gordo
         /\ s < TWEXP31 => /\ n <= el_gordo /\ Truncated(s, Bit_set(check, make_test)) = n
                           /\ check \in -el_gordo - 1..el_gordo
<1> DEFINE D == Abs(den)  N == unit * size  G == grain  H == half(grain)
           n == Nearest(N, D)  X == N * G
<1>1. /\ H \in Nat \ {0} /\ G = 2 * H /\ G \in Nat \ {0} /\ el_gordo \in Nat
      /\ unit \in Nat \ {0, 1} /\ D \in Nat \ {0} /\ D <= el_gordo /\ size \in Nat
      /\ el_gordo + 1 = unit * Top(unit) /\ Top(unit) \in Nat
  BY DoubleFacts, Constants, UnitFacts
<1>2. N \in Nat BY <1>1
<1> HIDE DEF N, D
<1>3. n \in Nat /\ (2 * n - 1) * D <= 2 * N /\ 2 * N < (2 * n + 1) * D
  BY <1>1, <1>2, NearestBounds
<1> HIDE DEF n, G, H
<1>4. X \in Nat /\ X = (2 * N) * H BY <1>1, <1>2
<1> HIDE DEF X
<1>5. s \in With_half(X, D) BY DEF X, N, G, D
<1>6. s \in Nat /\ s >= H
  BY <1>1, <1>4, <1>5, WithHalfSides, 0 \in 0..4 * (el_gordo + 1) - 1 DEF H
<1>7. ASSUME NEW j \in 0..4 * (el_gordo + 1) - 1
      PROVE  (2 * N >= j * D => s >= (j + 1) * H) /\ (2 * N <= j * D => s <= (j + 1) * H)
  <2>1. /\ X >= (j * H) * D => s >= (j + 1) * H
        /\ X <= (j * H) * D => s <= (j + 1) * H
    BY <1>1, <1>4, <1>5, WithHalfSides DEF H
  <2>2. (j * H) * D = (j * D) * H /\ j * D \in Nat BY <1>1
  <2>3. 2 * N >= j * D => (2 * N) * H >= (j * D) * H BY <1>1, <1>2, <2>2, Mono
  <2>4. 2 * N <= j * D => (2 * N) * H <= (j * D) * H BY <1>1, <1>2, <2>2, Mono
  <2> QED BY <1>4, <2>1, <2>2, <2>3, <2>4
<1> DEFINE top == (el_gordo + 1) * G
<1>8. top = (2 * el_gordo + 2) * H /\ top \in Nat /\ TWEXP31 = top BY <1>1 DEF TWEXP31, G
<1> HIDE DEF top
<1>9. n > el_gordo => s >= top
  <2> SUFFICES ASSUME n > el_gordo PROVE s >= top OBVIOUS
  <2>1. (2 * el_gordo + 1) * D <= (2 * n - 1) * D BY <1>1, <1>3, Mono
  <2>2. (2 * el_gordo + 1) * D \in Int /\ (2 * n - 1) * D \in Int BY <1>1, <1>3
  <2>3. 2 * N >= (2 * el_gordo + 1) * D BY <1>2, <1>3, <2>1, <2>2
  <2>4. 2 * el_gordo + 1 \in 0..4 * (el_gordo + 1) - 1 BY <1>1
  <2>5. s >= ((2 * el_gordo + 1) + 1) * H BY <1>7, <2>3, <2>4
  <2>6. (2 * el_gordo + 1) + 1 = 2 * el_gordo + 2 BY <1>1
  <2> QED BY <1>8, <2>5, <2>6
\* The exact quotient is not between el_gordo and el_gordo + 1.
<1>10. n <= el_gordo => s < top
  <2> SUFFICES ASSUME n <= el_gordo PROVE s < top OBVIOUS
  <2>1. 2 * N < (2 * el_gordo + 1) * D
    <3>1. (2 * n + 1) * D <= (2 * el_gordo + 1) * D BY <1>1, <1>3, Mono
    <3>2. (2 * n + 1) * D \in Int /\ (2 * el_gordo + 1) * D \in Int BY <1>1, <1>3
    <3> QED BY <1>2, <1>3, <3>1, <3>2
  <2>2. N <= el_gordo * D
    <3> DEFINE t == Top(unit)
    <3>1. t \in Nat /\ el_gordo + 1 = unit * t BY <1>1
    <3> HIDE DEF t
    <3>2. size < t * D
      <4> SUFFICES ASSUME t * D <= size PROVE FALSE BY <1>1, <3>1
      <4>1. (t * D) * unit <= size * unit BY <1>1, <3>1, Mono, t * D \in Int
      <4>2. (t * D) * unit = (el_gordo + 1) * D
        <5>1. (t * D) * unit = (unit * t) * D BY <1>1, <3>1
        <5> QED BY <3>1, <5>1
      <4>3. size * unit = N BY <1>1 DEF N
      <4>4. (el_gordo + 1) * D = el_gordo * D + D /\ (2 * el_gordo + 1) * D = 2 * (el_gordo * D) + D
            /\ el_gordo * D \in Nat
        BY <1>1
      <4> QED BY <1>1, <1>2, <2>1, <4>1, <4>2, <4>3, <4>4
    <3>3. CASE D <= unit
      <4>1. size + 1 <= t * D /\ t * D \in Int BY <1>1, <3>1, <3>2
      <4>2. (size + 1) * unit <= (t * D) * unit BY <1>1, <4>1, Mono
      <4>3. (t * D) * unit = (unit * t) * D BY <1>1, <3>1
      <4>4. (size + 1) * unit = N + unit /\ (el_gordo + 1) * D = el_gordo * D + D /\ el_gordo * D \in Int
        BY <1>1 DEF N
      <4>5. N + unit <= el_gordo * D + D BY <3>1, <4>2, <4>3, <4>4
      <4> QED BY <1>1, <1>2, <3>3, <4>4, <4>5
    <3>4. CASE unit <= D
      <4>1. size * unit <= el_gordo * unit BY <1>1, Mono
      <4>2. unit * el_gordo <= D * el_gordo BY <1>1, <3>4, Mono
      <4>3. size * unit = N /\ el_gordo * unit = unit * el_gordo /\ D * el_gordo = el_gordo * D
            /\ unit * el_gordo \in Int /\ el_gordo * D \in Int
        BY <1>1 DEF N
      <4> QED BY <1>2, <4>1, <4>2, <4>3
    <3> QED BY <1>1, <3>3, <3>4
  <2>3. 2 * N <= (2 * el_gordo) * D
    <3>1. (2 * el_gordo) * D = 2 * (el_gordo * D) /\ el_gordo * D \in Int BY <1>1
    <3> QED BY <1>2, <2>2, <3>1
  <2>4. 2 * el_gordo \in 0..4 * (el_gordo + 1) - 1 BY <1>1
  <2>5. s <= (2 * el_gordo + 1) * H BY <1>7, <2>3, <2>4
  <2>6. (2 * el_gordo + 2) * H = (2 * el_gordo + 1) * H + H /\ (2 * el_gordo + 1) * H \in Int BY <1>1
  <2> QED BY <1>1, <1>6, <1>8, <2>5, <2>6
<1>11. ASSUME s < top
       PROVE  LET check == Make_check(den, Signed(s \div G, minus), minus) IN
              /\ Truncated(s, Bit_set(check, make_test)) = n
              /\ check \in -el_gordo - 1..el_gordo
  <2>1. n <= el_gordo BY <1>1, <1>3, <1>6, <1>8, <1>9, <1>11
  <2>2. s >= n * G
    <3>1. CASE n = 0 BY <1>1, <1>6, <3>1
    <3>2. CASE n >= 1
      <4>1. 2 * n - 1 \in 0..4 * (el_gordo + 1) - 1 BY <1>1, <1>3, <2>1, <3>2
      <4>2. s >= ((2 * n - 1) + 1) * H BY <1>3, <1>7, <4>1
      <4>3. ((2 * n - 1) + 1) * H = n * G BY <1>1, <1>3
      <4> QED BY <4>2, <4>3
    <3> QED BY <1>3, <3>1, <3>2
  <2>3. s <= (n + 1) * G
    <3>1. 2 * n + 1 \in 0..4 * (el_gordo + 1) - 1 BY <1>1, <1>3, <2>1
    <3>2. (2 * n + 1) * D \in Int BY <1>1, <1>3
    <3>3. s <= ((2 * n + 1) + 1) * H BY <1>2, <1>3, <1>7, <3>1, <3>2
    <3>4. ((2 * n + 1) + 1) * H = (n + 1) * G BY <1>1, <1>3
    <3> QED BY <3>3, <3>4
  <2>4. (n + 1) * G = n * G + G /\ n * G \in Nat BY <1>1, <1>3
  <2> DEFINE i == s \div G
             check == Make_check(den, Signed(i, minus), minus)
  <2>5. i \in Nat /\ s % G \in 0..G - 1 /\ s = i * G + (s % G) BY <1>1, <1>6, DivMod
  <2> HIDE DEF i
  <2>6. check \in -el_gordo - 1..el_gordo BY <2>5, MakeCheck, size \in 0..el_gordo
  <2>7. CASE s < (n + 1) * G /\ s > n * G
    <3> DEFINE r == s - n * G
    <3>1. s = n * G + r /\ r \in 0..G - 1 /\ r # 0 BY <1>1, <1>6, <2>4, <2>7
    <3> HIDE DEF r
    <3>2. i = n
      <4>1. s \in Int /\ n \in Int /\ G \in Nat \ {0} BY <1>1, <1>3, <1>6
      <4>2. s \div G = n BY <3>1, <4>1, DivUnique
      <4> QED BY <4>2 DEF i
    <3>3. s % G # 0
      <4> PICK t \in 0..G - 1 : t = s % G BY <2>5
      <4>1. s = n * G + t BY <2>5, <3>2
      <4> QED BY <1>1, <2>4, <3>1, <4>1
    <3>4. Truncated(s, Bit_set(check, make_test)) = n BY <3>2, <3>3 DEF Truncated, i, G
    <3> QED BY <2>6, <3>4 DEF i
  <2>8. CASE s = n * G \/ s = (n + 1) * G
    <3>1. PICK k \in {n, n + 1} : s = k * G BY <2>8
    <3>2. k \in Nat /\ k * G \in Nat BY <1>1, <1>3
    <3>3. i = k
      <4>1. s = k * G + 0 /\ 0 \in 0..G - 1 BY <1>1, <3>1, <3>2
      <4> QED BY <1>1, <1>6, <3>2, <4>1, DivUnique DEF i
    <3>4. s % G = 0
      <4> PICK t \in 0..G - 1 : t = s % G BY <2>5
      <4>1. k * G = k * G + t BY <2>5, <3>1, <3>3
      <4> QED BY <3>2, <4>1
    <3> DEFINE v == 2 * N - (2 * k - 1) * D
    <3>5. v < make_test /\ v > -make_test
      <4>1. k * grain \in With_half((unit * size) * grain, Abs(den)) BY <1>5, <3>1 DEF X, N, G, D
      <4>2. Abs(den) \in 1..el_gordo OBVIOUS
      <4> QED BY <3>2, <4>1, <4>2, MakePrecise DEF N, D
    <3>6. v \in Int BY <1>1, <1>2, <3>2
    <3>7. PICK m \in Int : check = v + m * low
      <4>1. size \in 0..el_gordo OBVIOUS
      <4> QED BY <2>5, <3>3, <4>1, MakeCheck DEF N, D
    <3> HIDE DEF v, check
    <3>8. PICK j \in Nat : low = j * (2 * make_test) BY DoubleFacts
    <3>9. Bit_set(check, make_test) <=> v < 0
      BY <3>5, <3>6, <3>7, <3>8, DoubleFacts, BitIsSign
    <3>10. CASE k = n
      <4>0. (2 * n - 1) * D \in Int BY <1>1, <1>3
      <4>1. ~(v < 0) BY <1>2, <1>3, <3>10, <4>0 DEF v
      <4> QED BY <2>6, <3>3, <3>9, <3>10, <4>1 DEF Truncated, check, i, G
    <3>11. CASE k = n + 1
      <4>1. 2 * (n + 1) - 1 = 2 * n + 1 BY <1>3
      <4>0. (2 * n + 1) * D \in Int BY <1>1, <1>3
      <4>2. v < 0 BY <1>2, <1>3, <3>11, <4>0, <4>1 DEF v
      <4>3. i - 1 = n BY <1>3, <3>3, <3>11
      <4>4. Truncated(s, Bit_set(check, make_test)) = i - 1 BY <3>4, <3>9, <4>2 DEF Truncated, i, G
      <4> QED BY <2>6, <4>3, <4>4 DEF check, i
    <3> QED BY <3>1, <3>10, <3>11
  <2> QED BY <1>6, <2>2, <2>3, <2>4, <2>7, <2>8, <1>1
<1> QED BY <1>1, <1>3, <1>6, <1>8, <1>9, <1>10, <1>11 DEF n, N, D, G

\* make_fraction, make_scaled and dimen_out.
LEMMA DivideHolds ==
  ASSUME IInv, NEW routine \in Dividing, NEW unit \in Units, NEW v \in Legal,
         NEW den \in Legal \ {0}, NEW steps, Divide(routine, unit, v, den, steps),
         steps \subseteq -el_gordo - 1..el_gordo,
         routine = "dimen_out" =>
            /\ unit = unity /\ den \in unity..Dimen_top - 1
            /\ \E w \in Int : v = sixteen * w /\ Abs(w) <= max_tfm_dimen(den)
  PROVE  IInv'
<1> DEFINE size == Abs(v)  D == Abs(den)  minus == (v < 0) # (den < 0)
           n == Nearest(unit * size, D)
<1>1. PICK s \in With_half((unit * size) * grain, D) :
          LET check == Make_check(den, Signed(s \div grain, minus), minus) IN
          IF s >= TWEXP31
          THEN Return(Signed(el_gordo, minus), TRUE) /\ computed' = steps
          ELSE /\ Return(Signed(Truncated(s, Bit_set(check, make_test)), minus), FALSE)
               /\ computed' = steps \cup {check, result'}
  BY DEF Divide
<1>2. /\ call' = [routine |-> routine, unit |-> unit, a |-> v, b |-> 0, c |-> den, d |-> 0]
      /\ pc = "idle" /\ ~arith_error /\ UNCHANGED <<a, b, c, d, x, y, q, bit, pow, rest>>
  BY DEF Divide, Called, products, roots, ghosts, IInv, TypeOK
<1>3. /\ el_gordo \in Nat /\ unit \in Nat /\ grain \in Nat \ {0}
      /\ size \in 0..el_gordo /\ D \in 1..el_gordo /\ den \in Int /\ v \in Int
  BY Constants, UnitFacts, DoubleFacts DEF Legal, Abs
<1>4. /\ s >= TWEXP31 => n > el_gordo
      /\ s < TWEXP31 =>
            LET check == Make_check(den, Signed(s \div grain, minus), minus) IN
            /\ n <= el_gordo /\ Truncated(s, Bit_set(check, make_test)) = n
            /\ check \in -el_gordo - 1..el_gordo
  <2>1. minus \in BOOLEAN OBVIOUS
  <2> HIDE DEF size, minus
  <2> QED BY <1>1, <1>3, <2>1, MakeRight
<1>5. n \in Nat
  <2>1. unit * size \in Nat /\ D \in Nat \ {0}
    <3> HIDE DEF size, D
    <3> QED BY <1>3
  <2> QED BY <2>1, NearestBounds
<1>6. s \in Int /\ TWEXP31 \in Int
  <2>1. (unit * size) * grain \in Nat /\ D \in Nat \ {0}
    <3> HIDE DEF size, D
    <3> QED BY <1>3
  <2>2. 0 \in 0..4 * (el_gordo + 1) - 1 BY <1>3
  <2>3. s \in Nat
    <3> HIDE DEF size, D
    <3> QED BY <1>1, <2>1, <2>2, WithHalfSides
  <2>4. TWEXP31 \in Int BY <1>3 DEF TWEXP31
  <2> QED BY <2>3, <2>4
<1> HIDE DEF n
<1> DEFINE check == Make_check(den, Signed(s \div grain, minus), minus)
<1>7. /\ pc' = "return" /\ arith_error' \in BOOLEAN /\ (arith_error' <=> n > el_gordo)
      /\ result' = Signed(IF n > el_gordo THEN el_gordo ELSE n, minus)
      /\ computed' \subseteq -el_gordo - 1..el_gordo
  <2>0. /\ s >= TWEXP31 => Return(Signed(el_gordo, minus), TRUE) /\ computed' = steps
        /\ ~(s >= TWEXP31) =>
             /\ Return(Signed(Truncated(s, Bit_set(check, make_test)), minus), FALSE)
             /\ computed' = steps \cup {check, result'}
    BY <1>1, Zenon
  <2>1. s < TWEXP31 => /\ n <= el_gordo /\ Truncated(s, Bit_set(check, make_test)) = n
                       /\ check \in -el_gordo - 1..el_gordo
    BY <1>4, Zenon
  <2> HIDE DEF check, minus
  <2>2. CASE s >= TWEXP31
    <3>1. n > el_gordo BY <1>4, <2>2
    <3>2. /\ pc' = "return" /\ arith_error' = TRUE /\ result' = Signed(el_gordo, minus)
          /\ computed' = steps
      BY <2>0, <2>2 DEF Return
    <3> QED BY <3>1, <3>2
  <2>3. CASE s < TWEXP31
    <3>1. ~(s >= TWEXP31) BY <1>6, <2>3
    <3>2. n <= el_gordo /\ Truncated(s, Bit_set(check, make_test)) = n /\ ~(n > el_gordo)
      BY <1>3, <1>5, <2>1, <2>3
    <3>3. pc' = "return" /\ arith_error' = FALSE /\ result' = Signed(n, minus)
      BY <1>2, <2>0, <3>1, <3>2 DEF Return
    <3>4. result' \in -el_gordo - 1..el_gordo
      <4>1. result' \in {n, -n} BY <3>3 DEF Signed
      <4> QED BY <1>3, <1>5, <3>2, <4>1
    <3>5. computed' \subseteq -el_gordo - 1..el_gordo BY <2>0, <2>1, <2>3, <3>1, <3>4
    <3> QED BY <3>2, <3>3, <3>5
  <2> QED BY <1>6, <2>2, <2>3
<1>8. ResultRight'
  <2>1. PICK w \in Nat : w = n BY <1>5
  <2>2. Delivered(w)'
    <3>1. arith_error' <=> w > el_gordo BY <1>7, <2>1
    <3>2. result' = IF (call'.a < 0) # (call'.c < 0)
                    THEN -(IF w > el_gordo THEN el_gordo ELSE w) ELSE IF w > el_gordo THEN el_gordo ELSE w
      BY <1>2, <1>7, <2>1 DEF Signed
    <3> QED BY <3>1, <3>2 DEF Delivered
  <2>3. Nearest(call'.unit * Abs(call'.a), Abs(call'.c)) = w BY <1>2, <2>1 DEF n
  <2>4. Delivered(Nearest(call.unit * Abs(call.a), Abs(call.c)))' BY <2>2, <2>3
  <2> QED BY <1>2, <2>4 DEF ResultRight, Dividing
<1>9. TypeOK'
  <2>1. call' \in Calls
    <3>1. routine \in Routines BY DEF Routines
    <3> QED BY <1>2, <1>3, <3>1, CallType
  <2>2. result' \in Int BY <1>3, <1>5, <1>7 DEF Signed
  <2>3. arith_error' \in BOOLEAN BY <1>7
  <2> QED BY <1>2, <1>7, <2>1, <2>2, <2>3 DEF IInv, TypeOK
<1>10. InWord' BY <1>7 DEF InWord
<1>11. CompareInv' /\ ShiftInv' /\ RootInv' BY <1>7 DEF CompareInv, ShiftInv, RootInv
<1>12. DimensionInv' BY <1>2 DEF DimensionInv
<1> QED BY <1>8, <1>9, <1>10, <1>11, <1>12 DEF IInv

\* The largest dimension can be multiplied by sixteen.
LEMMA DimensionFacts ==
  ASSUME NEW size \in unity..Dimen_top - 1
  PROVE  /\ max_tfm_dimen(size) \in 0..Dimen_top - 1
         /\ size \in Nat \ {0} /\ sixteen \in Nat \ {0, 1} /\ unity \in Nat \ {0}
         /\ \E t \in Nat, r \in 0..2 * (sixteen * unity) - 1 :
               /\ size = t * (2 * (sixteen * unity)) + r
               /\ max_tfm_dimen(size) <= sixteen * size - 1 - t
<1> DEFINE X == 2 * (sixteen * unity)  t == size \div (2 * sixteen * unity)
<1>1. /\ sixteen \in Nat \ {0, 1} /\ unity \in Nat \ {0} /\ el_gordo \in Nat
      /\ default_size \in unity..Dimen_top - 1 /\ size \in Int
  BY Constants, WordAssumption DEF WordAssumption
<1>2. Dimen_top \in Int BY <1>1, SMT DEF Dimen_top
<1>3. size \in Nat \ {0} /\ Dimen_top - 1 \in Nat BY <1>1, <1>2
<1>4. X \in Nat \ {0} /\ X = 2 * sixteen * unity BY <1>1
<1>5. t \in Nat /\ \E r \in 0..X - 1 : size = t * X + r
  <2>1. t = size \div X BY <1>4
  <2> HIDE DEF X
  <2> QED BY <1>3, <1>4, <2>1, DivMod
<1> HIDE DEF X
<1>6. t <= size
  <2>1. t * 1 <= t * X BY <1>4, <1>5, 1 * t <= X * t, Mono
  <2> QED BY <1>3, <1>4, <1>5, <2>1
<1>7. 2 * size <= sixteen * size BY <1>1, <1>3, Mono
<1> DEFINE max == sixteen * size - 1 - t
<1>8. max \in Nat /\ max_tfm_dimen(size) = IF max >= Dimen_top THEN Dimen_top - 1 ELSE max
  BY <1>1, <1>3, <1>5, <1>6, <1>7 DEF max_tfm_dimen
<1> HIDE DEF max
<1>9. max_tfm_dimen(size) \in 0..Dimen_top - 1 /\ max_tfm_dimen(size) <= max
  BY <1>2, <1>3, <1>8
<1> HIDE DEF t
<1> QED BY <1>1, <1>3, <1>5, <1>9 DEF max, X

LEMMA make_fractionHolds ==
  ASSUME IInv, make_fraction
  PROVE  IInv'
<1>1. PICK unit \in Units, v \in Args, w \in Args \ {0} : Divide("make_fraction", unit, v, w, {})
  BY DEF make_fraction
<1>2. v \in Legal /\ w \in Legal \ {0} BY WordAssumption DEF WordAssumption, Legal
<1>3. "make_fraction" \in Dividing /\ "make_fraction" # "dimen_out" BY DEF Dividing
<1> QED BY <1>1, <1>2, <1>3, DivideHolds

LEMMA dimen_outHolds ==
  ASSUME IInv, dimen_out
  PROVE  IInv'
<1>1. PICK v \in Args, w \in Args :
        LET size == fix_design_size(w)  max == max_tfm_dimen(size)
            dimen == IF Abs(v) <= max THEN v ELSE IF v > 0 THEN max ELSE -max
        IN  Divide("dimen_out", unity, sixteen * dimen, size, {sixteen * size, sixteen * dimen})
  BY DEF dimen_out
<1> DEFINE size == fix_design_size(w)  max == max_tfm_dimen(size)
           dimen == IF Abs(v) <= max THEN v ELSE IF v > 0 THEN max ELSE -max
<1>2. size \in unity..Dimen_top - 1
  BY WordAssumption DEF WordAssumption, fix_design_size
<1>3. v \in Int
  BY WordAssumption, Constants DEF WordAssumption
<1>4. max \in 0..Dimen_top - 1 /\ size \in Nat \ {0} /\ sixteen \in Nat /\ Dimen_top \in Int
      /\ el_gordo + 1 = sixteen * Dimen_top /\ el_gordo \in Nat
  <2>1. Dimen_top \in Int BY WordAssumption, SMT DEF WordAssumption, Dimen_top
  <2> QED BY <1>2, <2>1, DimensionFacts, WordAssumption DEF WordAssumption
<1>5. dimen \in Int /\ Abs(dimen) <= max
  <2> HIDE DEF max
  <2> QED BY <1>3, <1>4 DEF Abs
<1>6. sixteen * dimen \in Legal
  <2> HIDE DEF dimen, max
  <2>1. dimen <= Dimen_top - 1 /\ -dimen <= Dimen_top - 1 BY <1>4, <1>5 DEF Abs
  <2>2. dimen * sixteen <= (Dimen_top - 1) * sixteen /\ (-dimen) * sixteen <= (Dimen_top - 1) * sixteen
    BY <1>4, <1>5, <2>1, Mono
  <2> QED BY <1>4, <1>5, <2>2 DEF Legal
<1>7. size \in Legal \ {0}
  <2>1. 1 * Dimen_top <= sixteen * Dimen_top
    BY <1>4, DimensionFacts, <1>2, Mono
  <2> QED BY <1>2, <1>4, <2>1 DEF Legal
<1>8. unity \in Units /\ "dimen_out" \in Dividing BY DEF Units, Dividing
<1> DEFINE steps == {sixteen * size, sixteen * dimen}
<1>9. Divide("dimen_out", unity, sixteen * dimen, size, steps) BY <1>1
<1> HIDE DEF dimen, size
<1>10. steps \subseteq -el_gordo - 1..el_gordo
  <2>1. size * sixteen <= (Dimen_top - 1) * sixteen BY <1>2, <1>4, Mono
  <2>2. sixteen * size \in -el_gordo - 1..el_gordo
    <3>1. (Dimen_top - 1) * sixteen = sixteen * Dimen_top - sixteen BY <1>4
    <3>2. size * sixteen = sixteen * size /\ sixteen * size \in Nat BY <1>4
    <3> QED BY <1>4, <2>1, <3>1, <3>2
  <2>3. sixteen * dimen \in -el_gordo - 1..el_gordo BY <1>4, <1>6 DEF Legal
  <2> QED BY <2>2, <2>3
<1> HIDE DEF steps
<1>11. PICK den \in Legal \ {0} : den = size BY <1>7
<1> QED BY <1>2, <1>5, <1>6, <1>8, <1>9, <1>10, <1>11, DivideHolds

-----------------------------------------------------------------------------
\* If a product is a whole number i, its error is less than the bit that is tested.
LEMMA TakePrecise ==
  ASSUME NEW unit \in Units, NEW num \in Nat, NEW k \in Nat \ {0}, grain = k * unit,
         NEW h \in Nat, unit = 2 * h,
         NEW i \in 0..el_gordo + 1, i * grain \in With_half(num * k, 1)
  PROVE  num - (2 * i - 1) * h < take_test /\ num - (2 * i - 1) * h > -take_test
<1> DEFINE H == half(grain)  G == grain  M == mantissa  X == num * k
           v == num - (2 * i - 1) * h  Y == fraction_one * (el_gordo + 1)
           B == (M * take_test) * k
<1>1. /\ H \in Nat \ {0} /\ G = 2 * H /\ G \in Nat \ {0} /\ M \in Nat /\ M >= 8 * (el_gordo + 1)
      /\ take_test \in Nat \ {0} /\ 16 * Y <= M * take_test
      /\ el_gordo \in Nat /\ el_gordo >= 7 /\ fraction_one \in Nat \ {0}
      /\ unit \in Nat \ {0, 1} /\ unit <= fraction_one
  BY DoubleFacts, Constants, UnitFacts
<1>2. Y \in Nat /\ X \in Nat BY <1>1
<1>3. i * G \in With_half(X, 1) OBVIOUS
<1>4. H = k * h BY <1>1
<1> HIDE DEF H, G, M, Y, X
<1>5. (el_gordo + 1) * G <= Y * k
  <2>1. unit * ((el_gordo + 1) * k) <= fraction_one * ((el_gordo + 1) * k)
    BY <1>1, Mono, (el_gordo + 1) * k \in Nat
  <2>2. unit * ((el_gordo + 1) * k) = (el_gordo + 1) * G
    <3>1. G = k * unit BY DEF G
    <3> QED BY <1>1, <3>1
  <2>3. fraction_one * ((el_gordo + 1) * k) = Y * k BY <1>1 DEF Y
  <2> QED BY <2>1, <2>2, <2>3
<1>6. B \in Nat /\ 16 * ((el_gordo + 1) * G) <= B /\ B > 0
  <2>1. (16 * Y) * k <= (M * take_test) * k BY <1>1, <1>2, Mono
  <2>2. (16 * Y) * k = 16 * (Y * k) /\ Y * k \in Int /\ (el_gordo + 1) * G \in Nat /\ B \in Nat
    BY <1>1, <1>2
  <2>3. 1 * G <= (el_gordo + 1) * G BY <1>1, Mono
  <2> HIDE DEF B
  <2> QED BY <1>1, <1>5, <2>1, <2>2, <2>3 DEF B
<1>7. X <= (el_gordo + 1) * G
  <2> DEFINE j == 2 * el_gordo + 2
  <2>1. j \in 0..4 * (el_gordo + 1) - 1 BY <1>1
  <2>2. X >= (j * H) * 1 => i * G >= (j + 1) * H
    BY <1>2, <1>3, <2>1, WithHalfSides, 1 \in Nat \ {0} DEF H
  <2>3. (j * H) * 1 = (el_gordo + 1) * G /\ (j + 1) * H = (el_gordo + 1) * G + H BY <1>1
  <2>4. i * G <= (el_gordo + 1) * G BY <1>1, Mono
  <2>5. (el_gordo + 1) * G \in Nat /\ i * G \in Nat BY <1>1
  <2> QED BY <1>1, <1>2, <2>2, <2>3, <2>4, <2>5
<1>8. 16 * X <= B /\ 16 * G <= B
  <2>1. 1 * G <= (el_gordo + 1) * G BY <1>1, Mono
  <2>2. (el_gordo + 1) * G \in Nat BY <1>1
  <2> HIDE DEF B
  <2> QED BY <1>1, <1>2, <1>6, <1>7, <2>1, <2>2
<1>9. PICK s1 \in Nat, e1 \in Int, e2 \in Int : Off(X, 1, i * G, s1, e1, e2)
  BY <1>2, <1>3, WithHalfNear, 1 \in Nat \ {0}
<1>10. /\ s1 = X + e1 /\ i * G = (s1 + H) + e2
       /\ e1 = 0 \/ (M * e1 < 2 * X /\ M * (-e1) < 2 * X)
       /\ e2 = 0 \/ (M * e2 < 2 * (s1 + H) /\ M * (-e2) < 2 * (s1 + H))
  <2>1. s1 * 1 = s1 /\ (-1 < e1 /\ e1 < 1 => e1 = 0) BY <1>9
  <2> QED BY <1>9, <2>1 DEF Off, H, M
<1>11. k * v = -(e1 + e2)
  <2>1. k * v = num * k - (2 * i - 1) * H BY <1>1, <1>4
  <2>2. (2 * i - 1) * H = i * G - H BY <1>1
  <2>3. k * v = X - (i * G - H) BY <2>1, <2>2 DEF X
  <2>4. i * G \in Int /\ H \in Int BY <1>1
  <2> QED BY <1>2, <1>9, <1>10, <2>3, <2>4
<1> DEFINE E1 == Abs(e1)  E2 == Abs(e2)
<1>12. E1 \in Nat /\ E2 \in Nat /\ e1 \in {E1, -E1} /\ e2 \in {E2, -E2} BY <1>9 DEF Abs
<1>13. /\ E1 = 0 \/ M * E1 < 2 * X
       /\ E2 = 0 \/ M * E2 < 2 * (s1 + H)
  BY <1>9, <1>10 DEF Abs
<1> HIDE DEF E1, E2, B
<1>14. M * E1 \in Nat /\ 8 * (M * E1) <= B /\ 8 * E1 <= B
  <2>1. M * E1 \in Nat /\ (E1 = 0 => M * E1 = 0) BY <1>1, <1>12
  <2>2. 1 * E1 <= M * E1 BY <1>1, <1>12, Mono
  <2> QED BY <1>2, <1>6, <1>8, <1>12, <1>13, <2>1, <2>2
<1>15. M * E2 \in Nat /\ 2 * (M * E2) < B
  <2>1. M * E2 \in Nat /\ (E2 = 0 => M * E2 = 0) BY <1>1, <1>12
  <2>2. 2 * (s1 + H) <= 2 * X + 2 * E1 + G BY <1>1, <1>2, <1>9, <1>10, <1>12
  <2> QED BY <1>1, <1>2, <1>6, <1>8, <1>9, <1>12, <1>13, <1>14, <2>1, <2>2
<1>16. M * (k * v) < B /\ M * (-(k * v)) < B
  <2>1. M * (-(e1 + e2)) = -(M * e1) - M * e2 /\ M * (e1 + e2) = M * e1 + M * e2 BY <1>1, <1>9
  <2>2. M * e1 \in {M * E1, -(M * E1)} /\ M * e2 \in {M * E2, -(M * E2)} BY <1>1, <1>12
  <2> PICK f1 \in Nat : f1 = M * E1 BY <1>14
  <2> PICK f2 \in Nat : f2 = M * E2 BY <1>15
  <2> PICK g1 \in {f1, -f1} : g1 = M * e1 BY <2>2
  <2> PICK g2 \in {f2, -f2} : g2 = M * e2 BY <2>2
  <2>3. 8 * f1 <= B /\ 2 * f2 < B BY <1>14, <1>15
  <2>4. -g1 - g2 < B /\ g1 + g2 < B BY <1>6, <2>3
  <2>5. -(k * v) = e1 + e2 BY <1>9, <1>11
  <2> QED BY <1>11, <2>1, <2>4, <2>5
<1>17. v \in Int BY <1>1
<1>18. B = M * (k * take_test) BY <1>1 DEF B
<1> HIDE DEF v
<1>19. ASSUME NEW u \in Int, M * (k * u) < B PROVE u < take_test
  <2> SUFFICES ASSUME take_test <= u PROVE FALSE BY <1>1
  <2>1. k * M \in Nat BY <1>1
  <2>2. take_test * (k * M) <= u * (k * M) BY <1>1, <2>1, Mono
  <2>3. take_test * (k * M) = B BY <1>1, <1>18
  <2>4. u * (k * M) = M * (k * u) /\ M * (k * u) \in Int BY <1>1
  <2> QED BY <1>6, <1>19, <2>2, <2>3, <2>4
<1>20. -v \in Int /\ M * (k * (-v)) = M * (-(k * v)) BY <1>1, <1>17
<1>21. v < take_test /\ -v < take_test BY <1>16, <1>17, <1>19, <1>20
<1> QED BY <1>1, <1>17, <1>21 DEF v

\* The product of masked numbers has the low bits of the product.
LEMMA TakeCheck ==
  ASSUME NEW v \in Int, NEW w \in Int
  PROVE  LET minus == (v < 0) # (w < 0) IN
         /\ Take_check(v, w, minus) \in -el_gordo - 1..el_gordo
         /\ \E m \in Int : Take_check(v, w, minus) = Abs(v) * Abs(w) + m * low
<1> DEFINE minus == (v < 0) # (w < 0)
<1>1. low \in Nat \ {0} BY DoubleFacts
<1>2. PICK k1 \in Int : v % low = v + k1 * low BY <1>1, ModForm
<1>3. PICK k2 \in Int : w % low = w + k2 * low BY <1>1, ModForm
<1>4. v % low \in 0..low - 1 /\ w % low \in 0..low - 1 BY <1>1, ModForm
<1>5. PICK s \in 0..low - 1, t \in 0..low - 1 : s = v % low /\ t = w % low BY <1>4
<1>6. Take_check(v, w, minus) = IF minus THEN -(s * t) ELSE s * t BY <1>5 DEF Take_check, Signed
<1>7. t \in -low..low - 1 BY <1>1
<1>8. Take_check(v, w, minus) \in -el_gordo - 1..el_gordo
  <2>1. s * t \in -el_gordo - 1..el_gordo /\ -(s * t) \in -el_gordo - 1..el_gordo BY <1>7, MaskedFits
  <2> QED BY <1>6, <2>1
<1> DEFINE m == k1 * w + k2 * v + (k1 * k2) * low
<1>9. s * t = v * w + m * low /\ m \in Int /\ -m \in Int BY <1>1, <1>2, <1>3, <1>5
<1> HIDE DEF m
<1>10. \E i \in Int : Take_check(v, w, minus) = Abs(v) * Abs(w) + i * low
  <2>1. CASE minus
    <3>1. Abs(v) * Abs(w) = -(v * w) BY <2>1 DEF Abs
    <3>2. -(s * t) = -(v * w) + (-m) * low
      <4>1. (-m) * low = -(m * low) /\ m * low \in Int /\ v * w \in Int BY <1>1, <1>9
      <4> QED BY <1>9, <4>1
    <3>3. Take_check(v, w, minus) = -(s * t) BY <1>6, <2>1
    <3> QED BY <1>9, <3>1, <3>2, <3>3
  <2>2. CASE ~minus
    <3>1. Abs(v) * Abs(w) = v * w BY <2>2 DEF Abs
    <3>2. Take_check(v, w, minus) = s * t BY <1>6, <2>2
    <3> QED BY <1>9, <3>1, <3>2
  <2> QED BY <2>1, <2>2
<1> QED BY <1>8, <1>10

\* What take_fraction and take_scaled compute is the product to the nearest unit.
LEMMA TakeRight ==
  ASSUME NEW unit \in Units, NEW v \in Legal, NEW w \in Legal,
         NEW s \in With_half((Abs(v) * Abs(w)) * (grain \div unit), 1)
  PROVE  LET check == Take_check(v, w, (v < 0) # (w < 0))
             below == Bit_set(check, take_test)
             n == Nearest(Abs(v) * Abs(w), unit) IN
         /\ check \in -el_gordo - 1..el_gordo
         /\ s >= TWEXP31 => IF s # TWEXP31 \/ ~below THEN n > el_gordo ELSE n = el_gordo
         /\ s < TWEXP31 => n <= el_gordo /\ Truncated(s, below) = n
<1> DEFINE N == Abs(v) * Abs(w)  G == grain  H == half(grain)  n == Nearest(N, unit)
           check == Take_check(v, w, (v < 0) # (w < 0))
           below == Bit_set(check, take_test)
<1>1. /\ H \in Nat \ {0} /\ G = 2 * H /\ G \in Nat \ {0} /\ el_gordo \in Nat
      /\ unit \in Nat \ {0, 1} /\ v \in Int /\ w \in Int
      /\ low \in Nat \ {0} /\ take_test \in Nat \ {0}
  BY DoubleFacts, Constants, UnitFacts DEF Legal
<1>2. N \in Nat
  <2>1. Abs(v) \in Nat /\ Abs(w) \in Nat BY <1>1 DEF Abs
  <2> QED BY <2>1, SMT
<1>3. PICK k \in Nat \ {0} : G = k * unit /\ grain \div unit = k BY UnitFacts
<1>4. PICK j \in Nat : unit = j * (2 * low) BY UnitFacts
<1> DEFINE h == j * low
<1>5. h \in Nat /\ unit = 2 * h BY <1>1, <1>4
<1>6. check \in -el_gordo - 1..el_gordo /\ \E m \in Int : check = N + m * low
  BY <1>1, TakeCheck
<1>7. s \in With_half(N * k, 1) BY <1>3
<1> HIDE DEF N, check
<1>8. n \in Nat /\ (2 * n - 1) * unit <= 2 * N /\ 2 * N < (2 * n + 1) * unit
  BY <1>1, <1>2, NearestBounds
<1> HIDE DEF n, below, h, G, H
<1>9. ASSUME NEW i \in 0..el_gordo + 1, s = i * G
      PROVE  below <=> 2 * N < (2 * i - 1) * unit
  <2> DEFINE z == N - (2 * i - 1) * h
  <2>1. z < take_test /\ z > -take_test
    <3>1. i * grain \in With_half(N * k, 1) BY <1>7, <1>9 DEF G
    <3>2. grain = k * unit BY <1>3 DEF G
    <3> QED BY <1>2, <1>5, <3>1, <3>2, TakePrecise
  <2>2. z \in Int BY <1>1, <1>2, <1>5
  <2>3. PICK m \in Int : check = N + m * low BY <1>6
  <2>4. check = z + (m + (2 * i - 1) * j) * low
    <3>1. (2 * i - 1) * h = ((2 * i - 1) * j) * low BY <1>1 DEF h
    <3>2. (m + (2 * i - 1) * j) * low = m * low + ((2 * i - 1) * j) * low BY <1>1
    <3>3. m * low \in Int /\ ((2 * i - 1) * j) * low \in Int BY <1>1
    <3> QED BY <1>2, <2>3, <3>1, <3>2, <3>3
  <2>5. m + (2 * i - 1) * j \in Int BY <1>1
  <2>6. PICK c0 \in Nat : low = c0 * (2 * take_test) BY DoubleFacts
  <2> HIDE DEF z
  <2>7. Bit_set(check, take_test) <=> z < 0
    BY <1>1, <2>1, <2>2, <2>4, <2>5, <2>6, BitIsSign
  <2>8. (2 * i - 1) * unit = 2 * ((2 * i - 1) * h) /\ (2 * i - 1) * h \in Int BY <1>1, <1>5
  <2>9. z < 0 <=> 2 * N < (2 * i - 1) * unit BY <1>2, <2>8 DEF z
  <2> QED BY <2>7, <2>9 DEF below
<1>10. s \in Nat
  <2>1. N * k \in Nat BY <1>2
  <2> QED BY <1>1, <1>7, <2>1, WithHalfSides, 0 \in 0..4 * (el_gordo + 1) - 1, 1 \in Nat \ {0}
<1>11. ASSUME NEW i \in 0..4 * (el_gordo + 1) - 1
       PROVE  (2 * N >= i * unit => s >= (i + 1) * H) /\ (2 * N <= i * unit => s <= (i + 1) * H)
  <2>1. N * k \in Nat /\ 1 \in Nat \ {0} BY <1>2
  <2>2. /\ N * k >= (i * H) * 1 => s >= (i + 1) * H
        /\ N * k <= (i * H) * 1 => s <= (i + 1) * H
    BY <1>7, <2>1, WithHalfSides DEF H
  <2>3. (i * unit) * k = 2 * (i * H) /\ i * H \in Int /\ i * unit \in Nat
    <3>1. (i * unit) * k = i * G BY <1>1, <1>3
    <3> QED BY <1>1, <3>1
  <2>4. (2 * N) * k = 2 * (N * k) BY <1>2
  <2>5. 2 * N >= i * unit => (2 * N) * k >= (i * unit) * k BY <1>2, <2>3, Mono
  <2>6. 2 * N <= i * unit => (2 * N) * k <= (i * unit) * k BY <1>2, <2>3, Mono
  <2> QED BY <2>1, <2>2, <2>3, <2>4, <2>5, <2>6
<1> DEFINE top == (el_gordo + 1) * G
<1>12. top = (2 * el_gordo + 2) * H /\ top \in Nat /\ TWEXP31 = top BY <1>1 DEF TWEXP31, G
<1> HIDE DEF top
<1>13. n > el_gordo => s >= top
  <2> SUFFICES ASSUME n > el_gordo PROVE s >= top OBVIOUS
  <2>1. (2 * el_gordo + 1) * unit <= (2 * n - 1) * unit BY <1>1, <1>8, Mono
  <2>2. (2 * el_gordo + 1) * unit \in Int /\ (2 * n - 1) * unit \in Int BY <1>1, <1>8
  <2>3. 2 * N >= (2 * el_gordo + 1) * unit BY <1>2, <1>8, <2>1, <2>2
  <2>4. 2 * el_gordo + 1 \in 0..4 * (el_gordo + 1) - 1 BY <1>1
  <2>5. s >= ((2 * el_gordo + 1) + 1) * H BY <1>11, <2>3, <2>4
  <2>6. (2 * el_gordo + 1) + 1 = 2 * el_gordo + 2 BY <1>1
  <2> QED BY <1>12, <2>5, <2>6
<1>14. n <= el_gordo => s <= (n + 1) * G /\ s >= n * G
  <2> SUFFICES ASSUME n <= el_gordo PROVE s <= (n + 1) * G /\ s >= n * G OBVIOUS
  <2>1. 2 * n + 1 \in 0..4 * (el_gordo + 1) - 1 BY <1>1, <1>8
  <2>2. (2 * n + 1) * unit \in Int BY <1>1, <1>8
  <2>3. s <= ((2 * n + 1) + 1) * H BY <1>2, <1>8, <1>11, <2>1, <2>2
  <2>4. ((2 * n + 1) + 1) * H = (n + 1) * G BY <1>1, <1>8
  <2>5. CASE n = 0 BY <1>1, <1>10, <2>3, <2>4, <2>5
  <2>6. CASE n >= 1
    <3>1. 2 * n - 1 \in 0..4 * (el_gordo + 1) - 1 BY <1>1, <1>8, <2>6
    <3>2. s >= ((2 * n - 1) + 1) * H BY <1>8, <1>11, <3>1
    <3>3. ((2 * n - 1) + 1) * H = n * G BY <1>1, <1>8
    <3> QED BY <2>3, <2>4, <3>2, <3>3
  <2> QED BY <1>8, <2>5, <2>6
<1>15. ASSUME s >= top PROVE IF s # top \/ ~below THEN n > el_gordo ELSE n = el_gordo
  <2>1. n <= el_gordo => n = el_gordo /\ s = top
    <3> SUFFICES ASSUME n <= el_gordo PROVE n = el_gordo /\ s = top OBVIOUS
    <3>1. (n + 1) * G <= (el_gordo + 1) * G BY <1>1, <1>8, Mono
    <3>2. (n + 1) * G \in Int BY <1>1, <1>8
    <3>3. s = top /\ (n + 1) * G = top BY <1>10, <1>12, <1>14, <1>15, <3>1, <3>2 DEF top
    <3>4. n = el_gordo
      <4> SUFFICES ASSUME n + 2 <= el_gordo + 1 PROVE FALSE BY <1>1, <1>8
      <4>1. (n + 2) * G <= (el_gordo + 1) * G BY <1>1, <1>8, Mono
      <4>2. (n + 2) * G = (n + 1) * G + G BY <1>1, <1>8
      <4> QED BY <1>1, <3>2, <3>3, <4>1, <4>2 DEF top
    <3> QED BY <3>3, <3>4
  <2>2. ASSUME s = top PROVE below <=> n <= el_gordo
    <3>1. below <=> 2 * N < (2 * (el_gordo + 1) - 1) * unit
      <4>1. el_gordo + 1 \in 0..el_gordo + 1 BY <1>1
      <4>2. s = (el_gordo + 1) * G BY <2>2 DEF top
      <4> QED BY <1>9, <4>1, <4>2
    <3>2. 2 * (el_gordo + 1) - 1 = 2 * el_gordo + 1 BY <1>1
    <3>3. CASE n <= el_gordo
      <4>1. (2 * n + 1) * unit <= (2 * el_gordo + 1) * unit BY <1>1, <1>8, <3>3, Mono
      <4>2. (2 * n + 1) * unit \in Int /\ (2 * el_gordo + 1) * unit \in Int BY <1>1, <1>8
      <4> QED BY <1>2, <1>8, <3>1, <3>2, <3>3, <4>1, <4>2
    <3>4. CASE n > el_gordo
      <4>1. (2 * el_gordo + 1) * unit <= (2 * n - 1) * unit BY <1>1, <1>8, <3>4, Mono
      <4>2. (2 * n - 1) * unit \in Int /\ (2 * el_gordo + 1) * unit \in Int BY <1>1, <1>8
      <4> QED BY <1>1, <1>2, <1>8, <3>1, <3>2, <3>4, <4>1, <4>2
    <3> QED BY <1>1, <1>8, <3>3, <3>4
  <2> QED BY <1>1, <1>8, <2>1, <2>2
<1>16. ASSUME s < top PROVE n <= el_gordo /\ Truncated(s, below) = n
  <2>1. n <= el_gordo BY <1>1, <1>8, <1>10, <1>12, <1>13, <1>16
  <2>2. s >= n * G /\ s <= (n + 1) * G BY <1>14, <2>1
  <2>3. (n + 1) * G = n * G + G /\ n * G \in Nat BY <1>1, <1>8
  <2> DEFINE i == s \div G
  <2>4. i \in Nat /\ s % G \in 0..G - 1 /\ s = i * G + (s % G) BY <1>1, <1>10, DivMod
  <2> HIDE DEF i
  <2> PICK t \in 0..G - 1 : t = s % G BY <2>4
  <2>5. CASE s < (n + 1) * G /\ s > n * G
    <3> DEFINE r == s - n * G
    <3>1. s = n * G + r /\ r \in 0..G - 1 /\ r # 0 BY <1>1, <1>10, <2>3, <2>5
    <3> HIDE DEF r
    <3>2. i = n
      <4>1. s \in Int /\ n \in Int /\ G \in Nat \ {0} BY <1>1, <1>8, <1>10
      <4>2. s \div G = n BY <3>1, <4>1, DivUnique
      <4> QED BY <4>2 DEF i
    <3>3. s % G # 0
      <4>1. s = n * G + t BY <2>4, <3>2
      <4> QED BY <1>1, <2>3, <3>1, <4>1
    <3>4. Truncated(s, below) = n BY <3>2, <3>3 DEF Truncated, i, G
    <3> QED BY <2>1, <3>4
  <2>6. CASE s = n * G \/ s = (n + 1) * G
    <3>1. PICK c0 \in {n, n + 1} : s = c0 * G BY <2>6
    <3>2. c0 \in Nat /\ c0 * G \in Nat /\ c0 \in 0..el_gordo + 1 BY <1>1, <1>8, <2>1
    <3>3. i = c0
      <4>1. s = c0 * G + 0 /\ 0 \in 0..G - 1 BY <1>1, <3>1, <3>2
      <4> QED BY <1>1, <1>10, <3>2, <4>1, DivUnique DEF i
    <3>4. s % G = 0
      <4>1. c0 * G = c0 * G + t BY <2>4, <3>1, <3>3
      <4> QED BY <3>2, <4>1
    <3>5. below <=> 2 * N < (2 * c0 - 1) * unit BY <1>9, <3>1, <3>2
    <3>6. (2 * n - 1) * unit \in Int /\ (2 * n + 1) * unit \in Int BY <1>1, <1>8
    <3>7. CASE c0 = n
      <4>1. ~below BY <1>2, <1>8, <3>5, <3>6, <3>7
      <4> QED BY <2>1, <3>3, <3>7, <4>1 DEF Truncated, i, G
    <3>8. CASE c0 = n + 1
      <4>1. 2 * (n + 1) - 1 = 2 * n + 1 BY <1>8
      <4>2. below BY <1>2, <1>8, <3>5, <3>6, <3>8, <4>1
      <4>3. i - 1 = n BY <1>8, <3>3, <3>8
      <4>4. Truncated(s, below) = i - 1 BY <3>4, <4>2 DEF Truncated, i, G
      <4> QED BY <2>1, <4>3, <4>4
    <3> QED BY <3>1, <3>7, <3>8
  <2> QED BY <1>1, <1>10, <2>2, <2>3, <2>5, <2>6
<1>17. s < top \/ s >= top BY <1>10, <1>12
<1> QED BY <1>6, <1>12, <1>15, <1>16, <1>17 DEF below, check, n, N

LEMMA take_fractionHolds ==
  ASSUME IInv, take_fraction
  PROVE  IInv'
<1>1. PICK unit \in Units, v \in Args, w \in Args :
          LET minus == (v < 0) # (w < 0)
              check == Take_check(v, w, minus)
              below == Bit_set(check, take_test)
          IN
          /\ Called("take_fraction", unit, v, 0, w, 0)
          /\ \E s \in With_half((Abs(v) * Abs(w)) * (grain \div unit), 1) :
                IF s >= TWEXP31
                THEN /\ Return(Signed(el_gordo, minus), s # TWEXP31 \/ ~below)
                     /\ computed' = {check}
                ELSE /\ Return(Signed(Truncated(s, below), minus), FALSE)
                     /\ computed' = {check, result'}
  BY DEF take_fraction
<1> DEFINE minus == (v < 0) # (w < 0)
           check == Take_check(v, w, minus)
           below == Bit_set(check, take_test)
           N == Abs(v) * Abs(w)
           n == Nearest(N, unit)
<1>2. PICK s \in With_half(N * (grain \div unit), 1) :
                IF s >= TWEXP31
                THEN /\ Return(Signed(el_gordo, minus), s # TWEXP31 \/ ~below)
                     /\ computed' = {check}
                ELSE /\ Return(Signed(Truncated(s, below), minus), FALSE)
                     /\ computed' = {check, result'}
  BY <1>1
<1>3. /\ call' = [routine |-> "take_fraction", unit |-> unit, a |-> v, b |-> 0, c |-> w, d |-> 0]
      /\ pc = "idle" /\ ~arith_error
  BY <1>1 DEF Called, IInv, TypeOK
<1>4. UNCHANGED <<a, b, c, d, x, y, q, bit, pow, rest>>
  BY DEF take_fraction, products, roots, ghosts
<1>5. /\ v \in Legal /\ w \in Legal /\ v \in Int /\ w \in Int
      /\ el_gordo \in Nat /\ unit \in Nat \ {0}
  BY WordAssumption, Constants, UnitFacts DEF WordAssumption, Legal
<1>6. /\ check \in -el_gordo - 1..el_gordo
      /\ s >= TWEXP31 => IF s # TWEXP31 \/ ~below THEN n > el_gordo ELSE n = el_gordo
      /\ s < TWEXP31 => n <= el_gordo /\ Truncated(s, below) = n
  BY <1>2, <1>5, TakeRight
<1>7. N \in Nat
  <2>1. Abs(v) \in Nat /\ Abs(w) \in Nat BY <1>5 DEF Abs
  <2> QED BY <2>1, SMT
<1>8. n \in Nat
  <2> HIDE DEF N
  <2> QED BY <1>5, <1>7, NearestBounds
<1>9. s \in Int /\ TWEXP31 \in Int
  <2>1. PICK k \in Nat \ {0} : grain \div unit = k BY UnitFacts
  <2>2. N * k \in Nat
    <3> HIDE DEF N
    <3> QED BY <1>7
  <2>3. s \in Nat
    <3> HIDE DEF N
    <3> QED BY <1>2, <1>5, <2>1, <2>2, WithHalfSides, 0 \in 0..4 * (el_gordo + 1) - 1, 1 \in Nat \ {0}
  <2>4. TWEXP31 \in Int BY <1>5, DoubleFacts DEF TWEXP31
  <2> QED BY <2>3, <2>4
<1> HIDE DEF n, N, check, below, minus
<1>10. /\ pc' = "return" /\ arith_error' \in BOOLEAN /\ (arith_error' <=> n > el_gordo)
       /\ result' = Signed(IF n > el_gordo THEN el_gordo ELSE n, minus)
       /\ computed' \subseteq -el_gordo - 1..el_gordo
  <2>0. /\ s >= TWEXP31 => /\ Return(Signed(el_gordo, minus), s # TWEXP31 \/ ~below)
                           /\ computed' = {check}
        /\ ~(s >= TWEXP31) => /\ Return(Signed(Truncated(s, below), minus), FALSE)
                              /\ computed' = {check, result'}
    BY <1>2, Zenon
  <2>1. CASE s >= TWEXP31
    <3>1. computed' \subseteq -el_gordo - 1..el_gordo BY <1>6, <2>0, <2>1
    <3>2. CASE s # TWEXP31 \/ ~below
      <4>1. n > el_gordo BY <1>6, <2>1, <3>2
      <4>2. pc' = "return" /\ arith_error' = TRUE /\ result' = Signed(el_gordo, minus)
        BY <2>0, <2>1, <3>2 DEF Return
      <4> QED BY <3>1, <4>1, <4>2
    <3>3. CASE ~(s # TWEXP31 \/ ~below)
      <4>1. n = el_gordo /\ ~(n > el_gordo) BY <1>5, <1>6, <2>1, <3>3
      <4>2. pc' = "return" /\ arith_error' = FALSE /\ result' = Signed(el_gordo, minus)
        BY <1>3, <2>0, <2>1, <3>3 DEF Return
      <4> QED BY <3>1, <4>1, <4>2
    <3> QED BY <3>2, <3>3
  <2>2. CASE s < TWEXP31
    <3>1. ~(s >= TWEXP31) BY <1>9, <2>2
    <3>2. n <= el_gordo /\ Truncated(s, below) = n /\ ~(n > el_gordo) BY <1>5, <1>6, <1>8, <2>2
    <3>3. pc' = "return" /\ arith_error' = FALSE /\ result' = Signed(n, minus)
      BY <1>3, <2>0, <3>1, <3>2 DEF Return
    <3>4. result' \in -el_gordo - 1..el_gordo
      <4>1. result' \in {n, -n} BY <3>3 DEF Signed
      <4> QED BY <1>5, <1>8, <3>2, <4>1
    <3>5. computed' \subseteq -el_gordo - 1..el_gordo BY <1>6, <2>0, <3>1, <3>4
    <3> QED BY <3>2, <3>3, <3>5
  <2> QED BY <1>9, <2>1, <2>2
<1>11. ResultRight'
  <2>1. PICK z \in Nat : z = n BY <1>8
  <2>2. Delivered(z)'
    <3>1. arith_error' <=> z > el_gordo BY <1>10, <2>1
    <3>2. result' = IF (call'.a < 0) # (call'.c < 0)
                    THEN -(IF z > el_gordo THEN el_gordo ELSE z) ELSE IF z > el_gordo THEN el_gordo ELSE z
      BY <1>3, <1>10, <2>1 DEF Signed, minus
    <3> QED BY <3>1, <3>2 DEF Delivered
  <2>3. Nearest(Abs(call'.a) * Abs(call'.c), call'.unit) = z BY <1>3, <2>1 DEF n, N
  <2>4. Delivered(Nearest(Abs(call.a) * Abs(call.c), call.unit))' BY <2>2, <2>3
  <2> QED BY <1>3, <2>4 DEF ResultRight
<1>12. TypeOK'
  <2>1. call' \in Calls
    <3>1. "take_fraction" \in Routines BY DEF Routines
    <3> QED BY <1>3, <1>5, <3>1, CallType
  <2>2. result' \in Int BY <1>5, <1>8, <1>10 DEF Signed
  <2>3. arith_error' \in BOOLEAN BY <1>10
  <2> QED BY <1>4, <1>10, <2>1, <2>2, <2>3 DEF IInv, TypeOK
<1>13. InWord' BY <1>10 DEF InWord
<1>14. CompareInv' /\ ShiftInv' /\ RootInv' BY <1>10 DEF CompareInv, ShiftInv, RootInv
<1>15. DimensionInv' BY <1>3 DEF DimensionInv
<1> QED BY <1>11, <1>12, <1>13, <1>14, <1>15 DEF IInv

-----------------------------------------------------------------------------
\* A sum, or the largest number of its sign.
LEMMA slow_addHolds ==
  ASSUME IInv, slow_add
  PROVE  IInv'
<1>1. PICK v \in Args, w \in Args :
        /\ Called("slow_add", 1, v, w, 0, 0)
        /\ LET fits == Fits(v, w) IN
             IF fits.good
             THEN Return(v + w, FALSE) /\ computed' = fits.steps \cup {v + w}
             ELSE Return(IF v >= 0 THEN el_gordo ELSE -el_gordo, TRUE) /\ computed' = fits.steps
  BY DEF slow_add
<1>2. UNCHANGED <<a, b, c, d, x, y, q, bit, pow, rest>>
  BY DEF slow_add, products, roots, ghosts
<1>3. /\ pc = "idle" /\ ~arith_error
      /\ call' = [routine |-> "slow_add", unit |-> 1, a |-> v, b |-> w, c |-> 0, d |-> 0]
  BY <1>1 DEF Called, IInv, TypeOK
<1>4. v \in -el_gordo..el_gordo /\ w \in -el_gordo..el_gordo /\ el_gordo \in Nat
  BY WordAssumption DEF WordAssumption
<1> DEFINE good == IF v >= 0 THEN w <= el_gordo - v ELSE -w <= el_gordo + v
           steps == IF v >= 0 THEN {el_gordo - v} ELSE {-w, el_gordo + v}
<1>5. Fits(v, w).good = good /\ Fits(v, w).steps = steps
  BY DEF Fits
<1>6. /\ pc' = "return"
      /\ \/ good /\ result' = v + w /\ arith_error' = FALSE /\ computed' = steps \cup {v + w}
         \/ /\ ~good /\ result' = (IF v >= 0 THEN el_gordo ELSE -el_gordo)
            /\ arith_error' = TRUE /\ computed' = steps
  <2> HIDE DEF good, steps
  <2> QED BY <1>1, <1>3, <1>5 DEF Return
<1>7. /\ good <=> ~(Abs(v + w) > el_gordo)
      /\ good => v + w \in -el_gordo..el_gordo
      /\ ~good => Sign(v + w) = (IF v >= 0 THEN 1 ELSE -1)
  BY <1>4 DEF Abs, Sign
<1>8. \A t \in steps : t \in -el_gordo - 1..el_gordo
  BY <1>4
<1> HIDE DEF good, steps
<1>9. ResultRight'
  <2>1. call'.routine = "slow_add" /\ call'.a = v /\ call'.b = w BY <1>3
  <2>2. arith_error' <=> Abs(v + w) > el_gordo BY <1>6, <1>7
  <2>3. result' = IF arith_error' THEN Sign(v + w) * el_gordo ELSE v + w
    <3>1. CASE good BY <1>6, <3>1
    <3>2. CASE ~good
      <4>1. 1 * el_gordo = el_gordo /\ (-1) * el_gordo = -el_gordo BY <1>4
      <4> QED BY <1>6, <1>7, <3>2, <4>1
    <3> QED BY <3>1, <3>2
  <2> QED BY <2>1, <2>2, <2>3 DEF ResultRight
<1>10. InWord'
  <2>1. good => v + w \in -el_gordo - 1..el_gordo BY <1>4, <1>7
  <2> QED BY <1>6, <1>8, <2>1 DEF InWord
<1>11. TypeOK'
  <2>1. call' \in Calls
    <3>1. "slow_add" \in Routines BY DEF Routines
    <3> QED BY <1>3, <1>4, <3>1, CallType
  <2>2. result' \in Int BY <1>4, <1>6
  <2>3. arith_error' \in BOOLEAN BY <1>6
  <2> QED BY <1>2, <1>6, <2>1, <2>2, <2>3 DEF IInv, TypeOK
<1>12. CompareInv' /\ ShiftInv' /\ RootInv'
  BY <1>6 DEF CompareInv, ShiftInv, RootInv
<1>13. DimensionInv' BY <1>3 DEF DimensionInv
<1> QED BY <1>9, <1>10, <1>11, <1>12, <1>13 DEF IInv

-----------------------------------------------------------------------------
\* The reduction to nonnegative factors, and the cases that are clear at once.
LEMMA ab_vs_cdHolds ==
  ASSUME IInv, ab_vs_cd
  PROVE  IInv'
<1>1. PICK s \in Few, t \in Few, u \in Few, v \in Few :
          LET aa == Abs(s)  bb == IF s < 0 THEN -t ELSE t
              cc == Abs(u)  dd == IF u < 0 THEN -v ELSE v
              Keep(r) == Return(r, FALSE) /\ a' = aa /\ b' = bb /\ c' = cc /\ d' = dd
          IN
          /\ Called("ab_vs_cd", 1, s, t, u, v)
          /\ \/ /\ dd <= 0 /\ bb >= 0
                /\ Keep(IF (aa = 0 \/ bb = 0) /\ (cc = 0 \/ dd = 0) THEN 0 ELSE 1)
             \/ dd = 0 /\ bb < 0 /\ Keep(IF aa = 0 THEN 0 ELSE -1)
             \/ /\ dd < 0 /\ bb < 0 /\ Continue("compare")
                /\ a' = cc /\ b' = -dd /\ c' = aa /\ d' = -bb
             \/ /\ dd > 0 /\ bb <= 0
                /\ Keep(IF (bb = 0 \/ aa = 0) /\ cc = 0 THEN 0 ELSE -1)
             \/ /\ dd > 0 /\ bb > 0 /\ Continue("compare")
                /\ a' = aa /\ b' = bb /\ c' = cc /\ d' = dd
          /\ computed' = {bb, dd}
  BY DEF ab_vs_cd
<1> DEFINE aa == Abs(s)  bb == IF s < 0 THEN -t ELSE t
           cc == Abs(u)  dd == IF u < 0 THEN -v ELSE v
           P == aa * bb  Q == cc * dd
<1>2. /\ s \in -el_gordo..el_gordo /\ t \in -el_gordo..el_gordo /\ u \in -el_gordo..el_gordo
      /\ v \in -el_gordo..el_gordo /\ el_gordo \in Nat
  BY WordAssumption DEF WordAssumption
<1>3. /\ aa \in Nat /\ cc \in Nat /\ bb \in -el_gordo - 1..el_gordo /\ dd \in -el_gordo - 1..el_gordo
      /\ bb \in Int /\ dd \in Int
  BY <1>2 DEF Abs
<1>4. P = s * t /\ Q = u * v
  <2>1. P = s * t BY <1>2 DEF Abs
  <2>2. Q = u * v BY <1>2 DEF Abs
  <2> QED BY <2>1, <2>2
<1>5. /\ pc = "idle" /\ ~arith_error
      /\ call' = [routine |-> "ab_vs_cd", unit |-> 1, a |-> s, b |-> t, c |-> u, d |-> v]
  BY <1>1 DEF Called, IInv, TypeOK
<1>6. UNCHANGED <<x, y, q, bit, pow, rest>>
  BY DEF ab_vs_cd, roots, ghosts
<1>7. computed' = {bb, dd} BY <1>1
<1> DEFINE Kept(r) == pc' = "return" /\ result' = r /\ ~arith_error' /\ a' = aa /\ b' = bb /\ c' = cc /\ d' = dd
           Going == pc' = "compare" /\ result' = result /\ ~arith_error'
<1>8. \/ dd <= 0 /\ bb >= 0 /\ Kept(IF (aa = 0 \/ bb = 0) /\ (cc = 0 \/ dd = 0) THEN 0 ELSE 1)
      \/ dd = 0 /\ bb < 0 /\ Kept(IF aa = 0 THEN 0 ELSE -1)
      \/ dd < 0 /\ bb < 0 /\ Going /\ a' = cc /\ b' = -dd /\ c' = aa /\ d' = -bb
      \/ dd > 0 /\ bb <= 0 /\ Kept(IF (bb = 0 \/ aa = 0) /\ cc = 0 THEN 0 ELSE -1)
      \/ dd > 0 /\ bb > 0 /\ Going /\ a' = aa /\ b' = bb /\ c' = cc /\ d' = dd
  BY <1>1, <1>5 DEF Return, Continue
<1> HIDE DEF aa, bb, cc, dd
<1>9. /\ P \in Int /\ Q \in Int
      /\ (aa = 0 \/ bb = 0 => P = 0) /\ (aa > 0 /\ bb > 0 => P > 0) /\ (aa > 0 /\ bb < 0 => P < 0)
      /\ (cc = 0 \/ dd = 0 => Q = 0) /\ (cc > 0 /\ dd > 0 => Q > 0) /\ (cc > 0 /\ dd < 0 => Q < 0)
  BY <1>3, ProductSign
<1>10. P - Q = s * t - u * v BY <1>4
<1> HIDE DEF P, Q
<1> DEFINE right == Sign(P - Q)
<1>11. ASSUME pc' = "return" PROVE ResultRight' /\ result' \in Int
  <2>1. ~arith_error' /\ result' = right /\ a' = aa /\ b' = bb /\ c' = cc /\ d' = dd
    <3>1. CASE dd <= 0 /\ bb >= 0 /\ Kept(IF (aa = 0 \/ bb = 0) /\ (cc = 0 \/ dd = 0) THEN 0 ELSE 1)
      <4>1. CASE (aa = 0 \/ bb = 0) /\ (cc = 0 \/ dd = 0) BY <1>9, <3>1, <4>1 DEF Sign
      <4>2. CASE ~((aa = 0 \/ bb = 0) /\ (cc = 0 \/ dd = 0))
        <5>1. P - Q > 0 BY <1>3, <1>9, <3>1, <4>2
        <5> QED BY <3>1, <4>2, <5>1 DEF Sign
      <4> QED BY <4>1, <4>2
    <3>2. CASE dd = 0 /\ bb < 0 /\ Kept(IF aa = 0 THEN 0 ELSE -1)
      <4>1. CASE aa = 0 BY <1>9, <3>2, <4>1 DEF Sign
      <4>2. CASE aa > 0
        <5>1. P - Q < 0 BY <1>9, <3>2, <4>2
        <5> QED BY <1>9, <3>2, <4>2, <5>1 DEF Sign
      <4> QED BY <1>3, <4>1, <4>2
    <3>3. CASE dd > 0 /\ bb <= 0 /\ Kept(IF (bb = 0 \/ aa = 0) /\ cc = 0 THEN 0 ELSE -1)
      <4>1. CASE (bb = 0 \/ aa = 0) /\ cc = 0 BY <1>9, <3>3, <4>1 DEF Sign
      <4>2. CASE ~((bb = 0 \/ aa = 0) /\ cc = 0)
        <5>1. P - Q < 0 BY <1>3, <1>9, <3>3, <4>2
        <5> QED BY <1>9, <3>3, <4>2, <5>1 DEF Sign
      <4> QED BY <4>1, <4>2
    <3> QED BY <1>8, <1>11, <3>1, <3>2, <3>3
  <2>2. ResultRight'
    <3>1. call'.routine = "ab_vs_cd" /\ call'.a * call'.b - call'.c * call'.d = P - Q
      BY <1>5, <1>10
    <3> QED BY <2>1, <3>1 DEF ResultRight, Dividing
  <2>3. result' \in Int BY <2>1 DEF Sign
  <2> QED BY <1>11, <2>1, <2>2, <2>3
<1>12. ASSUME pc' = "compare" PROVE ResultRight' /\ CompareInv'
  <2>1. result' = result /\ ~arith_error' BY <1>8, <1>12
  <2>2. CompareInv'
    <3>1. CASE dd < 0 /\ bb < 0 /\ a' = cc /\ b' = -dd /\ c' = aa /\ d' = -bb
      <4>1. a' * b' - c' * d' = P - Q BY <1>3, <3>1 DEF P, Q
      <4>2. a' \in Nat /\ b' \in Nat \ {0} /\ c' \in Nat /\ d' \in Nat \ {0} BY <1>3, <3>1
      <4> QED BY <1>5, <1>10, <4>1, <4>2 DEF CompareInv
    <3>2. CASE dd > 0 /\ bb > 0 /\ a' = aa /\ b' = bb /\ c' = cc /\ d' = dd
      <4>1. a' * b' - c' * d' = P - Q BY <3>2 DEF P, Q
      <4>2. a' \in Nat /\ b' \in Nat \ {0} /\ c' \in Nat /\ d' \in Nat \ {0} BY <1>3, <3>2
      <4> QED BY <1>5, <1>10, <4>1, <4>2 DEF CompareInv
    <3> QED BY <1>8, <1>12, <3>1, <3>2
  <2>3. ResultRight' BY <1>12 DEF ResultRight
  <2> QED BY <2>1, <2>2, <2>3
<1>13. pc' \in {"compare", "return"} BY <1>8
<1>14. InWord' BY <1>3, <1>7 DEF InWord
<1>15. TypeOK'
  <2>1. call' \in Calls
    <3>1. "ab_vs_cd" \in Routines BY DEF Routines
    <3> QED BY <1>2, <1>5, <3>1, CallType
  <2>2. a' \in Int /\ b' \in Int /\ c' \in Int /\ d' \in Int BY <1>3, <1>8
  <2>3. result' \in Int
    <3>1. result \in Int BY DEF IInv, TypeOK
    <3>2. pc' = "compare" => result' = result BY <1>8
    <3> QED BY <1>11, <1>13, <3>1, <3>2
  <2>4. ~arith_error' /\ arith_error' \in BOOLEAN
    <3>1. arith_error' = FALSE BY <1>1, <1>5 DEF Return, Continue, IInv, TypeOK
    <3> QED BY <3>1
  <2> QED BY <1>6, <1>13, <2>1, <2>2, <2>3, <2>4 DEF IInv, TypeOK
<1>16. ResultRight' /\ CompareInv'
  <2>1. pc' = "return" => CompareInv' BY DEF CompareInv
  <2> QED BY <1>11, <1>12, <1>13, <2>1
<1>17. ShiftInv' /\ RootInv'
  BY <1>13 DEF ShiftInv, RootInv
<1>18. DimensionInv' BY <1>5 DEF DimensionInv
<1> QED BY <1>14, <1>15, <1>16, <1>17, <1>18 DEF IInv

\* The sign is that of the difference of the quotients.
LEMMA QuotientsDecide ==
  ASSUME NEW b0 \in Nat \ {0}, NEW d0 \in Nat \ {0}, NEW z \in Int, NEW r \in Int, NEW s \in 0..d0 - 1,
         NEW t \in 0..b0 - 1, r < z
  PROVE  (z * d0 + s) * b0 - (r * b0 + t) * d0 > 0
<1>1. (z * d0 + s) * b0 - (r * b0 + t) * d0 = (z - r) * (b0 * d0) + (s * b0 - t * d0)
  BY SMT
<1>2. b0 * d0 \in Nat BY SMT
<1>3. 1 * (b0 * d0) <= (z - r) * (b0 * d0) BY <1>2, Mono, 1 <= z - r, z - r \in Int
<1>4. s * b0 >= 0 BY SMT
<1>5. t * d0 <= (b0 - 1) * d0 BY Mono, t <= b0 - 1
<1>6. (b0 - 1) * d0 = b0 * d0 - d0 BY SMT
<1>7. /\ s * b0 \in Int /\ t * d0 \in Int /\ (z - r) * (b0 * d0) \in Int /\ (b0 - 1) * d0 \in Int
      /\ 1 * (b0 * d0) = b0 * d0
  BY SMT
<1> QED BY <1>1, <1>2, <1>3, <1>4, <1>5, <1>6, <1>7

\* One round of the comparison of quotients.
LEMMA CompareHolds ==
  ASSUME IInv, Compare
  PROVE  IInv'
<1>1. /\ pc = "compare" /\ call' = call /\ computed' = {}
      /\ UNCHANGED <<x, y, q, bit, pow, rest>>
  BY DEF Compare, roots, ghosts
<1>2. /\ call.routine = "ab_vs_cd" /\ ~arith_error /\ arith_error \in BOOLEAN /\ result \in Int
      /\ a \in Nat /\ b \in Nat \ {0} /\ c \in Nat /\ d \in Nat \ {0}
      /\ Sign(a * b - c * d) = Sign(call.a * call.b - call.c * call.d)
  BY <1>1 DEF IInv, TypeOK, CompareInv
<1> DEFINE z == a \div d  s == a % d  r == c \div b  t == c % b
           verdict == IF z # r THEN Sign(z - r) ELSE Verdict(s, t)
<1>3. /\ z \in Int /\ s \in 0..d - 1 /\ a = z * d + s
      /\ r \in Int /\ t \in 0..b - 1 /\ c = r * b + t
  BY <1>2, DivMod
<1>4. IF verdict # 2
      THEN Return(verdict, FALSE) /\ UNCHANGED <<a, b, c, d>>
      ELSE Continue("compare") /\ a' = b /\ b' = s /\ c' = d /\ d' = t
  BY DEF Compare, products
<1> HIDE DEF z, s, r, t
<1> DEFINE diff == a * b - c * d
<1>5. diff \in Int BY <1>2
<1>6. z # r => verdict = Sign(diff) /\ verdict # 2
  <2>1. CASE r < z
    <3>1. diff > 0 BY <1>2, <1>3, <2>1, QuotientsDecide
    <3> QED BY <1>3, <1>5, <2>1, <3>1 DEF Sign
  <2>2. CASE z < r
    <3>1. (r * b + t) * d - (z * d + s) * b > 0 BY <1>2, <1>3, <2>2, QuotientsDecide
    <3>2. c * d - a * b > 0 BY <1>3, <3>1
    <3>3. a * b \in Int /\ c * d \in Int BY <1>2
    <3>4. diff < 0 BY <3>2, <3>3
    <3> HIDE DEF diff
    <3> QED BY <1>3, <1>5, <2>2, <3>4 DEF Sign
  <2> QED BY <1>3, <2>1, <2>2
<1>7. z = r => diff = s * b - t * d
  <2> SUFFICES ASSUME z = r PROVE diff = s * b - t * d OBVIOUS
  <2>1. a * b = z * (d * b) + s * b BY <1>2, <1>3
  <2>2. c * d = z * (d * b) + t * d BY <1>2, <1>3
  <2>3. PICK w \in Int : w = z * (d * b) BY <1>2, <1>3
  <2>4. s * b \in Int /\ t * d \in Int BY <1>2, <1>3
  <2> QED BY <2>1, <2>2, <2>3, <2>4
<1>8. z = r => \/ s > 0 /\ t > 0 /\ verdict = 2
               \/ verdict = Sign(diff) /\ verdict # 2
  <2> SUFFICES ASSUME z = r PROVE \/ s > 0 /\ t > 0 /\ verdict = 2
                                  \/ verdict = Sign(diff) /\ verdict # 2
    OBVIOUS
  <2>1. diff = s * b - t * d /\ verdict = Verdict(s, t) BY <1>7
  <2>2. s \in Nat /\ t \in Nat BY <1>2, <1>3
  <2>3. s * b \in Int /\ t * d \in Int /\ (s = 0 => s * b = 0) /\ (s > 0 => s * b > 0)
        /\ (t = 0 => t * d = 0) /\ (t > 0 => t * d > 0)
    BY <1>2, <2>2, ProductSign
  <2> HIDE DEF diff, verdict
  <2> QED BY <2>1, <2>2, <2>3 DEF Verdict, Sign
<1> HIDE DEF verdict
<1>9. CASE verdict # 2
  <2>1. /\ pc' = "return" /\ result' = Sign(diff) /\ ~arith_error' /\ UNCHANGED <<a, b, c, d>>
        /\ arith_error' \in BOOLEAN
    BY <1>2, <1>4, <1>6, <1>8, <1>9 DEF Return
  <2>2. ResultRight' BY <1>1, <1>2, <2>1 DEF ResultRight, Dividing
  <2>3. result' \in Int BY <2>1 DEF Sign
  <2>4. TypeOK' BY <1>1, <2>1, <2>3 DEF IInv, TypeOK
  <2>5. CompareInv' /\ ShiftInv' /\ RootInv'
    BY <2>1 DEF CompareInv, ShiftInv, RootInv
  <2>6. InWord' /\ DimensionInv' BY <1>1 DEF IInv, InWord, DimensionInv
  <2> QED BY <2>2, <2>4, <2>5, <2>6 DEF IInv
<1>10. CASE verdict = 2
  <2>1. /\ pc' = "compare" /\ result' = result /\ arith_error' = arith_error
        /\ a' = b /\ b' = s /\ c' = d /\ d' = t
    BY <1>4, <1>10 DEF Continue
  <2>2. s > 0 /\ t > 0 /\ s \in Nat /\ t \in Nat /\ diff = s * b - t * d
    <3>1. diff \in Int /\ Sign(diff) # 2 BY <1>5 DEF Sign
    <3>2. z = r /\ s > 0 /\ t > 0 BY <1>6, <1>8, <1>10
    <3> QED BY <1>2, <1>3, <1>7, <3>2
  <2>3. CompareInv'
    <3>1. a' * b' - c' * d' = diff
      <4>1. b * s = s * b /\ d * t = t * d BY <1>2, <2>2
      <4> QED BY <2>1, <2>2, <4>1
    <3>2. Sign(a' * b' - c' * d') = Sign(call'.a * call'.b - call'.c * call'.d)
      BY <1>1, <1>2, <3>1
    <3>3. a' \in Nat /\ b' \in Nat \ {0} /\ c' \in Nat /\ d' \in Nat \ {0}
      BY <1>2, <2>1, <2>2
    <3> QED BY <1>1, <1>2, <3>2, <3>3 DEF CompareInv
  <2>4. TypeOK' BY <1>1, <1>2, <2>1, <2>2 DEF IInv, TypeOK
  <2>5. ShiftInv' /\ RootInv' /\ ResultRight'
    BY <2>1 DEF ShiftInv, RootInv, ResultRight
  <2>6. InWord' /\ DimensionInv' BY <1>1 DEF IInv, InWord, DimensionInv
  <2> QED BY <2>3, <2>4, <2>5, <2>6 DEF IInv
<1> QED BY <1>9, <1>10

-----------------------------------------------------------------------------
\* The powers of four.
LEMMA PowersOfFour ==
  ASSUME NEW i \in 1..root_start
  PROVE  /\ i - 1 \in 0..root_start /\ Four_to[i - 1] \in Nat /\ Four_to[i] = 4 * Four_to[i - 1]
         /\ Four_to[0] = 1 /\ Four_to[i] \in Nat
<1>1. root_start \in Nat /\ Four_to \in [0..root_start -> Nat] /\ Four_to[0] = 1
  BY RootAssumption DEF RootAssumption
<1>2. i - 1 \in 0..root_start - 1 /\ i - 1 \in 0..root_start /\ i \in 0..root_start /\ (i - 1) + 1 = i
  BY <1>1
<1>3. Four_to[(i - 1) + 1] = 4 * Four_to[i - 1]
  BY <1>2, RootAssumption DEF RootAssumption
<1> QED BY <1>1, <1>2, <1>3

\* square_rt before its loops.
LEMMA square_rtHolds ==
  ASSUME IInv, square_rt
  PROVE  IInv'
<1>1. PICK v \in Args :
        /\ Called("square_rt", unity, v, 0, 0, 0)
        /\ IF v <= 0
           THEN Return(0, FALSE) /\ UNCHANGED <<x, bit, q>>
           ELSE Continue("shift") /\ x' = v /\ bit' = root_start /\ q' = 2
  BY DEF square_rt
<1>2. /\ computed' = {} /\ pow' = Four_to[root_start] /\ rest' = 0
      /\ UNCHANGED <<a, b, c, d, y>>
  BY DEF square_rt, products
<1>3. /\ pc = "idle" /\ ~arith_error
      /\ call' = [routine |-> "square_rt", unit |-> unity, a |-> v, b |-> 0, c |-> 0, d |-> 0]
  BY <1>1 DEF Called, IInv, TypeOK
<1>4. /\ v \in -el_gordo..el_gordo /\ el_gordo \in Nat /\ unity \in Nat \ {0, 1}
      /\ fraction_four \in Nat
  BY WordAssumption, Constants DEF WordAssumption
<1>5. /\ root_start \in 1..root_start /\ Four_to[root_start] = fraction_four * unity
      /\ Four_to[root_start] \in Nat
  BY RootAssumption DEF RootAssumption
<1>6. call' \in Calls
  <2>1. "square_rt" \in Routines BY DEF Routines
  <2> QED BY <1>3, <1>4, <2>1, CallType
<1>7. InWord' /\ DimensionInv' BY <1>2, <1>3 DEF InWord, DimensionInv
<1>8. CASE v <= 0
  <2>1. pc' = "return" /\ result' = 0 /\ arith_error' = FALSE /\ UNCHANGED <<x, bit, q>>
    BY <1>1, <1>3, <1>8 DEF Return
  <2>2. ResultRight'
    <3>1. call'.routine = "square_rt" /\ call'.a = v BY <1>3
    <3>2. ~arith_error' /\ (IF call'.a <= 0 THEN result' = 0
                            ELSE /\ unity * call'.a <= result' * result' + result'
                                 /\ unity * call'.a > result' * result' - result')
      BY <1>8, <2>1, <3>1
    <3> QED BY <3>1, <3>2 DEF ResultRight
  <2>3. TypeOK'
    <3>1. arith_error' \in BOOLEAN /\ ~arith_error' BY <2>1
    <3>2. result' \in Int /\ pow' \in Int /\ rest' \in Int BY <1>2, <1>5, <2>1
    <3> QED BY <1>2, <1>6, <2>1, <3>1, <3>2 DEF IInv, TypeOK
  <2>4. CompareInv' /\ ShiftInv' /\ RootInv'
    BY <2>1 DEF CompareInv, ShiftInv, RootInv
  <2> QED BY <1>7, <2>2, <2>3, <2>4 DEF IInv
<1>9. CASE ~(v <= 0)
  <2>1. /\ pc' = "shift" /\ x' = v /\ bit' = root_start /\ q' = 2
        /\ result' = result /\ arith_error' = arith_error
    BY <1>1, <1>9 DEF Continue
  <2>2. ShiftInv'
    <3>1. x' * pow' = (unity * v) * fraction_four
      <4>1. x' * pow' = v * (fraction_four * unity) BY <1>2, <1>5, <2>1
      <4> QED BY <1>4, <4>1
    <3>2. call'.routine = "square_rt" /\ call'.a = v BY <1>3
    <3>3. v \in 1..el_gordo BY <1>4, <1>9
    <3>4. bit' \in 1..root_start /\ pow' = Four_to[bit'] BY <1>2, <1>5, <2>1
    <3> QED BY <2>1, <3>1, <3>2, <3>3, <3>4 DEF ShiftInv, RootCall
  <2>3. TypeOK'
    <3>1. root_start \in Int /\ v \in Int BY <1>4, RootAssumption DEF RootAssumption
    <3> QED BY <1>2, <1>3, <1>5, <1>6, <2>1, <3>1 DEF IInv, TypeOK
  <2>4. CompareInv' /\ RootInv' /\ ResultRight'
    BY <2>1 DEF CompareInv, RootInv, ResultRight
  <2> QED BY <1>7, <2>2, <2>3, <2>4 DEF IInv
<1> QED BY <1>8, <1>9

\* The argument is shifted until it is at least fraction_two; then the first bit.
LEMMA ShiftHolds ==
  ASSUME IInv, Shift
  PROVE  IInv'
<1>1. /\ pc = "shift" /\ call' = call /\ result' = result /\ arith_error' = arith_error
      /\ UNCHANGED <<q, a, b, c, d>>
  BY DEF Shift, Continue, products
<1>2. /\ call.routine = "square_rt" /\ call.a \in 1..el_gordo /\ q = 2
      /\ bit \in 1..root_start /\ pow = Four_to[bit]
      /\ x \in 1..el_gordo /\ x * pow = (unity * call.a) * fraction_four
      /\ ~arith_error /\ arith_error \in BOOLEAN /\ result \in Int
  BY <1>1 DEF IInv, ShiftInv, RootCall, TypeOK
<1>3. /\ el_gordo \in Nat /\ fraction_one \in Nat \ {0} /\ unity \in Nat \ {0, 1}
      /\ fraction_two = 2 * fraction_one /\ fraction_four = 4 * fraction_one
      /\ el_gordo = 8 * fraction_one - 1 /\ root_start \in Nat
  BY Constants, RootAssumption DEF RootAssumption
<1>4. /\ bit - 1 \in 0..root_start /\ Four_to[bit - 1] \in Nat /\ Four_to[bit] = 4 * Four_to[bit - 1]
      /\ Four_to[0] = 1 /\ Four_to[bit] \in Nat
  BY <1>2, PowersOfFour
<1>5. DimensionInv' BY <1>1 DEF IInv, DimensionInv
<1>6. CASE x < fraction_two
  <2>1. /\ pc' = "shift" /\ bit' = bit - 1 /\ x' = x + x + x + x /\ pow' = Four_to[bit']
        /\ computed' = {x + x, x + x + x, x'} /\ UNCHANGED <<y, rest>>
    BY <1>6 DEF Shift, Continue
  <2>2. x' = 4 * x /\ x' \in 1..el_gordo BY <1>2, <1>3, <1>6, <2>1
  <2>3. bit # 1
    <3> SUFFICES ASSUME bit = 1 PROVE FALSE OBVIOUS
    <3>1. pow = 4 BY <1>2, <1>4
    <3> DEFINE w == unity * call.a
    <3>2. w \in Int /\ w >= 2
      <4>1. 2 * call.a <= unity * call.a BY <1>2, <1>3, Mono
      <4> QED BY <1>2, <1>3, <4>1
    <3>3. x * 4 = w * fraction_four BY <1>2, <3>1
    <3> HIDE DEF w
    <3>4. 2 * fraction_four <= w * fraction_four BY <1>3, <3>2, Mono
    <3>5. w * fraction_four \in Int BY <1>3, <3>2
    <3> QED BY <1>2, <1>3, <1>6, <3>3, <3>4, <3>5
  <2>4. bit' \in 1..root_start BY <1>2, <1>3, <2>1, <2>3
  <2>5. x' * pow' = (unity * call'.a) * fraction_four
    <3>1. x' * pow' = x * pow
      <4>1. (4 * x) * Four_to[bit - 1] = x * (4 * Four_to[bit - 1]) BY <1>2, <1>4
      <4> QED BY <1>2, <1>4, <2>1, <2>2, <4>1
    <3> QED BY <1>1, <1>2, <3>1
  <2>6. ShiftInv' BY <1>1, <1>2, <2>1, <2>2, <2>4, <2>5 DEF ShiftInv, RootCall
  <2>7. InWord'
    <3>1. \A v \in {x + x, x + x + x, x'} : v \in -el_gordo - 1..el_gordo
      BY <1>2, <1>3, <1>6, <2>2
    <3> QED BY <2>1, <3>1 DEF InWord
  <2>8. TypeOK'
    <3>1. pow' \in Int /\ x' \in Int /\ bit' \in Int BY <1>2, <1>3, <1>4, <2>1, <2>2
    <3> QED BY <1>1, <2>1, <3>1 DEF IInv, TypeOK
  <2>9. CompareInv' /\ RootInv' /\ ResultRight'
    BY <2>1 DEF CompareInv, RootInv, ResultRight
  <2> QED BY <1>5, <2>6, <2>7, <2>8, <2>9 DEF IInv
<1>7. CASE ~(x < fraction_two)
  <2>1. /\ pc' = "root" /\ y' = (IF x < fraction_four THEN 0 ELSE 1)
        /\ x' = x - fraction_four * y' /\ computed' = {x'} /\ rest' = y' /\ UNCHANGED <<bit, pow>>
    BY <1>7 DEF Shift, Continue
  <2>2. \/ x < fraction_four /\ y' = 0 /\ x' = x
        \/ x >= fraction_four /\ y' = 1 /\ x' = x - fraction_four
    BY <1>2, <1>3, <2>1
  <2>3. x' \in 0..fraction_four - 1 /\ rest' \in Nat /\ rest' * fraction_four + x' = x
    BY <1>2, <1>3, <2>1, <2>2
  <2>4. RootInv'
    <3>1. (rest' * fraction_four + x') * pow' = (unity * call'.a) * fraction_four
      BY <1>1, <1>2, <2>1, <2>3
    <3>2. /\ 1 \in Nat \ {0} /\ q' = 2 * 1 /\ y' = rest' - 1 * 1 + 1
          /\ \/ y' \in 1..q'
             \/ y' = 0 /\ 1 = 1 /\ rest' = 0 /\ x' >= fraction_two
      BY <1>1, <1>2, <1>3, <1>7, <2>1, <2>2
    <3>3. RootCall' BY <1>1, <1>2, <2>1 DEF RootCall
    <3> QED BY <2>3, <3>1, <3>2, <3>3 DEF RootInv
  <2>5. InWord'
    <3>1. x' \in -el_gordo - 1..el_gordo BY <1>3, <2>3
    <3> QED BY <2>1, <3>1 DEF InWord
  <2>6. TypeOK'
    <3>1. x' \in Int /\ y' \in Int /\ rest' \in Int BY <1>3, <2>1, <2>2, <2>3
    <3> QED BY <1>1, <2>1, <3>1 DEF IInv, TypeOK
  <2>7. CompareInv' /\ ShiftInv' /\ ResultRight'
    BY <2>1 DEF CompareInv, ShiftInv, ResultRight
  <2> QED BY <1>5, <2>4, <2>5, <2>6, <2>7 DEF IInv
<1> QED BY <1>6, <1>7

\* The two digits that are taken from x.
LEMMA TwoBits ==
  ASSUME NEW v \in 0..fraction_four - 1
  PROVE  /\ Bit(v) \in {0, 1} /\ Without(v) \in 0..fraction_four - 1
         /\ 2 * v = fraction_four * Bit(v) + Without(v)
         /\ (v >= fraction_two => Bit(v) = 1)
<1>1. fraction_four \in Nat /\ fraction_four = 2 * fraction_two /\ fraction_two \in Nat
  BY Constants
<1>2. CASE 2 * v >= fraction_four BY <1>1, <1>2 DEF Bit, Without
<1>3. CASE ~(2 * v >= fraction_four) BY <1>1, <1>3 DEF Bit, Without
<1> QED BY <1>2, <1>3

\* The new bit of the root, in the terms of the invariant.
LEMMA AdjustedHolds ==
  ASSUME NEW s \in Nat \ {0}, NEW v \in Int, v <= 6 * s + 3,
         v >= 1 - 2 * s \/ (s = 1 /\ v >= 0)
  PROVE  \E t \in Nat \ {0} :
            /\ Adjusted(v, 4 * s).q = 2 * t
            /\ Adjusted(v, 4 * s).y = v - (t * t - t) + ((2 * s) * (2 * s) - 2 * s)
            /\ Adjusted(v, 4 * s).y \in 1..2 * t
            /\ t <= 2 * s + 1
<1> DEFINE new == Adjusted(v, 4 * s)  u == 2 * s
<1>1. u \in Nat /\ u >= 2 BY SMT
<1>2. CASE v > 4 * s
  <2>1. new.q = 2 * (u + 1) /\ new.y = v - 4 * s BY <1>2 DEF Adjusted
  <2>2. (u + 1) * (u + 1) - (u + 1) = (u * u - u) + 2 * u
    <3> HIDE DEF u
    <3> QED BY <1>1
  <2>3. new.y = v - ((u + 1) * (u + 1) - (u + 1)) + (u * u - u)
    <3>1. u * u \in Int /\ 4 * s = 2 * u BY SMT
    <3> HIDE DEF new, u
    <3> QED BY <1>1, <2>1, <2>2, <3>1
  <2>4. new.y \in 1..2 * (u + 1) BY <1>2, <2>1
  <2> WITNESS u + 1 \in Nat \ {0}
  <2> QED BY <2>1, <2>3, <2>4
<1>3. CASE v <= 0
  <2>1. new.q = 2 * (u - 1) /\ new.y = v + 4 * s - 2 BY <1>3 DEF Adjusted
  <2>2. (u - 1) * (u - 1) - (u - 1) = (u * u - u) - 2 * u + 2
    <3> HIDE DEF u
    <3> QED BY <1>1
  <2>3. new.y = v - ((u - 1) * (u - 1) - (u - 1)) + (u * u - u)
    <3>1. u * u \in Int /\ 4 * s = 2 * u BY SMT
    <3> HIDE DEF new, u
    <3> QED BY <1>1, <2>1, <2>2, <3>1
  <2>4. new.y \in 1..2 * (u - 1) BY <1>3, <2>1
  <2>5. u - 1 \in Nat \ {0} BY <1>1
  <2> WITNESS u - 1 \in Nat \ {0}
  <2> QED BY <2>1, <2>3, <2>4
<1>4. CASE ~(v > 4 * s) /\ ~(v <= 0)
  <2>1. new.q = 2 * u /\ new.y = v BY <1>4 DEF Adjusted
  <2>2. new.y = v - (u * u - u) + (u * u - u)
    <3>1. u * u \in Int BY SMT
    <3> HIDE DEF new, u
    <3> QED BY <1>1, <2>1, <3>1
  <2>3. new.y \in 1..2 * u BY <1>4, <2>1
  <2>4. u \in Nat \ {0} BY <1>1
  <2> WITNESS u \in Nat \ {0}
  <2> QED BY <2>1, <2>2, <2>3
<1> QED BY <1>2, <1>3, <1>4

\* The root found so far is less than fraction_one.
LEMMA RootSmall ==
  ASSUME NEW s \in Nat, NEW r \in Nat, NEW v \in Nat, NEW power \in Nat, NEW z \in Nat,
         v <= el_gordo, power >= 4, s * s - s <= r,
         (r * fraction_four + z) * power = (unity * v) * fraction_four
  PROVE  s < fraction_one
<1>1. /\ el_gordo \in Nat /\ fraction_one \in Nat \ {0} /\ unity \in Nat \ {0}
      /\ fraction_four = 4 * fraction_one /\ el_gordo = 8 * fraction_one - 1
      /\ 2 * unity <= fraction_one - 1 /\ fraction_four \in Nat \ {0}
  BY Constants
<1> DEFINE w == unity * v  t == r * fraction_four
<1>2. w \in Nat /\ t \in Nat BY <1>1, SMT
<1>3. 4 * r <= w
  <2>1. t * 4 <= w * fraction_four
    <3>1. (t + z) * power = w * fraction_four OBVIOUS
    <3> HIDE DEF w, t
    <3>2. 4 * (t + z) <= power * (t + z) BY <1>2, Mono, t + z \in Nat
    <3>3. power * (t + z) = w * fraction_four BY <1>2, <3>1
    <3>4. w * fraction_four \in Int BY <1>1, <1>2
    <3> QED BY <1>2, <3>2, <3>3, <3>4
  <2>2. t * 4 = (4 * r) * fraction_four BY <1>1
  <2> HIDE DEF w, t
  <2>3. CASE w < 4 * r
    <3>1. (w + 1) * fraction_four <= (4 * r) * fraction_four BY <1>1, <1>2, <2>3, Mono
    <3>2. (w + 1) * fraction_four = w * fraction_four + fraction_four BY <1>1, <1>2
    <3>3. w * fraction_four \in Int /\ (4 * r) * fraction_four \in Int BY <1>1, <1>2
    <3> QED BY <1>1, <2>1, <2>2, <3>1, <3>2, <3>3
  <2> QED BY <1>2, <2>3
<1>4. 2 * w <= (fraction_one - 1) * el_gordo
  <2>1. (2 * unity) * v <= (fraction_one - 1) * v BY <1>1, Mono
  <2>2. v * (fraction_one - 1) <= el_gordo * (fraction_one - 1) BY <1>1, Mono
  <2>3. (2 * unity) * v = 2 * w BY <1>1
  <2>4. /\ v * (fraction_one - 1) = (fraction_one - 1) * v
        /\ el_gordo * (fraction_one - 1) = (fraction_one - 1) * el_gordo
    BY <1>1
  <2>5. (fraction_one - 1) * v \in Int /\ (fraction_one - 1) * el_gordo \in Int BY <1>1
  <2> HIDE DEF w
  <2> QED BY <1>2, <2>1, <2>2, <2>3, <2>4, <2>5
<1>5. (fraction_one - 1) * el_gordo = 8 * ((fraction_one - 1) * fraction_one) - (fraction_one - 1)
  BY <1>1
<1> SUFFICES ASSUME s >= fraction_one PROVE FALSE
  BY <1>1
<1>6. (fraction_one - 1) * fraction_one <= s * s - s
  <2>1. (fraction_one - 1) * fraction_one <= (s - 1) * fraction_one BY <1>1, Mono
  <2>2. fraction_one * (s - 1) <= s * (s - 1) BY <1>1, Mono, s - 1 \in Nat
  <2>3. fraction_one * (s - 1) = (s - 1) * fraction_one /\ s * (s - 1) = s * s - s BY <1>1
  <2>4. /\ (fraction_one - 1) * fraction_one \in Int /\ (s - 1) * fraction_one \in Int /\ s * s \in Int
    BY <1>1
  <2> QED BY <2>1, <2>2, <2>3, <2>4
<1>7. (fraction_one - 1) * fraction_one \in Int /\ s * s \in Int /\ (fraction_one - 1) * el_gordo \in Int
  BY <1>1
<1> HIDE DEF w, t
<1>8. fraction_one = 1
  BY <1>1, <1>2, <1>3, <1>4, <1>5, <1>6, <1>7
<1> QED BY <1>1, <1>8

\* A square root to the nearest integer.
LEMMA Between ==
  ASSUME NEW u \in Nat, NEW k \in Int, NEW t \in Nat, u - k + t \in 1..2 * t
  PROVE  u <= k + t /\ u > k - t
BY SMT

\* One more bit of a root.
LEMMA RootBitHolds ==
  ASSUME IInv, Root_bit
  PROVE  IInv'
<1> DEFINE z == Without(x)  bits == 2 * Bit(x) + Bit(z)  first == 2 * y + Bit(x)
           v == 2 * first - q + Bit(z)  new == Adjusted(v, 2 * q)
<1>1. /\ pc = "root" /\ call' = call
      /\ x' = Without(z) /\ y' = new.y /\ q' = new.q /\ rest' = 4 * rest + bits
      /\ bit' = bit - 1 /\ pow' = Four_to[bit']
      /\ computed' = {2 * x, 2 * z, 2 * first, 2 * first - q, 2 * q, y', q'}
      /\ IF bit' = 0 THEN Return(half(q'), FALSE) ELSE Continue("root")
      /\ UNCHANGED <<a, b, c, d>>
  BY DEF Root_bit, products
<1>2. /\ call.routine = "square_rt" /\ call.a \in 1..el_gordo
      /\ bit \in 1..root_start /\ pow = Four_to[bit]
      /\ x \in 0..fraction_four - 1 /\ rest \in Nat
      /\ (rest * fraction_four + x) * pow = (unity * call.a) * fraction_four
      /\ ~arith_error /\ arith_error \in BOOLEAN /\ result \in Int /\ y \in Int
  BY <1>1 DEF IInv, RootInv, RootCall, TypeOK
<1>3. PICK s \in Nat \ {0} :
        /\ q = 2 * s /\ y = rest - s * s + s
        /\ \/ y \in 1..q
           \/ y = 0 /\ s = 1 /\ rest = 0 /\ x >= fraction_two
  BY <1>1 DEF IInv, RootInv
<1>4. /\ el_gordo \in Nat /\ fraction_one \in Nat \ {0} /\ unity \in Nat \ {0, 1}
      /\ fraction_four = 4 * fraction_one /\ el_gordo = 8 * fraction_one - 1
      /\ fraction_four \in Nat \ {0} /\ root_start \in Nat /\ fraction_one >= 2
  BY Constants, RootAssumption DEF RootAssumption
<1>5. /\ bit - 1 \in 0..root_start /\ Four_to[bit - 1] \in Nat /\ Four_to[bit] = 4 * Four_to[bit - 1]
      /\ Four_to[0] = 1 /\ Four_to[bit] \in Nat
  BY <1>2, PowersOfFour
<1>6. /\ Bit(x) \in {0, 1} /\ z \in 0..fraction_four - 1 /\ 2 * x = fraction_four * Bit(x) + z
      /\ (x >= fraction_two => Bit(x) = 1)
  BY <1>2, TwoBits
<1>7. Bit(z) \in {0, 1} /\ x' \in 0..fraction_four - 1 /\ 2 * z = fraction_four * Bit(z) + x'
  BY <1>1, <1>6, TwoBits
<1> HIDE DEF z
<1>8. bits \in 0..3 /\ 4 * x = fraction_four * bits + x' /\ rest' \in Nat
  <2>1. bits \in 0..3 BY <1>6, <1>7
  <2>2. fraction_four * bits = 2 * (fraction_four * Bit(x)) + fraction_four * Bit(z)
    BY <1>4, <1>6, <1>7
  <2>3. fraction_four * Bit(x) \in Int /\ fraction_four * Bit(z) \in Int BY <1>4, <1>6, <1>7, SMTT(30)
  <2>4. 4 * x = fraction_four * bits + x'
    <3> HIDE DEF bits
    <3> QED BY <1>2, <1>6, <1>7, <2>2, <2>3
  <2> HIDE DEF bits
  <2>5. rest' = 4 * rest + bits BY <1>1
  <2> QED BY <1>2, <2>1, <2>4, <2>5
<1>9. v = 4 * y + bits - 2 * s
  BY <1>2, <1>3, <1>6, <1>7
<1> HIDE DEF bits
<1>10. (rest' * fraction_four + x') * pow' = (unity * call.a) * fraction_four
  <2>1. rest' * fraction_four + x' = 4 * (rest * fraction_four + x)
    <3>1. rest' * fraction_four = 4 * (rest * fraction_four) + fraction_four * bits
      BY <1>1, <1>2, <1>4, <1>8
    <3>2. fraction_four * bits \in Int /\ rest * fraction_four \in Int BY <1>2, <1>4, <1>8
    <3> QED BY <1>2, <1>7, <1>8, <3>1, <3>2
  <2> DEFINE w == rest * fraction_four + x
  <2>2. w \in Int BY <1>2, <1>4
  <2>3. (rest' * fraction_four + x') = 4 * w BY <2>1
  <2>4. w * pow = (unity * call.a) * fraction_four BY <1>2
  <2> HIDE DEF w
  <2>5. pow = 4 * pow' /\ pow' \in Nat BY <1>1, <1>2, <1>5
  <2>6. (4 * w) * pow' = w * (4 * pow') BY <2>2, <2>5
  <2> QED BY <2>3, <2>4, <2>5, <2>6
<1>11. y \in 0..q /\ q >= 2 /\ q \in Nat
  BY <1>2, <1>3
<1>12. s < fraction_one
  <2>1. CASE y >= 1
    <3>1. s * s - s <= rest
      <4>1. s * s \in Int BY <1>3
      <4> QED BY <1>2, <1>3, <2>1, <4>1
    <3>2. pow \in Nat /\ pow >= 4
      <4>1. Four_to[bit - 1] # 0
        <5> SUFFICES ASSUME Four_to[bit - 1] = 0 PROVE FALSE OBVIOUS
        <5>1. pow = 0 BY <1>2, <1>5
        <5> DEFINE w == unity * call.a  left == rest * fraction_four + x
        <5>2. w \in Nat \ {0} /\ left \in Int
          <6>1. 1 * call.a <= unity * call.a BY <1>2, <1>4, Mono
          <6>2. w \in Int BY <1>2, <1>4
          <6>3. left \in Int BY <1>2, <1>4
          <6> QED BY <1>2, <6>1, <6>2, <6>3
        <5>3. left * 0 = w * fraction_four BY <1>2, <5>1
        <5> HIDE DEF w, left
        <5>4. w * fraction_four > 0 BY <1>4, <5>2, ProductSign
        <5> QED BY <5>2, <5>3, <5>4
      <4> QED BY <1>2, <1>5, <4>1
    <3> QED BY <1>2, <1>3, <3>1, <3>2, RootSmall
  <2>2. CASE y = 0 BY <1>3, <1>4, <2>2, 1 < fraction_one
  <2> QED BY <1>11, <2>1, <2>2
<1>13. v \in Int /\ v <= 6 * s + 3 /\ (v >= 1 - 2 * s \/ (s = 1 /\ v >= 0))
  <2>1. CASE y \in 1..q
    BY <1>3, <1>8, <1>9, <2>1
  <2>2. CASE y = 0 /\ s = 1 /\ x >= fraction_two
    <3>1. bits >= 2 BY <1>6, <1>7, <2>2 DEF bits
    <3> QED BY <1>8, <1>9, <2>2, <3>1
  <2> QED BY <1>3, <2>1, <2>2
<1> HIDE DEF v
<1>14. 2 * q = 4 * s BY <1>3
<1>15. PICK t \in Nat \ {0} :
         /\ q' = 2 * t
         /\ y' = v - (t * t - t) + ((2 * s) * (2 * s) - 2 * s)
         /\ y' \in 1..2 * t
         /\ t <= 2 * s + 1
  BY <1>1, <1>3, <1>13, <1>14, AdjustedHolds
<1>16. y' = rest' - t * t + t
  <2>1. (2 * s) * (2 * s) = 4 * (s * s) BY <1>3
  <2>2. s * s \in Int /\ t * t \in Int BY <1>3, <1>15
  <2>3. v = 4 * (rest - s * s + s) + bits - 2 * s BY <1>3, <1>9
  <2> QED BY <1>1, <1>2, <1>8, <1>15, <2>1, <2>2, <2>3
<1>17. InWord'
  <2>1. \A i \in {2 * x, 2 * z, 2 * q, y', q'} : i \in -el_gordo - 1..el_gordo
    BY <1>2, <1>3, <1>4, <1>6, <1>12, <1>15
  <2>2. 2 * first \in -el_gordo - 1..el_gordo /\ 2 * first - q \in -el_gordo - 1..el_gordo
    BY <1>3, <1>4, <1>6, <1>11, <1>12
  <2> QED BY <1>1, <2>1, <2>2 DEF InWord
<1>18. DimensionInv' BY <1>1 DEF IInv, DimensionInv
<1>19. x' \in Int /\ y' \in Int /\ q' \in Int /\ rest' \in Int /\ bit' \in Int /\ pow' \in Int
  BY <1>1, <1>2, <1>4, <1>5, <1>7, <1>8, <1>15
<1>20. CASE bit' # 0
  <2>1. pc' = "root" /\ result' = result /\ arith_error' = arith_error
    BY <1>1, <1>20 DEF Continue
  <2>2. bit' \in 1..root_start BY <1>1, <1>2, <1>4, <1>20
  <2>3. RootCall' BY <1>1, <1>2, <2>2 DEF RootCall
  <2>4. RootInv'
    <3>1. (rest' * fraction_four + x') * pow' = (unity * call'.a) * fraction_four BY <1>1, <1>10
    <3>2. \E i \in Nat \ {0} :
            /\ q' = 2 * i /\ y' = rest' - i * i + i
            /\ \/ y' \in 1..q'
               \/ y' = 0 /\ i = 1 /\ rest' = 0 /\ x' >= fraction_two
      BY <1>15, <1>16
    <3> QED BY <1>7, <1>8, <2>3, <3>1, <3>2 DEF RootInv
  <2>5. TypeOK' BY <1>1, <1>19, <2>1 DEF IInv, TypeOK
  <2>6. CompareInv' /\ ShiftInv' /\ ResultRight'
    BY <2>1 DEF CompareInv, ShiftInv, ResultRight
  <2> QED BY <1>17, <1>18, <2>4, <2>5, <2>6 DEF IInv
<1>21. CASE bit' = 0
  <2>1. pc' = "return" /\ result' = half(q') /\ arith_error' = FALSE
    BY <1>1, <1>2, <1>21 DEF Return
  <2>2. result' = t
    <3>1. (2 * t) \div 2 = t BY <1>15
    <3> QED BY <1>15, <2>1, <3>1 DEF half
  <2>3. rest' = unity * call.a
    <3> DEFINE w == unity * call.a
    <3>1. w \in Nat BY <1>2, <1>4, SMT
    <3>2. pow' = 1 BY <1>1, <1>5, <1>21
    <3>3. (rest' * fraction_four + x') * 1 = w * fraction_four BY <1>10, <3>2
    <3> HIDE DEF w
    <3>4. rest' * fraction_four \in Int /\ w * fraction_four \in Int BY <1>4, <1>8, <3>1
    <3>5. rest' * fraction_four + x' = w * fraction_four BY <1>19, <3>3, <3>4
    <3>6. (w * fraction_four) \div fraction_four = w
      BY <1>4, <3>1, <3>4, w * fraction_four = w * fraction_four + 0, DivUnique
    <3>7. (w * fraction_four) \div fraction_four = rest'
      <4> PICK u \in Nat, k \in 0..fraction_four - 1 : u = rest' /\ k = x' BY <1>7, <1>8
      <4>1. w * fraction_four = u * fraction_four + k BY <3>5
      <4> QED BY <1>4, <3>4, <4>1, DivUnique
    <3> QED BY <3>6, <3>7 DEF w
  <2>4. ResultRight'
    <3> DEFINE w == unity * call.a
    <3>1. call'.routine = "square_rt" /\ call'.a = call.a /\ ~(call.a <= 0) BY <1>1, <1>2
    <3>2. w = rest' /\ t * t \in Int BY <1>15, <2>3
    <3> HIDE DEF w
    <3>3. w <= t * t + t /\ w > t * t - t
      <4> PICK k \in Int : k = t * t BY <3>2
      <4> PICK u \in Nat : u = rest' BY <1>8
      <4>1. y' = u - k + t /\ w = u BY <1>16, <3>2
      <4>2. PICK i \in 1..2 * t : i = y' BY <1>15
      <4>3. i = u - k + t BY <4>1, <4>2
      <4>4. u <= k + t /\ u > k - t BY <4>3, Between, u - k + t \in 1..2 * t
      <4> QED BY <4>1, <4>4
    <3>4. ~arith_error' /\ (IF call'.a <= 0 THEN result' = 0
                            ELSE /\ unity * call'.a <= result' * result' + result'
                                 /\ unity * call'.a > result' * result' - result')
      BY <2>1, <2>2, <3>1, <3>3 DEF w
    <3> QED BY <3>1, <3>4 DEF ResultRight
  <2>5. TypeOK'
    <3>1. result' \in Int BY <1>15, <2>2
    <3> QED BY <1>1, <1>19, <2>1, <3>1 DEF IInv, TypeOK
  <2>6. CompareInv' /\ ShiftInv' /\ RootInv'
    BY <2>1 DEF CompareInv, ShiftInv, RootInv
  <2> QED BY <1>17, <1>18, <2>4, <2>5, <2>6 DEF IInv
<1> QED BY <1>20, <1>21

-----------------------------------------------------------------------------
\* The caller goes on.
LEMMA check_arithHolds ==
  ASSUME IInv, check_arith
  PROVE  IInv'
<1>1. pc' = "idle" /\ call' = No_call /\ computed' = {} BY DEF check_arith
<1>2. call' \in Calls
  <2>1. "none" \in Routines BY DEF Routines
  <2> QED BY <1>1, <2>1, CallType DEF No_call
<1>3. TypeOK'
  <2>1. arith_error' \in BOOLEAN /\ ~arith_error' BY DEF check_arith
  <2>2. /\ q' \in Int /\ a' \in Int /\ b' \in Int
        /\ c' \in Int /\ d' \in Int /\ x' \in Int /\ y' \in Int /\ bit' \in Int
        /\ result' \in Int /\ pow' \in Int /\ rest' \in Int
    BY DEF check_arith
  <2> QED BY <1>1, <1>2, <2>1, <2>2 DEF TypeOK
<1>4. CompareInv' /\ ShiftInv' /\ RootInv' /\ ResultRight'
  BY <1>1 DEF CompareInv, ShiftInv, RootInv, ResultRight
<1>5. InWord' /\ DimensionInv' BY <1>1 DEF InWord, DimensionInv, No_call
<1> QED BY <1>3, <1>4, <1>5 DEF IInv

LEMMA InitHolds ==
  ASSUME ArithInit
  PROVE  IInv
<1>1. pc = "idle" /\ call = No_call /\ computed = {} BY DEF ArithInit
<1>2. call \in Calls
  <2>1. "none" \in Routines BY DEF Routines
  <2> QED BY <1>1, <2>1, CallType DEF No_call
<1>3. TypeOK
  <2>1. arith_error \in BOOLEAN /\ ~arith_error BY DEF ArithInit
  <2>2. /\ q \in Int /\ a \in Int /\ b \in Int
        /\ c \in Int /\ d \in Int /\ x \in Int /\ y \in Int /\ bit \in Int
        /\ result \in Int /\ pow \in Int /\ rest \in Int
    BY DEF ArithInit
  <2> QED BY <1>1, <1>2, <2>1, <2>2 DEF TypeOK
<1>4. CompareInv /\ ShiftInv /\ RootInv /\ ResultRight
  BY <1>1 DEF CompareInv, ShiftInv, RootInv, ResultRight
<1>5. InWord /\ DimensionInv BY <1>1 DEF InWord, DimensionInv, No_call
<1> QED BY <1>3, <1>4, <1>5 DEF IInv

LEMMA StepHolds ==
  ASSUME IInv, [ArithNext]_arithVars
  PROVE  IInv'
<1>1. CASE slow_add BY <1>1, slow_addHolds
<1>2. CASE make_fraction BY <1>2, make_fractionHolds
<1>3. CASE dimen_out BY <1>3, dimen_outHolds
<1>4. CASE take_fraction BY <1>4, take_fractionHolds
<1>9. CASE ab_vs_cd BY <1>9, ab_vs_cdHolds
<1>10. CASE Compare BY <1>10, CompareHolds
<1>11. CASE square_rt BY <1>11, square_rtHolds
<1>12. CASE Shift BY <1>12, ShiftHolds
<1>13. CASE Root_bit BY <1>13, RootBitHolds
<1>14. CASE check_arith BY <1>14, check_arithHolds
<1>15. CASE UNCHANGED arithVars
  <2>1. /\ UNCHANGED <<pc, call, a, b, c, d, x, y, q, bit>>
        /\ UNCHANGED <<result, arith_error, computed, pow, rest>>
    BY <1>15 DEF arithVars, products, roots, ghosts
  <2>2. TypeOK' /\ InWord' /\ DimensionInv'
    BY <2>1 DEF IInv, TypeOK, InWord, DimensionInv
  <2>5. CompareInv' /\ ShiftInv' /\ RootInv'
    BY <2>1 DEF IInv, CompareInv, ShiftInv, RootInv, RootCall
  <2>6. ResultRight' BY <2>1 DEF IInv, ResultRight, Delivered
  <2> QED BY <2>2, <2>5, <2>6 DEF IInv
<1> QED
  BY <1>1, <1>2, <1>3, <1>4, <1>9, <1>10, <1>11, <1>12, <1>13, <1>14, <1>15
  DEF ArithNext

-----------------------------------------------------------------------------
\* A quotient is less than a bound that is larger by half a unit than the exact one.
LEMMA NearestBelow ==
  ASSUME NEW num \in Nat, NEW den \in Nat \ {0}, NEW top \in Nat,
         2 * num + den < top * (2 * den)
  PROVE  Nearest(num, den) < top
<1> DEFINE sum == 2 * num + den  twice == 2 * den  z == sum \div twice
<1>1. sum \in Nat /\ twice \in Nat \ {0} BY SMT
<1> HIDE DEF sum, twice
<1>2. z \in Nat /\ sum % twice \in Nat /\ sum = z * twice + (sum % twice) BY <1>1, DivMod
<1> PICK r \in Nat : sum = z * twice + r BY <1>2
<1> HIDE DEF z
<1>3. sum < top * twice BY DEF sum, twice
<1>4. ASSUME top <= z PROVE FALSE
  <2>1. top * twice <= z * twice BY <1>1, <1>2, <1>4, Mono
  <2>2. top * twice \in Int /\ z * twice \in Int BY <1>1, <1>2
  <2> QED BY <1>1, <1>3, <2>1, <2>2
<1>5. z < top BY <1>2, <1>4
<1> QED BY <1>5 DEF z, sum, twice, Nearest

\* The design size bounds a dimension so that the quotient fits.
LEMMA DimensionsSmall ==
  ASSUME IInv
  PROVE  DimensionFits
<1> SUFFICES ASSUME call.routine = "dimen_out"
             PROVE  /\ call.a \in -el_gordo..el_gordo
                    /\ pc = "return" => ~arith_error /\ Abs(result) < sixteen * sixteen * unity
  BY DEF DimensionFits
<1> DEFINE den == call.c
<1>1. /\ call.unit = unity /\ den \in unity..Dimen_top - 1
      /\ \E v \in Int : call.a = sixteen * v /\ Abs(v) <= max_tfm_dimen(den)
  BY DEF IInv, DimensionInv
<1>2. PICK v \in Int : call.a = sixteen * v /\ Abs(v) <= max_tfm_dimen(den)
  BY <1>1
<1>3. /\ el_gordo \in Nat /\ unity \in Nat \ {0, 1} /\ sixteen \in Nat \ {0, 1}
      /\ el_gordo + 1 = sixteen * Dimen_top /\ Dimen_top \in Int
  BY Constants, WordAssumption DEF WordAssumption, Dimen_top
<1> DEFINE s == Abs(v)  h == den \div (2 * sixteen * unity)
<1>4. s \in Nat BY DEF Abs
<1>5. den \in Nat \ {0} /\ den >= unity BY <1>1, <1>3
<1>6. s <= sixteen * den - 1 - h /\ s <= Dimen_top - 1
  <2> DEFINE max == sixteen * den - 1 - h
  <2>1. s <= (IF max >= Dimen_top THEN Dimen_top - 1 ELSE max) BY <1>2 DEF max_tfm_dimen
  <2>2. h \in Int
    <3>1. 2 * sixteen * unity \in Nat \ {0} BY <1>3
    <3> QED BY <1>5, <3>1
  <2>3. max \in Int BY <1>3, <1>5, <2>2
  <2> HIDE DEF max, h, s
  <2>4. s <= max /\ s <= Dimen_top - 1 BY <1>3, <1>4, <2>1, <2>3
  <2> QED BY <2>4 DEF max
<1> HIDE DEF s, den
<1>7. Abs(call.a) = sixteen * s /\ sixteen * s \in Nat
  <2>1. CASE v < 0
    <3>1. sixteen * v <= 0 /\ -(sixteen * v) = sixteen * (-v) BY <1>3, <2>1
    <3> QED BY <1>2, <1>3, <2>1, <3>1 DEF Abs, s
  <2>2. CASE v >= 0
    <3>1. sixteen * v >= 0 BY <1>3, <2>2
    <3> QED BY <1>2, <1>3, <2>2, <3>1 DEF Abs, s
  <2> QED BY <2>1, <2>2
<1>8. sixteen * s <= el_gordo
  <2>1. s * sixteen <= (Dimen_top - 1) * sixteen BY <1>3, <1>4, <1>6, Mono
  <2>2. (Dimen_top - 1) * sixteen = sixteen * Dimen_top - sixteen BY <1>3
  <2>3. s * sixteen = sixteen * s BY <1>3, <1>4
  <2> QED BY <1>3, <1>7, <2>1, <2>2, <2>3
<1>9. call.a \in -el_gordo..el_gordo
  <2>1. call.a \in Int BY <1>2, <1>3
  <2> QED BY <1>3, <1>7, <1>8, <2>1 DEF Abs
<1> DEFINE num == unity * (sixteen * s)
<1>10. num \in Nat BY <1>3, <1>7
<1>11. Nearest(num, den) < sixteen * sixteen * unity
  <2> DEFINE k == 2 * sixteen * unity
  <2>1. k \in Nat \ {0} BY <1>3
  <2>2. h \in Nat /\ den < (h + 1) * k
    <3> HIDE DEF k
    <3>1. den \div k \in Nat /\ den % k \in 0..k - 1 /\ den = (den \div k) * k + (den % k)
      BY <1>5, <2>1, DivMod
    <3>2. PICK r \in 0..k - 1 : den = (den \div k) * k + r BY <3>1
    <3>3. PICK i \in Nat : i = den \div k BY <3>1
    <3>4. den < (i + 1) * k BY <1>5, <2>1, <3>2, <3>3
    <3> QED BY <3>3, <3>4 DEF k
  <2> HIDE DEF h
  <2>3. s + 1 + h <= sixteen * den BY <1>3, <1>4, <1>5, <1>6, <2>2
  <2>4. (s + 1 + h) * k <= (sixteen * den) * k BY <1>3, <1>4, <1>5, <2>1, <2>2, <2>3, Mono
  <2> HIDE DEF k
  <2>5. s * k + den < (sixteen * den) * k
    <3>1. (s + 1 + h) * k = s * k + (h + 1) * k BY <1>4, <2>1, <2>2
    <3>2. s * k \in Int /\ (h + 1) * k \in Int /\ (sixteen * den) * k \in Int
      BY <1>3, <1>4, <1>5, <2>1, <2>2
    <3> QED BY <1>5, <2>2, <2>4, <3>1, <3>2
  <2>6. 2 * num = s * k BY <1>3, <1>4 DEF k
  <2>7. (sixteen * sixteen * unity) * (2 * den) = (sixteen * den) * k BY <1>3, <1>5 DEF k
  <2>8. sixteen * sixteen * unity \in Nat BY <1>3
  <2> HIDE DEF num
  <2> QED BY <1>5, <1>10, <2>5, <2>6, <2>7, <2>8, NearestBelow
<1>12. Nearest(num, den) \in Nat /\ Nearest(num, den) <= el_gordo
  <2> DEFINE a0 == sixteen * s
  <2>1. 2 * num + den < (a0 + 1) * (2 * den)
    <3>1. unity * a0 <= den * a0 BY <1>3, <1>5, <1>7, Mono
    <3> HIDE DEF a0
    <3>2. a0 \in Nat BY <1>7 DEF a0
    <3>3. (a0 + 1) * (2 * den) = 2 * (den * a0) + 2 * den BY <1>5, <3>2
    <3>4. num = unity * a0 BY DEF a0
    <3>5. den * a0 \in Int /\ unity * a0 \in Int BY <1>3, <1>5, <3>2
    <3> HIDE DEF num
    <3> QED BY <1>5, <3>1, <3>3, <3>4, <3>5
  <2>2. a0 + 1 \in Nat BY <1>7
  <2>3. Nearest(num, den) < a0 + 1
    <3> HIDE DEF num, a0
    <3> QED BY <1>5, <1>10, <2>1, <2>2, NearestBelow
  <2>4. Nearest(num, den) \in Nat
    <3>1. 2 * num + den \in Nat /\ 2 * den \in Nat \ {0} BY <1>5, <1>10
    <3> HIDE DEF num
    <3> QED BY <3>1, DivMod DEF Nearest
  <2> QED BY <1>3, <1>7, <1>8, <2>3, <2>4
<1>13. ASSUME pc = "return" PROVE ~arith_error /\ Abs(result) < sixteen * sixteen * unity
  <2>1. Delivered(Nearest(call.unit * Abs(call.a), Abs(call.c)))
    BY <1>13 DEF IInv, ResultRight
  <2>2. call.unit * Abs(call.a) = num /\ Abs(call.c) = den
    BY <1>1, <1>5, <1>7 DEF Abs, den
  <2>3. PICK w \in Nat : w = Nearest(num, den) BY <1>12
  <2>4. Delivered(w) BY <2>1, <2>2, <2>3
  <2>5. ~(w > el_gordo) BY <1>3, <1>12, <2>3
  <2>6. ~arith_error /\ result \in {w, -w} BY <2>4, <2>5 DEF Delivered
  <2>7. Abs(result) = w BY <2>6 DEF Abs
  <2> QED BY <1>11, <2>3, <2>6, <2>7
<1> QED BY <1>9, <1>13

-----------------------------------------------------------------------------
LEMMA AlwaysIInv == ArithSpec => []IInv
<1>1. ArithInit => IInv BY InitHolds
<1>2. IInv /\ [ArithNext]_arithVars => IInv' BY StepHolds
<1> QED BY <1>1, <1>2, PTL DEF ArithSpec

\* Every routine returns the exact result, rounded as its comment says, or sets
\* arith_error when that result does not fit (mf.web 2088-2482).
THEOREM ArithmeticExact == ArithSpec => []ResultRight
<1>1. IInv => ResultRight BY DEF IInv
<1> QED BY <1>1, AlwaysIInv, PTL

\* No integer that the compiled routines compute on their way overflows the word, in
\* sums (mf.web 2117, 2464), masked products (mfextra.c 2318-2419) and scaling (mf.web 21528).
THEOREM ArithmeticInWord == ArithSpec => []InWord
<1>1. IInv => InWord BY DEF IInv
<1> QED BY <1>1, AlwaysIInv, PTL

\* What dimen_out divides fits, and its result is less than three_bytes (mf.web 21528).
THEOREM DimensionsFit == ArithSpec => []DimensionFits
<1>1. IInv => DimensionFits BY DimensionsSmall
<1> QED BY <1>1, AlwaysIInv, PTL
=============================================================================
