----------------------------- MODULE Arithmetic -----------------------------
(***************************************************************************)
(* Fixed-point arithmetic that must be exact, and must not overflow on the *)
(* way: sums, comparison of products and square roots as in mf.web         *)
(* 2085-2508; quotients and products of fractions and scaled numbers by    *)
(* the floating-point routines of mfextra.c, which the program is compiled *)
(* with; and the widths in the font metric file, computed by a quotient.   *)
(* One action is one pass of a loop.  All constants of the code are        *)
(* parameters, so that TLC can try a narrow word and the proofs hold for   *)
(* the real one.                                                           *)
(*                                                                         *)
(* A double is a whole number of grains, 1/grain each, with as many        *)
(* significant bits as mantissa allows.  pow and rest are ghosts: the      *)
(* exponents of the comments' invariants.                                  *)
(***************************************************************************)
EXTENDS Word, Integers

CONSTANTS
    fraction_one, unity,        \* 2^28, 2^16
    mantissa, grain,            \* 2^53; as fine as one likes
    Powers,                     \* powers of two: what the last bit of a double may mean
    low, make_test, take_test,  \* 2^15, 2^11, 2^14: the masks of mfextra.c
    sixteen,                    \* dimen_out's scale: el_gordo + 1 = sixteen * 2^27
    default_size,               \* 128pt
    root_start, Four_to,        \* 23, and the powers of four up to it
    Args, Few                   \* bounds: the arguments that are tried; four of them

half(v) == v \div 2
fraction_two == 2 * fraction_one
fraction_four == 4 * fraction_one
Units == {fraction_one, unity}
Top(unit) == (el_gordo + 1) \div unit       \* 8, and 32768
Dimen_top == (el_gordo + 1) \div sixteen    \* fraction_half

ASSUME WordAssumption ==
    /\ el_gordo \in Nat /\ Units \subseteq Nat \ {0, 1} /\ 2 * unity < fraction_one
    /\ el_gordo + 1 = 8 * fraction_one /\ el_gordo + 1 = unity * Top(unity)
    /\ sixteen \in Nat \ {0, 1} /\ el_gordo + 1 = sixteen * Dimen_top
    /\ default_size \in unity..Dimen_top - 1
    /\ Args \subseteq -el_gordo..el_gordo /\ Few \subseteq Args

\* The doubles tell halves of integers apart up to 2^32, and are so dense that their
\* errors stay below the bits that the routines look at: 2^52 is enough for that.
ASSUME DoubleAssumption ==
    /\ Powers \subseteq Nat \ {0} /\ half(grain) \in Powers
    /\ \A v, w \in Powers : v <= w => w % v = 0
    /\ grain = 2 * half(grain) /\ \A unit \in Units : grain % unit = 0
    /\ mantissa \in Nat /\ mantissa = 2 * half(mantissa) /\ mantissa >= 8 * (el_gordo + 1)
    /\ {low, make_test, take_test} \subseteq Nat \ {0}
    /\ low % (2 * make_test) = 0 /\ low % (2 * take_test) = 0
    /\ low * low <= el_gordo + 1 /\ \A unit \in Units : unit % (2 * low) = 0
    /\ 16 * (fraction_one * (el_gordo + 1)) <= mantissa * make_test
    /\ 16 * (fraction_one * (el_gordo + 1)) <= mantissa * take_test
    /\ 4 * (el_gordo + 1) <= grain * make_test

ASSUME RootAssumption ==
    /\ root_start \in Nat \ {0} /\ Four_to \in [0..root_start -> Nat]
    /\ Four_to[0] = 1
    /\ \A i \in 0..root_start - 1 : Four_to[i + 1] = 4 * Four_to[i]
    /\ Four_to[root_start] = fraction_four * unity

VARIABLES
    pc, call,                   \* the loop that is under way; the routine and its arguments
    a, b, c, d,                 \* ab_vs_cd
    x, y, q, bit,               \* square_rt; bit is its k
    result, arith_error,
    computed,                   \* the integers that the last step computed on its way
    pow, rest

products == <<a, b, c, d>>
roots == <<x, y, q, bit>>
ghosts == <<pow, rest>>
arithVars == <<pc, call, products, roots, result, arith_error, computed, ghosts>>

-----------------------------------------------------------------------------
Abs(v) == IF v < 0 THEN -v ELSE v
Signed(v, minus) == IF minus THEN -v ELSE v
Sign(v) == IF v > 0 THEN 1 ELSE IF v < 0 THEN -1 ELSE 0

No_call == [routine |-> "none", unit |-> 1, a |-> 0, b |-> 0, c |-> 0, d |-> 0]

ArithInit ==
    /\ pc = "idle" /\ call = No_call
    /\ a = 0 /\ b = 0 /\ c = 0 /\ d = 0 /\ x = 0 /\ y = 0 /\ q = 0 /\ bit = 0
    /\ result = 0 /\ arith_error = FALSE /\ computed = {}
    /\ pow = 1 /\ rest = 0

Return(v, error) ==
    /\ pc' = "return" /\ result' = v /\ arith_error' = (arith_error \/ error)

Continue(label) == pc' = label /\ UNCHANGED <<result, arith_error>>

Called(routine, unit, v, w, s, t) ==
    /\ pc = "idle"
    /\ call' = [routine |-> routine, unit |-> unit, a |-> v, b |-> w, c |-> s, d |-> t]

\* The caller goes on, and the locals are gone; check_arith, sooner or later,
\* reports the error and clears it.
check_arith ==
    /\ pc = "return" /\ pc' = "idle" /\ call' = No_call
    /\ a' = 0 /\ b' = 0 /\ c' = 0 /\ d' = 0 /\ x' = 0 /\ y' = 0 /\ q' = 0 /\ bit' = 0
    /\ result' = 0 /\ arith_error' = FALSE /\ computed' = {}
    /\ pow' = 1 /\ rest' = 0

-----------------------------------------------------------------------------
\* The test of slow_add, then the sum: there is an error if it does not fit.
Fits_Sum(v, w) == [good |-> Abs(v + w) <= el_gordo, steps |-> {v + w}]
Fits(v, w) ==
    IF v >= 0 THEN [good |-> w <= el_gordo - v, steps |-> {el_gordo - v}]
              ELSE [good |-> -w <= el_gordo + v, steps |-> {-w, el_gordo + v}]

slow_add ==
    /\ \E v, w \in Args :
          /\ Called("slow_add", 1, v, w, 0, 0)
          /\ LET fits == Fits(v, w) IN
             IF fits.good
             THEN Return(v + w, FALSE) /\ computed' = fits.steps \cup {v + w}
             ELSE Return(IF v >= 0 THEN el_gordo ELSE -el_gordo, TRUE) /\ computed' = fits.steps
    /\ UNCHANGED <<products, roots, ghosts>>

-----------------------------------------------------------------------------
\* What the last of the bits of a double may mean, if it is z grains and a fraction.
Spacings(z) == {w \in Powers : z < mantissa * w /\ (w = 1 \/ mantissa * w <= 2 * z)}

\* An operation on doubles: num / den grains itself if that is a double, or else a
\* double next to it.
Rounded(num, den) ==
    LET z == num \div den
        Next_to(w) == LET below == z - (z % w)
                      IN IF below * den = num THEN {below} ELSE {below, below + w}
    IN  UNION {Next_to(w) : w \in Spacings(z)}

\* num / den, then with 0.5 added.
With_half(num, den) == UNION {Rounded(s + half(grain), 1) : s \in Rounded(num, den)}

\* 2^31, which is too large, in grains.
TWEXP31 == (el_gordo + 1) * grain

\* The conversion of s to an integer, but one less (in absolute value) if s is whole
\* and the exact value below it.
Truncated(s, below) == IF s % grain = 0 /\ below THEN s \div grain - 1 ELSE s \div grain

\* The bit of a number in two's complement.
Bit_set(v, test) == (v \div test) % 2 = 1

\* The low bits of 2(unit v) - (2i - 1)den, whose test bit is set if it is negative; a negative
\* result is treated like its opposite.
Make_check_Above(den, i, minus) ==  \* the half above i instead of that below
    IF minus THEN (Abs(den) % low) * (2 * (i % half(low)) - 1)
             ELSE ((-Abs(den)) % low) * (2 * (i % half(low)) + 1)
Make_check(den, i, minus) ==
    IF minus THEN (Abs(den) % low) * (2 * (i % half(low)) + 1)
             ELSE ((-Abs(den)) % low) * (2 * (i % half(low)) - 1)

\* make_fraction and make_scaled: |unit| is 1 in the result.
Divide(routine, unit, v, den, steps) ==
    LET minus == (v < 0) # (den < 0) IN
    /\ Called(routine, unit, v, 0, den, 0)
    /\ \E s \in With_half((unit * Abs(v)) * grain, Abs(den)) :
          LET check == Make_check(den, Signed(s \div grain, minus), minus) IN
          IF s >= TWEXP31
          THEN Return(Signed(el_gordo, minus), TRUE) /\ computed' = steps
          ELSE /\ Return(Signed(Truncated(s, Bit_set(check, make_test)), minus), FALSE)
               /\ computed' = steps \cup {check, result'}
    /\ UNCHANGED <<products, roots, ghosts>>

make_fraction ==
    \E unit \in Units, v \in Args, w \in Args \ {0} : Divide("make_fraction", unit, v, w, {})

\* The low bits of vw, likewise.
Take_check_Product(v, w, minus) == (v % low) * (w % low)
Take_check(v, w, minus) == Signed((v % low) * (w % low), minus)

\* take_fraction and take_scaled.  2^31 itself may stand for a product just below.
take_fraction ==
    /\ \E unit \in Units, v, w \in Args :
          LET minus == (v < 0) # (w < 0)
              check == Take_check(v, w, minus)
              below == Bit_set(check, take_test)
          IN
          /\ Called("take_fraction", unit, v, 0, w, 0)
          /\ \E s \in With_half((Abs(v) * Abs(w)) * (grain \div unit), 1) :
                IF s >= TWEXP31
                THEN /\ Return(Signed(el_gordo, minus), s # TWEXP31 \/ ~below)
                     /\ computed' = {check}
                ELSE /\ Return(Signed(Truncated(s, below), minus), FALSE)
                     /\ computed' = {check, result'}
    /\ UNCHANGED <<products, roots, ghosts>>

-----------------------------------------------------------------------------
\* The design size that the metric file gets, and the largest dimension in it.
fix_design_size(size) == IF size \in unity..Dimen_top - 1 THEN size ELSE default_size
max_tfm_dimen_Short(size) ==        \* without the last term
    LET max == sixteen * size - 1
    IN  IF max >= Dimen_top THEN Dimen_top - 1 ELSE max
max_tfm_dimen_Free(size) == sixteen * size - 1 - size \div (2 * sixteen * unity)
max_tfm_dimen(size) ==
    LET max == sixteen * size - 1 - size \div (2 * sixteen * unity)
    IN  IF max >= Dimen_top THEN Dimen_top - 1 ELSE max

dimen_out ==
    \E v, w \in Args :
        LET size == fix_design_size(w)  max == max_tfm_dimen(size)
            dimen == IF Abs(v) <= max THEN v ELSE IF v > 0 THEN max ELSE -max
        IN  Divide("dimen_out", unity, sixteen * dimen, size, {sixteen * size, sixteen * dimen})

-----------------------------------------------------------------------------
\* ab_vs_cd: the sign of ab - cd.  First a, c >= 0 and b, d > 0.
ab_vs_cd ==
    /\ \E s, t, u, v \in Few :
          LET aa == Abs(s)  bb == IF s < 0 THEN -t ELSE t
              cc == Abs(u)  dd == IF u < 0 THEN -v ELSE v
              Keep(r) == Return(r, FALSE) /\ a' = aa /\ b' = bb /\ c' = cc /\ d' = dd
          IN
          /\ Called("ab_vs_cd", 1, s, t, u, v)
          /\ \/ /\ dd <= 0 /\ bb >= 0
                /\ Keep(IF (aa = 0 \/ bb = 0) /\ (cc = 0 \/ dd = 0) THEN 0 ELSE 1)
             \/ dd = 0 /\ bb < 0 /\ Keep(IF aa = 0 THEN 0 ELSE -1)
             \/ /\ dd < 0 /\ bb < 0 /\ Continue("compare")
                /\ a' = cc /\ b' = -dd /\ c' = aa /\ d' = -bb
             \/ /\ dd > 0 /\ bb <= 0
                /\ Keep(IF (bb = 0 \/ aa = 0) /\ cc = 0 THEN 0 ELSE -1)
             \/ /\ dd > 0 /\ bb > 0 /\ Continue("compare")
                /\ a' = aa /\ b' = bb /\ c' = cc /\ d' = dd
          /\ computed' = {bb, dd}
    /\ UNCHANGED <<roots, ghosts>>

\* The verdict on the remainders when the quotients are equal; 2 if it is open.
Verdict_Swapped(s, t) == IF s = 0 THEN (IF t = 0 THEN 0 ELSE 1) ELSE IF t = 0 THEN -1 ELSE 2
Verdict(s, t) == IF t = 0 THEN (IF s = 0 THEN 0 ELSE 1) ELSE IF s = 0 THEN -1 ELSE 2

Compare ==
    /\ pc = "compare"
    /\ LET verdict == IF a \div d # c \div b THEN Sign(a \div d - c \div b)
                      ELSE Verdict(a % d, c % b)
       IN  IF verdict # 2
           THEN Return(verdict, FALSE) /\ UNCHANGED products
           ELSE Continue("compare") /\ a' = b /\ b' = a % d /\ c' = d /\ d' = c % b
    /\ computed' = {}
    /\ UNCHANGED <<call, roots, ghosts>>

-----------------------------------------------------------------------------
\* square_rt: pow is 4^bit, rest the integer part of unity x0 / 4^bit.
square_rt ==
    /\ \E v \in Args :
          /\ Called("square_rt", unity, v, 0, 0, 0)
          /\ IF v <= 0
             THEN Return(0, FALSE) /\ UNCHANGED <<x, bit, q>>    \* and an error message if v < 0
             ELSE Continue("shift") /\ x' = v /\ bit' = root_start /\ q' = 2
    /\ computed' = {} /\ pow' = Four_to[root_start] /\ rest' = 0
    /\ UNCHANGED <<products, y>>

Shift ==
    /\ pc = "shift"
    /\ IF x < fraction_two
       THEN /\ Continue("shift") /\ bit' = bit - 1 /\ x' = x + x + x + x
            /\ computed' = {x + x, x + x + x, x'} /\ pow' = Four_to[bit']
            /\ UNCHANGED <<y, q, rest>>
       ELSE /\ Continue("root")
            /\ y' = IF x < fraction_four THEN 0 ELSE 1
            /\ x' = x - fraction_four * y' /\ computed' = {x'} /\ rest' = y'
            /\ UNCHANGED <<q, bit, pow>>
    /\ UNCHANGED <<call, products>>

\* The next digit of x, and x without it.
Bit(v) == IF 2 * v >= fraction_four THEN 1 ELSE 0
Without(v) == 2 * v - fraction_four * Bit(v)

\* One more bit of the root, s = q / 2: y = rest - s^2 + s is kept in 1..q.
Adjusted_Below(v, w) ==             \* y is never 0, it is hoped
    IF v > w THEN [y |-> v - w, q |-> w + 2]
    ELSE IF v < 0 THEN [y |-> v + w - 2, q |-> w - 2] ELSE [y |-> v, q |-> w]
Adjusted(v, w) ==
    IF v > w THEN [y |-> v - w, q |-> w + 2]
    ELSE IF v <= 0 THEN [y |-> v + w - 2, q |-> w - 2] ELSE [y |-> v, q |-> w]

Root_bit ==
    /\ pc = "root"
    /\ LET bits == 2 * Bit(x) + Bit(Without(x))
           first == 2 * y + Bit(x)
           next == Adjusted(2 * first - q + Bit(Without(x)), 2 * q)
       IN  /\ x' = Without(Without(x)) /\ y' = next.y /\ q' = next.q
           /\ rest' = 4 * rest + bits
           /\ computed' = {2 * x, 2 * Without(x), 2 * first, 2 * first - q, 2 * q, y', q'}
           /\ bit' = bit - 1 /\ pow' = Four_to[bit']
           /\ IF bit' = 0 THEN Return(half(q'), FALSE) ELSE Continue("root")
    /\ UNCHANGED <<call, products>>

-----------------------------------------------------------------------------
ArithNext ==
    \/ slow_add \/ make_fraction \/ take_fraction \/ dimen_out
    \/ ab_vs_cd \/ Compare \/ square_rt \/ Shift \/ Root_bit
    \/ check_arith

ArithSpec == ArithInit /\ [][ArithNext]_arithVars

-----------------------------------------------------------------------------
\* num / den to the nearest integer, halves upward.
Nearest(num, den) == (2 * num + den) \div (2 * den)

\* The result for the absolute value v, and whether it is an error.
Delivered(v) ==
    LET size == IF v > el_gordo THEN el_gordo ELSE v IN
    /\ arith_error <=> v > el_gordo
    /\ result = IF (call.a < 0) # (call.c < 0) THEN -size ELSE size

\* What a routine returns is what the comments promise (mf.web 2088-2482):
\* quotient and product to the nearest unit, halves away from zero, although they are
\* made with rounded doubles (mfextra.c 2285-2289: they agree exactly); the sign
\* of a difference of products that need not fit in a word; the nearest
\* integer to 2^8 times the root; the sum.  If the result does not fit, and only then,
\* arith_error is set and the result is the largest number of its sign.
ResultRight ==
    pc = "return" =>
        CASE call.routine = "slow_add" ->
                LET sum == call.a + call.b IN
                /\ arith_error <=> Abs(sum) > el_gordo
                /\ result = IF arith_error THEN Sign(sum) * el_gordo ELSE sum
          [] call.routine \in {"make_fraction", "dimen_out"} ->
                Delivered(Nearest(call.unit * Abs(call.a), Abs(call.c)))
          [] call.routine = "take_fraction" ->
                Delivered(Nearest(Abs(call.a) * Abs(call.c), call.unit))
          [] call.routine = "ab_vs_cd" ->
                ~arith_error /\ result = Sign(call.a * call.b - call.c * call.d)
          [] call.routine = "square_rt" ->
                /\ ~arith_error
                /\ IF call.a <= 0 THEN result = 0
                   ELSE /\ unity * call.a <= result * result + result
                        /\ unity * call.a > result * result - result

\* No step computes an integer on its way that would not fit in a word: sums and
\* differences in slow_add and square_rt (mf.web 2117, 2464), the products of masked
\* bits (mfextra.c 2318-2419), 16 times a design size or a dimension (mf.web 21528).
InWord == computed \subseteq -el_gordo - 1..el_gordo

\* A dimension in the metric file is less than three_bytes, 2^24, for every
\* design size (mf.web 21528): its first byte is 0 or 255.
DimensionFits ==
    /\ call.routine = "dimen_out" => call.a \in -el_gordo..el_gordo
    /\ pc = "return" /\ call.routine = "dimen_out" =>
          ~arith_error /\ Abs(result) < sixteen * sixteen * unity
=============================================================================
