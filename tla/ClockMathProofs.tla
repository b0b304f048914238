--------------------------- MODULE ClockMathProofs --------------------------
(***************************************************************************)
(* What the operators of ClockMath compute, for any word and any length of *)
(* a second, as lemmas that PhcClockProofs uses too, and what ClockSweep   *)
(* states of every value of a counter.                                     *)
(***************************************************************************)
EXTENDS ClockSweep, TLAPS

-----------------------------------------------------------------------------
(* Products and quotients *)

LEMMA Products ==
    /\ \A i, j \in Int : i * j \in Int /\ i * j = j * i
    /\ \A i, j \in Nat : i * j \in Nat
  OBVIOUS

LEMMA Distributes ==
    \A i, j, k \in Int : (i + j) * k = i * k + j * k /\ (i - j) * k = i * k - j * k
  OBVIOUS

LEMMA Exchanges == \A i, j, k \in Int : (i * j) * k = (i * k) * j
  OBVIOUS

LEMMA Grows ==
    \A i, j \in Int, k \in Nat : /\ i <= j => i * k <= j * k
                                 /\ i < j /\ k > 0 => i * k < j * k
  OBVIOUS

LEMMA Division ==
    ASSUME NEW x \in Int, NEW m \in Nat \ {0}
    PROVE  /\ x \div m \in Int /\ x % m \in Nat /\ x % m < m
           /\ x = (x \div m) * m + (x % m)
           /\ x >= 0 => x \div m \in Nat
  OBVIOUS

\* The quotient is the only number whose multiple lies less than m below x.
LEMMA Floor ==
    ASSUME NEW x \in Int, NEW m \in Nat \ {0}, NEW q \in Int,
           q * m <= x, x < q * m + m
    PROVE  x \div m = q /\ x % m = x - q * m
  OBVIOUS

\* A product may be divided in two parts, split where its factor is divided.
LEMMA Splits ==
    ASSUME NEW n \in Nat, NEW src \in Nat \ {0}, NEW dst \in Nat
    PROVE  LET part == (n % src) * dst
           IN /\ n \div src \in Nat /\ (n \div src) * dst \in Nat
              /\ part \in Nat /\ part \div src \in Nat /\ part % src \in Nat
              /\ part <= src * dst /\ (dst > 0 => part < src * dst)
              /\ (n * dst) \div src = (n \div src) * dst + part \div src
              /\ (n * dst) % src = part % src
<1> DEFINE seconds == n \div src
           sub == n % src
           part == sub * dst
           scaled == part \div src
           rest == part % src
           whole == seconds * dst
           total == whole + scaled
<1>1. /\ seconds \in Nat /\ sub \in Nat /\ sub < src /\ n = seconds * src + sub
      /\ part \in Nat /\ whole \in Nat
  BY Division, Products
<1>2. part <= src * dst /\ (dst > 0 => part < src * dst)
  BY <1>1, Grows
<1>3. /\ scaled \in Nat /\ rest \in Nat /\ rest < src
      /\ part = scaled * src + rest /\ scaled * src \in Nat
  BY <1>1, Division, Products
<1>4. n * dst = total * src + rest /\ n * dst \in Nat
  <2>1. seconds * src \in Nat /\ n * dst = (seconds * src) * dst + sub * dst
    BY <1>1, Products, Distributes
  <2>2. (seconds * src) * dst = whole * src
    BY <1>1, Exchanges
  <2>3. total * src = whole * src + scaled * src
    BY <1>1, <1>3, Distributes
  <2>4. whole * src \in Nat
    BY <1>1, Products
  <2> QED
    BY <1>1, <1>3, <2>1, <2>2, <2>3, <2>4
<1> HIDE DEF seconds, sub, part, scaled, rest, whole
<1>5. (n * dst) \div src = total /\ (n * dst) % src = rest
  <2>1. total * src \in Nat /\ total \in Nat
    BY <1>1, <1>3, Products
  <2> DEFINE x == n * dst
             t == total
             p == t * src
  <2>2. x \in Int /\ t \in Int /\ p \in Nat /\ x = p + rest
    BY <1>4, <2>1
  <2> HIDE DEF x, t
  <2>3. t * src <= x /\ x < t * src + src
    BY <1>3, <2>2
  <2>4. x \div src = t /\ x % src = x - t * src
    BY <2>2, <2>3, Floor
  <2> QED
    BY <1>3, <2>2, <2>4 DEF x, t
<1> QED
  BY <1>1, <1>2, <1>3, <1>5 DEF seconds, sub, part, scaled, rest, whole

\* A quotient exceeds the limit divided by a factor when the product does.
LEMMA Exceeds ==
    ASSUME NEW q \in Nat, NEW limit \in Nat, NEW m \in Nat \ {0}
    PROVE  q > limit \div m <=> q * m > limit
<1> DEFINE d == limit \div m
<1>1. d \in Nat /\ limit % m \in Nat /\ limit % m < m /\ limit = d * m + (limit % m)
  <2>1. limit \in Int /\ limit >= 0
    OBVIOUS
  <2> QED
    BY <2>1, Division, Zenon
<1> HIDE DEF d
<1>2. d * m \in Nat /\ q * m \in Nat /\ (d + 1) * m = d * m + m
  BY <1>1, Products, Distributes
<1>3. q > d => q * m >= (d + 1) * m
  BY <1>1, Grows
<1>4. q <= d => q * m <= d * m
  BY <1>1, Grows
<1> QED
  BY <1>1, <1>2, <1>3, <1>4 DEF d

\* What the assumptions say of the word.
LEMMA WordTypes ==
    /\ NsecPerSec \in Nat \ {0} /\ Word \in Nat /\ Word > NsecPerSec
    /\ S64Max \in Nat /\ 2 * S64Max + 2 <= Word /\ Word <= 2 * S64Max + 3
    /\ S64Min \in Int /\ S64Min = -S64Max - 1
    /\ SafeTime \in Nat
<1>1. NsecPerSec \in Nat \ {0} /\ Word \in Nat /\ Word > NsecPerSec /\ SafeTime \in Nat
  BY MathAssumption
<1>2. /\ Word \div 2 \in Nat /\ Word % 2 \in 0..1
      /\ Word = 2 * (Word \div 2) + (Word % 2)
  <2>1. Word \in Int /\ 2 \in Nat \ {0} /\ Word >= 0
    BY <1>1
  <2>2. /\ Word \div 2 \in Nat /\ Word % 2 \in Nat /\ Word % 2 < 2
        /\ Word = (Word \div 2) * 2 + (Word % 2)
    BY <2>1, Division, Zenon
  <2> QED
    BY <1>1, <2>2
<1>3. Word \div 2 >= 1
  BY <1>1, <1>2
<1> QED
  BY <1>1, <1>2, <1>3 DEF S64Max, S64Min

LEMMA WrapFits == \A n \in Nat : n < Word => Wrap(n) = n
  BY WordTypes DEF Wrap

LEMMA Added ==
    ASSUME NEW l, NEW r
    PROVE  /\ Add(l, r).ok => Add(l, r).val = l + r /\ l + r \in S64Min..S64Max
           /\ l + r \in S64Min..S64Max => Add(l, r) = Ok(l + r)
<1>1. CASE l + r \in S64Min..S64Max
  BY <1>1 DEF Add, Ok
<1>2. CASE l + r \notin S64Min..S64Max
  BY <1>2 DEF Add, Err
<1> QED
  BY <1>1, <1>2

\* The nearest multiple of d is at most half of d away.
LEMMA Nearest ==
    ASSUME NEW x \in Nat, NEW d \in Nat \ {0}
    PROVE  LET q == Quotient(x, d, TRUE)
           IN /\ q \in Nat /\ q * d \in Nat
              /\ 2 * (q * d) - 2 * x > -d /\ 2 * (q * d) - 2 * x <= d
<1> DEFINE floor == x \div d
           rest == x % d
           up == IF rest >= d - rest THEN 1 ELSE 0
<1>1. /\ floor \in Nat /\ rest \in Nat /\ rest < d /\ x = floor * d + rest
      /\ floor * d \in Nat
  BY Division, Products
<1>2. Quotient(x, d, TRUE) = floor + up /\ up \in {0, 1}
  BY DEF Quotient
<1>3. /\ rest >= d - rest => up = 1
      /\ ~(rest >= d - rest) => up = 0
  OBVIOUS
<1> HIDE DEF floor, rest, up
<1>4. (floor + 1) * d = floor * d + d /\ (floor + 0) * d = floor * d
  BY <1>1, Distributes
<1> DEFINE p == floor * d
           q == floor + up
           r == q * d
<1>5. /\ p \in Nat /\ r = p + (IF up = 1 THEN d ELSE 0) /\ q \in Nat
      /\ x = p + rest
  BY <1>1, <1>2, <1>4
<1> HIDE DEF p, q, r
<1>6. r \in Nat /\ 2 * r - 2 * x > -d /\ 2 * r - 2 * x <= d
  BY <1>1, <1>2, <1>3, <1>5
<1> QED
  BY <1>2, <1>5, <1>6 DEF q, r

LEMMA Ceiling ==
    ASSUME NEW x \in Nat, NEW m \in Nat \ {0}
    PROVE  LET c == x \div m + (IF x % m = 0 THEN 0 ELSE 1)
           IN c \in Nat /\ c * m \in Nat /\ x <= c * m /\ c * m < x + m
<1> DEFINE d == x \div m
           rest == x % m
           up == IF rest = 0 THEN 0 ELSE 1
           p == d * m
<1>1. d \in Nat /\ rest \in Nat /\ rest < m /\ x = d * m + rest
  BY Division
<1>2. p \in Nat
  BY <1>1, Products
<1>3. (rest = 0 => up = 0) /\ (rest # 0 => up = 1)
  OBVIOUS
<1> HIDE DEF d, rest, up
<1>4. (d + up) * m = p + (IF rest = 0 THEN 0 ELSE m)
  BY <1>1, <1>3, Distributes
<1> HIDE DEF p
<1>5. d + up \in Nat
  BY <1>1, <1>3
<1>6. /\ (d + up) * m \in Nat
      /\ x <= (d + up) * m /\ (d + up) * m < x + m
  BY <1>1, <1>2, <1>4 DEF p
<1> QED
  BY <1>5, <1>6 DEF d, up, rest

-----------------------------------------------------------------------------
(* Rescaling *)

\* tgpio_rescale_common splits the count at whole seconds and loses nothing:
\* it fails exactly when the result, rounded, leaves the signed range.
LEMMA Rescaled ==
    ASSUME NEW n \in Nat, NEW src \in Nat \ {0}, NEW dst \in Nat \ {0},
           src * dst <= Word, NEW nearest \in BOOLEAN
    PROVE  LET q == Quotient(n * dst, src, nearest)
           IN /\ q \in Nat
              /\ Rescale(n, src, dst, nearest) = IF q <= S64Max THEN Ok(q) ELSE Err
<1> DEFINE seconds == n \div src
           part == (n % src) * dst
           scaled == part \div src
           rest == part % src
           up == IF nearest /\ rest >= src - rest THEN 1 ELSE 0
           whole == seconds * dst
           total == whole + scaled
<1>1. /\ seconds \in Nat /\ whole \in Nat /\ part \in Nat /\ scaled \in Nat
      /\ part < src * dst
      /\ (n * dst) \div src = total /\ (n * dst) % src = rest
  <2>1. dst \in Nat /\ dst > 0
    OBVIOUS
  <2> QED
    BY <2>1, Splits, Zenon
<1>2. part < Word
  <2>1. src * dst \in Nat
    BY Products
  <2> QED
    BY <1>1, <2>1, WordTypes
<1> HIDE DEF seconds, part, scaled, rest, whole
<1>3. Quotient(n * dst, src, nearest) = total + up
  BY <1>1 DEF Quotient
<1>4. Quotient(Wrap(part), src, nearest) = scaled + up
  BY <1>1, <1>2, WrapFits DEF Quotient, scaled, rest
<1>5. seconds > S64Max \div dst <=> whole > S64Max
  BY <1>1, WordTypes, Exceeds DEF whole
<1>6. whole <= S64Max => Wrap(whole) = whole
  BY <1>1, WordTypes, WrapFits
<1>7. up \in {0, 1}
  OBVIOUS
<1> HIDE DEF up
<1>8. Rescale(n, src, dst, nearest) =
        IF whole > S64Max \/ scaled + up > S64Max - Wrap(whole) THEN Err
        ELSE Ok(Wrap(whole) + (scaled + up))
  <2>1. src # 0 /\ dst # 0
    OBVIOUS
  <2> QED
    BY <1>4, <1>5, <2>1 DEF Rescale, seconds, whole, part
<1>9. /\ whole > S64Max => total + up > S64Max
      /\ whole <= S64Max =>
           /\ scaled + up > S64Max - whole <=> total + up > S64Max
           /\ whole + (scaled + up) = total + up
  BY <1>1, <1>7, WordTypes
<1>10. total + up \in Nat /\ (total + up <= S64Max <=> ~(total + up > S64Max))
  BY <1>1, <1>7, WordTypes
<1> QED
  BY <1>1, <1>3, <1>6, <1>7, <1>8, <1>9, <1>10, WordTypes

\* tgpio_rescale and tgpio_rescale_nearest are exact to the unit and to half a
\* unit, and fail only when the result leaves the signed range.
LEMMA RescalesExactly ==
    ASSUME NEW n \in Nat, NEW src \in Nat \ {0}, NEW dst \in Nat \ {0},
           src * dst <= Word
    PROVE  LET down == Rescale(n, src, dst, FALSE)
               near == Rescale(n, src, dst, TRUE)
               exact == n * dst
           IN /\ down.ok = (exact \div src <= S64Max)
              /\ down.ok => down.val = exact \div src
              /\ near.ok => Abs(2 * near.val * src - 2 * exact) <= src
              /\ ~near.ok => 2 * exact >= (2 * S64Max + 1) * src
<1> DEFINE exact == n * dst
           down == Quotient(exact, src, FALSE)
           near == Quotient(exact, src, TRUE)
<1>1. exact \in Nat /\ down = exact \div src /\ down \in Nat
  <2>1. exact \in Nat
    BY Products
  <2>2. exact \div src \in Nat
    BY <2>1, Division
  <2> QED
    BY <2>1, <2>2 DEF Quotient
<1>2. /\ Rescale(n, src, dst, FALSE) = IF down <= S64Max THEN Ok(down) ELSE Err
      /\ Rescale(n, src, dst, TRUE) = IF near <= S64Max THEN Ok(near) ELSE Err
  BY Rescaled
<1> DEFINE p == near * src
           l == S64Max * src
<1>3. /\ near \in Nat /\ p \in Nat
      /\ 2 * p - 2 * exact > -src /\ 2 * p - 2 * exact <= src
  BY <1>1, Nearest
<1> HIDE DEF exact, down, near
<1>4. /\ (2 * near) * src = 2 * p
      /\ l \in Nat /\ (2 * S64Max + 1) * src = 2 * l + src
      /\ near > S64Max => p >= l + src
  <2>1. S64Max \in Nat /\ near * src \in Nat /\ S64Max * src \in Nat
    BY <1>3, WordTypes, Products
  <2>2. /\ (2 * near) * src = 2 * (near * src)
        /\ (2 * S64Max + 1) * src = 2 * (S64Max * src) + src
        /\ (S64Max + 1) * src = S64Max * src + src
    BY <1>3, <2>1, Distributes
  <2>3. near > S64Max => near * src >= (S64Max + 1) * src
    BY <1>3, <2>1, Grows
  <2> QED
    BY <2>1, <2>2, <2>3
<1> HIDE DEF p, l
<1>5. near > S64Max => 2 * exact >= 2 * l + src
  BY <1>1, <1>3, <1>4
<1>6. Abs(2 * p - 2 * exact) <= src
  BY <1>1, <1>3 DEF Abs
<1>7. ASSUME NEW q \in Nat, NEW result, result = IF q <= S64Max THEN Ok(q) ELSE Err
      PROVE  /\ result.ok = (q <= S64Max)
             /\ result.ok => result.val = q
             /\ ~result.ok => q > S64Max
  <2>1. q > S64Max <=> ~(q <= S64Max)
    BY <1>7, WordTypes
  <2>2. /\ q <= S64Max => result = [ok |-> TRUE, val |-> q]
        /\ ~(q <= S64Max) => result = [ok |-> FALSE, val |-> 0]
    BY <1>7, Zenon DEF Ok, Err
  <2>3. CASE q <= S64Max
    <3>1. result.ok = TRUE /\ result.val = q
      BY <2>2, <2>3
    <3> QED
      BY <2>3, <3>1, Zenon
  <2>4. CASE ~(q <= S64Max)
    <3>1. result.ok = FALSE
      BY <2>2, <2>4
    <3>2. q > S64Max
      BY <2>1, <2>4
    <3>3. (q <= S64Max) = FALSE
      BY <2>4
    <3>4. result.ok = (q <= S64Max)
      BY <3>1, <3>3, Zenon
    <3> QED
      BY <3>1, <3>2, <3>4, Zenon
  <2> QED
    BY <2>3, <2>4, Zenon
<1>8. LET result == Rescale(n, src, dst, FALSE)
      IN result.ok = (down <= S64Max) /\ (result.ok => result.val = down)
  BY <1>1, <1>2, <1>7
<1>9. LET result == Rescale(n, src, dst, TRUE)
      IN (result.ok => result.val = near) /\ (~result.ok => near > S64Max)
  BY <1>2, <1>3, <1>7
<1>10. LET result == Rescale(n, src, dst, TRUE)
       IN /\ result.ok => Abs(2 * result.val * src - 2 * exact) <= src
          /\ ~result.ok => 2 * exact >= (2 * S64Max + 1) * src
  BY <1>4, <1>5, <1>6, <1>9
<1> QED
  BY <1>1, <1>8, <1>10 DEF exact

\* tgpio_cycles_delta_to_ns and tgpio_ns_delta_to_cycles keep the sign.
LEMMA SignKept ==
    ASSUME NEW c \in Int, NEW src \in Nat \ {0}, NEW dst \in Nat \ {0},
           src * dst <= Word, NEW nearest \in BOOLEAN
    PROVE  LET q == Quotient(Abs(c) * dst, src, nearest)
           IN /\ q \in Nat
              /\ q <= S64Max => Signed(c, src, dst, nearest) = Ok(SameSign(c, q))
              /\ Signed(c, src, dst, nearest).ok => q <= S64Max
<1> DEFINE magnitude == Rescale(Abs(c), src, dst, nearest)
           q == Quotient(Abs(c) * dst, src, nearest)
<1>1. Abs(c) \in Nat
  BY DEF Abs
<1>2. q \in Nat /\ magnitude = IF q <= S64Max THEN Ok(q) ELSE Err
  BY <1>1, Rescaled
<1>3. Signed(c, src, dst, nearest) =
        IF ~magnitude.ok \/ magnitude.val > S64Max THEN Err
        ELSE Ok(SameSign(c, magnitude.val))
  BY DEF Signed
<1> HIDE DEF magnitude, q
<1>4. q <= S64Max => magnitude.ok /\ magnitude.val = q /\ ~(q > S64Max)
  BY <1>2, WordTypes DEF Ok
<1>5. ~(q <= S64Max) => ~magnitude.ok
  BY <1>2 DEF Err
<1>6. ~Err.ok
  BY DEF Err
<1> QED
  BY <1>2, <1>3, <1>4, <1>5, <1>6 DEF q

-----------------------------------------------------------------------------
(* Rates *)

\* A time of m nanoseconds on a clock that runs ppb parts of n fast, rounded as
\* tgpio_apply_ppb_to_ns rounds
Skewed(m, n, ppb) ==
    LET f == (m * Abs(ppb)) \div n
    IN IF ppb < 0 THEN m - f ELSE m + f

\* tgpio_phc_adjusted_to_base_delta takes back what tgpio_apply_ppb_to_ns
\* added, up to a nanosecond: magnitudes, at denominator d = 10^9 + ppb.
LEMMA TakenBack ==
    ASSUME NEW m \in Nat, NEW n \in Nat \ {0}, NEW ppb \in Int, 10 * Abs(ppb) <= n
    PROVE  LET f == (m * Abs(ppb)) \div n
               a == Skewed(m, n, ppb)
               d == n + ppb
               b == (a * n) \div d
           IN /\ f \in Nat /\ f <= m
              /\ d \in Nat \ {0} /\ a \in Nat /\ (m > 0 => a > 0)
              /\ b \in Nat /\ b >= m - 1 /\ b <= m + 1
              /\ a * n - m * d < n /\ m * d - a * n < n
<1> DEFINE rate == Abs(ppb)
           f == (m * rate) \div n
           a == IF ppb < 0 THEN m - f ELSE m + f
           d == n + ppb
<1>0. /\ rate \in Nat /\ rate = Abs(ppb) /\ 10 * rate <= n
      /\ f \in Nat /\ f = (m * rate) \div n
      /\ a \in Int /\ (a = IF ppb < 0 THEN m - f ELSE m + f)
      /\ d \in Int /\ d = n + ppb
  <2>1. rate \in Nat
    BY DEF Abs
  <2>2. m * rate \in Nat
    BY <2>1, Products
  <2>3. f \in Nat
    BY <2>2, Division
  <2> HIDE DEF f, rate
  <2>4. rate = Abs(ppb) /\ f = (m * rate) \div n
    BY DEF f, rate
  <2> QED
    BY <2>1, <2>3, <2>4
<1> HIDE DEF rate, f, a, d
<1> USE <1>0
<1> DEFINE mr == m * rate
           mn == m * n
           fn == f * n
           md == m * d
           an == a * n
           b == an \div d
           bd == b * d
<1>1. /\ mr \in Nat /\ mn \in Nat /\ fn \in Nat /\ md \in Int /\ an \in Int
  BY Products
<1>2. fn <= mr /\ mr < fn + n
  <2>1. f = mr \div n /\ mr \in Int
    BY <1>1
  <2> HIDE DEF mr
  <2>2. mr % n \in Nat /\ mr % n < n /\ mr = f * n + (mr % n)
    BY <2>1, Division
  <2> HIDE DEF fn
  <2>3. mr = fn + (mr % n)
    BY <2>2 DEF fn
  <2> QED
    BY <1>1, <2>1, <2>2, <2>3
<1>3. d \in Nat \ {0} /\ 2 * d >= n /\ rate < n
  BY DEF Abs
<1>4. md = IF ppb < 0 THEN mn - mr ELSE mn + mr
  <2>1. d * m = n * m + ppb * m
    BY Distributes
  <2>2. d * m = md /\ n * m = mn /\ rate * m = mr
    BY Products
  <2>3. ppb < 0 => ppb = 0 - rate /\ (0 - rate) * m = 0 * m - rate * m
    BY Distributes DEF Abs
  <2>4. ~(ppb < 0) => ppb = rate
    BY DEF Abs
  <2>5. 0 * m = 0
    OBVIOUS
  <2> HIDE DEF md, mn, mr
  <2>6. ppb < 0 => ppb * m = -mr
    BY <1>1, <2>2, <2>3, <2>5
  <2>7. ~(ppb < 0) => ppb * m = mr
    BY <2>2, <2>4
  <2>8. md = mn + ppb * m
    BY <2>1, <2>2
  <2> QED
    BY <1>1, <2>6, <2>7, <2>8
<1>5. an = IF ppb < 0 THEN mn - fn ELSE mn + fn
  BY Distributes
<1>6. f <= m /\ (m > 0 => f < m)
  <2>1. m > 0 => mr < mn
    <3>1. rate < n /\ m > 0 => rate * m < n * m
      BY Grows
    <3> QED
      BY <1>3, <3>1, Products
  <2>2. f >= m => fn >= mn
    BY Grows
  <2>3. m = 0 => f = 0
    <3>1. m = 0 => mr = 0
      OBVIOUS
    <3>2. 0 * n <= 0 /\ 0 < 0 * n + n
      OBVIOUS
    <3>3. 0 \div n = 0
      BY <3>2, Floor
    <3> QED
      BY <3>1, <3>3
  <2> HIDE DEF mr, mn, fn
  <2> QED
    BY <1>1, <1>2, <2>1, <2>2, <2>3
<1>7. a \in Nat /\ (m > 0 => a > 0)
  BY <1>6
<1>8. an \in Nat
  BY <1>7, Products
<1>9. b \in Nat /\ bd \in Nat /\ bd <= an /\ an < bd + d
  <2>1. an \in Int /\ an >= 0
    BY <1>8
  <2> HIDE DEF an
  <2>2. b \in Nat /\ an % d \in Nat /\ an % d < d /\ an = b * d + (an % d)
    BY <1>3, <2>1, Division, Zenon
  <2> HIDE DEF b
  <2>3. bd \in Nat /\ an = bd + (an % d)
    BY <1>3, <2>2, Products
  <2> QED
    BY <1>3, <2>1, <2>2, <2>3
<1> HIDE DEF mr, mn, fn, an, b, md
<1>10. an - md < n /\ md - an < n /\ an < md + 2 * d /\ an >= md - d
  BY <1>1, <1>2, <1>3, <1>4, <1>5
<1>11. /\ b >= m + 2 => bd >= md + 2 * d
       /\ b <= m - 2 => bd <= md - 2 * d
  <2>1. (m + 2) * d = m * d + 2 * d /\ (m - 2) * d = m * d - 2 * d
    BY <1>3, Distributes
  <2>2. /\ m + 2 <= b => (m + 2) * d <= b * d
        /\ b <= m - 2 => b * d <= (m - 2) * d
    BY <1>3, <1>9, Grows
  <2> QED
    BY <1>9, <2>1, <2>2 DEF md
<1> HIDE DEF bd
<1>12. b >= m - 1 /\ b <= m + 1
  BY <1>1, <1>3, <1>9, <1>10, <1>11
<1>13. b = (a * n) \div d /\ an = a * n /\ md = m * d
  BY DEF b, an, md
<1> HIDE DEF b
<1>14. a * n - m * d < n /\ m * d - a * n < n
  BY <1>10, <1>13
<1> QED
  BY <1>3, <1>6, <1>7, <1>9, <1>12, <1>13, <1>14 DEF Skewed, a, d, f, rate

\* tgpio_apply_ppb_to_ns: exact and never capped at rates of at most 10%.
LEMMA Corrected ==
    ASSUME NEW m \in Nat, m <= S64Max, NEW ppb \in Int, NEW rate \in Nat,
           rate = Abs(ppb), 10 * rate <= NsecPerSec, NsecPerSec * NsecPerSec <= Word,
           NEW ns \in Int, m = Abs(ns), NEW f, f = (m * rate) \div NsecPerSec
    PROVE  /\ f \in Nat /\ f <= m
           /\ ApplyPpb(ns, ppb) = IF (ns < 0) # (ppb < 0) THEN -f ELSE f
<1> DEFINE n == NsecPerSec
           seconds == m \div n
           part == (m % n) * rate
           rest == part \div n
<1>1. n \in Nat \ {0}
  BY WordTypes
<1>2. /\ seconds * rate \in Nat /\ part \in Nat /\ rest \in Nat
      /\ part <= n * rate
      /\ f = seconds * rate + rest
  BY <1>1, Splits
<1>3. f <= m /\ f \in Nat
  <2>1. f \in Nat
    BY <1>2
  <2> QED
    BY <1>1, <2>1, TakenBack
<1>4. part < Word
  <2>1. rate * n < n * n /\ n * n \in Nat
    BY <1>1, Grows, Products
  <2>2. n * rate = rate * n
    BY <1>1, Products
  <2> HIDE DEF part
  <2> DEFINE sq == n * n
             p == n * rate
  <2>3. p < sq /\ sq \in Nat /\ sq <= Word /\ part <= p /\ p \in Int
    BY <1>1, <1>2, <2>1, <2>2, Products
  <2> HIDE DEF sq, p
  <2> QED
    BY <1>2, <2>3, WordTypes
<1>5. Wrap(part) = part /\ Wrap(f) = f
  BY <1>2, <1>3, <1>4, WrapFits, WordTypes
<1>6. ApplyPpb(ns, ppb) =
        LET correction == Wrap(seconds * rate + Wrap(part) \div n)
            capped == IF correction > S64Max THEN S64Max ELSE correction
        IN IF (ns < 0) # (ppb < 0) THEN -capped ELSE capped
  BY DEF ApplyPpb
<1> HIDE DEF seconds, part, n
<1>7. seconds * rate + Wrap(part) \div n = f
  BY <1>2, <1>5 DEF rest
<1>8. ~(f > S64Max)
  BY <1>3, WordTypes
<1> QED
  BY <1>3, <1>5, <1>6, <1>7, <1>8

\* tgpio_phc_adjusted_to_base_delta: the quotient, when it answers at all.
LEMMA Unadjusted ==
    ASSUME NEW adj \in Int, NEW a \in Nat, a = Abs(adj), NEW ppb \in Int,
           NEW d \in Nat \ {0}, d = NsecPerSec + ppb, d * NsecPerSec <= Word,
           NEW b, b = (a * NsecPerSec) \div d, b < Word,
           AdjustedToBase(adj, ppb).ok
    PROVE  b \in Nat /\ AdjustedToBase(adj, ppb).val = SameSign(adj, b)
<1> DEFINE n == NsecPerSec
           quotient == a \div d
           part == (a % d) * n
           rest == part \div d
<1>1. n \in Nat \ {0}
  BY WordTypes
<1>2. /\ quotient * n \in Nat /\ part \in Nat /\ rest \in Nat /\ part < d * n
      /\ b = quotient * n + rest
  <2>1. n \in Nat /\ n > 0
    BY <1>1
  <2> HIDE DEF n
  <2> QED
    BY <2>1, Splits DEF n
<1>3. part < Word
  <2> DEFINE p == d * n
  <2>1. p \in Nat /\ p <= Word /\ part < p
    BY <1>1, <1>2, Products
  <2> HIDE DEF p, part
  <2> QED
    BY <1>2, <2>1, WordTypes
<1>4. Wrap(part) = part /\ Wrap(b) = b /\ b \in Nat
  BY <1>2, <1>3, WrapFits
<1>5. AdjustedToBase(adj, ppb) =
        LET base == Wrap(quotient * n + Wrap(part) \div d)
        IN IF d <= 0 \/ quotient > S64Max \div n \/ base > S64Max THEN Err
           ELSE Ok(SameSign(adj, base))
  BY DEF AdjustedToBase
<1> HIDE DEF n, quotient, part
<1>6. quotient * n + Wrap(part) \div d = b
  BY <1>2, <1>4 DEF rest
<1>7. AdjustedToBase(adj, ppb) = Err \/ AdjustedToBase(adj, ppb) = Ok(SameSign(adj, b))
  BY <1>4, <1>5, <1>6
<1>8. ~Err.ok /\ Ok(SameSign(adj, b)).val = SameSign(adj, b)
  BY DEF Err, Ok
<1> QED
  BY <1>4, <1>7, <1>8

\* Nanoseconds m of k cycles, rounded down or to the nearest
Lasts(k, n, m, hz) ==
    2 * (m * hz) - 2 * (k * n) > -2 * hz /\ 2 * (m * hz) - 2 * (k * n) <= hz

ToNearest(x, n) == Quotient(x, n, TRUE)

\* Nanoseconds within one and a half of those of k cycles, taken back to the
\* nearest cycle, are k cycles again when a cycle lasts at least four.
LEMMA NearestAgain ==
    ASSUME NEW k \in Nat, NEW n \in Nat \ {0}, NEW hz \in Nat \ {0}, 4 * hz <= n,
           NEW m \in Nat, Lasts(k, n, m, hz),
           NEW b \in Nat, b >= m - 1, b <= m + 1
    PROVE  ToNearest(b * hz, n) = k
<1> DEFINE q == Quotient(b * hz, n, TRUE)
           bh == b * hz
           mh == m * hz
           kn == k * n
           qn == q * n
<1>1. bh \in Nat /\ mh \in Nat /\ kn \in Nat
  BY Products
<1>2. q \in Nat /\ qn \in Nat /\ 2 * qn - 2 * bh > -n /\ 2 * qn - 2 * bh <= n
  BY <1>1, Nearest
<1>3. bh >= mh - hz /\ bh <= mh + hz
  <2>1. (m - 1) * hz = mh - hz /\ (m + 1) * hz = mh + hz
    BY Distributes
  <2>2. (m - 1) * hz <= b * hz /\ b * hz <= (m + 1) * hz
    BY Grows
  <2> QED
    BY <2>1, <2>2
<1> HIDE DEF q
<1>4. /\ q <= k - 1 => qn <= kn - n
      /\ q >= k + 1 => qn >= kn + n
  <2>1. (k - 1) * n = k * n - n /\ (k + 1) * n = k * n + n
    BY Distributes
  <2>2. /\ q <= k - 1 => q * n <= (k - 1) * n
        /\ k + 1 <= q => (k + 1) * n <= q * n
    BY <1>2, Grows
  <2> QED
    BY <1>2, <2>1, <2>2
<1>5. 2 * mh - 2 * kn > -2 * hz /\ 2 * mh - 2 * kn <= hz
  BY DEF Lasts
<1> HIDE DEF bh, mh, kn, qn
<1>6. 2 * qn > 2 * kn - 2 * n /\ 2 * qn < 2 * kn + 2 * n
  BY <1>1, <1>2, <1>3, <1>5
<1>7. q = k
  BY <1>1, <1>2, <1>4, <1>6
<1> QED
  BY <1>7 DEF q, ToNearest

\* An error below one in n, scaled by the unit u * hz, and one below hz, scaled
\* by u * d, are an error below three units: k cycles of u * d each are shown
\* as a nanoseconds.
LEMMA Errors ==
    ASSUME NEW a \in Nat, NEW m \in Nat, NEW k \in Nat, NEW n \in Nat \ {0},
           NEW hz \in Nat \ {0}, NEW u \in Nat \ {0}, NEW d \in Nat, d <= 2 * n,
           a * n - m * d < n, m * d - a * n < n,
           m * hz <= k * n, k * n < m * hz + hz
    PROVE  LET unit == u * hz
               error == a * unit - k * (u * d)
           IN error \in Int /\ error < unit /\ error > -3 * unit
<1> DEFINE unit == u * hz
           ud == u * d
           w == a * n - m * d
           e == k * n - m * hz
           x == a * unit - k * ud
           wu == w * unit
           eud == e * ud
           nu == n * unit
           xn == x * n
<1>1. /\ unit \in Nat \ {0} /\ ud \in Nat /\ w \in Int /\ e \in Nat /\ x \in Int
      /\ wu \in Int /\ eud \in Nat /\ nu \in Nat /\ xn \in Int
  <2>1. a * n \in Nat /\ m * d \in Nat /\ m * hz \in Nat /\ k * n \in Nat
    BY Products
  <2>2. unit \in Nat /\ ud \in Nat
    BY Products
  <2>3. unit # 0
    <3>1. 0 * hz < u * hz /\ 0 * hz = 0
      BY Grows
    <3> QED
      BY <3>1
  <2>4. w \in Int /\ e \in Nat
    BY <2>1
  <2> HIDE DEF unit, ud, w, e
  <2>5. a * unit \in Nat /\ k * ud \in Nat
    BY <2>2, Products
  <2>6. x \in Int
    BY <2>5
  <2> HIDE DEF x
  <2> QED
    BY <2>2, <2>3, <2>4, <2>6, Products
<1>2. xn = wu - eud
  <2>1. x * n = (a * unit) * n - (k * ud) * n
    BY <1>1, Products, Distributes
  <2>2. (a * unit) * n = (a * n) * unit /\ (k * ud) * n = (k * n) * ud
    BY <1>1, Exchanges
  <2>3. w * unit = (a * n) * unit - (m * d) * unit
    BY <1>1, Products, Distributes
  <2>4. e * ud = (k * n) * ud - (m * hz) * ud
    BY <1>1, Products, Distributes
  <2>5. (m * d) * unit = (m * hz) * ud
    OBVIOUS
  <2>6. /\ (a * n) * unit \in Int /\ (k * n) * ud \in Int
        /\ (m * d) * unit \in Int /\ (m * hz) * ud \in Int
    BY <1>1, Products
  <2> HIDE DEF unit, ud, w, e, x
  <2> QED
    BY <2>1, <2>2, <2>3, <2>4, <2>5, <2>6
<1>3. wu < nu /\ wu > -nu
  <2>1. w < n /\ -n < w /\ (-n) * unit = -(n * unit)
    BY <1>1
  <2>2. w * unit < n * unit /\ (-n) * unit < w * unit
    BY <1>1, <2>1, Grows
  <2> QED
    BY <1>1, <2>1, <2>2
<1>4. eud <= 2 * nu
  <2>1. e <= hz
    OBVIOUS
  <2>2. e * ud <= hz * ud
    BY <1>1, <2>1, Grows
  <2>3. hz * ud = d * unit
    OBVIOUS
  <2>4. d * unit <= (2 * n) * unit
    BY <1>1, Grows
  <2>5. (2 * n) * unit = 2 * (n * unit)
    BY <1>1
  <2>6. hz * ud \in Int /\ d * unit \in Int
    BY <1>1, Products
  <2> HIDE DEF unit, ud, e
  <2> QED
    BY <1>1, <2>2, <2>3, <2>4, <2>5, <2>6
<1>5. xn < nu /\ xn > -3 * nu
  <2> HIDE DEF xn, wu, eud, nu
  <2> QED
    BY <1>1, <1>2, <1>3, <1>4
<1> HIDE DEF x, unit
<1>6. /\ x >= unit => xn >= nu
      /\ x <= -3 * unit => xn <= -3 * nu
  <2>1. unit * n = n * unit /\ (-3 * unit) * n = -3 * (unit * n)
    BY <1>1
  <2>2. /\ unit <= x => unit * n <= x * n
        /\ x <= -3 * unit => x * n <= (-3 * unit) * n
    BY <1>1, Grows
  <2> QED
    BY <2>1, <2>2
<1>7. x < unit /\ x > -3 * unit
  <2> HIDE DEF xn, nu
  <2> QED
    BY <1>1, <1>5, <1>6
<1> QED
  BY <1>1, <1>7 DEF x, unit

\* Cycles in nanoseconds, rounded down or to the nearest
LEMMA Lasting ==
    ASSUME NEW k \in Nat, NEW n \in Nat \ {0}, NEW hz \in Nat \ {0}, hz <= n,
           NEW nearest \in BOOLEAN
    PROVE  LET m == Quotient(k * n, hz, nearest)
           IN /\ m \in Nat /\ Lasts(k, n, m, hz)
              /\ ~nearest => m * hz <= k * n /\ k * n < m * hz + hz
              /\ k = 0 <=> m = 0
<1> DEFINE kn == k * n
           m == Quotient(kn, hz, nearest)
           p == m * hz
<1>1. kn \in Nat
  BY Products
<1>2. /\ m \in Nat /\ 2 * p - 2 * kn > -2 * hz /\ 2 * p - 2 * kn <= hz
      /\ ~nearest => p <= kn /\ kn < p + hz
  <2>1. CASE nearest
    <3>1. m = Quotient(kn, hz, TRUE)
      BY <2>1
    <3> HIDE DEF m, kn
    <3>2. m \in Nat /\ p \in Nat /\ 2 * p - 2 * kn > -hz /\ 2 * p - 2 * kn <= hz
      BY <1>1, <3>1, Nearest
    <3> HIDE DEF p
    <3> QED
      BY <1>1, <2>1, <3>2
  <2>2. CASE ~nearest
    <3> HIDE DEF kn
    <3>1. /\ m = kn \div hz /\ kn \div hz \in Nat
          /\ kn % hz \in Nat /\ kn % hz < hz /\ kn = (kn \div hz) * hz + (kn % hz)
      BY <1>1, <2>2, Division DEF Quotient
    <3> HIDE DEF m
    <3>2. m \in Nat /\ p \in Nat /\ kn = p + (kn % hz)
      BY <3>1, Products
    <3> HIDE DEF p
    <3> QED
      BY <1>1, <3>1, <3>2
  <2> QED
    BY <2>1, <2>2
<1> HIDE DEF m
<1>3. /\ m = 0 => p = 0
      /\ m > 0 => p >= hz
  BY <1>2, Grows
<1>4. /\ k = 0 => kn = 0
      /\ k > 0 => kn >= n
  BY Grows
<1>5. p \in Nat
  BY <1>2, Products
<1>6. k = 0 <=> m = 0
  <2> HIDE DEF p, kn
  <2> QED
    BY <1>1, <1>2, <1>3, <1>4, <1>5
<1>7. Lasts(k, n, m, hz)
  BY <1>2 DEF Lasts, p, kn
<1> QED
  BY <1>2, <1>6, <1>7 DEF m

\* A number of cycles converted to nanoseconds of the corrected clock: the
\* magnitude a of what it shows, by that of the uncorrected one, m.
LEMMA Shown ==
    ASSUME NsecPerSec * NsecPerSec <= Word,
           NEW hz \in Nat \ {0}, hz <= NsecPerSec, hz * NsecPerSec <= Word,
           NEW ppb \in Int, 10 * Abs(ppb) <= NsecPerSec,
           NEW c \in Int, NEW nearest \in BOOLEAN
    PROVE  LET base == CyclesDeltaToNs(c, hz, nearest)
               adj == BaseToAdjusted(base.val, ppb)
               m == Quotient(Abs(c) * NsecPerSec, hz, nearest)
               a == Skewed(m, NsecPerSec, ppb)
           IN base.ok /\ adj.ok =>
                /\ m \in Nat /\ m <= S64Max /\ a \in Nat
                /\ adj.val = SameSign(c, a) /\ adj.val \in S64Min..S64Max
                /\ c = 0 <=> a = 0
<1> DEFINE base == CyclesDeltaToNs(c, hz, nearest)
           adj == BaseToAdjusted(base.val, ppb)
<1> SUFFICES ASSUME base.ok, adj.ok
             PROVE  LET m == Quotient(Abs(c) * NsecPerSec, hz, nearest)
                        a == Skewed(m, NsecPerSec, ppb)
                    IN /\ m \in Nat /\ m <= S64Max /\ a \in Nat
                       /\ adj.val = SameSign(c, a) /\ adj.val \in S64Min..S64Max
                       /\ c = 0 <=> a = 0
  OBVIOUS
<1>0. base = CyclesDeltaToNs(c, hz, nearest) /\ adj = BaseToAdjusted(base.val, ppb)
  OBVIOUS
<1> HIDE DEF base, adj
<1> USE <1>0
<1> DEFINE n == NsecPerSec
           k == Abs(c)
           rate == Abs(ppb)
           m == Quotient(k * n, hz, nearest)
           f == (m * rate) \div n
           a == Skewed(m, n, ppb)
<1>1. n \in Nat \ {0} /\ rate \in Nat /\ 10 * rate <= n /\ k \in Nat
  BY WordTypes DEF Abs
<1>2. m \in Nat /\ (k = 0 <=> m = 0)
  <2> HIDE DEF k, n
  <2>1. hz <= n
    BY DEF n
  <2> QED
    BY <1>1, <2>1, Lasting, Zenon
<1>3. m <= S64Max /\ base.val = SameSign(c, m)
  <2>1. base = Signed(c, hz, n, nearest)
    BY DEF CyclesDeltaToNs
  <2>2. hz * n <= Word
    OBVIOUS
  <2> HIDE DEF n
  <2>3. /\ m \in Nat /\ (m <= S64Max => base = Ok(SameSign(c, m)))
        /\ (base.ok => m <= S64Max)
    BY <1>1, <2>1, <2>2, SignKept, Zenon
  <2> HIDE DEF m
  <2> QED
    BY <2>3 DEF Ok
<1> HIDE DEF m
<1>4. c = 0 <=> k = 0
  BY DEF Abs
<1>5. Abs(base.val) = m /\ base.val \in Int /\ (base.val < 0 <=> c < 0)
  <2> HIDE DEF k
  <2> QED
    BY <1>2, <1>3, <1>4 DEF Abs, SameSign
<1>6. /\ f \in Nat /\ f <= m
      /\ ApplyPpb(base.val, ppb) = IF (base.val < 0) # (ppb < 0) THEN -f ELSE f
  BY <1>1, <1>2, <1>3, <1>5, Corrected
<1>7. a \in Nat /\ (m > 0 => a > 0)
  <2> HIDE DEF n
  <2> QED
    BY <1>1, <1>2, TakenBack, Zenon
<1>8. a = IF ppb < 0 THEN m - f ELSE m + f
  BY DEF Skewed
<1> HIDE DEF f, a
<1>9. base.val + ApplyPpb(base.val, ppb) = SameSign(c, a)
  <2>1. CASE c < 0
    <3>1. base.val = -m /\ base.val < 0 /\ SameSign(c, a) = -a
      BY <1>3, <1>5, <2>1 DEF SameSign
    <3>2. CASE ppb < 0
      BY <1>2, <1>6, <1>8, <3>1, <3>2
    <3>3. CASE ~(ppb < 0)
      BY <1>2, <1>6, <1>8, <3>1, <3>3
    <3> QED
      BY <3>2, <3>3
  <2>2. CASE ~(c < 0)
    <3>1. base.val = m /\ ~(base.val < 0) /\ SameSign(c, a) = a
      BY <1>3, <1>5, <2>2 DEF SameSign
    <3>2. CASE ppb < 0
      BY <1>2, <1>6, <1>8, <3>1, <3>2
    <3>3. CASE ~(ppb < 0)
      BY <1>2, <1>6, <1>8, <3>1, <3>3
    <3> QED
      BY <3>2, <3>3
  <2> QED
    BY <2>1, <2>2
<1>10. adj.val = SameSign(c, a) /\ adj.val \in S64Min..S64Max
  <2>1. adj = Add(base.val, ApplyPpb(base.val, ppb))
    BY DEF BaseToAdjusted
  <2> QED
    BY <1>9, <2>1, Added
<1>11. c = 0 <=> a = 0
  BY <1>2, <1>4, <1>6, <1>7, <1>8
<1> QED
  BY <1>2, <1>3, <1>7, <1>10, <1>11 DEF m, a

\* tgpio_phc_art_to_ns shows the exact time, in units of 1 / (u * hz) ns, up
\* to three nanoseconds, on either side of the anchor.
LEMMA Reading ==
    ASSUME NsecPerSec * NsecPerSec <= Word,
           NEW p, p.art \in Int, p.ns \in Int, p.ppb \in Int,
           10 * Abs(p.ppb) <= NsecPerSec,
           p.hz \in Nat \ {0}, p.hz <= NsecPerSec, p.hz * NsecPerSec <= Word,
           NEW u \in Nat \ {0}, NEW art \in Int, ArtToNs(p, art).ok
    PROVE  LET unit == u * p.hz
               exact == p.ns * unit + (art - p.art) * (u * (NsecPerSec + p.ppb))
               error == ArtToNs(p, art).val * unit - exact
           IN error \in Int /\ error < 3 * unit /\ error > -3 * unit
<1> DEFINE n == NsecPerSec
           pns == p.ns
           hz == p.hz
           ppb == p.ppb
           c == art - p.art
           now == ArtToNs(p, art)
<1>0. /\ n \in Nat \ {0} /\ n * n <= Word /\ pns \in Int
      /\ hz \in Nat \ {0} /\ hz <= n /\ hz * n <= Word
      /\ ppb \in Int /\ 10 * Abs(ppb) <= n /\ c \in Int
      /\ now.ok /\ p.ns = pns /\ p.hz = hz /\ p.ppb = ppb
  BY WordTypes
<1> DEFINE base == CyclesDeltaToNs(c, hz, FALSE)
           adj == BaseToAdjusted(base.val, ppb)
           k == Abs(c)
           m == Quotient(k * n, hz, FALSE)
           a == Skewed(m, n, ppb)
           d == n + ppb
           ud == u * d
           unit == u * hz
<1>1. base.ok /\ adj.ok /\ now = Add(pns, adj.val)
  <2>1. now = IF k > S64Max \/ ~base.ok \/ ~adj.ok THEN Err ELSE Add(pns, adj.val)
    BY DEF ArtToNs
  <2>2. ~Err.ok
    BY DEF Err
  <2> HIDE DEF base, adj, k, now, pns
  <2> QED
    BY <1>0, <2>1, <2>2
<1> HIDE DEF n, pns, hz, ppb, c, now
<1>2. k \in Nat
  BY <1>0 DEF Abs
<1>3. m \in Nat /\ a \in Nat /\ adj.val = SameSign(c, a)
  <2>1. FALSE \in BOOLEAN
    OBVIOUS
  <2>2. /\ n * n <= Word /\ hz \in Nat \ {0} /\ hz <= n /\ hz * n <= Word
        /\ ppb \in Int /\ 10 * Abs(ppb) <= n /\ c \in Int
    BY <1>0
  <2>3. base.ok /\ adj.ok
    BY <1>1
  <2> HIDE DEF k
  <2>4. \A nearest \in BOOLEAN :
          LET unrated == CyclesDeltaToNs(c, hz, nearest)
              rated == BaseToAdjusted(unrated.val, ppb)
              cycles == Quotient(k * n, hz, nearest)
              span == Skewed(cycles, n, ppb)
          IN unrated.ok /\ rated.ok =>
               /\ cycles \in Nat /\ span \in Nat /\ rated.val = SameSign(c, span)
    BY <2>2, Shown DEF n, k
  <2>5. base.ok /\ adj.ok =>
          /\ m \in Nat /\ a \in Nat /\ adj.val = SameSign(c, a)
    BY <2>1, <2>4, Zenon
  <2> HIDE DEF base, adj, m, a
  <2> QED
    BY <2>3, <2>5
<1>4. m * hz <= k * n /\ k * n < m * hz + hz
  <2>1. FALSE \in BOOLEAN
    OBVIOUS
  <2> HIDE DEF k
  <2> QED
    BY <1>0, <1>2, <2>1, Lasting, Zenon
<1>5. d \in Nat \ {0} /\ a * n - m * d < n /\ m * d - a * n < n
  <2> HIDE DEF m
  <2> QED
    BY <1>0, <1>3, TakenBack, Zenon
<1> HIDE DEF m, k
<1>6. d <= 2 * n
  BY <1>0 DEF Abs
<1> HIDE DEF a, d
<1> DEFINE error == a * unit - k * ud
<1>7. error \in Int /\ error < unit /\ error > -3 * unit
  BY <1>0, <1>2, <1>3, <1>4, <1>5, <1>6, Errors
<1>8. unit \in Nat /\ ud \in Int /\ unit > 0
  <2>1. unit \in Nat /\ ud \in Int
    BY <1>0, <1>5, Products
  <2>2. 0 * hz < u * hz /\ 0 * hz = 0
    BY <1>0, Grows
  <2> QED
    BY <2>1, <2>2
<1> HIDE DEF ud, unit
<1>9. now.val = pns + SameSign(c, a)
  BY <1>0, <1>1, <1>3, Added
<1>10. now.val * unit - (pns * unit + c * ud) =
         IF c < 0 THEN -error ELSE error
  <2>1. (pns + SameSign(c, a)) * unit = pns * unit + SameSign(c, a) * unit
    BY <1>0, <1>3, <1>8, Distributes DEF SameSign
  <2>2. CASE c < 0
    <3>1. SameSign(c, a) = -a /\ c = -k
      BY <1>0, <2>2 DEF SameSign, k, Abs
    <3>2. (-a) * unit = -(a * unit) /\ (-k) * ud = -(k * ud)
      BY <1>2, <1>3, <1>8
    <3>3. a * unit \in Int /\ k * ud \in Int /\ pns * unit \in Int
      BY <1>0, <1>2, <1>3, <1>8, Products
    <3> QED
      BY <1>9, <2>1, <2>2, <3>1, <3>2, <3>3
  <2>3. CASE ~(c < 0)
    <3>1. SameSign(c, a) = a /\ c = k
      BY <1>0, <2>3 DEF SameSign, k, Abs
    <3>2. a * unit \in Int /\ k * ud \in Int /\ pns * unit \in Int
      BY <1>0, <1>2, <1>3, <1>8, Products
    <3> QED
      BY <1>9, <2>1, <2>3, <3>1, <3>2
  <2> QED
    BY <2>2, <2>3
<1> HIDE DEF error
<1> DEFINE whole == now.val * unit - (pns * unit + c * ud)
<1>11. whole \in Int /\ whole < 3 * unit /\ whole > -3 * unit
  BY <1>0, <1>7, <1>8, <1>10
<1> QED
  BY <1>11 DEF now, unit, pns, hz, c, ud, d, n, ppb

-----------------------------------------------------------------------------
(* Output edges *)

\* tgpio_output_align_first_edge never answers with an edge it was told is too
\* early, and finds the one on the grid unless it lies beyond the clock.
LEMMA Aligned ==
    ASSUME NEW requested \in 0..S64Max, NEW earliest \in Nat, NEW period \in Nat \ {0}
    PROVE  LET first == AlignFirstEdge(requested, earliest, period)
           IN /\ first \in Int /\ first >= earliest
              /\ earliest + period <= S64Max =>
                     /\ (first - requested) % period = 0
                     /\ first > requested => first < earliest + period
<1> DEFINE delta == earliest - requested
           periods == delta \div period + (IF delta % period = 0 THEN 0 ELSE 1)
           ahead == periods * period
           aligned == Add(requested, Wrap(ahead))
           first == AlignFirstEdge(requested, earliest, period)
<1>1. CASE requested >= earliest
  <2>1. first = requested /\ requested \in Int
    BY <1>1, WordTypes DEF AlignFirstEdge
  <2>2. requested - requested = 0 /\ 0 % period = 0
    BY WordTypes
  <2> QED
    BY <1>1, <2>1, <2>2
<1>2. CASE ~(requested >= earliest)
  <2>1. delta \in Nat /\ requested \in Nat
    BY <1>2, WordTypes
  <2>2. /\ periods \in Nat /\ ahead \in Nat
        /\ delta <= ahead /\ ahead < delta + period
    BY <2>1, Ceiling
  <2>3. first = IF \/ period > S64Max \/ periods > S64Max \div period \/ ~aligned.ok
                THEN earliest ELSE aligned.val
    BY <1>2, <2>1 DEF AlignFirstEdge
  <2> HIDE DEF periods
  <2>4. periods > S64Max \div period <=> ahead > S64Max
    BY <2>2, WordTypes, Exceeds
  <2> HIDE DEF ahead
  <2>5. /\ ahead <= S64Max => Wrap(ahead) = ahead
        /\ requested + ahead \in Int /\ requested + ahead >= S64Min
    BY <2>1, <2>2, WordTypes, WrapFits
  <2>6. ahead <= S64Max /\ requested + ahead <= S64Max
          => aligned.ok /\ aligned.val = requested + ahead
    BY <2>5, WordTypes DEF Add, Ok
  <2>7. ahead <= S64Max /\ ~(requested + ahead <= S64Max) => ~aligned.ok
    BY <2>5, WordTypes DEF Add, Err
  <2> HIDE DEF aligned, first
  <2>8. first = earliest \/ first = requested + ahead
    BY <2>2, <2>3, <2>4, <2>6, <2>7, WordTypes
  <2>9. first \in Int /\ first >= earliest
    BY <2>1, <2>2, <2>8
  <2>10. earliest + period <= S64Max => first = requested + ahead
    BY <2>1, <2>2, <2>3, <2>4, <2>6, WordTypes
  <2>11. earliest + period <= S64Max => first < earliest + period
    BY <2>1, <2>2, <2>10
  <2>12. ahead % period = 0
    <3>1. ahead = periods * period /\ ahead \in Int /\ periods \in Int
      BY <2>2 DEF ahead
    <3>2. periods * period <= ahead /\ ahead < periods * period + period
      BY <3>1
    <3>3. ahead % period = ahead - periods * period
      BY <3>1, <3>2, Floor, Zenon
    <3> QED
      BY <3>1, <3>3
  <2>13. earliest + period <= S64Max => first - requested = ahead
    BY <2>1, <2>2, <2>10
  <2> QED
    BY <2>9, <2>11, <2>12, <2>13 DEF first
<1> QED
  BY <1>1, <1>2

\* tgpio_output_lead_time_ns: at least a nanosecond, at most the interval.
LEMMA Leads ==
    ASSUME NEW interval \in Nat \ {0}
    PROVE  LeadTime(interval) \in 1..interval
<1> DEFINE quarter == interval \div 4
           lead == IF SafeTime < quarter THEN SafeTime ELSE quarter
<1>1. quarter \in Nat /\ quarter <= interval
  BY Division
<1>2. LeadTime(interval) = IF lead = 0 THEN 1 ELSE lead
  BY DEF LeadTime
<1> HIDE DEF quarter
<1>3. lead \in 0..interval
  BY <1>1, WordTypes
<1> HIDE DEF lead
<1> QED
  BY <1>2, <1>3

\* The priming compare and the wakes of a waveform, for one set of times.
LEMMA Wakes ==
    ASSUME NEW now \in Nat, NEW requested \in 0..S64Max,
           NEW high \in Nat \ {0}, NEW low \in Nat \ {0},
           NEW times, times.high = high, times.low = low
    PROVE  LET timing == OutputTiming(now, requested, times)
               edges == timing.val
           IN timing.ok =>
                /\ edges.prime > now
                /\ edges.wake > edges.prime
                /\ edges.wake + high >= edges.first
                /\ edges.wake + (high + low) >= edges.first + high
<1> DEFINE shorter == IF high < low THEN high ELSE low
           lead == LeadTime(shorter)
           earliest == Add(now, 3 * lead)
           first == AlignFirstEdge(requested, earliest.val, high + low)
           timing == OutputTiming(now, requested, times)
<1>1. shorter \in Nat \ {0} /\ shorter <= high /\ shorter <= low
  OBVIOUS
<1>2. lead \in 1..shorter
  BY <1>1, Leads
<1>3. timing = IF now < 0 \/ lead > S64Max \div 3 \/ ~earliest.ok THEN Err
               ELSE Ok([first |-> first, prime |-> first - 2 * lead,
                        wake |-> first - lead])
  BY DEF OutputTiming
<1> HIDE DEF shorter, lead
<1>4. now + 3 * lead \in Nat
  BY <1>1, <1>2
<1>5. earliest.ok => earliest.val = now + 3 * lead
  BY DEF Add, Ok, Err
<1>6. earliest.ok => first \in Int /\ first >= now + 3 * lead
  <2>1. high + low \in Nat \ {0}
    OBVIOUS
  <2> QED
    BY <1>4, <1>5, <2>1, Aligned
<1> HIDE DEF earliest, first
<1>7. timing.ok => /\ earliest.ok
                   /\ timing.val.first = first
                   /\ timing.val.prime = first - 2 * lead
                   /\ timing.val.wake = first - lead
  BY <1>3 DEF Ok, Err
<1> HIDE DEF timing
<1>8. earliest.ok =>
        /\ first - 2 * lead > now
        /\ first - lead > first - 2 * lead
        /\ (first - lead) + high >= first
        /\ (first - lead) + (high + low) >= first + high
  BY <1>1, <1>2, <1>6
<1> QED
  BY <1>7, <1>8 DEF timing

-----------------------------------------------------------------------------
(* The sweep *)

SweepMappings ==
    [art : Anchors, ns : Anchors, hz : Frequencies, ppb : -MaxRate..MaxRate]
Swept == model \in SweepMappings /\ count \in 0..(Word - 1)

LEMMA Sweeps == Sweep => []Swept
<1>1. SweepInit => Swept
  BY WordTypes DEF SweepInit, Swept, SweepMappings
<1>2. Swept /\ [SweepNext]_<<model, count>> => Swept'
  BY WordTypes DEF Swept, SweepNext, Advance, Done
<1> QED
  BY <1>1, <1>2, PTL DEF Sweep

-----------------------------------------------------------------------------
(* Rescaling *)

\* Products of the two rates of a conversion fit the word, as those of
\* NSEC_PER_SEC and a frequency of less than 18 GHz do.
ProductsFit ==
    \A f, g \in Frequencies \cup {NsecPerSec} : f * g <= Word

\* So does each conversion of the sweep.
LEMMA SweepRescale == ASSUME ProductsFit, Swept PROVE RescaleExact
<1>1. count \in Nat
  BY WordTypes DEF Swept
<1>2. model.hz \in Frequencies
  BY DEF Swept, SweepMappings
<1>3. ASSUME NEW f \in Frequencies \cup {NsecPerSec} PROVE f \in Nat \ {0}
  BY SweepAssumption, MathAssumption, WordTypes
<1>4. ASSUME NEW src \in Frequencies, src = model.hz,
             NEW dst \in {NsecPerSec} \cup Frequencies
      PROVE  src \in Nat \ {0} /\ dst \in Nat \ {0} /\ src * dst <= Word
  BY <1>3, <1>4 DEF ProductsFit
<1> QED
  BY <1>1, <1>2, <1>4, RescalesExactly DEF RescaleExact

\* RescaleExact for any word whose products fit: splitting off whole seconds
\* loses nothing, and only results out of range fail (tgpio_rescale_common).
THEOREM RescalingIsExact == ASSUME ProductsFit PROVE Sweep => []RescaleExact
<1>1. Swept => RescaleExact
  BY SweepRescale
<1> QED
  BY <1>1, Sweeps, PTL

-----------------------------------------------------------------------------
(* Output edges *)

\* AlignsOnGrid for every counter, requested edge and period.
LEMMA SweepAligns == ASSUME Swept PROVE AlignsOnGrid
<1>1. count \in Nat
  BY WordTypes DEF Swept
<1>2. ASSUME NEW requested \in Anchors PROVE requested \in 0..S64Max
  BY SweepAssumption, MathAssumption
<1>3. ASSUME NEW period \in Intervals \ {0} PROVE period \in Nat \ {0}
  BY SweepAssumption, MathAssumption
<1> QED
  BY <1>1, <1>2, <1>3, Aligned DEF AlignsOnGrid

\* A late output starts on its own grid (tgpio_output_align_first_edge).
THEOREM LateOutputsStartOnGrid == Sweep => []AlignsOnGrid
  BY SweepAligns, Sweeps, PTL

\* WakesFollowEdges for every counter, requested edge and interval.
LEMMA SweepWakes == ASSUME Swept PROVE WakesFollowEdges
<1> SUFFICES ASSUME NEW requested \in Anchors, NEW period \in Intervals,
                    NEW duty \in Intervals,
                    OutputTimes(period, duty, TRUE).ok
             PROVE  LET times == OutputTimes(period, duty, TRUE)
                        timing == OutputTiming(count, requested, times.val)
                        edges == timing.val
                        lead == edges.first - edges.wake
                    IN timing.ok
                         => /\ edges.prime > count
                            /\ edges.wake > edges.prime
                            /\ edges.wake + times.val.high >= edges.first
                            /\ edges.wake + period >= edges.first + times.val.high
  BY DEF WakesFollowEdges
<1> DEFINE times == OutputTimes(period, duty, TRUE)
           timing == OutputTiming(count, requested, times.val)
           low == period - duty
<1>1. /\ count \in Nat /\ requested \in 0..S64Max /\ period \in Nat /\ duty \in Nat
  BY SweepAssumption, MathAssumption, WordTypes DEF Swept
<1>2. /\ duty \in Nat \ {0} /\ low \in Nat \ {0}
      /\ times.val.high = duty /\ times.val.low = low
  BY <1>1 DEF OutputTimes, Ok, Err
<1> HIDE DEF times, low
<1>3. timing.ok => /\ timing.val.prime > count
                   /\ timing.val.wake > timing.val.prime
                   /\ timing.val.wake + duty >= timing.val.first
                   /\ timing.val.wake + (duty + low) >= timing.val.first + duty
  BY <1>1, <1>2, Wakes
<1>4. duty + low = period
  BY <1>1 DEF low
<1> QED
  BY <1>2, <1>3, <1>4 DEF timing, times

\* The wake of an edge comes after the compare before it, so that the work may
\* move the compare (tgpio_prepare_output_timing, tgpio_output_lead_time_ns).
THEOREM WakesComeBetweenEdges == Sweep => []WakesFollowEdges
  BY SweepWakes, Sweeps, PTL

-----------------------------------------------------------------------------
(* Times read back *)

\* A corrected time and its nanoseconds per rate fit the word, as at most
\* 1.1 * 10^9 times 10^9 do; and a cycle lasts at least 4 ns, as the 26 ns of
\* the 38.4 MHz ART and of every slower one do.
RatesFit == (NsecPerSec + MaxRate) * NsecPerSec <= Word
CyclesLast == \A hz \in Frequencies : 4 * hz <= NsecPerSec

\* Cycles converted to a corrected time, rounded down or to the nearest, are
\* found again.
LEMMA ReadBack ==
    ASSUME ProductsFit, RatesFit, CyclesLast,
           NEW c \in Int, Abs(c) <= S64Max, NEW hz \in Frequencies,
           NEW ppb \in -MaxRate..MaxRate, NEW nearest \in BOOLEAN
    PROVE  LET base == CyclesDeltaToNs(c, hz, nearest)
               adj == BaseToAdjusted(base.val, ppb)
               back == AdjustedToBase(adj.val, ppb)
           IN base.ok /\ adj.ok /\ back.ok =>
                /\ NsDeltaToCycles(back.val, hz, TRUE) = Ok(c)
                /\ adj.val \in S64Min..S64Max
                /\ c >= 0 => adj.val >= 0
                /\ c = 0 <=> adj.val = 0
<1> DEFINE base == CyclesDeltaToNs(c, hz, nearest)
           adj == BaseToAdjusted(base.val, ppb)
           back == AdjustedToBase(adj.val, ppb)
<1> SUFFICES ASSUME base.ok, adj.ok, back.ok
             PROVE  /\ NsDeltaToCycles(back.val, hz, TRUE) = Ok(c)
                    /\ adj.val \in S64Min..S64Max
                    /\ c >= 0 => adj.val >= 0
                    /\ c = 0 <=> adj.val = 0
  OBVIOUS
<1>0. /\ base = CyclesDeltaToNs(c, hz, nearest)
      /\ adj = BaseToAdjusted(base.val, ppb)
      /\ back = AdjustedToBase(adj.val, ppb)
  OBVIOUS
<1> HIDE DEF base, adj, back
<1> USE <1>0
<1> DEFINE n == NsecPerSec
           k == Abs(c)
           m == Quotient(k * n, hz, nearest)
           a == Skewed(m, n, ppb)
           d == n + ppb
           b == (a * n) \div d
<1>1. /\ n \in Nat \ {0} /\ hz \in Nat \ {0} /\ 4 * hz <= n
      /\ ppb \in Int /\ 10 * Abs(ppb) <= n /\ k \in Nat /\ k <= S64Max
  <2>1. n \in Nat \ {0} /\ hz \in Nat \ {0} /\ 4 * hz <= n
    BY WordTypes, SweepAssumption, MathAssumption DEF CyclesLast
  <2>2. ppb \in Int /\ 10 * Abs(ppb) <= n
    BY WordTypes, SweepAssumption, MathAssumption DEF Abs
  <2>3. k \in Nat /\ k <= S64Max
    BY DEF Abs
  <2> QED
    BY <2>1, <2>2, <2>3
<1>2. /\ hz * n <= Word /\ n * hz <= Word /\ n * n <= Word
  BY DEF ProductsFit
<1>3. hz <= n
  BY <1>1
<1>4. /\ m \in Nat /\ m <= S64Max /\ a \in Nat
      /\ adj.val = SameSign(c, a) /\ adj.val \in S64Min..S64Max
      /\ c = 0 <=> a = 0
  <2> HIDE <1>0
  <2>1. /\ NsecPerSec * NsecPerSec <= Word /\ hz <= NsecPerSec
        /\ hz * NsecPerSec <= Word /\ 10 * Abs(ppb) <= NsecPerSec
    BY <1>1, <1>2, <1>3
  <2> HIDE DEF n
  <2> QED
    BY <1>0, <1>1, <2>1, Shown DEF n
<1>5. Lasts(k, n, m, hz)
  <2> HIDE DEF k, n
  <2> QED
    BY <1>1, <1>3, Lasting, Zenon
<1>6. /\ d \in Nat \ {0} /\ b \in Nat /\ b >= m - 1 /\ b <= m + 1
  <2> HIDE DEF n, m
  <2> QED
    BY <1>1, <1>4, TakenBack, Zenon
<1> HIDE DEF m, a, b, d
<1>7. /\ adj.val \in Int /\ Abs(adj.val) = a /\ (adj.val < 0 <=> c < 0)
      /\ (c = 0 <=> adj.val = 0) /\ (c >= 0 => adj.val >= 0)
  BY <1>4 DEF Abs, SameSign
<1>8. back.val = SameSign(adj.val, b)
  <2>1. d * n <= Word
    <3>1. d <= NsecPerSec + MaxRate /\ MaxRate \in Nat
      BY <1>1, SweepAssumption, MathAssumption DEF d
    <3>2. d * n <= (NsecPerSec + MaxRate) * n
      BY <1>1, <1>6, <3>1, Grows
    <3> DEFINE p == d * n
               r == (NsecPerSec + MaxRate) * NsecPerSec
    <3>3. p <= r /\ p \in Int /\ r \in Int /\ r <= Word
      BY <1>1, <1>6, <3>1, <3>2, Products DEF RatesFit
    <3> HIDE DEF p, r
    <3> QED
      BY <3>3, WordTypes DEF p
  <2>2. b < Word
    BY <1>4, <1>6, WordTypes
  <2>3. d = NsecPerSec + ppb /\ b = (a * NsecPerSec) \div d
    BY DEF d, b
  <2> QED
    BY <1>1, <1>4, <1>6, <1>7, <2>1, <2>2, <2>3, Unadjusted
<1>9. ToNearest(b * hz, n) = k
  <2> HIDE DEF k, n
  <2> QED
    BY <1>1, <1>4, <1>5, <1>6, NearestAgain
<1>10. c # 0 => b > 0
  <2>1. b = 0 => b * hz = 0
    BY <1>1
  <2>2. ToNearest(0, n) = 0
    <3>1. 0 * n <= 0 /\ 0 < 0 * n + n
      BY <1>1
    <3>2. 0 \div n = 0 /\ 0 % n = 0
      BY <1>1, <3>1, Floor
    <3> QED
      BY <1>1, <3>2 DEF Quotient, ToNearest
  <2>3. c # 0 => k # 0
    BY DEF Abs
  <2> HIDE DEF k, n
  <2> QED
    BY <1>1, <1>6, <1>9, <2>1, <2>2, <2>3
<1>11. back.val \in Int /\ Abs(back.val) = b /\ (back.val < 0 <=> c < 0)
  BY <1>6, <1>7, <1>8, <1>10 DEF Abs, SameSign
<1>12. NsDeltaToCycles(back.val, hz, TRUE) = Ok(SameSign(back.val, k))
  <2>1. NsDeltaToCycles(back.val, hz, TRUE) = Signed(back.val, n, hz, TRUE)
    BY DEF NsDeltaToCycles
  <2> HIDE DEF k, n
  <2>2. Quotient(Abs(back.val) * hz, n, TRUE) = k
    BY <1>9, <1>11, Zenon DEF ToNearest
  <2> DEFINE q == Quotient(Abs(back.val) * hz, n, TRUE)
  <2>3. q <= S64Max => Signed(back.val, n, hz, TRUE) = Ok(SameSign(back.val, q))
    <3>1. TRUE \in BOOLEAN
      OBVIOUS
    <3> QED
      BY <1>1, <1>2, <1>11, <3>1, SignKept, Zenon
  <2> QED
    BY <1>1, <2>1, <2>2, <2>3, Zenon
<1>13. SameSign(back.val, k) = c
  BY <1>11 DEF SameSign, Abs
<1> QED
  BY <1>4, <1>7, <1>12, <1>13

\* tgpio_phc_ns_to_art after tgpio_phc_art_to_ns, on either side of the anchor
LEMMA TimesReturn ==
    ASSUME ProductsFit, RatesFit, CyclesLast,
           NEW p, p.art \in Nat, p.ns \in Int, p.hz \in Frequencies,
           p.ppb \in -MaxRate..MaxRate,
           NEW art \in 0..(Word - 1), ArtToNs(p, art).ok,
           AdjustedToBase(ArtToNs(p, art).val - p.ns, p.ppb).ok
    PROVE  NsToArt(p, ArtToNs(p, art).val) = Ok(art)
<1> DEFINE anchor == p.art
           pns == p.ns
           hz == p.hz
           ppb == p.ppb
           ns == ArtToNs(p, art)
<1>0. /\ anchor \in Nat /\ pns \in Int /\ hz \in Frequencies /\ ppb \in -MaxRate..MaxRate
      /\ p.art = anchor /\ p.ns = pns /\ p.hz = hz /\ p.ppb = ppb
      /\ ns = ArtToNs(p, art) /\ ns.ok /\ AdjustedToBase(ns.val - pns, ppb).ok
  OBVIOUS
<1> HIDE DEF anchor, pns, hz, ppb, ns
<1> USE <1>0
<1> DEFINE c == art - anchor
           base == CyclesDeltaToNs(c, hz, FALSE)
           adj == BaseToAdjusted(base.val, ppb)
           back == AdjustedToBase(adj.val, ppb)
           delta == Add(ns.val, -pns)
           cycles == NsDeltaToCycles(back.val, hz, TRUE)
<1>1. /\ art \in Int /\ art >= 0 /\ art <= Word - 1 /\ c \in Int /\ Abs(c) \in Int
      /\ anchor + c = art
  BY WordTypes DEF Abs
<1>2. Abs(c) <= S64Max /\ base.ok /\ adj.ok /\ ns = Add(pns, adj.val)
  <2>1. ns = IF Abs(c) > S64Max \/ ~base.ok \/ ~adj.ok THEN Err ELSE Add(pns, adj.val)
    BY DEF ArtToNs
  <2>2. ~Err.ok
    BY DEF Err
  <2> HIDE DEF base, adj, c
  <2> QED
    BY <1>1, <2>1, <2>2, WordTypes
<1>3. adj.val \in S64Min..S64Max /\ adj.val \in Int
  <2>1. adj = Add(base.val, ApplyPpb(base.val, ppb))
    BY DEF BaseToAdjusted
  <2>2. adj.val \in S64Min..S64Max
    <3> HIDE DEF adj, base
    <3> QED
      BY <1>2, <2>1, Added, Zenon
  <2> HIDE DEF adj
  <2> QED
    BY <2>2, WordTypes
<1>4. NsToArt(p, ns.val) =
        LET base2 == AdjustedToBase(delta.val, ppb)
            cycles2 == NsDeltaToCycles(base2.val, hz, TRUE)
        IN IF ~delta.ok \/ ~base2.ok \/ ~cycles2.ok
                \/ anchor + cycles2.val \notin 0..(Word - 1)
             THEN Err
             ELSE Ok(anchor + cycles2.val)
  BY DEF NsToArt
<1> HIDE DEF c, adj
<1>5. ns.val = pns + adj.val
  BY <1>2, Added
<1>6. /\ ns.val - pns = adj.val /\ ns.val + (-pns) = adj.val
  BY <1>3, <1>5
<1>7. back.ok /\ delta = Ok(adj.val)
  BY <1>3, <1>6, Added
<1>8. delta.ok /\ delta.val = adj.val
  BY <1>7 DEF Ok
<1>9. cycles = Ok(c)
  <2>1. FALSE \in BOOLEAN
    OBVIOUS
  <2> QED
    <3>1. base.ok /\ adj.ok /\ back.ok /\ c \in Int /\ Abs(c) <= S64Max
      <4> HIDE DEF base, back
      <4> QED
        BY <1>1, <1>2, <1>7
    <3>2. hz \in Frequencies /\ ppb \in -MaxRate..MaxRate
      OBVIOUS
    <3> HIDE <1>0
    <3> QED
      BY <2>1, <3>1, <3>2, ReadBack, Zenon DEF adj
<1> HIDE DEF cycles
<1>10. cycles.ok /\ cycles.val = c
  BY <1>9 DEF Ok
<1>11. LET base2 == AdjustedToBase(delta.val, ppb)
           cycles2 == NsDeltaToCycles(base2.val, hz, TRUE)
       IN base2 = back /\ cycles2 = cycles
  BY <1>8, Zenon DEF cycles
<1>12. anchor + c \in 0..(Word - 1)
  BY <1>1, WordTypes
<1> HIDE DEF delta, back
<1> QED
  BY <1>1, <1>4, <1>7, <1>8, <1>10, <1>11, <1>12

\* tgpio_phc_delta_to_art_cycles after tgpio_phc_art_cycles_to_delta_ns
LEMMA IntervalsReturn ==
    ASSUME ProductsFit, RatesFit, CyclesLast,
           NEW p, p.hz \in Frequencies, p.ppb \in -MaxRate..MaxRate,
           NEW n \in Nat, ArtCyclesToDelta(p, n).ok,
           AdjustedToBase(ArtCyclesToDelta(p, n).val, p.ppb).ok
    PROVE  DeltaToArtCycles(p, ArtCyclesToDelta(p, n).val) = Ok(n)
<1> DEFINE hz == p.hz
           ppb == p.ppb
           delta == ArtCyclesToDelta(p, n)
<1>0. /\ hz \in Frequencies /\ ppb \in -MaxRate..MaxRate /\ p.hz = hz /\ p.ppb = ppb
      /\ delta = ArtCyclesToDelta(p, n) /\ delta.ok /\ AdjustedToBase(delta.val, ppb).ok
  OBVIOUS
<1> HIDE DEF hz, ppb, delta
<1> USE <1>0
<1> DEFINE base == CyclesDeltaToNs(n, hz, TRUE)
           adj == BaseToAdjusted(base.val, ppb)
           back == AdjustedToBase(adj.val, ppb)
           cycles == NsDeltaToCycles(back.val, hz, TRUE)
<1>1. n \in Int /\ Abs(n) = n
  BY DEF Abs
<1>2. n <= S64Max /\ base.ok /\ adj.ok /\ delta = adj
  <2>1. delta = IF n > S64Max \/ ~base.ok \/ ~adj.ok \/ adj.val < 0 THEN Err ELSE adj
    BY DEF ArtCyclesToDelta
  <2>2. ~Err.ok
    BY DEF Err
  <2> HIDE DEF base, adj
  <2> QED
    BY <2>1, <2>2, WordTypes
<1>3. DeltaToArtCycles(p, adj.val) = IF adj.val <= 0 THEN Ok(0)
                                     ELSE IF ~back.ok THEN Err ELSE cycles
  BY DEF DeltaToArtCycles
<1>4. /\ cycles = Ok(n) /\ adj.val \in S64Min..S64Max
      /\ adj.val >= 0 /\ (n = 0 <=> adj.val = 0)
  <2>1. TRUE \in BOOLEAN /\ Abs(n) <= S64Max /\ n >= 0
    <3> HIDE DEF base, adj
    <3> QED
      BY <1>1, <1>2
  <2>2. back.ok
    <3> HIDE DEF base, adj
    <3> QED
      BY <1>2
  <2> QED
    BY <1>1, <1>2, <2>1, <2>2, ReadBack, Zenon
<1> HIDE DEF base, adj, cycles
<1>5. adj.val \in Int
  BY <1>4, WordTypes
<1> QED
  BY <1>2, <1>3, <1>4, <1>5

\* RoundTrip for every counter and mapping.
LEMMA SweepReturns ==
    ASSUME ProductsFit, RatesFit, CyclesLast, Swept PROVE RoundTrip
<1>1. /\ count \in 0..(Word - 1) /\ count \in Nat
      /\ model.art \in Nat /\ model.ns \in Int
      /\ model.hz \in Frequencies /\ model.ppb \in -MaxRate..MaxRate
  <2>1. /\ model.art \in Anchors /\ model.ns \in Anchors
        /\ model.hz \in Frequencies /\ model.ppb \in -MaxRate..MaxRate
    BY DEF Swept, SweepMappings
  <2>2. count \in 0..(Word - 1)
    BY DEF Swept
  <2>3. \A x \in Anchors : x \in Nat /\ x \in Int
    BY SweepAssumption, MathAssumption, WordTypes
  <2>4. count \in Nat
    BY <2>2, WordTypes
  <2> QED
    BY <2>1, <2>2, <2>3, <2>4, Zenon
<1>2. ASSUME ArtToNs(model, count).ok,
             AdjustedToBase(ArtToNs(model, count).val - model.ns, model.ppb).ok
      PROVE  NsToArt(model, ArtToNs(model, count).val) = Ok(count)
  BY <1>1, <1>2, TimesReturn
<1>3. ASSUME ArtCyclesToDelta(model, count).ok,
             AdjustedToBase(ArtCyclesToDelta(model, count).val, model.ppb).ok
      PROVE  DeltaToArtCycles(model, ArtCyclesToDelta(model, count).val) = Ok(count)
  BY <1>1, <1>3, IntervalsReturn
<1> QED
  BY <1>2, <1>3, Zenon DEF RoundTrip

\* A compare value read back as a time is the same compare value again
\* (tgpio_phc_art_to_ns, tgpio_phc_ns_to_art and their intervals).
THEOREM ReadBackIsExact ==
    ASSUME ProductsFit, RatesFit, CyclesLast PROVE Sweep => []RoundTrip
<1>1. Swept => RoundTrip
  BY SweepReturns
<1> QED
  BY <1>1, Sweeps, PTL
=============================================================================
