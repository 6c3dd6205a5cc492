--------------------------- MODULE LightCurve_proofs ---------------------------
(***************************************************************************)
(* The levels that the engine computes, for every day, every number of     *)
(* rows and of minutes: their range for any settings that are whole        *)
(* numbers, their course from a row to the next, and the rows of a push    *)
(* for the settings that the handlers leave (NormalAssumption).            *)
(***************************************************************************)
EXTENDS LightCurve, TLAPS

LampLevels == [Channel -> Percent]
Rows == [Slot -> [Channel -> Int]]

LEMMA CutRange == \A v \in Int : Cut(v) \in Percent
BY DEF Cut, Clamp, Percent

LEMMA RoundedInt == \A n \in Int, d \in Nat \ {0} : Rounded(n, d) \in Int
BY DEF Rounded

LEMMA ScaleRange == \A v \in Int, p \in Int : Scale(v, p) \in Percent
<1> SUFFICES ASSUME NEW v \in Int, NEW p \in Int PROVE Scale(v, p) \in Percent
  OBVIOUS
<1>1. v * p \in Int
  OBVIOUS
<1>2. Rounded(v * p, 100) \in Int
  BY <1>1, RoundedInt
<1> QED BY <1>2, CutRange DEF Scale

LEMMA TimesGrows ==
    ASSUME NEW h \in Nat, NEW a \in Int, NEW b \in Int, a <= b
    PROVE  h * a <= h * b
<1>1. h * (b - a) >= 0
  <2>1. b - a \in Nat
    OBVIOUS
  <2>2. \A n \in Nat : h * n >= 0
    OBVIOUS
  <2> QED BY <2>1, <2>2
<1>2. h * b = h * a + h * (b - a)
  OBVIOUS
<1>3. h * a \in Int /\ h * b \in Int /\ h * (b - a) \in Int
  OBVIOUS
<1> QED BY <1>1, <1>2, <1>3

LEMMA DayFacts ==
    /\ Day \in Nat \ {0} /\ Slots \in Nat \ {0} /\ Hour \in Nat \ {0}
    /\ \A m \in Int : WrapMinutes(m) \in Minute
    /\ \A m \in Minute : m \div Hour \in Slot
    /\ \A h \in Slot : RowAfter(h) \in Slot
<1>1. Slots \in Nat \ {0} /\ Hour \in Nat \ {0}
  BY CurveAssumption
<1>2. Day \in Nat \ {0}
  BY <1>1 DEF Day
<1>3. \A m \in Int : WrapMinutes(m) \in Minute
  <2>1. ASSUME NEW m \in Int PROVE m % Day \in 0..(Day - 1)
    BY <1>2
  <2> QED BY <2>1 DEF WrapMinutes, Minute
<1>4. ASSUME NEW m \in Minute PROVE m \div Hour \in Slot
  <2> DEFINE q == m \div Hour
             r == m % Hour
  <2>1. m \in Nat /\ m < Slots * Hour
    BY <1>1, <1>2 DEF Minute, Day
  <2>2. m = Hour * q + r /\ q \in Int /\ r \in 0..(Hour - 1)
    BY <1>1, <2>1
  <2> HIDE DEF q, r
  <2>3. q >= 0
    <3>1. SUFFICES ASSUME q <= 0 - 1 PROVE FALSE
      BY <2>2
    <3>2. Hour \in Nat /\ 0 - 1 \in Int
      BY <1>1
    <3>3. Hour * q <= Hour * (0 - 1)
      BY <2>2, <3>1, <3>2, TimesGrows
    <3> QED BY <1>1, <2>1, <2>2, <3>3
  <2>4. q < Slots
    <3>1. SUFFICES ASSUME Slots <= q PROVE FALSE
      BY <1>1, <2>2
    <3>2. Hour * Slots <= Hour * q
      BY <1>1, <2>2, <3>1, TimesGrows
    <3>3. Hour * Slots = Slots * Hour /\ Hour * q \in Int /\ Slots * Hour \in Int
      BY <1>1, <2>2
    <3> QED BY <1>1, <2>1, <2>2, <3>2, <3>3
  <2> QED BY <1>1, <2>2, <2>3, <2>4 DEF Slot, q
<1>5. \A h \in Slot : RowAfter(h) \in Slot
  BY <1>1 DEF RowAfter, Slot
<1> QED BY <1>1, <1>2, <1>3, <1>4, <1>5

LEMMA AtRange ==
    ASSUME NEW rows \in Rows, NEW m \in Minute
    PROVE  At(rows, m) \in LampLevels
<1> DEFINE lo == rows[m \div Hour]
           hi == rows[RowAfter(m \div Hour)]
<1>1. lo \in [Channel -> Int] /\ hi \in [Channel -> Int]
  BY DayFacts DEF Rows
<1>2. ASSUME NEW c \in Channel
      PROVE  lo[c] * Hour + (m % Hour) * (hi[c] - lo[c]) \in Int
  <2>1. lo[c] \in Int /\ hi[c] \in Int /\ Hour \in Nat \ {0} /\ m \in Int
    BY <1>1, DayFacts DEF Minute
  <2>2. m % Hour \in Int
    BY <2>1
  <2> HIDE DEF lo, hi
  <2> QED BY <2>1, <2>2
<1>3. \A c \in Channel :
         Cut(Rounded(lo[c] * Hour + (m % Hour) * (hi[c] - lo[c]), Hour)) \in Percent
  BY <1>2, RoundedInt, CutRange, DayFacts
<1>4. At(rows, m) = [c \in Channel |->
         Cut(Rounded(lo[c] * Hour + (m % Hour) * (hi[c] - lo[c]), Hour))]
  BY DEF At
<1> HIDE DEF lo, hi
<1> QED BY <1>3, <1>4 DEF LampLevels

LEMMA LevelsAreWhole == LampLevels \subseteq [Channel -> Int]
BY DEF LampLevels, Percent

LEMMA AcclimationInt ==
    ASSUME NEW s \in Setup, NEW d \in Nat
    PROVE  AcclimationPercent(s.acclimation, d) \in Int
<1> DEFINE a == s.acclimation
<1>1. a.start \in Int /\ a.days \in Int
  BY SetupAssumption
<1> HIDE DEF a
<1>2. a.days > 0 => Rounded(a.start * a.days + (100 - a.start) * d, a.days) \in Int
  <2>1. a.start * a.days + (100 - a.start) * d \in Int
    BY <1>1
  <2> QED BY <1>1, <2>1, RoundedInt
<1>3. AcclimationPercent(a, d) \in Int
  BY <1>1, <1>2 DEF AcclimationPercent, Clamp
<1> QED BY <1>3 DEF a

LampRows == [Slot -> LampLevels]

LEMMA LampRowsAreRows == LampRows \subseteq Rows
BY LevelsAreWhole DEF LampRows, Rows

LEMMA EffectivePercent ==
    ASSUME NEW s \in Setup, NEW d \in Nat
    PROVE  EffectiveSchedule(s, d) \in LampRows
<1> DEFINE percent == AcclimationPercent(s.acclimation, d)
           sample(h) == At(s.rows, WrapMinutes(h * Hour - s.shift))
<1>1. percent \in Int
  BY AcclimationInt
<1>2. ASSUME NEW h \in Slot PROVE sample(h) \in LampLevels
  <2>1. s.rows \in Rows /\ s.shift \in Int
    BY SetupAssumption DEF Rows
  <2>2. h * Hour - s.shift \in Int
    BY <2>1, DayFacts DEF Slot
  <2>3. WrapMinutes(h * Hour - s.shift) \in Minute
    BY <2>2, DayFacts
  <2> QED BY <2>1, <2>3, AtRange
<1>3. \A h \in Slot, c \in Channel : Scale(sample(h)[c], percent) \in Percent
  BY <1>1, <1>2, LevelsAreWhole, ScaleRange
<1>4. EffectiveSchedule(s, d) = [h \in Slot |-> [c \in Channel |-> Scale(sample(h)[c], percent)]]
  BY DEF EffectiveSchedule
<1> HIDE DEF percent, sample
<1> QED BY <1>3, <1>4 DEF LampRows, LampLevels

LEMMA ComputeRange ==
    ASSUME NEW s \in Setup, NEW eff \in Rows, NEW m \in Minute
    PROVE  Compute(s, eff, m) \in LampLevels
<1>1. At(eff, m) \in LampLevels
  BY AtRange
<1>2. /\ s.siesta.depth \in Int /\ s.master \in Int /\ s.lunar.level \in Int /\ s.lit \in Int
      /\ EngineMaster(s) \in Int
  BY SetupAssumption DEF EngineMaster
<1>3. ApplySiesta(s, At(eff, m), m) \in LampLevels
  <2>1. 100 - s.siesta.depth \in Int
    BY <1>2
  <2>2. \A c \in Channel : Scale(At(eff, m)[c], 100 - s.siesta.depth) \in Percent
    BY <1>1, <2>1, LevelsAreWhole, ScaleRange
  <2> QED BY <1>1, <2>2 DEF ApplySiesta, LampLevels
<1> DEFINE ch == ApplyMaster(EngineMaster(s), ApplySiesta(s, At(eff, m), m))
<1>4. ch \in LampLevels
  BY <1>2, <1>3, LevelsAreWhole, ScaleRange DEF ApplyMaster, LampLevels
<1> HIDE DEF ch
<1>5. ApplyLunar(s, ch) \in LampLevels
  <2> DEFINE level == Cut(Rounded(s.lunar.level * s.lit, 100))
  <2>1. level \in Percent
    <3>1. s.lunar.level * s.lit \in Int
      BY <1>2
    <3>2. Rounded(s.lunar.level * s.lit, 100) \in Int
      BY <3>1, RoundedInt
    <3> QED BY <3>2, CutRange
  <2>2. Cut(Rounded(level * 7, 10)) \in Percent
    <3> HIDE DEF level
    <3>1. level * 7 \in Int
      BY <2>1 DEF Percent
    <3> QED BY <3>1, RoundedInt, CutRange
  <2>3. \A v, w \in Percent : Raised(v, w) \in Percent
    BY DEF Raised
  <2> DEFINE moonlit == [ch EXCEPT ![MoonChannel] = Raised(@, level)]
  <2>4. ApplyLunar(s, ch) =
          IF s.pro
          THEN [moonlit EXCEPT ![CyanChannel] = Raised(@, Cut(Rounded(level * 7, 10)))]
          ELSE moonlit
    BY DEF ApplyLunar
  <2>5. MoonChannel \in Channel /\ CyanChannel \in Channel
    BY CurveAssumption
  <2> HIDE DEF level
  <2>6. moonlit \in LampLevels
    BY <1>4, <2>1, <2>3, <2>5 DEF LampLevels
  <2> HIDE DEF moonlit
  <2> QED BY <2>2, <2>3, <2>4, <2>5, <2>6 DEF LampLevels
<1>6. Compute(s, eff, m) = IF LunarActive(s, eff, m) THEN ApplyLunar(s, ch) ELSE ch
  BY DEF Compute, ch
<1> QED BY <1>4, <1>5, <1>6

CurveInv ==
    /\ setup \in Setup /\ minute \in Minute /\ day \in Nat
    /\ effective \in Rows /\ shown \in LampLevels

LEMMA CurveStep == CurveInv /\ [CurveNext]_curveVars => CurveInv'
<1> SUFFICES ASSUME CurveInv, [CurveNext]_curveVars PROVE CurveInv'
  OBVIOUS
<1>1. CASE CurveNext
  <2>1. setup' = setup /\ setup \in Setup
    BY <1>1 DEF CurveNext, Tick, CurveInv
  <2>2. minute' \in Minute
    <3>1. minute + 1 \in Int /\ minute' = WrapMinutes(minute + 1)
      BY <1>1 DEF CurveNext, Tick, CurveInv, Minute
    <3> QED BY <3>1, DayFacts
  <2>3. day' \in Nat
    BY <1>1 DEF CurveNext, Tick, CurveInv
  <2>4. effective' \in Rows
    BY <1>1, <2>1, <2>3, EffectivePercent, LampRowsAreRows DEF CurveNext, Tick, CurveInv
  <2>5. shown' \in LampLevels
    BY <1>1, <2>1, <2>2, <2>4, ComputeRange DEF CurveNext, Tick
  <2> QED BY <2>1, <2>2, <2>3, <2>4, <2>5 DEF CurveInv
<1>2. CASE UNCHANGED curveVars
  BY <1>2 DEF curveVars, CurveInv
<1> QED BY <1>1, <1>2

LEMMA CurveStart == CurveInit => CurveInv
<1> SUFFICES ASSUME CurveInit PROVE CurveInv
  OBVIOUS
<1>1. setup \in Setup /\ minute = 0 /\ minute \in Minute /\ day = 0
  BY DayFacts DEF CurveInit, Minute
<1>2. effective \in Rows
  BY <1>1, EffectivePercent, LampRowsAreRows DEF CurveInit
<1>3. shown \in LampLevels
  BY <1>1, <1>2, ComputeRange DEF CurveInit
<1> QED BY <1>1, <1>2, <1>3 DEF CurveInv

\* The clock and the day stay in their ranges, and every row and level is a whole number.
LEMMA CurveTypeCorrect == CurveSpec => []CurveTypeOK
<1>1. CurveInit => day \in 0..LastDay
  BY CurveAssumption DEF CurveInit
<1>2. CurveInv /\ day \in 0..LastDay /\ [CurveNext]_curveVars => (day \in 0..LastDay)'
  BY CurveAssumption DEF CurveNext, Tick, curveVars, CurveInv
<1>3. CurveInv /\ day \in 0..LastDay => CurveTypeOK
  BY DEF CurveInv, Rows, LampLevels, Percent, CurveTypeOK
<1> QED BY <1>1, <1>2, <1>3, CurveStart, CurveStep, PTL DEF CurveSpec

\* Every level the engine computes is one that a byte of the lamp's packet and the
\* lamp can take, whatever the settings and for a moon on top of a master above 100
\* (Compute of model.go).
THEOREM LevelsCorrect == CurveSpec => []LevelsInRange
<1>1. CurveInv => LevelsInRange
  BY DEF CurveInv, LampLevels, LevelsInRange
<1> QED BY <1>1, CurveStart, CurveStep, PTL DEF CurveSpec

-----------------------------------------------------------------------------
(* Division and rounding. *)

LEMMA DivUnique ==
    ASSUME NEW d \in Nat \ {0}, NEW q \in Int, NEW r \in 0..d - 1, NEW a \in Int, a = d * q + r
    PROVE  a \div d = q /\ a % d = r
<1> DEFINE k == a \div d
           t == a % d
<1>1. k \in Int /\ t \in 0..d - 1 /\ a = d * k + t
  OBVIOUS
<1> HIDE DEF k, t
<1>2. ~(k + 1 <= q)
  <2>1. SUFFICES ASSUME k + 1 <= q PROVE FALSE
    OBVIOUS
  <2>2. d * (k + 1) <= d * q
    BY <1>1, <2>1, TimesGrows
  <2>3. d * (k + 1) = d * k + d /\ d * k \in Int /\ d * q \in Int
    BY <1>1
  <2> QED BY <1>1, <2>2, <2>3
<1>3. ~(q + 1 <= k)
  <2>1. SUFFICES ASSUME q + 1 <= k PROVE FALSE
    OBVIOUS
  <2>2. d * (q + 1) <= d * k
    BY <1>1, <2>1, TimesGrows
  <2>3. d * (q + 1) = d * q + d /\ d * k \in Int /\ d * q \in Int
    BY <1>1
  <2> QED BY <1>1, <2>2, <2>3
<1>4. k = q
  BY <1>1, <1>2, <1>3
<1>5. t = r
  <2>1. d * q \in Int
    OBVIOUS
  <2> QED BY <1>1, <1>4, <2>1
<1> QED BY <1>4, <1>5 DEF k, t

LEMMA ModSmall ==
    ASSUME NEW d \in Nat \ {0}, NEW a \in 0..d - 1
    PROVE  a % d = a /\ a \div d = 0
<1>1. a = d * 0 + a /\ a \in Int
  OBVIOUS
<1> QED BY <1>1, DivUnique

LEMMA DivGrows ==
    ASSUME NEW d \in Nat \ {0}, NEW a \in Int, NEW b \in Int, a <= b
    PROVE  a \div d <= b \div d
<1> DEFINE k == a \div d
           l == b \div d
           r == a % d
           t == b % d
<1>1. k \in Int /\ r \in 0..d - 1 /\ a = d * k + r
  OBVIOUS
<1>2. l \in Int /\ t \in 0..d - 1 /\ b = d * l + t
  OBVIOUS
<1> HIDE DEF k, l, r, t
<1>3. ~(l + 1 <= k)
  <2>1. SUFFICES ASSUME l + 1 <= k PROVE FALSE
    OBVIOUS
  <2>2. d * (l + 1) <= d * k
    BY <1>1, <1>2, <2>1, TimesGrows
  <2>3. d * (l + 1) = d * l + d /\ d * k \in Int /\ d * l \in Int
    BY <1>1, <1>2
  <2> QED BY <1>1, <1>2, <2>2, <2>3
<1>4. k <= l
  BY <1>1, <1>2, <1>3
<1> QED BY <1>4 DEF k, l

\* A whole number of d-ths is rounded to itself.
LEMMA RoundedExact ==
    ASSUME NEW d \in Nat \ {0}, NEW v \in Int
    PROVE  Rounded(v * d, d) = v
<1> DEFINE n == v * d
<1>1. n \in Int /\ 2 * d \in Nat \ {0} /\ d \in 0..2 * d - 1
  OBVIOUS
<1>2. 2 * n + d = (2 * d) * v + d
  OBVIOUS
<1>3. 2 * (-n) + d = (2 * d) * (-v) + d
  OBVIOUS
<1> HIDE DEF n
<1>4. (2 * n + d) \div (2 * d) = v
  BY <1>1, <1>2, DivUnique
<1>5. (2 * (-n) + d) \div (2 * d) = -v
  BY <1>1, <1>3, DivUnique
<1>6. Rounded(n, d) = v
  BY <1>4, <1>5 DEF Rounded
<1> QED BY <1>6 DEF n

LEMMA RoundedGrows ==
    ASSUME NEW d \in Nat \ {0}, NEW a \in Int, NEW b \in Int, a <= b
    PROVE  Rounded(a, d) <= Rounded(b, d)
<1>0. 2 * d \in Nat \ {0} /\ 0 \div (2 * d) = 0
  <2>1. 2 * d \in Nat \ {0}
    OBVIOUS
  <2>2. 0 = (2 * d) * 0 + 0 /\ 0 \in 0..(2 * d - 1)
    OBVIOUS
  <2> QED BY <2>1, <2>2, DivUnique
<1>1. CASE a >= 0
  <2>1. (2 * a + d) \div (2 * d) <= (2 * b + d) \div (2 * d)
    BY <1>0, DivGrows
  <2> QED BY <1>1, <2>1 DEF Rounded
<1>2. CASE b < 0
  <2>1. (2 * (-b) + d) \div (2 * d) <= (2 * (-a) + d) \div (2 * d)
    BY <1>0, DivGrows
  <2>2. (2 * (-b) + d) \div (2 * d) \in Int /\ (2 * (-a) + d) \div (2 * d) \in Int
    BY <1>0
  <2> QED BY <1>2, <2>1, <2>2 DEF Rounded
<1>3. CASE a < 0 /\ b >= 0
  <2>1. 0 \div (2 * d) <= (2 * b + d) \div (2 * d)
    BY <1>0, <1>3, DivGrows
  <2>2. 0 \div (2 * d) <= (2 * (-a) + d) \div (2 * d)
    BY <1>0, <1>3, DivGrows
  <2>3. (2 * b + d) \div (2 * d) \in Int /\ (2 * (-a) + d) \div (2 * d) \in Int
    BY <1>0
  <2> QED BY <1>0, <1>3, <2>1, <2>2, <2>3 DEF Rounded
<1> QED BY <1>1, <1>2, <1>3

-----------------------------------------------------------------------------
(* The effects keep the order of levels. *)

LEMMA CutPercent == \A v \in Percent : Cut(v) = v
BY DEF Cut, Clamp, Percent

LEMMA CutRoundedBetween ==
    ASSUME NEW d \in Nat \ {0}, NEW v \in Int, NEW a \in Int, NEW b \in Int, Between(v, a, b)
    PROVE  Between(Cut(Rounded(v, d)), Cut(Rounded(a, d)), Cut(Rounded(b, d)))
<1>1. Rounded(v, d) \in Int /\ Rounded(a, d) \in Int /\ Rounded(b, d) \in Int
  BY RoundedInt
<1>2. \A x, y \in Int : x <= y => Rounded(x, d) <= Rounded(y, d)
  BY RoundedGrows
<1>3. Between(Rounded(v, d), Rounded(a, d), Rounded(b, d))
  BY <1>2 DEF Between
<1>4. \A x, y \in Int : x <= y => Cut(x) <= Cut(y)
  BY DEF Cut, Clamp
<1> QED BY <1>1, <1>3, <1>4 DEF Between

LEMMA ScaleBetween ==
    ASSUME NEW pct \in Nat, NEW v \in Percent, NEW a \in Percent, NEW b \in Percent,
           Between(v, a, b)
    PROVE  Between(Scale(v, pct), Scale(a, pct), Scale(b, pct))
<1>1. \A x, y \in Percent : x <= y => x * pct <= y * pct
  <2>1. ASSUME NEW x \in Percent, NEW y \in Percent, x <= y PROVE x * pct <= y * pct
    <3>1. x \in Int /\ y \in Int
      BY DEF Percent
    <3>2. pct * x <= pct * y
      BY <2>1, <3>1, TimesGrows
    <3> QED BY <3>1, <3>2
  <2> QED BY <2>1
<1>2. v * pct \in Int /\ a * pct \in Int /\ b * pct \in Int
  BY DEF Percent
<1>3. Between(v * pct, a * pct, b * pct)
  BY <1>1 DEF Between
<1> QED BY <1>2, <1>3, CutRoundedBetween DEF Scale

LEMMA ScaleWhole == \A v \in Percent : Scale(v, 100) = v
<1> SUFFICES ASSUME NEW v \in Percent PROVE Scale(v, 100) = v
  OBVIOUS
<1>1. v \in Int
  BY DEF Percent
<1>2. Rounded(v * 100, 100) = v
  BY <1>1, RoundedExact
<1> QED BY <1>2, CutPercent DEF Scale

LEMMA RaisedBetween ==
    ASSUME NEW to \in Int, NEW v \in Int, NEW a \in Int, NEW b \in Int, Between(v, a, b)
    PROVE  Between(Raised(v, to), Raised(a, to), Raised(b, to))
BY DEF Between, Raised

(* What Compute makes of the interpolated levels, once it is known which   *)
(* windows are open.                                                       *)
RestedIn(s, asleep, ch) ==
    IF asleep THEN [c \in Channel |-> Scale(ch[c], 100 - s.siesta.depth)] ELSE ch
Driven(s, asleep, moon, ch) ==
    LET lit == ApplyMaster(EngineMaster(s), RestedIn(s, asleep, ch))
    IN IF moon THEN ApplyLunar(s, lit) ELSE lit

\* Three courses of levels, the first between the other two in every channel.
AllBetween(v, a, b) == \A c \in Channel : Between(v[c], a[c], b[c])

LEMMA ScaledBetween ==
    ASSUME NEW pct \in Nat, NEW v \in LampLevels, NEW a \in LampLevels, NEW b \in LampLevels,
           AllBetween(v, a, b)
    PROVE  LET f(ch) == [c \in Channel |-> Scale(ch[c], pct)]
           IN  /\ AllBetween(f(v), f(a), f(b))
               /\ f(v) \in LampLevels /\ f(a) \in LampLevels /\ f(b) \in LampLevels
<1> DEFINE f(ch) == [c \in Channel |-> Scale(ch[c], pct)]
<1>1. \A ch \in LampLevels : f(ch) \in LampLevels
  <2>1. ASSUME NEW ch \in LampLevels, NEW c \in Channel PROVE Scale(ch[c], pct) \in Percent
    BY LevelsAreWhole, ScaleRange
  <2> QED BY <2>1 DEF LampLevels
<1>2. ASSUME NEW c \in Channel PROVE Between(f(v)[c], f(a)[c], f(b)[c])
  <2>1. v[c] \in Percent /\ a[c] \in Percent /\ b[c] \in Percent /\ Between(v[c], a[c], b[c])
    BY DEF LampLevels, AllBetween
  <2>2. Between(Scale(v[c], pct), Scale(a[c], pct), Scale(b[c], pct))
    BY <2>1, ScaleBetween
  <2> QED BY <2>2
<1> QED BY <1>1, <1>2 DEF AllBetween

LEMMA LunarBetween ==
    ASSUME NEW s \in Setup, NEW v \in LampLevels, NEW a \in LampLevels, NEW b \in LampLevels,
           AllBetween(v, a, b)
    PROVE  AllBetween(ApplyLunar(s, v), ApplyLunar(s, a), ApplyLunar(s, b))
<1> DEFINE level == Cut(Rounded(s.lunar.level * s.lit, 100))
           cyan == Cut(Rounded(level * 7, 10))
<1>1. level \in Int
  <2>1. s.lunar.level * s.lit \in Int
    BY SetupAssumption
  <2>2. Rounded(s.lunar.level * s.lit, 100) \in Int
    BY <2>1, RoundedInt
  <2>3. level \in Percent
    BY <2>2, CutRange
  <2> QED BY <2>3 DEF Percent
<1>2. cyan \in Int
  <2> HIDE DEF level
  <2>1. level * 7 \in Int
    BY <1>1
  <2>2. cyan \in Percent
    BY <2>1, RoundedInt, CutRange
  <2> QED BY <2>2 DEF Percent
<1> DEFINE moonlit(ch) == [ch EXCEPT ![MoonChannel] = Raised(@, level)]
           full(ch) == [moonlit(ch) EXCEPT ![CyanChannel] = Raised(@, cyan)]
<1>3. \A ch : ApplyLunar(s, ch) = IF s.pro THEN full(ch) ELSE moonlit(ch)
  BY DEF ApplyLunar
<1> HIDE DEF level, cyan
<1>4. ASSUME NEW c \in Channel
      PROVE  /\ Between(moonlit(v)[c], moonlit(a)[c], moonlit(b)[c])
             /\ moonlit(v)[c] \in Int /\ moonlit(a)[c] \in Int /\ moonlit(b)[c] \in Int
  <2>1. v[c] \in Int /\ a[c] \in Int /\ b[c] \in Int /\ Between(v[c], a[c], b[c])
    BY LevelsAreWhole DEF AllBetween
  <2>2. \A ch \in LampLevels :
           moonlit(ch)[c] = IF c = MoonChannel THEN Raised(ch[c], level) ELSE ch[c]
    BY CurveAssumption DEF LampLevels
  <2>3. \A x \in Int : Raised(x, level) \in Int
    BY <1>1 DEF Raised
  <2>4. Between(Raised(v[c], level), Raised(a[c], level), Raised(b[c], level))
    BY <1>1, <2>1, RaisedBetween
  <2> HIDE DEF moonlit
  <2>5. CASE c = MoonChannel
    BY <2>1, <2>2, <2>3, <2>4, <2>5, Zenon
  <2>6. CASE c # MoonChannel
    BY <2>1, <2>2, <2>6, Zenon
  <2> QED BY <2>5, <2>6
<1>5. ASSUME NEW c \in Channel PROVE Between(full(v)[c], full(a)[c], full(b)[c])
  <2>1. \A ch \in LampLevels :
           full(ch)[c] = IF c = CyanChannel THEN Raised(moonlit(ch)[c], cyan) ELSE moonlit(ch)[c]
    BY CurveAssumption DEF LampLevels
  <2> HIDE DEF moonlit, full
  <2>2. Between(Raised(moonlit(v)[c], cyan), Raised(moonlit(a)[c], cyan),
                Raised(moonlit(b)[c], cyan))
    BY <1>2, <1>4, RaisedBetween
  <2>3. CASE c = CyanChannel
    BY <2>1, <2>2, <2>3, Zenon
  <2>4. CASE c # CyanChannel
    BY <1>4, <2>1, <2>4, Zenon
  <2> QED BY <2>3, <2>4
<1> HIDE DEF moonlit, full
<1> QED BY <1>3, <1>4, <1>5 DEF AllBetween

LEMMA DrivenBetween ==
    ASSUME NEW s \in Setup, NEW asleep \in BOOLEAN, NEW moon \in BOOLEAN,
           NEW v \in LampLevels, NEW a \in LampLevels, NEW b \in LampLevels, AllBetween(v, a, b)
    PROVE  AllBetween(Driven(s, asleep, moon, v), Driven(s, asleep, moon, a),
                      Driven(s, asleep, moon, b))
<1> DEFINE f(ch) == RestedIn(s, asleep, ch)
           g(ch) == ApplyMaster(EngineMaster(s), f(ch))
<1>1. AllBetween(f(v), f(a), f(b))
      /\ f(v) \in LampLevels /\ f(a) \in LampLevels /\ f(b) \in LampLevels
  <2>1. 100 - s.siesta.depth \in Nat
    BY NormalAssumption DEF Percent
  <2> QED BY ZenonT(40), <2>1, ScaledBetween DEF RestedIn
<1> HIDE DEF f
<1>2. AllBetween(g(v), g(a), g(b))
      /\ g(v) \in LampLevels /\ g(a) \in LampLevels /\ g(b) \in LampLevels
  <2>1. EngineMaster(s) \in Nat
    BY NormalAssumption DEF EngineMaster
  <2> QED BY <1>1, <2>1, ScaledBetween DEF ApplyMaster
<1>3. \A ch : Driven(s, asleep, moon, ch) = IF moon THEN ApplyLunar(s, g(ch)) ELSE g(ch)
  BY DEF Driven, f
<1> HIDE DEF g
<1> QED BY <1>2, <1>3, LunarBetween

-----------------------------------------------------------------------------
(* The clock and the rows. *)

\* From a minute to the next: within an hour, or to the full hour that follows,
\* which is midnight after the last one.
LEMMA MinuteAfter ==
    ASSUME NEW m \in Minute
    PROVE  LET n == WrapMinutes(m + 1)
               q == m \div Hour
               r == m % Hour
           IN  /\ q \in Slot /\ r \in 0..Hour - 1 /\ n \in Minute
               /\ \/ n \div Hour = q /\ n % Hour = r + 1 /\ r + 1 < Hour
                  \/ n \div Hour = RowAfter(q) /\ n % Hour = 0
<1> DEFINE n == WrapMinutes(m + 1)
           q == m \div Hour
           r == m % Hour
<1>0. Hour \in Nat \ {0} /\ Slots \in Nat \ {0} /\ Day \in Nat \ {0} /\ Day = Hour * Slots
  BY DayFacts DEF Day
<1>1. m \in Nat /\ m + 1 <= Day
  BY <1>0 DEF Minute
<1>2. q \in Slot /\ r \in 0..Hour - 1 /\ m = Hour * q + r
  BY <1>0, <1>1, DayFacts
<1>3. n \in Minute
  BY <1>1, DayFacts
<1>4. n = (m + 1) % Day
  BY DEF WrapMinutes
<1> HIDE DEF q, r, n
<1>5. q \in 0..Slots - 1 /\ q \in Int
  BY <1>0, <1>2 DEF Slot
<1>6. CASE r + 1 < Hour
  <2>1. m + 1 = Hour * q + (r + 1) /\ r + 1 \in 0..Hour - 1
    BY <1>0, <1>2, <1>5, <1>6
  <2>2. Hour * (q + 1) <= Hour * Slots
    BY <1>0, <1>5, TimesGrows
  <2>3. Hour * (q + 1) = Hour * q + Hour /\ Hour * q \in Int /\ Hour * Slots \in Int
    BY <1>0, <1>5
  <2>4. m + 1 \in 0..Day - 1
    BY <1>0, <1>1, <1>6, <2>1, <2>2, <2>3
  <2>5. n = m + 1
    <3>1. (m + 1) % Day = m + 1
      BY <1>0, <2>4, ModSmall
    <3> QED BY <1>4, <3>1
  <2>6. n \div Hour = q /\ n % Hour = r + 1
    <3> DEFINE e == r + 1
    <3>1. n \in Int /\ e \in 0..Hour - 1 /\ n = Hour * q + e
      BY <1>1, <2>1, <2>5
    <3> HIDE DEF e
    <3>2. n \div Hour = q /\ n % Hour = e
      BY <1>0, <1>5, <3>1, DivUnique
    <3> QED BY <3>2 DEF e
  <2> QED BY <1>2, <1>3, <1>6, <2>6 DEF q, r, n
<1>7. CASE r + 1 = Hour
  <2>1. m + 1 = Hour * (q + 1)
    BY <1>0, <1>2, <1>5, <1>7
  <2>2. CASE q + 1 < Slots
    <3>1. q + 1 \in Slot /\ RowAfter(q) = q + 1
      <4>1. q + 1 \in 0..Slots - 1
        BY <1>0, <1>5, <2>2
      <4>2. (q + 1) % Slots = q + 1
        BY <1>0, <4>1, ModSmall
      <4> QED BY <4>1, <4>2 DEF Slot, RowAfter
    <3>2. Hour * (q + 2) <= Hour * Slots
      BY <1>0, <1>5, <2>2, TimesGrows
    <3>3. Hour * (q + 2) = Hour * (q + 1) + Hour /\ Hour * (q + 1) \in Int
      BY <1>0, <1>5
    <3>4. m + 1 \in 0..Day - 1
      BY <1>0, <1>1, <2>1, <3>2, <3>3
    <3>5. n = m + 1
      <4>1. (m + 1) % Day = m + 1
        BY <1>0, <3>4, ModSmall
      <4> QED BY <1>4, <4>1
    <3>6. n = Hour * (q + 1) + 0 /\ 0 \in 0..Hour - 1 /\ n \in Int
      BY <1>0, <1>1, <1>5, <2>1, <3>5
    <3>7. n \div Hour = q + 1 /\ n % Hour = 0
      BY <1>0, <1>5, <3>6, DivUnique
    <3> QED BY <1>2, <1>3, <3>1, <3>7 DEF q, r, n
  <2>3. CASE q + 1 = Slots
    <3>1. RowAfter(q) = 0
      <4>1. Slots = Slots * 1 + 0 /\ 0 \in 0..Slots - 1
        BY <1>0
      <4>2. Slots % Slots = 0
        BY <1>0, <4>1, DivUnique
      <4> QED BY <2>3, <4>2 DEF RowAfter
    <3>2. n = 0
      <4>1. m + 1 = Day
        BY <1>0, <2>1, <2>3
      <4>2. Day = Day * 1 + 0 /\ 0 \in 0..Day - 1
        BY <1>0
      <4>3. Day % Day = 0
        BY <1>0, <4>2, DivUnique
      <4> QED BY <1>4, <4>1, <4>3
    <3>3. n \div Hour = 0 /\ n % Hour = 0
      <4>1. 0 = Hour * 0 + 0 /\ 0 \in 0..Hour - 1
        BY <1>0
      <4> QED BY <1>0, <3>2, <4>1, DivUnique
    <3> QED BY <1>2, <1>3, <3>1, <3>3 DEF q, r, n
  <2> QED BY <1>0, <1>5, <2>2, <2>3
<1> QED BY <1>0, <1>2, <1>6, <1>7

\* On the full hour the levels are those of its row.
LEMMA OnTheHour ==
    ASSUME NEW rows \in LampRows, NEW m \in Minute, m % Hour = 0
    PROVE  At(rows, m) = rows[m \div Hour]
<1> DEFINE lo == rows[m \div Hour]
           hi == rows[RowAfter(m \div Hour)]
<1>1. lo \in LampLevels /\ hi \in LampLevels
  BY DayFacts DEF LampRows
<1>2. At(rows, m) = [c \in Channel |-> Cut(Rounded(lo[c] * Hour + 0 * (hi[c] - lo[c]), Hour))]
  BY DEF At
<1> HIDE DEF lo, hi
<1>3. ASSUME NEW c \in Channel
      PROVE  Cut(Rounded(lo[c] * Hour + 0 * (hi[c] - lo[c]), Hour)) = lo[c]
  <2>1. lo[c] \in Percent /\ lo[c] \in Int /\ hi[c] \in Int
    BY <1>1, LevelsAreWhole DEF LampLevels
  <2>2. lo[c] * Hour + 0 * (hi[c] - lo[c]) = lo[c] * Hour
    BY <2>1, DayFacts
  <2>3. Rounded(lo[c] * Hour, Hour) = lo[c]
    BY <2>1, DayFacts, RoundedExact
  <2> QED BY <2>1, <2>2, <2>3, CutPercent
<1>4. lo = [c \in Channel |-> lo[c]]
  BY <1>1 DEF LampLevels
<1>5. At(rows, m) = [c \in Channel |-> lo[c]]
  BY <1>2, <1>3
<1> QED BY <1>4, <1>5 DEF lo

\* Within an hour the levels go towards those of the coming row.
LEMMA WithinTheHour ==
    ASSUME NEW rows \in LampRows, NEW m \in Minute, NEW n \in Minute,
           n \div Hour = m \div Hour, n % Hour = (m % Hour) + 1, (m % Hour) + 1 < Hour
    PROVE  AllBetween(At(rows, n), At(rows, m), rows[RowAfter(m \div Hour)])
<1> DEFINE k == m % Hour
           lo == rows[m \div Hour]
           hi == rows[RowAfter(m \div Hour)]
           line(c, j) == lo[c] * Hour + j * (hi[c] - lo[c])
<1>0. Hour \in Nat \ {0} /\ k \in Nat /\ k + 1 < Hour
  BY DayFacts DEF Minute
<1>1. lo \in LampLevels /\ hi \in LampLevels
  BY DayFacts DEF LampRows
<1>2. /\ At(rows, m) = [c \in Channel |-> Cut(Rounded(line(c, k), Hour))]
      /\ At(rows, n) = [c \in Channel |-> Cut(Rounded(line(c, k + 1), Hour))]
  BY DEF At
<1> HIDE DEF k, lo, hi, line
<1>3. ASSUME NEW c \in Channel
      PROVE  Between(Cut(Rounded(line(c, k + 1), Hour)), Cut(Rounded(line(c, k), Hour)), hi[c])
  <2>1. lo[c] \in Int /\ hi[c] \in Int /\ hi[c] \in Percent
    BY <1>1, LevelsAreWhole DEF LampLevels
  <2> DEFINE a == lo[c]
             b == hi[c]
  <2>2. a \in Int /\ b \in Int
    BY <2>1
  <2>3. line(c, k) = a * Hour + k * (b - a) /\ line(c, k + 1) = a * Hour + (k + 1) * (b - a)
    BY DEF line
  <2> HIDE DEF a, b
  <2>4. line(c, k) \in Int /\ line(c, k + 1) \in Int /\ b * Hour \in Int
    BY <1>0, <2>2, <2>3
  <2>5. line(c, k + 1) = line(c, k) + (b - a)
    BY <1>0, <2>2, <2>3
  <2>6. b * Hour = line(c, k + 1) + (Hour - k - 1) * (b - a)
    BY <1>0, <2>2, <2>3
  <2>7. Hour - k - 1 \in Nat
    BY <1>0
  <2>8. ASSUME a <= b PROVE Between(line(c, k + 1), line(c, k), b * Hour)
    <3>1. (Hour - k - 1) * 0 <= (Hour - k - 1) * (b - a)
      BY <2>2, <2>7, <2>8, TimesGrows
    <3>2. (Hour - k - 1) * 0 = 0 /\ (Hour - k - 1) * (b - a) \in Int
      BY <2>2, <2>7
    <3> QED BY <2>2, <2>4, <2>5, <2>6, <2>8, <3>1, <3>2 DEF Between
  <2>9. ASSUME b <= a PROVE Between(line(c, k + 1), line(c, k), b * Hour)
    <3>1. (Hour - k - 1) * (b - a) <= (Hour - k - 1) * 0
      BY <2>2, <2>7, <2>9, TimesGrows
    <3>2. (Hour - k - 1) * 0 = 0 /\ (Hour - k - 1) * (b - a) \in Int
      BY <2>2, <2>7
    <3> QED BY <2>2, <2>4, <2>5, <2>6, <2>9, <3>1, <3>2 DEF Between
  <2>10. Between(line(c, k + 1), line(c, k), b * Hour)
    BY <2>2, <2>8, <2>9
  <2>11. Cut(Rounded(b * Hour, Hour)) = b
    BY <1>0, <2>1, <2>2, RoundedExact, CutPercent DEF b
  <2>12. Between(Cut(Rounded(line(c, k + 1), Hour)), Cut(Rounded(line(c, k), Hour)),
                 Cut(Rounded(b * Hour, Hour)))
    BY <1>0, <2>4, <2>10, CutRoundedBetween
  <2> QED BY <2>11, <2>12 DEF b
<1> QED BY <1>2, <1>3 DEF AllBetween, hi

-----------------------------------------------------------------------------
(* The course of the levels, and the rows of a push. *)

\* The engine has looked at the clock and at its effective schedule.
Looked ==
    /\ CurveInv
    /\ effective \in LampRows
    /\ day <= LastDay
    /\ effective = EffectiveSchedule(setup, day)
    /\ shown = Compute(setup, effective, minute)

LEMMA LookedStart == CurveInit => Looked
<1> SUFFICES ASSUME CurveInit PROVE Looked
  OBVIOUS
<1>1. CurveInv
  BY CurveStart
<1>2. effective \in LampRows
  BY EffectivePercent DEF CurveInit
<1> QED BY <1>1, <1>2, CurveAssumption DEF CurveInit, Looked

LEMMA LookedStep == Looked /\ [CurveNext]_curveVars => Looked'
<1> SUFFICES ASSUME Looked, [CurveNext]_curveVars PROVE Looked'
  OBVIOUS
<1>0. CurveInv /\ CurveInv'
  BY CurveStep DEF Looked
<1>1. CASE CurveNext
  <2>1. setup' = setup /\ setup \in Setup /\ day' \in Nat /\ day' <= LastDay
    BY <1>0, <1>1 DEF CurveNext, Tick, CurveInv
  <2>2. effective' = EffectiveSchedule(setup, day')
    BY <1>1 DEF CurveNext, Tick, Looked
  <2>3. effective' \in LampRows
    BY <2>1, <2>2, EffectivePercent
  <2>4. shown' = Compute(setup, effective', minute')
    BY <1>1 DEF CurveNext, Tick
  <2> QED BY <1>0, <2>1, <2>2, <2>3, <2>4 DEF Looked
<1>2. CASE UNCHANGED curveVars
  BY <1>0, <1>2 DEF curveVars, Looked
<1> QED BY <1>1, <1>2

LEMMA ComputeDriven ==
    \A s, eff, m :
        Compute(s, eff, m) = Driven(s, SiestaActive(s, m), LunarActive(s, eff, m), At(eff, m))
BY DEF Compute, Driven, RestedIn, ApplySiesta

\* A step of the day: from what is shown, to or towards the coming row.
LEMMA CourseStep ==
    ASSUME Looked, Tick, effective' = effective, Windows(minute) = Windows(minute')
    PROVE  \A c \in Channel :
              /\ Between(shown'[c], shown[c], Coming[c])
              /\ minute' % Hour = 0 => shown'[c] = Coming[c]
<1> DEFINE m == minute
           n == minute'
           q == m \div Hour
           asleep == SiestaActive(setup, m)
           moon == LunarActive(setup, effective, m)
           f(ch) == Driven(setup, asleep, moon, ch)
           row == effective[RowAfter(q)]
<1>1. setup \in Setup /\ effective \in LampRows /\ m \in Minute
  BY DEF Looked, CurveInv
<1>2. n = WrapMinutes(m + 1) /\ setup' = setup
  BY DEF Tick
<1>3. asleep \in BOOLEAN /\ moon \in BOOLEAN
  BY DEF SiestaActive, LunarActive
<1>4. SiestaActive(setup, n) = asleep /\ LunarActive(setup, effective, n) = moon
  BY <1>2 DEF Windows
<1>5. shown = f(At(effective, m)) /\ shown' = f(At(effective, n))
  <2>1. shown = Compute(setup, effective, m)
    BY DEF Looked
  <2>2. shown' = Compute(setup, effective, n)
    BY DEF Tick
  <2> QED BY <1>4, <2>1, <2>2, ComputeDriven
<1>6. Coming = f(row)
  BY DEF Coming, Driven, RestedIn, ApplySiesta
<1>7. /\ q \in Slot /\ n \in Minute /\ m % Hour \in 0..Hour - 1
      /\ \/ n \div Hour = q /\ n % Hour = (m % Hour) + 1 /\ (m % Hour) + 1 < Hour
         \/ n \div Hour = RowAfter(q) /\ n % Hour = 0
  BY <1>1, <1>2, MinuteAfter
<1>8. row \in LampLevels /\ At(effective, m) \in LampLevels /\ At(effective, n) \in LampLevels
  BY <1>1, <1>7, AtRange, LampRowsAreRows, DayFacts DEF LampRows
<1> HIDE DEF asleep, moon, f, row, q, m, n
<1>9. CASE n % Hour = 0
  <2>0. n \div Hour = RowAfter(q)
    BY <1>7, <1>9, DayFacts
  <2>1. At(effective, n) = row
    BY <1>1, <1>7, <1>9, <2>0, OnTheHour DEF row
  <2>2. shown' = Coming
    BY <1>5, <1>6, <2>1
  <2>3. AllBetween(row, At(effective, m), row)
    BY <1>8, LevelsAreWhole DEF AllBetween, Between
  <2>4. AllBetween(f(row), f(At(effective, m)), f(row))
    BY <1>1, <1>3, <1>8, <2>3, DrivenBetween DEF f
  <2> QED BY <1>5, <1>6, <2>1, <2>2, <2>4 DEF AllBetween, n
<1>10. CASE n % Hour # 0
  <2>1. n \div Hour = q /\ n % Hour = (m % Hour) + 1 /\ (m % Hour) + 1 < Hour
    BY <1>7, <1>10
  <2>2. AllBetween(At(effective, n), At(effective, m), row)
    BY <1>1, <1>7, <2>1, WithinTheHour DEF row, q
  <2>3. AllBetween(f(At(effective, n)), f(At(effective, m)), f(row))
    BY <1>1, <1>3, <1>8, <2>2, DrivenBetween DEF f
  <2> QED BY <1>5, <1>6, <1>10, <2>3 DEF AllBetween, n
<1> QED BY <1>9, <1>10

\* No level of the day jumps while no window opens or closes: from a minute to the
\* next each one goes towards that of the coming row, and is there on the hour, at
\* midnight and in a shifted or acclimating schedule too (interpolate, Compute).
THEOREM NoJumpsCorrect == CurveSpec => NoJumps
<1>1. Looked /\ [CurveNext]_curveVars => [ApproachesRow]_curveVars
  BY CourseStep DEF CurveNext, ApproachesRow
<1> QED BY <1>1, LookedStart, LookedStep, PTL DEF CurveSpec, NoJumps

LEMMA HourOf ==
    ASSUME NEW h \in Slot
    PROVE  /\ h * Hour \in Minute
           /\ (h * Hour) \div Hour = h /\ (h * Hour) % Hour = 0
           /\ WrapMinutes(h * Hour) = h * Hour
<1> DEFINE m == h * Hour
<1>0. Hour \in Nat \ {0} /\ Slots \in Nat \ {0} /\ Day \in Nat \ {0} /\ Day = Hour * Slots
  BY DayFacts DEF Day
<1>1. h \in Nat /\ h + 1 <= Slots
  BY <1>0 DEF Slot
<1>2. m \in Nat /\ m = Hour * h + 0 /\ 0 \in 0..Hour - 1
  BY <1>0, <1>1
<1>3. Hour * (h + 1) <= Hour * Slots
  BY <1>0, <1>1, TimesGrows
<1>4. Hour * (h + 1) = m + Hour
  BY <1>0, <1>1
<1> HIDE DEF m
<1>5. m \in 0..Day - 1
  BY <1>0, <1>2, <1>3, <1>4
<1>6. m \div Hour = h /\ m % Hour = 0
  BY <1>0, <1>1, <1>2, DivUnique
<1>7. m % Day = m
  BY <1>0, <1>5, ModSmall
<1> QED BY <1>5, <1>6, <1>7 DEF m, Minute, WrapMinutes

\* Without acclimation and shift the effective schedule is the pushed one.
LEMMA EffectiveIsBase ==
    ASSUME NEW s \in Setup, NEW d \in Nat, AcclimationPercent(s.acclimation, d) = 100, s.shift = 0
    PROVE  EffectiveSchedule(s, d) = s.rows
<1>1. s.rows \in LampRows
  BY NormalAssumption DEF LampRows, LampLevels
<1>2. ASSUME NEW h \in Slot
      PROVE  [c \in Channel |-> Scale(At(s.rows, WrapMinutes(h * Hour - s.shift))[c], 100)]
                = s.rows[h]
  <2>1. h * Hour - s.shift = h * Hour
    BY HourOf DEF Minute
  <2>2. At(s.rows, WrapMinutes(h * Hour)) = s.rows[h]
    BY <1>1, HourOf, OnTheHour
  <2>3. \A c \in Channel : Scale(s.rows[h][c], 100) = s.rows[h][c]
    BY <1>1, ScaleWhole DEF LampRows, LampLevels
  <2>4. s.rows[h] = [c \in Channel |-> s.rows[h][c]]
    BY <1>1 DEF LampRows, LampLevels
  <2> QED BY <2>1, <2>2, <2>3, <2>4
<1>3. EffectiveSchedule(s, d) =
        [h \in Slot |->
           [c \in Channel |-> Scale(At(s.rows, WrapMinutes(h * Hour - s.shift))[c], 100)]]
  BY DEF EffectiveSchedule
<1>4. s.rows = [h \in Slot |-> s.rows[h]]
  BY <1>1 DEF LampRows
<1> QED BY <1>2, <1>3, <1>4

\* Until midnight a siesta is the same to the engine and to the push.
LEMMA SiestasAgree ==
    ASSUME NEW s \in Setup, NEW m \in Minute, s.shift = 0,
           ~(s.siesta.enabled /\ m < s.siesta.start + s.siesta.length - Day)
    PROVE  SiestaActive(s, m) <=> SiestaRow(s, m)
<1> DEFINE start == s.siesta.start
           length == s.siesta.length
<1>1. start \in 0..Day - 1 /\ length \in 0..Day - 1 /\ Day \in Nat \ {0}
  BY NormalAssumption, DayFacts DEF Minute
<1>2. WrapMinutes(start + s.shift) = start
  <2>1. start + s.shift = start
    BY <1>1
  <2>2. start % Day = start
    BY <1>1, ModSmall
  <2> QED BY <2>1, <2>2 DEF WrapMinutes
<1>3. SiestaActive(s, m) <=>
        s.siesta.enabled /\ InTimeWindow(m, start, WrapMinutes(start + length))
  BY <1>2 DEF SiestaActive
<1>4. SiestaRow(s, m) <=> s.siesta.enabled /\ start <= m /\ m < start + length
  BY DEF SiestaRow
<1>m. m \in 0..Day - 1
  BY DEF Minute
<1>5. s.siesta.enabled => ~(m < start + length - Day)
  OBVIOUS
<1> HIDE DEF start, length
<1>6. CASE start + length < Day
  <2>1. start + length \in 0..Day - 1
    BY <1>1, <1>6
  <2>2. WrapMinutes(start + length) = start + length
    BY <1>1, <2>1, ModSmall DEF WrapMinutes
  <2>3. InTimeWindow(m, start, start + length) <=> start <= m /\ m < start + length
    BY <1>1, <1>m DEF InTimeWindow
  <2> QED BY <1>3, <1>4, <2>2, <2>3
<1>7. CASE start + length >= Day
  <2> DEFINE end == start + length - Day
  <2>1. end \in 0..Day - 1 /\ end < start
    BY <1>1, <1>7
  <2>2. WrapMinutes(start + length) = end
    <3>1. start + length \in Nat /\ start + length = Day * 1 + end
      BY <1>1
    <3> HIDE DEF end
    <3>2. (start + length) % Day = end
      BY <1>1, <2>1, <3>1, DivUnique
    <3> QED BY <3>2 DEF WrapMinutes
  <2>3. ASSUME ~(m < end)
        PROVE  InTimeWindow(m, start, end) <=> start <= m /\ m < start + length
    BY <1>1, <1>7, <1>m, <2>1, <2>3 DEF InTimeWindow
  <2>4. s.siesta.enabled => ~(m < end)
    BY <1>5
  <2> HIDE DEF end
  <2> QED BY <1>3, <1>4, <2>2, <2>3, <2>4
<1> QED BY <1>1, <1>3, <1>4, <1>6, <1>7

\* At full moon the engine's two levels of moonlight are the push handler's.
LEMMA FullMoon ==
    ASSUME NEW level \in Percent
    PROVE  /\ Cut(Rounded(level * 100, 100)) = level
           /\ Cut(Rounded(level * 7, 10)) = CyanOf(level)
           /\ CyanOf(level) \in Percent
<1>1. Cut(Rounded(level * 100, 100)) = level
  BY ScaleWhole DEF Scale
<1>2. Rounded(level * 7, 10) = CyanOf(level)
  <2> DEFINE n == level * 7
  <2>1. n \in Nat
    BY DEF Percent
  <2> HIDE DEF n
  <2>2. Rounded(n, 10) = (n + 5) \div 10
    BY <2>1 DEF Rounded
  <2> QED BY <2>2 DEF n, CyanOf
<1>3. CyanOf(level) \in Percent
  BY DEF CyanOf, Percent
<1> QED BY <1>1, <1>2, <1>3, CutPercent

\* Row by row: the channels without moonlight, and the moonlight where both see it alike.
LEMMA RowsAgree ==
    ASSUME NEW s \in Setup, s.shift = 0, NEW h \in Slot, ~PartOver(s, h)
    PROVE  /\ \A c \in Channel \ {MoonChannel, CyanChannel} :
                  Compute(s, s.rows, h * Hour)[c] = BakedRow(s, h)[c]
           /\ MoonAgrees(s, s.rows, h) => Compute(s, s.rows, h * Hour) = BakedRow(s, h)
<1> DEFINE m == h * Hour
           row == s.rows[h]
           rested == RestedRow(s, h)
           dimmed == ApplyMaster(s.master, rested)
<1>1. s.rows \in LampRows /\ m \in Minute /\ At(s.rows, m) = row
  <2>1. s.rows \in LampRows
    BY NormalAssumption DEF LampRows, LampLevels
  <2> QED BY <2>1, HourOf, OnTheHour
<1>2. s.times[h] = m /\ EngineMaster(s) = s.master /\ s.master \in Nat
  BY NormalAssumption DEF PartOver, EngineMaster
<1>3. SiestaActive(s, m) <=> SiestaRow(s, m)
  BY <1>1, SiestasAgree DEF PartOver
<1>4. ApplySiesta(s, row, m) = rested
  BY <1>2, <1>3 DEF ApplySiesta, RestedRow
<1>5. rested \in LampLevels
  <2>1. row \in [Channel -> Percent]
    BY <1>1 DEF LampRows, LampLevels
  <2>2. 100 - s.siesta.depth \in Int
    BY SetupAssumption
  <2>3. \A c \in Channel : Scale(row[c], 100 - s.siesta.depth) \in Percent
    <3>1. \A c \in Channel : row[c] \in Int
      BY <2>1 DEF Percent
    <3> HIDE DEF row
    <3> QED BY <2>2, <3>1, ScaleRange
  <2>4. [c \in Channel |-> Scale(row[c], 100 - s.siesta.depth)] \in LampLevels
    BY <2>3 DEF LampLevels
  <2>5. CASE SiestaRow(s, s.times[h])
    BY <2>4, <2>5 DEF RestedRow
  <2>6. CASE ~SiestaRow(s, s.times[h])
    BY <2>1, <2>6 DEF RestedRow, LampLevels
  <2> QED BY <2>5, <2>6
<1>6. /\ LunarActive(s, s.rows, m) => Compute(s, s.rows, m) = ApplyLunar(s, dimmed)
      /\ ~LunarActive(s, s.rows, m) => Compute(s, s.rows, m) = dimmed
  BY <1>1, <1>2, <1>4 DEF Compute
<1>7. dimmed = [c \in Channel |-> Scale(rested[c], s.master)]
  BY DEF ApplyMaster
<1>8. BakedRow(s, h) = [c \in Channel |-> Scale(MoonlitRow(s, h)[c], s.master)]
  BY DEF BakedRow, ApplyMaster
<1> HIDE DEF m, row, rested, dimmed
<1>9. ASSUME NEW c \in Channel \ {MoonChannel, CyanChannel}
      PROVE  Compute(s, s.rows, m)[c] = BakedRow(s, h)[c]
  <2>1. MoonlitRow(s, h)[c] = rested[c]
    BY <1>5, <1>9 DEF MoonlitRow, LampLevels, rested
  <2>2. ApplyLunar(s, dimmed)[c] = dimmed[c]
    BY <1>7, <1>9 DEF ApplyLunar
  <2> QED BY <1>6, <1>7, <1>8, <2>1, <2>2
<1>10. ASSUME MoonAgrees(s, s.rows, h)
       PROVE  Compute(s, s.rows, m) = BakedRow(s, h)
  <2>1. CASE ~LunarActive(s, s.rows, m) /\ ~LunarRow(s, h)
    <3>1. MoonlitRow(s, h) = rested
      BY <2>1 DEF MoonlitRow, rested
    <3> QED BY <1>6, <1>7, <1>8, <2>1, <3>1
  <2>2. CASE LunarActive(s, s.rows, m) /\ LunarRow(s, h) /\ s.lit = 100 /\ s.master = 100 /\ s.pro
    <3> DEFINE level == s.lunar.level
               blue == [rested EXCEPT ![MoonChannel] = Raised(@, level)]
               moonlit == [blue EXCEPT ![CyanChannel] = Raised(@, CyanOf(level))]
    <3>1. level \in Percent /\ CyanOf(level) \in Percent
      BY NormalAssumption, FullMoon
    <3>2. dimmed = rested
      <4>1. \A c \in Channel : Scale(rested[c], s.master) = rested[c]
        BY <1>5, <2>2, ScaleWhole DEF LampLevels
      <4> QED BY <1>5, <1>7, <4>1 DEF LampLevels
    <3>3. ApplyLunar(s, rested) = moonlit
      <4>1. Cut(Rounded(s.lunar.level * s.lit, 100)) = level
        BY <2>2, <3>1, FullMoon
      <4>2. Cut(Rounded(level * 7, 10)) = CyanOf(level)
        BY <3>1, FullMoon
      <4> HIDE DEF level
      <4> QED BY <2>2, <4>1, <4>2 DEF ApplyLunar
    <3>4. MoonlitRow(s, h) = moonlit
      BY <2>2 DEF MoonlitRow, rested
    <3>5. moonlit \in LampLevels
      <4>1. \A v \in Percent : Raised(v, level) \in Percent /\ Raised(v, CyanOf(level)) \in Percent
        BY <3>1 DEF Raised
      <4>2. MoonChannel \in Channel /\ CyanChannel \in Channel
        BY CurveAssumption
      <4> HIDE DEF level
      <4> QED BY <1>5, <4>1, <4>2 DEF LampLevels
    <3> HIDE DEF moonlit
    <3>6. \A c \in Channel : Scale(moonlit[c], s.master) = moonlit[c]
      BY <2>2, <3>5, ScaleWhole DEF LampLevels
    <3>7. BakedRow(s, h) = moonlit
      BY <1>8, <3>4, <3>5, <3>6 DEF LampLevels
    <3> QED BY <1>6, <2>2, <3>2, <3>3, <3>7
  <2> QED BY <1>10, <2>1, <2>2 DEF MoonAgrees, m
<1> QED BY <1>9, <1>10 DEF m

\* The two ways of a push write the lamp the same rows, for any schedule, siesta and
\* master but for what PartOver and MoonAgrees list, when no acclimation and no season
\* is on (prebakePush and bakePCBridgeEffects).
THEOREM BakersCorrect == CurveSpec => []BakersAgree
<1>1. Looked => BakersAgree
  <2> SUFFICES ASSUME Looked, ~EngineOnly(setup, day), NEW h \in Slot, ~PartOver(setup, h)
               PROVE  LET pre  == Prebaked(setup, effective)[h]
                          push == Baked(setup)[h]
                      IN /\ \A c \in Channel \ {MoonChannel, CyanChannel} : pre[c] = push[c]
                         /\ MoonAgrees(setup, effective, h) => pre = push
    BY DEF BakersAgree
  <2>1. setup \in Setup /\ day \in Nat
    BY DEF Looked, CurveInv
  <2>2. effective = setup.rows /\ setup.shift = 0
    BY <2>1, EffectiveIsBase DEF Looked, EngineOnly
  <2>3. /\ Prebaked(setup, effective)[h] = Compute(setup, effective, h * Hour)
        /\ Baked(setup)[h] = BakedRow(setup, h)
    BY DEF Prebaked, Baked
  <2> QED BY <2>1, <2>2, <2>3, RowsAgree
<1> QED BY <1>1, LookedStart, LookedStep, PTL DEF CurveSpec
=============================================================================
