------------------------------ MODULE LightCurve ------------------------------
(***************************************************************************)
(* The levels of the lamp's channels at a moment of the day: Compute of    *)
(* internal/engine/model.go, which the engine drives the lamp with, and    *)
(* the two ways POST /api/push writes the same effects into the rows that  *)
(* the lamp runs by itself: prebakePush of internal/piapi with the smooth  *)
(* ramp off, bakePCBridgeEffects of internal/httpapi otherwise.            *)
(*                                                                         *)
(* Levels are whole percentages.  The code rounds binary fractions and the *)
(* model exact ones: where the exact value lies half-way the two may       *)
(* differ by one percent.  The cosines of the season and of the moon are   *)
(* taken as given (shift, lit).  The hub's own settings always switch      *)
(* TrackMoonrise off (normalizeLunar) and have no shift of the schedule,   *)
(* so neither is modelled.                                                 *)
(***************************************************************************)
EXTENDS Integers

CONSTANTS
    Slots,       \* rows of a schedule, one for each hour: 24
    Hour,        \* minutes of an hour: 60
    Channel,
    MoonChannel, \* channel 1: royal blue, the first of the moonlight
    CyanChannel, \* channel 4: the second
    Setup,       \* base schedules with settings of the effects (times: the rows' own
                 \* hours and minutes; dino: the preset that wants no moonlight)
    LastDay      \* bound: the days of an acclimation that are looked at

Day == Slots * Hour
Minute == 0..Day - 1
Slot == 0..Slots - 1
Percent == 0..100

ASSUME CurveAssumption ==
    /\ Slots \in Nat \ {0} /\ Hour \in Nat \ {0}
    /\ {MoonChannel, CyanChannel} \subseteq Channel
    /\ LastDay \in Nat

\* What the settings may hold: whole numbers, and a master at all.
ASSUME SetupAssumption ==
    \A s \in Setup :
        /\ s.rows \in [Slot -> [Channel -> Int]]
        /\ s.master \in Int /\ s.shift \in Int /\ s.lit \in Int /\ s.lunar.level \in Int
        /\ s.siesta.depth \in Int
        /\ s.acclimation.start \in Int /\ s.acclimation.days \in Int

\* What the handlers leave in them (normalizeSchedule, normalizeSiesta, normalizeLunar,
\* the master's bounds): levels in percent, times of the day, and a siesta shorter than
\* a day.
ASSUME NormalAssumption ==
    \A s \in Setup :
        /\ s.rows \in [Slot -> [Channel -> Percent]]
        /\ s.times \in [Slot -> Minute]
        /\ s.master \in Nat
        /\ s.lunar.level \in Percent
        /\ s.siesta.depth \in Percent
        /\ s.siesta.start \in Minute /\ s.siesta.length \in 0..Day - 1

VARIABLES
    setup,  \* the pushed rows and the settings of the effects
    minute, \* of the local day
    day,    \* days since the acclimation began
    effective, \* the effective schedule of that day
    shown   \* the levels of that minute

curveVars == <<setup, minute, day, effective, shown>>

(***************************************************************************)
(* Arithmetic.                                                             *)
(***************************************************************************)
\* n / d, to the nearest whole number, halves away from zero (math.Round).
Rounded(n, d) ==
    IF n >= 0 THEN (2 * n + d) \div (2 * d) ELSE -((2 * (-n) + d) \div (2 * d))

Clamp(v, lo, hi) == IF v < lo THEN lo ELSE IF v > hi THEN hi ELSE v

Cut(v) == Clamp(v, 0, 100)
UncutScale(v, pct) == Rounded(v * pct, 100)   \* mutant: 200% of 80 is 160
Scale(v, pct) == Cut(Rounded(v * pct, 100))
WrapMinutes(m) == m % Day

\* The last row leads back to the first.  Mutant: it is kept to midnight.
RowAfterStops(h) == IF h = Slots - 1 THEN h ELSE h + 1
RowAfter(h) == (h + 1) % Slots

\* interpolate: rows is a schedule, m a minute of the day.
At(rows, m) ==
    LET lo == rows[m \div Hour]
        hi == rows[RowAfter(m \div Hour)]
    IN [c \in Channel |->
          Cut(Rounded(lo[c] * Hour + (m % Hour) * (hi[c] - lo[c]), Hour))]

\* inTimeWindow: a window may pass midnight, and one without length is empty.
InTimeWindow(m, start, end) ==
    /\ start # end
    /\ IF start < end THEN start <= m /\ m < end ELSE start <= m \/ m < end

(***************************************************************************)
(* The engine's effects.                                                   *)
(***************************************************************************)
\* AcclimationPercent, d whole days after its start.
AcclimationPercent(a, d) ==
    IF ~a.enabled \/ a.start >= 100 \/ a.days <= 0 \/ d >= a.days THEN 100
    ELSE IF d <= 0 THEN a.start
    ELSE Clamp(Rounded(a.start * a.days + (100 - a.start) * d, a.days), 1, 100)

\* EffectiveSchedule: each row is the base as it is shift minutes earlier.
EffectiveSchedule(s, d) ==
    LET percent == AcclimationPercent(s.acclimation, d)
    IN [h \in Slot |->
          LET sample == At(s.rows, WrapMinutes(h * Hour - s.shift))
          IN [c \in Channel |-> Scale(sample[c], percent)]]

SiestaActive(s, m) ==
    LET start == WrapMinutes(s.siesta.start + s.shift)
    IN s.siesta.enabled /\ InTimeWindow(m, start, WrapMinutes(start + s.siesta.length))

ApplySiesta(s, ch, m) ==
    IF SiestaActive(s, m) THEN [c \in Channel |-> Scale(ch[c], 100 - s.siesta.depth)]
    ELSE ch

ApplyMaster(master, ch) == [c \in Channel |-> Scale(ch[c], master)]

\* EngineSnapshot: to the engine no master and a master of 0 are one of 100.
EngineMaster(s) == IF s.master > 0 THEN s.master ELSE 100

\* The moonlight is for its window, and for when the schedule is nearly dark.
LunarActive(s, eff, m) ==
    /\ s.lunar.enabled
    /\ InTimeWindow(m, s.lunar.start, s.lunar.end)
    /\ \A c \in Channel : At(eff, m)[c] <= s.lunar.threshold

Raised(v, to) == IF v < to THEN to ELSE v

\* applyLunar, by the part of the moon that is lit.  Only a k7pro has the cyan.
ApplyLunar(s, ch) ==
    LET level == Cut(Rounded(s.lunar.level * s.lit, 100))
        moonlit == [ch EXCEPT ![MoonChannel] = Raised(@, level)]
    IN IF s.pro THEN [moonlit EXCEPT ![CyanChannel] = Raised(@, Cut(Rounded(level * 7, 10)))]
       ELSE moonlit

Compute(s, eff, m) ==
    LET ch == ApplyMaster(EngineMaster(s), ApplySiesta(s, At(eff, m), m))
    IN IF LunarActive(s, eff, m) THEN ApplyLunar(s, ch) ELSE ch

(***************************************************************************)
(* What a push writes.                                                     *)
(***************************************************************************)
\* prebakePush: what the engine would show on every hour of today.
Prebaked(s, eff) == [h \in Slot |-> Compute(s, eff, h * Hour)]

\* Of the siesta bakePCBridgeEffects sees the part before midnight.
SiestaRow(s, m) ==
    /\ s.siesta.enabled
    /\ s.siesta.start <= m /\ m < s.siesta.start + s.siesta.length

\* minsInWindow: a window without length is the whole day.
MinsInWindow(m, start, end) == start = end \/ InTimeWindow(m, start, end)

RestedRow(s, h) ==
    IF SiestaRow(s, s.times[h])
    THEN [c \in Channel |-> Scale(s.rows[h][c], 100 - s.siesta.depth)]
    ELSE s.rows[h]

\* The moonlight is for rows that are dark once the siesta is on them, and not for
\* preset:dino.
LunarRow(s, h) ==
    /\ s.lunar.enabled /\ ~s.dino /\ s.lunar.level > 0
    /\ MinsInWindow(s.times[h], s.lunar.start, s.lunar.end)
    /\ \A c \in Channel : RestedRow(s, h)[c] <= s.lunar.threshold

CyanTruncated(level) == (level * 7) \div 10   \* mutant
CyanOf(level) == (level * 7 + 5) \div 10

\* A full moon, on both channels of any device.
MoonlitRow(s, h) ==
    LET rested  == RestedRow(s, h)
        moonlit == [rested EXCEPT ![MoonChannel] = Raised(@, s.lunar.level)]
    IN IF LunarRow(s, h)
       THEN [moonlit EXCEPT ![CyanChannel] = Raised(@, CyanOf(s.lunar.level))]
       ELSE rested

\* bakePCBridgeEffects and applyMasterToLampState: the master comes last.
BakedRow(s, h) == ApplyMaster(s.master, MoonlitRow(s, h))

Baked(s) == [h \in Slot |-> BakedRow(s, h)]

(***************************************************************************)
(* A day of the engine.                                                    *)
(***************************************************************************)
CurveInit ==
    /\ setup \in Setup
    /\ minute = 0 /\ day = 0
    /\ effective = EffectiveSchedule(setup, 0)
    /\ shown = Compute(setup, effective, 0)

\* The engine's next look at the clock.
Tick ==
    /\ minute' = WrapMinutes(minute + 1)
    /\ day' = IF minute' = 0 THEN day + 1 ELSE day
    /\ day' <= LastDay
    /\ effective' = IF day' = day THEN effective ELSE EffectiveSchedule(setup, day')
    /\ shown' = Compute(setup, effective', minute')
    /\ UNCHANGED setup

CurveNext == Tick

CurveSpec == CurveInit /\ [][CurveNext]_curveVars

CurveTypeOK ==
    /\ setup \in Setup
    /\ minute \in Minute /\ day \in 0..LastDay
    /\ \A h \in Slot, c \in Channel : effective[h][c] \in Int
    /\ \A c \in Channel : shown[c] \in Int

\* Every level is one the lamp has, with the master at 200 percent and the moon
\* on top as well: it is sent as a byte, without another look (engine.step).
LevelsInRange == \A c \in Channel : shown[c] \in Percent

\* What only the engine knows: the acclimation and the season.
EngineOnly(s, d) == AcclimationPercent(s.acclimation, d) # 100 \/ s.shift # 0

\* Where the two handlers part over a whole row: the push handler takes a master of 0
\* for dark and the engine for 100 percent, it forgets a siesta at midnight, and it
\* goes by the row's own hour and minute, prebakePush by the number of the row.
PartOver(s, h) ==
    \/ s.master = 0
    \/ s.siesta.enabled /\ h * Hour < s.siesta.start + s.siesta.length - Day
    \/ s.times[h] # h * Hour

\* Where they agree on the moonlight: neither finds the row dark and in the window, or
\* both do, and the moon is full, the master 100 percent and the lamp a k7pro.  Else
\* they part: the push handler looks at the row with the siesta on it, knows no phase,
\* raises the cyan of any device, and dims the moonlight by the master.
MoonAgrees(s, eff, h) ==
    \/ ~LunarActive(s, eff, h * Hour) /\ ~LunarRow(s, h)
    \/ /\ LunarActive(s, eff, h * Hour) /\ LunarRow(s, h)
       /\ s.lit = 100 /\ s.master = 100 /\ s.pro

\* The two ways of a push write the same rows, but for what is listed above: on a row
\* that they do not part over, all channels without moonlight are the same, and with
\* the moonlight that they agree on the whole row is.  Schedule, siesta and master are
\* applied in two orders with two roundings (prebakePush of piapi.go:144 with Compute,
\* bakePCBridgeEffects of server.go:1086).
BakersAgree ==
    EngineOnly(setup, day) \/
    \A h \in Slot :
        LET pre  == Prebaked(setup, effective)[h]
            push == Baked(setup)[h]
        IN ~PartOver(setup, h) =>
               /\ \A c \in Channel \ {MoonChannel, CyanChannel} : pre[c] = push[c]
               /\ MoonAgrees(setup, effective, h) => pre = push

\* No jumps: from a minute to the next every level goes towards that of the coming
\* row and is there on the hour, at midnight and in a shifted schedule too, while
\* no window opens or closes.
Windows(m) == <<SiestaActive(setup, m), LunarActive(setup, effective, m)>>

Coming ==
    LET row == effective[RowAfter(minute \div Hour)]
        ch  == ApplyMaster(EngineMaster(setup), ApplySiesta(setup, row, minute))
    IN IF LunarActive(setup, effective, minute) THEN ApplyLunar(setup, ch) ELSE ch

Between(v, a, b) == (a <= v /\ v <= b) \/ (b <= v /\ v <= a)

ApproachesRow ==
    effective' = effective /\ Windows(minute) = Windows(minute')
        => \A c \in Channel :
              /\ Between(shown'[c], shown[c], Coming[c])
              /\ minute' % Hour = 0 => shown'[c] = Coming[c]

NoJumps == [][ApproachesRow]_curveVars
=============================================================================
