---------------------------- MODULE AirQuality ----------------------------
(***************************************************************************)
(* What process_reading derives from the sensor values of one node that the*)
(* validator lets through (mqtt/validator.py): the EPA air quality index   *)
(* (tasks/aqi.py) and the score of the Tsukamoto engine (fuzzy/).          *)
(* Concentrations are in tenths of a microgram, memberships in thousandths,*)
(* scores in hundredths of a point; on these grids the integer arithmetic  *)
(* below equals the code's floating-point results.  The state is the last  *)
(* sample and the row built from it, so that properties can relate two     *)
(* consecutive samples.                                                    *)
(***************************************************************************)
EXTENDS Integers, Sequences, FiniteSets, FiniteSetsExt

CONSTANTS
  Temps,   \* temperatures a sample may have, in degrees
  Hums,    \* relative humidities, in percent
  Pm25s,   \* PM2.5 concentrations, in tenths
  Pm10s,   \* PM10 concentrations, in tenths
  Missing  \* a value that is missing or not finite (_valid_float)

ASSUME AirConstants ==
  /\ Temps \cup Hums \cup Pm25s \cup Pm10s \subseteq Int
  /\ Missing \notin Int

VARIABLES
  sample,  \* the payload's numeric fields
  row      \* aqi, aqi_category and fuzzy_score of the SensorReading

air == <<sample, row>>

Sample == [temp : Temps \cup {Missing}, hum : Hums \cup {Missing},
           pm25 : Pm25s \cup {Missing}, pm10 : Pm10s \cup {Missing}]

Clamp(x, lo, hi) == Max({lo, Min({hi, x})})

-----------------------------------------------------------------------------
(* tasks/aqi.py: bands are <<C_lo, C_hi, I_lo, I_hi>>.                       *)

Pm25Bands == << <<   0,  120,   0,  50>>, << 120,  354,  51, 100>>,
                << 355,  554, 101, 150>>, << 555, 1504, 151, 200>>,
                <<1505, 2504, 201, 300>>, <<2505, 3504, 301, 400>>,
                <<3505, 5004, 401, 500>> >>

Pm10Bands == << <<   0,  540,   0,  50>>, << 550, 1540,  51, 100>>,
                <<1550, 2540, 101, 150>>, <<2550, 3540, 151, 200>>,
                <<3550, 4240, 201, 300>>, <<4250, 5040, 301, 400>>,
                <<5050, 6040, 401, 500>> >>

\* Categories are numbered by severity; both Hazardous bands are number 6.
CATEGORIES == <<1, 2, 3, 4, 5, 6, 6>>

\* The first band whose upper breakpoint is not exceeded.
Subindex(c, bands) ==
  LET fits == {i \in DOMAIN bands : c <= bands[i][2]}
  IN  IF fits = {} THEN Len(bands) ELSE Min(fits)

\* As Interpolate, with the I_lo of 301 that the top PM10 band once had.
Interpolate_OldTop(c, band) ==
  LET ilo == IF band[3] = 401 THEN 301 ELSE band[3]
  IN  ((band[4] - ilo) * (c - band[1])) \div (band[2] - band[1]) + ilo

\* Linear interpolation inside the band, rounded down; \div rounds down for
\* the negative offsets of a value in the gap below its band as well.
Interpolate(c, band) ==
  ((band[4] - band[3]) * (c - band[1])) \div (band[2] - band[1]) + band[3]

\* As AqiFor, without the clamp: values beyond the table extrapolate.
AqiFor_Unclamped(concentration, bands) ==
  LET i == Subindex(concentration, bands)
  IN  <<Interpolate(concentration, bands[i]), CATEGORIES[i]>>

AqiFor(concentration, bands) ==
  LET c == Clamp(concentration, 0, bands[Len(bands)][2])
      i == Subindex(c, bands)
  IN  <<Interpolate(c, bands[i]), CATEGORIES[i]>>

\* The larger index of the two pollutants; PM2.5 wins a tie.
ComputeAqi(pm25, pm10) ==
  LET fine   == AqiFor(pm25, Pm25Bands)
      coarse == AqiFor(pm10, Pm10Bands)
  IN  CASE pm25 = Missing /\ pm10 = Missing -> <<Missing, Missing>>
        [] pm25 # Missing /\ pm10 = Missing -> fine
        [] pm25 = Missing /\ pm10 # Missing -> coarse
        [] OTHER -> IF coarse[1] > fine[1] THEN coarse ELSE fine

-----------------------------------------------------------------------------
(* fuzzy/membership.py: a membership of 1 is One.                            *)

One == 1000

\* As Trap, without the guard that makes a shoulder of equal corners.
Trap_NoShoulder(x, a, b, c, d) ==
  IF x <= a \/ x >= d THEN 0
  ELSE IF x < b THEN (One * (x - a)) \div (b - a)
  ELSE IF x <= c THEN One ELSE (One * (d - x)) \div (d - c)

Trap(x, a, b, c, d) ==
  CASE b <= x /\ x <= c         -> One
    [] x < b /\ a = b           -> One
    [] x < b /\ a # b /\ x <= a -> 0
    [] x < b /\ a # b /\ x > a  -> (One * (x - a)) \div (b - a)
    [] x > c /\ c = d           -> One
    [] x > c /\ c # d /\ x >= d -> 0
    [] x > c /\ c # d /\ x < d  -> (One * (d - x)) \div (d - c)

TempTerms(temp) ==
  LET t == Clamp(temp, 0, 50)
  IN  [low    |-> Trap(t, 0, 0, 15, 35),
       medium |-> Trap(t, 15, 35, 40, 50),
       high   |-> Trap(t, 40, 50, 50, 50)]

HumTerms(hum) ==
  LET h == Clamp(hum, 0, 100)
  IN  [dry   |-> Trap(h, 0, 0, 30, 70),
       humid |-> Trap(h, 30, 70, 80, 100),
       wet   |-> Trap(h, 80, 100, 100, 100)]

PmTerms(pm) ==
  LET p == Clamp(pm, 0, 5000)
  IN  [low    |-> Trap(p, 0, 0, 500, 1000),
       medium |-> Trap(p, 500, 1000, 2000, 3000),
       high   |-> Trap(p, 2000, 3000, 5000, 5000)]

(* fuzzy/rules.py: consequents are their output ramps.                       *)
Good          == <<0, 40>>
Moderate      == <<30, 60>>
USG           == <<50, 75>>
Unhealthy     == <<65, 90>>
VeryUnhealthy == <<85, 100>>

\* As Consequent, with the rows of low and medium pollution exchanged.
Consequent_Swapped(t, h, p) ==
  CASE p = "low"    -> IF h = "dry" \/ t = "high" THEN USG ELSE Moderate
    [] p = "medium" -> IF h = "dry" \/ t = "high" THEN Moderate ELSE Good
    [] p = "high"   -> IF h = "dry" /\ t = "high" THEN VeryUnhealthy ELSE Unhealthy

\* RULE_TABLE: dry air and heat make the verdict on a pollution level worse.
Consequent(t, h, p) ==
  CASE p = "low"    -> IF h = "dry" \/ t = "high" THEN Moderate ELSE Good
    [] p = "medium" -> IF h = "dry" \/ t = "high" THEN USG ELSE Moderate
    [] p = "high"   -> IF h = "dry" /\ t = "high" THEN VeryUnhealthy ELSE Unhealthy

(* fuzzy/tsukamoto.py                                                        *)

\* _inverse: the output at which the ramp has membership alpha.
Inverse_(alpha, ramp) == ramp[1] * One + alpha * (ramp[2] - ramp[1])

Rules == {"low", "medium", "high"} \X {"dry", "humid", "wet"}
           \X {"low", "medium", "high"}

\* The strength of a rule is the least membership of its antecedents.
Strength(temp, hum, pm25) ==
  LET mt == TempTerms(temp)
      mh == HumTerms(hum)
      mp == PmTerms(pm25)
  IN  [r \in Rules |-> Min({mt[r[1]], mh[r[2]], mp[r[3]]})]

Fired(alpha) == {r \in Rules : alpha[r] > 0}

\* The sum over the loops of infer; a rule that does not fire contributes zero.
OverRules(v) ==
  LET pm(t, h) == v[<<t, h, "low">>] + v[<<t, h, "medium">>] + v[<<t, h, "high">>]
      hum(t)   == pm(t, "dry") + pm(t, "humid") + pm(t, "wet")
  IN  hum("low") + hum("medium") + hum("high")

WeightedAverage(alpha) ==
  LET moment == [r \in Rules |-> alpha[r] * Inverse_(alpha[r], Consequent(r[1], r[2], r[3]))]
      total  == OverRules(alpha)
  IN  IF total = 0 THEN 2000
      ELSE (OverRules(moment) + 5 * total) \div (10 * total)

Infer(temp, hum, pm25) == WeightedAverage(Strength(temp, hum, pm25))

\* _build_reading: neutral defaults for what the score needs and the payload
\* does not have; the index is left out when both pollutants are missing.
Default(value, neutral) == IF value = Missing THEN neutral ELSE value

BuildReading(s) ==
  LET index == ComputeAqi(s.pm25, s.pm10)
  IN  [aqi         |-> index[1],
       category    |-> index[2],
       fuzzy_score |-> Infer(Default(s.temp, 25), Default(s.hum, 0),
                             Default(s.pm25, 0))]

-----------------------------------------------------------------------------
FirstSample ==
  \E s \in Sample : /\ \A f \in DOMAIN s : s[f] = Missing
                    /\ sample = s
                    /\ row = BuildReading(s)

\* ReadingPayload: a field is absent or a finite number within its bounds, or the
\* whole payload is dropped.
Within(value, lo, hi) == value = Missing \/ value \in lo..hi

Validated(s) ==
  /\ Within(s.temp, -40, 60)
  /\ Within(s.hum, 0, 100)
  /\ Within(s.pm25, 0, 20000)
  /\ Within(s.pm10, 0, 20000)

\* The next reading of the node that is not dropped differs in one field.
Measure(field, values) ==
  \E v \in (values \cup {Missing}) \ {sample[field]} :
    LET payload == [sample EXCEPT ![field] = v]
    IN  /\ Validated(payload)
        /\ sample' = payload
        /\ row' = BuildReading(payload)

NextSample ==
  \/ Measure("temp", Temps)
  \/ Measure("hum", Hums)
  \/ Measure("pm25", Pm25s)
  \/ Measure("pm10", Pm10s)

SampleSpec == FirstSample /\ [][NextSample]_air

-----------------------------------------------------------------------------
\* At most one band is skipped: an index belongs to the category that is shown
\* with it, or is the last index below that category (a concentration in the
\* gap between two bands of _PM10_BANDS, which truncation pushes down by one).
CategoryOfIndex(i) ==
  CASE i <= 50 -> 1 [] i \in 51..100 -> 2 [] i \in 101..150 -> 3
    [] i \in 151..200 -> 4 [] i \in 201..300 -> 5 [] OTHER -> 6

\* Every sample with a pollutant gets an index in 0..500, whatever the sensor
\* reports (compute_aqi clamps), and a category that is the index's own or
\* that of the next index: alerts compare the index, users see the category.
CategoryFitsIndex ==
  row.aqi # Missing =>
    /\ row.aqi \in 0..500
    /\ row.category \in {CategoryOfIndex(row.aqi), CategoryOfIndex(row.aqi + 1)}

\* x is at least y, where a missing y says nothing.
NotBelow(x, y) == y # Missing => x # Missing /\ x >= y

\* A sample that is not cleaner in either pollutant never has a lower index:
\* the bands meet without a step down (aqi.py _aqi_for, compute_aqi).
AqiMonotone ==
  [][ NotBelow(sample'.pm25, sample.pm25) /\ NotBelow(sample'.pm10, sample.pm10)
      => NotBelow(row'.aqi, row.aqi) ]_air

\* The three terms of a variable sum to 1 on its whole domain, so some rule
\* fires for every sample, the fallback score is never used and the score is
\* in 0..100 (tsukamoto.py: "every in-domain reading fires at least one rule").
EverySampleScored ==
  LET t == TempTerms(Default(sample.temp, 25))
      h == HumTerms(Default(sample.hum, 0))
      p == PmTerms(Default(sample.pm25, 0))
  IN  /\ t.low + t.medium + t.high = One
      /\ h.dry + h.humid + h.wet = One
      /\ p.low + p.medium + p.high = One
      /\ Fired(Strength(Default(sample.temp, 25), Default(sample.hum, 0),
                        Default(sample.pm25, 0))) # {}
      /\ row.fuzzy_score \in 0..10000

\* PM2.5 levels at which a single term holds.
Landmarks == {100, 500, 1000, 2000, 3000, 5000}

\* More PM2.5 in the same weather.
MorePm25 ==
  /\ sample'.temp = sample.temp /\ sample'.hum = sample.hum
  /\ sample.pm25 # Missing /\ sample'.pm25 # Missing
  /\ sample'.pm25 > sample.pm25

\* Between landmarks the score never falls (tests/test_fuzzy.py).
PollutionRaisesScore ==
  [][ MorePm25 /\ {sample.pm25, sample'.pm25} \subseteq Landmarks
      => row'.fuzzy_score >= row.fuzzy_score ]_air

\* Anywhere else it dips by less than nine points (tests/test_fuzzy.py accepts a
\* dip of about 9 between the landmarks).
ScoreDipsAreSmall ==
  [][ MorePm25 => row'.fuzzy_score > row.fuzzy_score - 900 ]_air
=============================================================================
