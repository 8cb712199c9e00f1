------------------------ MODULE BenchmarkRecordsProofs ------------------------
(***************************************************************************)
(* Proofs about BenchmarkRecords for every value of its constants: every   *)
(* card weighs the scores it has, and counts energy and time once.         *)
(***************************************************************************)
EXTENDS BenchmarkRecords, SequenceFacts

-----------------------------------------------------------------------------
(* Values. *)

\* A number of the programs, or None.
Number == Int \cup {None}

\* A score in tenths of a percent, or None.
Percentage == 0 .. 1000 \cup {None}

LEMMA NoneIsNoNumber == None \notin Int
BY DistinctMarks

\* What is left of a list.
Kept(f) == {i \in DOMAIN f : f[i] # None}

LEMMA CleanType ==
  ASSUME NEW D, IsFiniteSet(D), NEW S, NEW f \in [D -> S]
  PROVE  /\ Clean(f) = [i \in Kept(f) |-> f[i]]
         /\ Kept(f) \subseteq D /\ IsFiniteSet(Kept(f))
         /\ Clean(f) \in [Kept(f) -> S \ {None}]
<1> DEFINE E == {i \in D : f[i] # None}
<1>0. Kept(f) = E
  BY DEF Kept
<1>1. E \in SUBSET D
  OBVIOUS
<1>2. IsFiniteSet(E)
  BY <1>1, FS_Subset
<1>3. Clean(f) = [i \in E |-> f[i]]
  BY DEF Clean, RestrictValues, Restrict
<1> QED BY <1>0, <1>2, <1>3

\* The average of some numbers is between their bounds.
LEMMA AvgType ==
  ASSUME NEW D, IsFiniteSet(D), NEW f \in [D -> Int]
  PROVE  /\ Avg(f) \in Number
         /\ Avg(f) = None <=> D = {}
         /\ \A low, high \in Int :
              D # {} /\ (\A i \in D : low <= f[i] /\ f[i] <= high) => low <= Avg(f) /\ Avg(f) <= high
<1>1. DOMAIN f = D
  OBVIOUS
<1>2. CASE D = {}
  BY <1>1, <1>2 DEF Avg, Number
<1>3. CASE D # {}
  <2>1. Avg(f) = SumFunction(f) \div Cardinality(D)
    BY <1>1, <1>3 DEF Avg
  <2>2. SumFunction(f) \in Int /\ Cardinality(D) \in Nat /\ Cardinality(D) > 0
    BY <1>3, SumType, FS_CardinalityType, FS_EmptySet
  <2>3. Avg(f) \in Int
    BY <2>1, <2>2
  <2>4. ASSUME NEW low \in Int, NEW high \in Int, \A i \in D : low <= f[i] /\ f[i] <= high
        PROVE  low <= Avg(f) /\ Avg(f) <= high
    <3> DEFINE w == [i \in D |-> 1]
    <3>1. w \in [D -> Nat \ {0}] /\ w = [i \in D |-> w[i]] /\ f = [i \in D |-> f[i] * w[i]]
      OBVIOUS
    <3>2. SumFunction(w) = Cardinality(D)
      BY SumOfOnes
    <3> HIDE DEF w
    <3>3. LET a == SumFunction([i \in D |-> f[i] * w[i]]) \div SumFunction([i \in D |-> w[i]])
          IN  a \in Int /\ low <= a /\ a <= high
      BY <1>3, <2>4, <3>1, WeightedAverage
    <3> QED BY <2>1, <3>1, <3>2, <3>3
  <2> QED BY <1>3, <2>3, <2>4, NoneIsNoNumber DEF Number
<1> QED BY <1>2, <1>3

LEMMA MaxvType ==
  ASSUME NEW D, IsFiniteSet(D), NEW f \in [D -> Int]
  PROVE  Maxv(f) \in Number
<1>1. CASE D = {}
  BY <1>1 DEF Maxv, Number
<1>2. CASE D # {}
  <2>1. IsFiniteSet(Range(f)) /\ Range(f) \in SUBSET Int /\ Range(f) # {}
    BY <1>2, RangeFinite
  <2>2. Max(Range(f)) \in Range(f)
    BY <2>1, Extremes
  <2> QED BY <1>2, <2>1, <2>2 DEF Maxv, Number
<1> QED BY <1>1, <1>2

LEMMA MedType ==
  ASSUME NEW D, IsFiniteSet(D), NEW f \in [D -> Int]
  PROVE  Med(f) \in Number
<1> DEFINE n == Cardinality(D)
<1>1. n \in Nat /\ DOMAIN f = D
  BY FS_CardinalityType
<1>2. CASE n = 0
  BY <1>1, <1>2 DEF Med, Number
<1>3. CASE n # 0 /\ n % 2 = 1
  <2>1. n \div 2 + 1 \in 1 .. n
    BY <1>1, <1>3
  <2>2. NthLeast(f, n \div 2 + 1) \in Int
    BY <2>1, NthLeastType
  <2>3. Med(f) = NthLeast(f, n \div 2 + 1)
    BY <1>1, <1>3 DEF Med
  <2> QED BY <2>2, <2>3 DEF Number
<1>4. CASE n # 0 /\ n % 2 # 1
  <2>1. n \div 2 \in 1 .. n /\ n \div 2 + 1 \in 1 .. n
    BY <1>1, <1>4
  <2>2. NthLeast(f, n \div 2) \in Int /\ NthLeast(f, n \div 2 + 1) \in Int
    BY <2>1, NthLeastType
  <2>3. Med(f) = (NthLeast(f, n \div 2) + NthLeast(f, n \div 2 + 1)) \div 2
    BY <1>1, <1>4 DEF Med
  <2> QED BY <2>2, <2>3 DEF Number
<1> QED BY <1>2, <1>3, <1>4

-----------------------------------------------------------------------------
(* The summary of a test. *)

RowOK(r) ==
  /\ \A k \in Columns : GetNum(r, k) \in Number
  /\ \A k \in Counters : k \in DOMAIN r /\ r[k] \in Nat
  /\ "timestamp" \in DOMAIN r /\ r["timestamp"] \in Nat

\* Some rows at the places D.
RowsOK(rows, D) ==
  /\ IsFiniteSet(D) /\ rows = [i \in D |-> rows[i]]
  /\ \A i \in D : RowOK(rows[i])

LEMMA ValsType ==
  ASSUME NEW D, IsFiniteSet(D), NEW rows, rows = [i \in D |-> rows[i]], NEW k,
         \A i \in D : GetNum(rows[i], k) \in Number
  PROVE  LET E == {i \in D : GetNum(rows[i], k) # None}
         IN  /\ E \subseteq D /\ IsFiniteSet(E)
             /\ Vals(rows, k) = [i \in E |-> GetNum(rows[i], k)]
             /\ Vals(rows, k) \in [E -> Int]
<1> DEFINE E == {i \in D : GetNum(rows[i], k) # None}
           f == [i \in D |-> GetNum(rows[i], k)]
<1>1. f \in [D -> Number] /\ Vals(rows, k) = Clean(f)
  BY DEF Vals
<1>2. Kept(f) = E
  BY DEF Kept
<1>3. Clean(f) = [i \in E |-> f[i]] /\ E \subseteq D /\ IsFiniteSet(E) /\ Clean(f) \in [E -> Number \ {None}]
  <2> HIDE DEF f
  <2>1. /\ Clean(f) = [i \in Kept(f) |-> f[i]]
        /\ Kept(f) \subseteq D /\ IsFiniteSet(Kept(f)) /\ Clean(f) \in [Kept(f) -> Number \ {None}]
    BY <1>1, CleanType
  <2> HIDE DEF E
  <2> QED BY <1>2, <2>1
<1>4. \A i \in E : f[i] = GetNum(rows[i], k)
  OBVIOUS
<1>5. Vals(rows, k) = [i \in E |-> GetNum(rows[i], k)]
  <2> HIDE DEF f, E
  <2> QED BY <1>1, <1>3, <1>4
<1>6. Vals(rows, k) \in [E -> Int]
  <2> HIDE DEF f, E
  <2> QED BY <1>1, <1>3 DEF Number
<1> QED BY <1>3, <1>5, <1>6

\* The average of what was drawn is positive.
LEMMA DrawnType ==
  ASSUME NEW D, NEW rows, RowsOK(rows, D)
  PROVE  Avg(Drawn(rows)) = None \/ Avg(Drawn(rows)) \in Nat \ {0}
<1> DEFINE net == Vals(rows, "net_battery_watts")
           E == {i \in D : GetNum(rows[i], "net_battery_watts") # None}
           N == {j \in E : net[j] < 0}
<1>1. IsFiniteSet(E) /\ net \in [E -> Int]
  <2>1. \A i \in D : GetNum(rows[i], "net_battery_watts") \in Number
    BY DEF RowsOK, RowOK, Columns
  <2> QED BY <2>1, ValsType DEF RowsOK
<1> HIDE DEF E
<1>2. N \in SUBSET E /\ Drawn(rows) = [i \in N |-> -net[i]]
  BY <1>1 DEF Drawn
<1> HIDE DEF net
<1>3. IsFiniteSet(N)
  BY <1>1, <1>2, FS_Subset
<1>4. Drawn(rows) \in [N -> Int] /\ \A i \in N : 1 <= Drawn(rows)[i]
  BY <1>1, <1>2
<1> DEFINE T == SumFunction(Drawn(rows)) \div Cardinality(N)
<1>5. CASE N = {}
  BY <1>3, <1>4, <1>5, AvgType
<1>6. CASE N # {}
  <2>1. Avg(Drawn(rows)) \in Int
    BY <1>3, <1>4, <1>6, AvgType DEF Number
  <2>2. Avg(Drawn(rows)) = SumFunction(Drawn(rows)) \div Cardinality(N)
    BY <1>2, <1>6 DEF Avg
  <2> DEFINE w == [i \in N |-> 1]
  <2>3. w \in [N -> Int] /\ SumFunction(w) = Cardinality(N) /\ \A i \in N : w[i] <= Drawn(rows)[i]
    BY <1>3, <1>4, SumOfOnes
  <2> HIDE DEF w
  <2>4. SumFunction(w) <= SumFunction(Drawn(rows)) /\ SumFunction(Drawn(rows)) \in Int
    BY <1>3, <1>4, <2>3, SumMonotone, SumType
  <2>5. Cardinality(N) \in Nat /\ Cardinality(N) # 0
    BY <1>3, <1>6, FS_CardinalityType, FS_EmptySet
  <2>6. Avg(Drawn(rows)) >= 1
    BY <2>2, <2>3, <2>4, <2>5
  <2> QED BY <2>1, <2>6
<1> QED BY <1>5, <1>6

LEMMA LastingType ==
  ASSUME NEW wh \in Number, NEW draw, draw = None \/ draw \in Nat \ {0}
  PROVE  Lasting(wh, draw) \in Number
<1>1. CASE wh = None \/ draw = None
  BY <1>1 DEF Lasting, Number
<1>2. CASE wh # None /\ draw # None
  <2>1. wh \in Int /\ draw \in Nat \ {0}
    BY <1>2 DEF Number
  <2>2. Lasting(wh, draw) = (100 * wh) \div draw
    BY <1>2, <2>1 DEF Lasting
  <2> QED BY <2>1, <2>2 DEF Number
<1> QED BY <1>1, <1>2

\* The first and the last of some rows.
LEMMA FirstAndLatest ==
  ASSUME NEW D \in SUBSET Nat, D # {}, NEW rows, RowsOK(rows, D)
  PROVE  /\ Min(D) \in D /\ Max(D) \in D
         /\ \A i \in D : Min(D) <= i /\ i <= Max(D)
         /\ First(rows) = rows[Min(D)] /\ Latest(rows) = rows[Max(D)]
<1>1. IsFiniteSet(D) /\ DOMAIN rows = D /\ D \in SUBSET Int
  BY DEF RowsOK
<1>2. /\ Max(D) \in D /\ \A i \in D : i <= Max(D)
      /\ Min(D) \in D /\ \A i \in D : Min(D) <= i
  BY <1>1, Extremes
<1> QED BY <1>1, <1>2 DEF First, Latest

\* A counter over some rows.
LEMMA CounterOf ==
  ASSUME NEW D \in SUBSET Nat, D # {}, NEW rows, RowsOK(rows, D), NEW k \in Counters
  PROVE  LET d == rows[Max(D)][k] - rows[Min(D)][k]
         IN  /\ Difference(rows, k) = d /\ d \in Int
             /\ DiffCounter(rows, k) = IF d < 0 THEN None ELSE d
<1>1. /\ Min(D) \in D /\ Max(D) \in D
      /\ First(rows) = rows[Min(D)] /\ Latest(rows) = rows[Max(D)]
  BY FirstAndLatest
<1>2. \A i \in D : GetNum(rows[i], k) = rows[i][k] /\ rows[i][k] \in Nat
  <2>1. \A i \in D : k \in DOMAIN rows[i] /\ rows[i][k] \in Nat
    BY DEF RowsOK, RowOK
  <2>2. \A i \in D : rows[i][k] # Junk
    BY <2>1, DistinctMarks
  <2> QED BY <2>1, <2>2 DEF GetNum, Float, Get
<1> DEFINE a == rows[Min(D)][k]
           b == rows[Max(D)][k]
<1>3. GetNum(First(rows), k) = a /\ GetNum(Latest(rows), k) = b /\ a \in Nat /\ b \in Nat
  BY <1>1, <1>2
<1> HIDE DEF a, b
<1>4. Difference(rows, k) = b - a /\ b - a \in Int
  BY <1>3, NoneIsNoNumber DEF Difference
<1>5. DiffCounter(rows, k) = IF b - a < 0 THEN None ELSE b - a
  BY <1>4, NoneIsNoNumber DEF DiffCounter
<1> QED BY <1>4, <1>5 DEF a, b


LEMMA UpdateGet ==
  ASSUME NEW d, NEW e, NEW k
  PROVE  /\ k \notin DOMAIN e => Get(Update(d, e), k) = Get(d, k) /\ GetNum(Update(d, e), k) = GetNum(d, k)
         /\ k \in DOMAIN e => k \in DOMAIN Update(d, e) /\ Update(d, e)[k] = e[k]
BY DEF Get, GetNum, Update

LEMMA GetOfNumber ==
  ASSUME NEW d, NEW k, k \in DOMAIN d, d[k] \in Number
  PROVE  GetNum(d, k) = d[k]
<1>1. d[k] # Junk
  BY DistinctMarks DEF Number
<1> QED BY <1>1 DEF GetNum, Get, Float

\* The columns of a summary that a card is made of.
CardColumns == {"interval_seconds", "primary_load_avg_w", "primary_load_peak_w",
                "battery_wh_discharged_interval", "runtime_projection_hours_full",
                "battery_temp_peak_c", "cell_delta_peak_mv"}

LEMMA IntervalSecondsType ==
  ASSUME NEW D \in SUBSET Nat, D # {}, NEW rows, RowsOK(rows, D)
  PROVE  /\ IntervalSeconds(rows) \in Number
         /\ IntervalSeconds(rows) # None =>
              IntervalSeconds(rows) = rows[Max(D)]["timestamp"] - rows[Min(D)]["timestamp"]
<1>1. /\ Min(D) \in D /\ Max(D) \in D
      /\ First(rows) = rows[Min(D)] /\ Latest(rows) = rows[Max(D)]
  BY FirstAndLatest
<1> DEFINE a == rows[Min(D)]["timestamp"]
           b == rows[Max(D)]["timestamp"]
<1>2. a \in Nat /\ b \in Nat
  BY <1>1 DEF RowsOK, RowOK
<1>3. IntervalSeconds(rows) = IF Cardinality(DOMAIN rows) < 2 THEN None ELSE b - a
  BY <1>1 DEF IntervalSeconds
<1> HIDE DEF a, b
<1>4. IntervalSeconds(rows) = None \/ IntervalSeconds(rows) = b - a
  BY <1>3
<1> QED BY <1>2, <1>4 DEF Number, a, b

LEMMA SummarizedType ==
  ASSUME NEW D \in SUBSET Nat, NEW rows, RowsOK(rows, D)
  PROVE  LET s == SummarizeInterval(rows)
         IN  /\ \A k \in CardColumns : GetNum(s, k) \in Number
             /\ D = {} => s = << >>
             /\ D # {} => /\ GetNum(s, "interval_seconds") = IntervalSeconds(rows)
                          /\ GetNum(s, "battery_wh_discharged_interval") = DiffCounter(rows, "battery_wh_discharged")
<1> DEFINE s == SummarizeInterval(rows)
<1>0. IsFiniteSet(D) /\ DOMAIN rows = D /\ rows = [i \in D |-> rows[i]]
  BY DEF RowsOK
<1>1. CASE D = {}
  <2>1. s = << >>
    BY <1>0, <1>1 DEF SummarizeInterval
  <2>2. \A k \in CardColumns : k \notin DOMAIN << >>
    BY DEF CardColumns
  <2>3. \A k \in CardColumns : GetNum(<< >>, k) = None
    BY <2>2, DistinctMarks DEF GetNum, Get, Float
  <2> HIDE DEF s
  <2> QED BY <1>1, <2>1, <2>3 DEF Number, s
<1>2. CASE D # {}
  <2> DEFINE draw == Avg(Drawn(rows))
             E(k) == {i \in D : GetNum(rows[i], k) # None}
  <2>1. \A k \in Columns : IsFiniteSet(E(k)) /\ Vals(rows, k) \in [E(k) -> Int]
    <3>1. ASSUME NEW k \in Columns PROVE IsFiniteSet(E(k)) /\ Vals(rows, k) \in [E(k) -> Int]
      <4>1. \A i \in D : GetNum(rows[i], k) \in Number
        BY DEF RowsOK, RowOK
      <4> QED BY <1>0, <4>1, ValsType
    <3> QED BY <3>1
  <2>2. draw = None \/ draw \in Nat \ {0}
    BY DrawnType
  <2> HIDE DEF E, draw
  <2>3. \A k \in Columns : Avg(Vals(rows, k)) \in Number /\ Maxv(Vals(rows, k)) \in Number
                          /\ Med(Vals(rows, k)) \in Number
    <3>1. ASSUME NEW k \in Columns
          PROVE  Avg(Vals(rows, k)) \in Number /\ Maxv(Vals(rows, k)) \in Number /\ Med(Vals(rows, k)) \in Number
      BY <2>1, AvgType, MaxvType, MedType
    <3> QED BY <3>1
  <2>4. Lasting(Med(Vals(rows, "estimated_wh_full")), draw) \in Number
    BY <2>2, <2>3, LastingType DEF Columns
  <2>5. IntervalSeconds(rows) \in Number
    BY <1>2, IntervalSecondsType
  <2>6. DiffCounter(rows, "battery_wh_discharged") \in Number
    <3>1. "battery_wh_discharged" \in Counters
      BY DEF Counters
    <3>2. LET d == rows[Max(D)]["battery_wh_discharged"] - rows[Min(D)]["battery_wh_discharged"]
          IN  d \in Int /\ DiffCounter(rows, "battery_wh_discharged") = IF d < 0 THEN None ELSE d
      BY <1>2, <3>1, CounterOf
    <3> QED BY <3>2 DEF Number
  <2>7. /\ "interval_seconds" \in DOMAIN s /\ s["interval_seconds"] = IntervalSeconds(rows)
        /\ "primary_load_avg_w" \in DOMAIN s /\ s["primary_load_avg_w"] = Avg(Vals(rows, "primary_total_load_w"))
        /\ "primary_load_peak_w" \in DOMAIN s /\ s["primary_load_peak_w"] = Maxv(Vals(rows, "primary_total_load_w"))
        /\ "battery_wh_discharged_interval" \in DOMAIN s
        /\ s["battery_wh_discharged_interval"] = DiffCounter(rows, "battery_wh_discharged")
        /\ "runtime_projection_hours_full" \in DOMAIN s
        /\ s["runtime_projection_hours_full"] = Lasting(Med(Vals(rows, "estimated_wh_full")), draw)
        /\ "battery_temp_peak_c" \in DOMAIN s /\ s["battery_temp_peak_c"] = Maxv(Vals(rows, "battery_temp_c"))
        /\ "cell_delta_peak_mv" \in DOMAIN s /\ s["cell_delta_peak_mv"] = Maxv(Vals(rows, "cell_voltage_delta_mv"))
    BY <1>0, <1>2 DEF SummarizeInterval, draw
  <2> HIDE DEF s
  <2>8. \A k \in CardColumns : k \in DOMAIN s /\ s[k] \in Number
    BY <2>3, <2>4, <2>5, <2>6, <2>7 DEF CardColumns, Columns
  <2>9. \A k \in CardColumns : GetNum(s, k) = s[k]
    BY <2>8, GetOfNumber
  <2>10. /\ GetNum(s, "interval_seconds") = IntervalSeconds(rows)
         /\ GetNum(s, "battery_wh_discharged_interval") = DiffCounter(rows, "battery_wh_discharged")
    BY <2>7, <2>9 DEF CardColumns
  <2> QED BY <1>2, <2>8, <2>9, <2>10 DEF s
<1> QED BY <1>1, <1>2

\* The rows of a log within a test.
LEMMA IntervalRowsType ==
  ASSUME NEW D \in SUBSET Nat, NEW rows, RowsOK(rows, D), NEW a \in Nat, NEW b \in Nat
  PROVE  LET W == {i \in D : a <= rows[i]["timestamp"] /\ rows[i]["timestamp"] <= b}
         IN  /\ IntervalRows(rows, a, b) = [i \in W |-> rows[i]]
             /\ RowsOK(IntervalRows(rows, a, b), W) /\ W \in SUBSET Nat
<1> DEFINE W == {i \in D : a <= rows[i]["timestamp"] /\ rows[i]["timestamp"] <= b}
<1>1. IsFiniteSet(D) /\ DOMAIN rows = D /\ \A i \in D : RowOK(rows[i])
  BY DEF RowsOK
<1>2. \A i \in D : Get(rows[i], "timestamp") = rows[i]["timestamp"] /\ rows[i]["timestamp"] # None
  <2>1. \A i \in D : "timestamp" \in DOMAIN rows[i] /\ rows[i]["timestamp"] \in Int
    BY <1>1 DEF RowOK
  <2>2. \A i \in D : rows[i]["timestamp"] # None
    BY <2>1, NoneIsNoNumber
  <2> QED BY <2>1, <2>2 DEF Get
<1>3. IntervalRows(rows, a, b) = [i \in W |-> rows[i]]
  BY <1>1, <1>2 DEF IntervalRows, RestrictValues, Restrict
<1>4. W \in SUBSET D /\ IsFiniteSet(W)
  BY <1>1, FS_Subset
<1> HIDE DEF W
<1>5. RowsOK([i \in W |-> rows[i]], W)
  BY <1>1, <1>4 DEF RowsOK
<1> QED BY <1>3, <1>4, <1>5 DEF W


-----------------------------------------------------------------------------
(* The scores of a card. *)

LEMMA ClampType == ASSUME NEW n \in Int PROVE Clamp(n) \in 0 .. 1000
BY DEF Clamp, AtLeast, AtMost

LEMMA ShareType ==
  ASSUME NEW actual \in Number, NEW target \in Nat \ {0}
  PROVE  Share(actual, target) \in Percentage
<1>1. CASE actual = None
  BY <1>1 DEF Share, Percentage
<1>2. CASE actual # None
  <2>1. actual \in Int
    BY <1>2 DEF Number
  <2>2. (1000 * actual) \div target \in Int
    BY <2>1
  <2>3. Clamp((1000 * actual) \div target) \in 0 .. 1000
    <3> DEFINE a == (1000 * actual) \div target
    <3>1. a \in Int
      BY <2>2
    <3> HIDE DEF a
    <3>2. Clamp(a) \in 0 .. 1000
      BY ONLY <3>1, ClampType
    <3> QED BY ONLY <3>2 DEF a
  <2> QED BY <1>2, <2>3 DEF Share, Percentage
<1> QED BY <1>1, <1>2

LEMMA TemperatureType == ASSUME NEW t \in Number PROVE ScoreTemperature(t) \in Percentage
<1>1. CASE t = None
  BY <1>1 DEF ScoreTemperature, Percentage
<1>2. CASE t # None
  <2>1. t \in Int
    BY <1>2 DEF Number
  <2>2. Clamp(1000 - 75 * (t - 38)) \in 0 .. 1000 /\ Clamp(850 - 100 * (t - 40)) \in 0 .. 1000
    <3> DEFINE a == 1000 - 75 * (t - 38)
               b == 850 - 100 * (t - 40)
    <3>1. a \in Int /\ b \in Int
      BY <2>1
    <3> HIDE DEF a, b
    <3>2. Clamp(a) \in 0 .. 1000
      BY ONLY <3>1, ClampType
    <3>3. Clamp(b) \in 0 .. 1000
      BY ONLY <3>1, ClampType
    <3> QED BY ONLY <3>2, <3>3 DEF a, b
  <2>3. ScoreTemperature(t) = IF t <= 38 THEN 1000
                              ELSE IF t \in 39 .. 40 THEN Clamp(1000 - 75 * (t - 38))
                              ELSE Clamp(850 - 100 * (t - 40))
    BY <1>2, <2>1 DEF ScoreTemperature
  <2>4. 1000 \in 0 .. 1000
    OBVIOUS
  <2> QED BY <2>2, <2>3, <2>4 DEF Percentage
<1> QED BY <1>1, <1>2

LEMMA CellDeltaType == ASSUME NEW d \in Number PROVE ScoreCellDelta(d) \in Percentage
<1>1. CASE d = None
  BY <1>1 DEF ScoreCellDelta, Percentage
<1>2. CASE d # None
  <2>1. d \in Int
    BY <1>2 DEF Number
  <2>2. 1000 - (250 * (d - 20)) \div 15 \in Int /\ 750 - 20 * (d - 35) \in Int
    BY <2>1
  <2>3. Clamp(1000 - (250 * (d - 20)) \div 15) \in 0 .. 1000 /\ Clamp(750 - 20 * (d - 35)) \in 0 .. 1000
    <3> DEFINE a == 1000 - (250 * (d - 20)) \div 15
               b == 750 - 20 * (d - 35)
    <3>1. a \in Int /\ b \in Int
      BY <2>2
    <3> HIDE DEF a, b
    <3>2. Clamp(a) \in 0 .. 1000
      BY ONLY <3>1, ClampType
    <3>3. Clamp(b) \in 0 .. 1000
      BY ONLY <3>1, ClampType
    <3> QED BY ONLY <3>2, <3>3 DEF a, b
  <2>4. ScoreCellDelta(d) = IF d <= 20 THEN 1000
                            ELSE IF d \in 21 .. 35 THEN Clamp(1000 - (250 * (d - 20)) \div 15)
                            ELSE Clamp(750 - 20 * (d - 35))
    BY <1>2, <2>1 DEF ScoreCellDelta
  <2>5. 1000 \in 0 .. 1000
    OBVIOUS
  <2> QED BY <2>3, <2>4, <2>5 DEF Percentage
<1> QED BY <1>1, <1>2

\* The average of the scores there are.
LEMMA AvgPresentType ==
  ASSUME NEW D, IsFiniteSet(D), NEW f \in [D -> Percentage]
  PROVE  AvgPresent(f) \in Percentage
<1> DEFINE E == Kept(f)
           g == Clean(f)
<1>1. IsFiniteSet(E) /\ g \in [E -> Percentage \ {None}]
  BY CleanType
<1>2. Percentage \ {None} \subseteq 0 .. 1000
  BY DEF Percentage
<1> HIDE DEF E, g
<1>3. g \in [E -> Int] /\ \A i \in E : 0 <= g[i] /\ g[i] <= 1000
  <2>1. g \in [E -> 0 .. 1000]
    BY <1>1, <1>2
  <2>2. \A i \in E : g[i] \in 0 .. 1000
    BY ONLY <2>1
  <2>3. g = [i \in E |-> g[i]]
    BY ONLY <2>1
  <2>4. ASSUME NEW i \in E PROVE g[i] \in Int /\ 0 <= g[i] /\ g[i] <= 1000
    <3>1. g[i] \in 0 .. 1000
      BY ONLY <2>2
    <3> QED BY ONLY <3>1
  <2>5. [i \in E |-> g[i]] \in [E -> Int]
    BY ONLY <2>4
  <2> QED BY ONLY <2>3, <2>4, <2>5
<1>4. /\ Avg(g) \in Number
      /\ Avg(g) = None <=> E = {}
      /\ E # {} => 0 <= Avg(g) /\ Avg(g) <= 1000
  BY <1>1, <1>3, AvgType
<1>5. Avg(g) \in Percentage
  <2>1. CASE E = {}
    BY <1>4, <2>1 DEF Percentage
  <2>2. CASE E # {}
    BY <1>4, <2>2 DEF Number, Percentage
  <2> QED BY <2>1, <2>2
<1> QED BY <1>5 DEF AvgPresent, g

\* The overall score of some parts.
LEMMA OverallType ==
  ASSUME NEW scores \in [Parts -> Percentage]
  PROVE  LET have == {scores[p] : p \in Parts} \ {None}
         IN  /\ have \subseteq 0 .. 1000
             /\ Overall(scores) = None <=> have = {}
             /\ Overall(scores) # None =>
                  \E low, high \in have : low <= Overall(scores) /\ Overall(scores) <= high
<1> DEFINE have == {scores[p] : p \in Parts} \ {None}
           E == Kept(scores)
           g == Clean(scores)
           w == [p \in E |-> Weights[p]]
<1>1. IsFiniteSet(Parts) /\ \A p \in Parts : Weights[p] \in Nat \ {0}
  <2>1. Parts = {"endurance", "sustained", "thermal", "stability"}
    BY DEF Parts, Weights
  <2>2. IsFiniteSet({"endurance", "sustained", "thermal", "stability"})
    <3>1. IsFiniteSet({"endurance"})
      BY FS_Singleton
    <3>2. IsFiniteSet({"endurance"} \cup {"sustained"})
      BY <3>1, FS_AddElement
    <3>3. IsFiniteSet(({"endurance"} \cup {"sustained"}) \cup {"thermal"})
      BY <3>2, FS_AddElement
    <3>4. IsFiniteSet((({"endurance"} \cup {"sustained"}) \cup {"thermal"}) \cup {"stability"})
      BY <3>3, FS_AddElement
    <3>5. {"endurance", "sustained", "thermal", "stability"} =
            (({"endurance"} \cup {"sustained"}) \cup {"thermal"}) \cup {"stability"}
      OBVIOUS
    <3> QED BY <3>4, <3>5
  <2>3. \A p \in Parts : Weights[p] \in Nat \ {0}
    BY <2>1 DEF Weights
  <2> QED BY <2>1, <2>2, <2>3
<1>2. /\ g = [p \in E |-> scores[p]] /\ E \subseteq Parts /\ IsFiniteSet(E)
      /\ g \in [E -> Percentage \ {None}]
  BY <1>1, CleanType
<1>3. E = {p \in Parts : scores[p] # None}
  BY DEF Kept
<1> HIDE DEF E, g
<1>4. have = {g[p] : p \in E}
  BY <1>2, <1>3
<1>5. Percentage \ {None} \subseteq 0 .. 1000
  BY DEF Percentage
<1>6. have \subseteq 0 .. 1000 /\ g \in [E -> Int]
  BY <1>2, <1>4, <1>5
<1>7. CASE E = {}
  <2>1. DOMAIN g = {} /\ have = {}
    BY <1>2, <1>4, <1>7
  <2>2. Overall(scores) = None
    BY <2>1 DEF Overall, g
  <2> QED BY <2>1, <2>2
<1>8. CASE E # {}
  <2> HIDE DEF have
  <2>1. have = Range(g) /\ DOMAIN g = E
    BY <1>2, <1>4 DEF Range
  <2>2. IsFiniteSet(have) /\ have \in SUBSET Int /\ have # {}
    <3>1. IsFiniteSet(Range(g)) /\ Range(g) \subseteq Int /\ Range(g) # {}
      BY <1>2, <1>6, <1>8, RangeFinite
    <3> QED BY <2>1, <3>1
  <2>3. /\ Max(have) \in have /\ \A y \in have : y <= Max(have)
        /\ Min(have) \in have /\ \A y \in have : Min(have) <= y
    BY <2>2, Extremes
  <2>4. \A p \in E : Min(have) <= g[p] /\ g[p] <= Max(have)
    BY <1>4, <2>3
  <2>5. w \in [E -> Nat \ {0}] /\ w = [p \in E |-> w[p]]
    BY <1>1, <1>2
  <2>6. [p \in E |-> g[p] * w[p]] = [p \in E |-> g[p] * Weights[p]]
    OBVIOUS
  <2>7. Overall(scores) = SumFunction([p \in E |-> g[p] * w[p]]) \div SumFunction([p \in E |-> w[p]])
    BY <1>8, <2>1, <2>5, <2>6 DEF Overall, g
  <2> HIDE DEF w
  <2>8. Min(have) \in Int /\ Max(have) \in Int
    BY <2>2, <2>3
  <2>9. Overall(scores) \in Int /\ Min(have) <= Overall(scores) /\ Overall(scores) <= Max(have)
    <3>1. LET a == SumFunction([p \in E |-> g[p] * w[p]]) \div SumFunction([p \in E |-> w[p]])
          IN  a \in Int /\ Min(have) <= a /\ a <= Max(have)
      <4>1. IsFiniteSet(E) /\ \A p \in E : Min(have) <= g[p] /\ g[p] <= Max(have)
        BY <1>2, <2>4
      <4>2. g \in [E -> Int]
        BY <1>6
      <4> QED BY ONLY <1>8, <2>5, <2>8, <4>1, <4>2, WeightedAverage
    <3> QED BY <2>7, <3>1
  <2>10. Overall(scores) # None
    BY <2>9, NoneIsNoNumber
  <2> QED BY <1>6, <2>2, <2>3, <2>9, <2>10 DEF have
<1> QED BY <1>7, <1>8

\* The columns of the runs that a card is made of.
RunsOK(runs, D) ==
  /\ D \in SUBSET Nat /\ IsFiniteSet(D) /\ runs = [i \in D |-> runs[i]]
  /\ \A i \in D : \A k \in CardColumns : GetNum(runs[i], k) \in Number

LEMMA ValidType ==
  ASSUME NEW D, NEW runs, RunsOK(runs, D)
  PROVE  LET V == {i \in D : Get(runs[i], "samples") \notin {None, 0}}
         IN  Valid(runs) = [i \in V |-> runs[i]] /\ V \in SUBSET D /\ RunsOK(Valid(runs), V)
<1> DEFINE V == {i \in D : Get(runs[i], "samples") \notin {None, 0}}
<1>1. DOMAIN runs = D
  BY DEF RunsOK
<1>2. Valid(runs) = [i \in V |-> runs[i]]
  BY <1>1 DEF Valid, RestrictValues, Restrict
<1>3. V \in SUBSET D /\ IsFiniteSet(V)
  BY FS_Subset DEF RunsOK
<1> HIDE DEF V
<1>4. RunsOK([i \in V |-> runs[i]], V)
  BY <1>3 DEF RunsOK
<1> QED BY <1>2, <1>3, <1>4 DEF V

\* The test of a kind, or no test at all.
LEMMA FindTestType ==
  ASSUME NEW D, NEW runs, RunsOK(runs, D), NEW key, NEW k \in CardColumns
  PROVE  GetNum(FindTest(runs, key), k) \in Number
<1> DEFINE found == {i \in DOMAIN runs : runs[i].title \in Aliases[key]}
<1>1. DOMAIN runs = D
  BY DEF RunsOK
<1>2. found \in SUBSET D /\ IsFiniteSet(found) /\ found \in SUBSET Int
  <2>1. found \in SUBSET D
    BY <1>1
  <2> HIDE DEF found
  <2> QED BY <2>1, FS_Subset DEF RunsOK
<1>3. FindTest(runs, key) = IF found = {} THEN << >> ELSE runs[Min(found)]
  BY DEF FindTest
<1> HIDE DEF found
<1>4. CASE found = {}
  <2>1. k \notin DOMAIN << >>
    BY DEF CardColumns
  <2>2. GetNum(<< >>, k) = None
    BY <2>1, DistinctMarks DEF GetNum, Get, Float
  <2> QED BY <1>3, <1>4, <2>2 DEF Number
<1>5. CASE found # {}
  <2>1. Min(found) \in found
    BY <1>2, <1>5, Extremes
  <2> QED BY <1>2, <1>3, <1>5, <2>1 DEF RunsOK
<1> QED BY <1>4, <1>5

\* What the runs of a card have in a column.
Having(runs, D, k) == {i \in D : GetNum(runs[i], k) # None}

LEMMA ColumnType ==
  ASSUME NEW D, NEW runs, RunsOK(runs, D), NEW k \in CardColumns
  PROVE  /\ Having(runs, D, k) \in SUBSET D /\ IsFiniteSet(Having(runs, D, k))
         /\ Vals(runs, k) \in [Having(runs, D, k) -> Int]
         /\ Vals(runs, k) = [i \in Having(runs, D, k) |-> GetNum(runs[i], k)]
<1>1. IsFiniteSet(D) /\ runs = [i \in D |-> runs[i]] /\ \A i \in D : GetNum(runs[i], k) \in Number
  BY DEF RunsOK
<1> DEFINE E == {i \in D : GetNum(runs[i], k) # None}
<1>2. IsFiniteSet(E)
  BY <1>1, FS_Subset
<1>3. Vals(runs, k) = [i \in E |-> GetNum(runs[i], k)]
  BY <1>1, ValsType
<1>4. \A i \in E : GetNum(runs[i], k) \in Int
  BY <1>1 DEF Number
<1>5. Vals(runs, k) \in [E -> Int]
  <2> HIDE DEF E
  <2> QED BY <1>3, <1>4
<1> QED BY <1>2, <1>3, <1>5 DEF Having

\* What a card says.
LEMMA CardType ==
  ASSUME NEW D, NEW runs, RunsOK(runs, D)
  PROVE  LET c == ComputeScorecard(runs)
         IN  /\ c.scores \in [Parts -> Percentage] /\ c.overall = Overall(c.scores)
             /\ c.total_wh_used = SumFunction(Vals(Valid(runs), "battery_wh_discharged_interval"))
             /\ c.total_test_seconds = SumFunction(Vals(Valid(runs), "interval_seconds"))
<1> DEFINE V == {i \in D : Get(runs[i], "samples") \notin {None, 0}}
           worst(k) == Maxv(Vals(Valid(runs), k))
           runtime(k) == Share(GetNum(FindTest(runs, k), "runtime_projection_hours_full"), Targets[k])
           load(k, n) == Share(GetNum(FindTest(runs, "extreme"), k), n)
           stability == ScoreCellDelta(worst("cell_delta_peak_mv"))
<1>1. RunsOK(Valid(runs), V)
  BY ValidType
<1> HIDE DEF V
<1>2. \A k \in CardColumns : worst(k) \in Number
  <2>1. ASSUME NEW k \in CardColumns PROVE worst(k) \in Number
    <3> DEFINE E == Having(Valid(runs), V, k)
    <3>1. IsFiniteSet(E) /\ Vals(Valid(runs), k) \in [E -> Int]
      BY <1>1, ColumnType
    <3> HIDE DEF E
    <3> QED BY <3>1, MaxvType
  <2> QED BY <2>1
<1>3. \A k \in {"cpu", "gpu", "memory", "extreme"} : runtime(k) \in Percentage
  <2>1. \A k \in {"cpu", "gpu", "memory", "extreme"} : Targets[k] \in Nat \ {0}
    BY DEF Targets
  <2>2. ASSUME NEW k PROVE GetNum(FindTest(runs, k), "runtime_projection_hours_full") \in Number
    BY FindTestType DEF CardColumns
  <2>3. ASSUME NEW k \in {"cpu", "gpu", "memory", "extreme"} PROVE runtime(k) \in Percentage
    <3> DEFINE a == GetNum(FindTest(runs, k), "runtime_projection_hours_full")
               b == Targets[k]
    <3>1. a \in Number /\ b \in Nat \ {0}
      BY <2>1, <2>2
    <3> HIDE DEF a, b
    <3>2. Share(a, b) \in Percentage
      BY <3>1, ShareType
    <3> QED BY <3>2 DEF a, b
  <2> HIDE DEF runtime
  <2> QED BY <2>3
<1>4. load("primary_load_avg_w", 95) \in Percentage /\ load("primary_load_peak_w", 110) \in Percentage
  <2> DEFINE a == GetNum(FindTest(runs, "extreme"), "primary_load_avg_w")
             b == GetNum(FindTest(runs, "extreme"), "primary_load_peak_w")
  <2>1. a \in Number /\ b \in Number
    BY FindTestType DEF CardColumns
  <2> HIDE DEF a, b
  <2>2. Share(a, 95) \in Percentage /\ Share(b, 110) \in Percentage
    BY <2>1, ShareType
  <2> QED BY <2>2 DEF a, b
<1>5. stability \in Percentage /\ ScoreTemperature(worst("battery_temp_peak_c")) \in Percentage
  <2> HIDE DEF worst
  <2>1. worst("cell_delta_peak_mv") \in Number /\ worst("battery_temp_peak_c") \in Number
    BY <1>2 DEF CardColumns
  <2> QED BY <2>1, CellDeltaType, TemperatureType
<1> HIDE DEF runtime, load, stability
<1> DEFINE complete == \A i \in DOMAIN Valid(runs) : Valid(runs)[i].status = "complete"
           four == <<runtime("cpu"), runtime("gpu"), runtime("memory"), runtime("extreme")>>
           two == <<load("primary_load_avg_w", 95), load("primary_load_peak_w", 110)>>
           scores == [endurance |-> AvgPresent(four), sustained |-> AvgPresent(two),
                      thermal |-> ScoreTemperature(worst("battery_temp_peak_c")),
                      stability |-> IF complete /\ stability # None THEN AtMost(1000, stability + 30) ELSE stability]
<1>6. AvgPresent(four) \in Percentage /\ AvgPresent(two) \in Percentage
  <2>1. four \in [1 .. 4 -> Percentage] /\ two \in [1 .. 2 -> Percentage]
    BY <1>3, <1>4
  <2>2. IsFiniteSet(1 .. 4) /\ IsFiniteSet(1 .. 2)
    <3>1. ASSUME NEW n \in Nat PROVE IsFiniteSet(1 .. n)
      BY FS_Interval
    <3> QED BY <3>1
  <2> HIDE DEF four, two
  <2> QED BY <2>1, <2>2, AvgPresentType
<1>7. (IF complete /\ stability # None THEN AtMost(1000, stability + 30) ELSE stability) \in Percentage
  <2> HIDE DEF complete
  <2>1. CASE stability = None
    BY <1>5, <2>1
  <2>2. CASE stability # None
    <3>1. stability \in 0 .. 1000
      BY <1>5, <2>2 DEF Percentage
    <3>2. AtMost(1000, stability + 30) \in Percentage
      <4>1. AtMost(1000, stability + 30) \in 0 .. 1000
        BY <3>1 DEF AtMost
      <4> QED BY <4>1 DEF Percentage
    <3> QED BY <1>5, <3>2
  <2> QED BY <2>1, <2>2
<1> HIDE DEF four, two, complete, worst
<1>8. scores \in [Parts -> Percentage]
  <2>1. Parts = {"endurance", "sustained", "thermal", "stability"}
    BY DEF Parts, Weights
  <2> QED BY <1>5, <1>6, <1>7, <2>1
<1> HIDE DEF scores
<1>9. LET c == ComputeScorecard(runs)
      IN  /\ c.scores = scores /\ c.overall = Overall(scores)
          /\ c.total_wh_used = SumFunction(Vals(Valid(runs), "battery_wh_discharged_interval"))
          /\ c.total_test_seconds = SumFunction(Vals(Valid(runs), "interval_seconds"))
  BY Zenon DEF ComputeScorecard, scores, four, two, complete, runtime, load, stability, worst
<1> QED BY <1>8, <1>9


-----------------------------------------------------------------------------
(* The records. *)

\* A column never goes down from one row to a later one.
Rising(rows, k) == \A i, j \in DOMAIN rows : i <= j => rows[i][k] <= rows[j][k]

LogOK(rows, time) ==
  /\ IsSeq(rows)
  /\ \A i \in DOMAIN rows : RowOK(rows[i]) /\ rows[i]["timestamp"] <= time
  /\ Rising(rows, "timestamp") /\ Rising(rows, "battery_wh_discharged")

LogsOK ==
  /\ now \in Nat
  /\ IsSeq(monitors) /\ \A k \in DOMAIN monitors : LogOK(monitors[k], now)
  /\ open => monitors # << >>

\* A file of logs/ is that of a monitor.
FileOK(file) == file = None \/ file.monitor \in DOMAIN monitors

\* One test has ended when the next begins.
TestsOK ==
  /\ IsSeq(tests) /\ FileOK(modified)
  /\ \A i \in DOMAIN tests : /\ tests[i].start \in Nat /\ tests[i].end \in Nat
                             /\ tests[i].start <= tests[i].end /\ tests[i].end <= now
                             /\ FileOK(tests[i].nearest)
  /\ \A i, j \in DOMAIN tests : i < j => tests[i].end <= tests[j].start
  /\ test # None => /\ "start" \in DOMAIN test /\ test.start \in Nat /\ test.start <= now
                    /\ \A i \in DOMAIN tests : tests[i].end <= test.start

\* The summary that the records make.
Made == [i \in DOMAIN tests |-> Summary(tests[i], RowsOf(LogOf(tests[i])))]

PieceOK(piece) == piece \in {Junk, None} \/ piece = ComputeScorecard(Made)

LineOK(line) == IsSeq(line) /\ \A j \in DOMAIN line : PieceOK(line[j])

\* Nothing recorded has changed since the first summary: all of them say the
\* same, and so do all cards.
HistoryOK ==
  /\ IsSeq(summaries) /\ \A i \in DOMAIN summaries : summaries[i] = Junk \/ summaries[i] = Made
  /\ IsSeq(lines) /\ \A i \in DOMAIN lines : LineOK(lines[i])
  /\ summaries = << >> => lines = << >>
  /\ ~ended => lines # << >>

IInv == LogsOK /\ TestsOK /\ HistoryOK

LEMMA Initial == Init => IInv
<1> SUFFICES ASSUME Init PROVE IInv
  OBVIOUS
<1>1. IsSeq(<< >>) /\ DOMAIN << >> = {}
  <2>1. IsSeq(<< >>) /\ Len(<< >>) = 0
    BY ShortSeq
  <2> QED BY <2>1, SeqDomain
<1>2. LogsOK
  BY <1>1 DEF Init, LogsOK
<1>3. TestsOK
  BY <1>1 DEF Init, TestsOK, FileOK
<1>4. HistoryOK
  BY <1>1 DEF Init, HistoryOK
<1> QED BY <1>2, <1>3, <1>4 DEF IInv

\* A log with one row more.
LEMMA LogGrows ==
  ASSUME NEW t \in Nat, NEW rows, LogOK(rows, t), NEW row, RowOK(row), row["timestamp"] = t,
         rows # << >> => Last(rows)["battery_wh_discharged"] <= row["battery_wh_discharged"]
  PROVE  LogOK(Append(rows, row), t)
<1> DEFINE all == Append(rows, row)
           n == Len(rows)
<1>1. /\ IsSeq(all) /\ n \in Nat /\ Len(all) = n + 1 /\ DOMAIN rows = 1 .. n
      /\ \A i \in 1 .. n : all[i] = rows[i]
      /\ all[n + 1] = row
  BY AppendSeq, SeqDomain DEF LogOK
<1>2. DOMAIN all = 1 .. n + 1
  BY <1>1, SeqDomain
<1> HIDE DEF all
<1>3. \A i \in 1 .. n : /\ all[i]["timestamp"] <= t
                        /\ all[i]["battery_wh_discharged"] <= row["battery_wh_discharged"]
  <2> SUFFICES ASSUME NEW i \in 1 .. n
               PROVE  rows[i]["timestamp"] <= t /\ rows[i]["battery_wh_discharged"] <= row["battery_wh_discharged"]
    BY <1>1
  <2>1. i \in DOMAIN rows /\ n \in DOMAIN rows /\ i <= n /\ rows # << >>
    BY <1>1, ShortSeq
  <2>2. rows[i]["battery_wh_discharged"] <= rows[n]["battery_wh_discharged"]
    BY <2>1 DEF LogOK, Rising
  <2>3. Last(rows) = rows[n]
    BY DEF Last
  <2>4. /\ rows[i]["battery_wh_discharged"] \in Nat /\ rows[n]["battery_wh_discharged"] \in Nat
        /\ row["battery_wh_discharged"] \in Nat
    BY <2>1 DEF LogOK, RowOK, Counters
  <2>5. rows[n]["battery_wh_discharged"] <= row["battery_wh_discharged"]
    BY <2>1, <2>3
  <2>6. rows[i]["battery_wh_discharged"] <= row["battery_wh_discharged"]
    BY <2>2, <2>4, <2>5
  <2>7. rows[i]["timestamp"] <= t
    BY <2>1 DEF LogOK
  <2> QED BY <2>6, <2>7
<1>4. \A i \in 1 .. n + 1 : RowOK(all[i]) /\ all[i]["timestamp"] <= t
  <2>1. \A i \in 1 .. n : RowOK(all[i])
    BY <1>1 DEF LogOK
  <2>2. RowOK(all[n + 1]) /\ all[n + 1]["timestamp"] <= t
    BY <1>1
  <2>3. \A i \in 1 .. n + 1 : i \in 1 .. n \/ i = n + 1
    BY <1>1
  <2> QED BY <1>3, <2>1, <2>2, <2>3
<1>5. ASSUME NEW i \in 1 .. n + 1, NEW j \in 1 .. n + 1, i <= j
      PROVE  /\ all[i]["timestamp"] <= all[j]["timestamp"]
             /\ all[i]["battery_wh_discharged"] <= all[j]["battery_wh_discharged"]
  <2>1. CASE j \in 1 .. n
    <3>1. i \in 1 .. n
      BY <1>1, <1>5, <2>1
    <3>2. all[i] = rows[i] /\ all[j] = rows[j] /\ i \in DOMAIN rows /\ j \in DOMAIN rows
      BY <1>1, <2>1, <3>1
    <3> QED BY <1>5, <3>2 DEF LogOK, Rising
  <2>2. CASE j = n + 1 /\ i \in 1 .. n
    BY <1>1, <1>3, <2>2
  <2>3. CASE j = n + 1 /\ i = n + 1
    <3>1. row["timestamp"] \in Nat /\ row["battery_wh_discharged"] \in Nat
      BY DEF RowOK, Counters
    <3> QED BY <1>1, <2>3, <3>1
  <2>4. (j \in 1 .. n \/ j = n + 1) /\ (i \in 1 .. n \/ i = n + 1)
    BY <1>1
  <2> QED BY <2>1, <2>2, <2>3, <2>4
<1>6. Rising(all, "timestamp")
  BY <1>2, <1>5 DEF Rising
<1>7. Rising(all, "battery_wh_discharged")
  BY <1>2, <1>5 DEF Rising
<1>8. LogOK(all, t)
  BY <1>1, <1>2, <1>4, <1>6, <1>7 DEF LogOK
<1> QED BY <1>8 DEF all

LEMMA LogLater ==
  ASSUME NEW t \in Nat, NEW u \in Nat, t <= u, NEW rows, LogOK(rows, t)
  PROVE  LogOK(rows, u)
<1>1. \A i \in DOMAIN rows : rows[i]["timestamp"] \in Nat /\ rows[i]["timestamp"] <= t
  BY DEF LogOK, RowOK
<1>2. \A i \in DOMAIN rows : rows[i]["timestamp"] <= u
  BY <1>1
<1> QED BY <1>2 DEF LogOK


\* While something is recorded there is no summary and no card, which could
\* say something else.
LEMMA HistoryWhileRecording ==
  ASSUME HistoryOK, Recording, UNCHANGED <<summaries, lines, ended>>
  PROVE  HistoryOK'
<1>1. DOMAIN << >> = {}
  <2>1. IsSeq(<< >>) /\ Len(<< >>) = 0
    BY ShortSeq
  <2> QED BY <2>1, SeqDomain
<1>2. summaries' = << >> /\ lines' = << >> /\ lines = << >> /\ ended' = ended
  BY DEF HistoryOK, Recording
<1>3. IsSeq(<< >>) /\ ended
  BY <1>2 DEF HistoryOK
<1> QED BY <1>1, <1>2, <1>3 DEF HistoryOK

\* What is made of the records stays the same as long as they do.
LEMMA HistoryOfTheSame ==
  ASSUME UNCHANGED <<monitors, modified, tests>>
  PROVE  /\ Made' = Made
         /\ \A piece : PieceOK(piece)' <=> PieceOK(piece)
         /\ \A line : LineOK(line)' <=> LineOK(line)
<1>1. Made' = Made
  BY DEF Made, RowsOf, LogOf, LatestCsv, FindNearestPowerLog
<1>2. ASSUME NEW piece PROVE PieceOK(piece)' <=> PieceOK(piece)
  BY <1>1 DEF PieceOK
<1> QED BY <1>1, <1>2 DEF LineOK

LEMMA TickStep == ASSUME IInv, Tick PROVE IInv'
<1>1. now \in Nat /\ now' = now + 1 /\ now' \in Nat /\ now <= now'
  BY DEF IInv, LogsOK, Tick
<1>2. UNCHANGED <<monitors, open, modified, test, tests, summaries, lines, ended>> /\ Recording
  BY DEF Tick
<1>3. LogsOK'
  <2>1. \A k \in DOMAIN monitors : LogOK(monitors[k], now')
    BY <1>1, LogLater DEF IInv, LogsOK
  <2> QED BY <1>1, <1>2, <2>1 DEF IInv, LogsOK
<1>4. TestsOK'
  <2>1. \A i \in DOMAIN tests : tests[i].end \in Nat /\ tests[i].end <= now
    BY DEF IInv, TestsOK
  <2>2. \A i \in DOMAIN tests : tests[i].end <= now'
    BY <1>1, <2>1
  <2>3. test # None => test.start \in Nat /\ test.start <= now
    BY DEF IInv, TestsOK
  <2>4. test # None => test.start <= now'
    BY <1>1, <2>3
  <2>5. \A file : FileOK(file)' <=> FileOK(file)
    BY <1>2 DEF FileOK
  <2> QED BY <1>1, <1>2, <2>2, <2>4, <2>5 DEF IInv, TestsOK
<1>5. HistoryOK'
  BY <1>2, HistoryWhileRecording DEF IInv
<1> QED BY <1>3, <1>4, <1>5 DEF IInv

\* The monitors of before are still there.
LEMMA TestsAmongMoreMonitors ==
  ASSUME TestsOK, UNCHANGED <<now, test, tests>>, DOMAIN monitors \subseteq DOMAIN monitors',
         FileOK(modified)'
  PROVE  TestsOK'
<1>1. \A file : FileOK(file) => FileOK(file)'
  BY DEF FileOK
<1>2. \A i \in DOMAIN tests : FileOK(tests[i].nearest)'
  BY <1>1 DEF TestsOK
<1> QED BY <1>2 DEF TestsOK

LEMMA OpenMonitorStep == ASSUME IInv, OpenMonitor PROVE IInv'
<1>1. /\ monitors' = Append(monitors, << >>) /\ modified' = Power(Len(monitors) + 1)
      /\ UNCHANGED <<now, test, tests, summaries, lines, ended>> /\ Recording
  BY DEF OpenMonitor, Current
<1>2. /\ IsSeq(monitors') /\ Len(monitors) \in Nat /\ Len(monitors') = Len(monitors) + 1
      /\ \A i \in 1 .. Len(monitors) : monitors'[i] = monitors[i]
      /\ monitors'[Len(monitors) + 1] = << >>
  BY <1>1, AppendSeq DEF IInv, LogsOK
<1>3. /\ DOMAIN monitors' = 1 .. Len(monitors) + 1 /\ DOMAIN monitors = 1 .. Len(monitors)
  BY <1>2, SeqDomain DEF IInv, LogsOK
<1>4. LogOK(<< >>, now)
  <2>1. IsSeq(<< >>) /\ Len(<< >>) = 0
    BY ShortSeq
  <2>2. DOMAIN << >> = {}
    BY <2>1, SeqDomain
  <2> QED BY <2>1, <2>2 DEF LogOK, Rising
<1>5. LogsOK'
  <2>1. \A k \in DOMAIN monitors' : k \in DOMAIN monitors \/ k = Len(monitors) + 1
    BY <1>2, <1>3
  <2>2. \A k \in DOMAIN monitors' : LogOK(monitors'[k], now)
    BY <1>2, <1>3, <1>4, <2>1 DEF IInv, LogsOK
  <2>3. monitors' # << >>
    BY <1>2, ShortSeq
  <2> QED BY <1>1, <1>2, <2>2, <2>3 DEF IInv, LogsOK
<1>6. TestsOK'
  <2>1. Power(Len(monitors) + 1).monitor = Len(monitors) + 1
    BY DEF Power
  <2>2. FileOK(modified)'
    BY <1>1, <1>2, <1>3, <2>1 DEF FileOK
  <2>3. DOMAIN monitors \subseteq DOMAIN monitors'
    BY <1>2, <1>3
  <2> QED BY <1>1, <2>2, <2>3, TestsAmongMoreMonitors DEF IInv
<1>7. HistoryOK'
  BY <1>1, HistoryWhileRecording DEF IInv
<1> QED BY <1>5, <1>6, <1>7 DEF IInv

\* The row that a reading makes.
LEMMA RowType ==
  ASSUME NEW reading \in Readings, NEW rows, NEW t \in Nat, LogOK(rows, t)
  PROVE  LET row == Update(reading,
                      [timestamp |-> t,
                       battery_wh_discharged |-> Count(reading, rows, "battery_wh_discharged")])
         IN  /\ RowOK(row) /\ row["timestamp"] = t
             /\ rows # << >> => Last(rows)["battery_wh_discharged"] <= row["battery_wh_discharged"]
<1> DEFINE a == Count(reading, rows, "battery_wh_discharged")
           e == [timestamp |-> t, battery_wh_discharged |-> a]
           row == Update(reading, e)
<1>1. rows # << >> => \A k \in Counters : Last(rows)[k] \in Nat
  <2> SUFFICES ASSUME rows # << >> PROVE \A k \in Counters : Last(rows)[k] \in Nat
    OBVIOUS
  <2>1. Len(rows) \in DOMAIN rows
    <3>1. rows \in Seq(Range(rows)) /\ DOMAIN rows = 1 .. Len(rows) /\ Len(rows) \in Nat
      BY SeqDomain DEF LogOK, IsSeq
    <3>2. Len(rows) # 0
      BY <3>1, EmptySeq
    <3> QED BY <3>1, <3>2
  <2>2. RowOK(rows[Len(rows)])
    BY <2>1 DEF LogOK
  <2> QED BY <2>2 DEF RowOK, Last
<1>2. \A k \in Counters : reading[k] \in Nat
  BY ReadingsAssumption
<1>3. /\ a \in Nat
      /\ rows # << >> => Last(rows)["battery_wh_discharged"] <= a
  <2> DEFINE now1 == reading["battery_wh_discharged"]
             last1 == Last(rows)["battery_wh_discharged"]
  <2>1. a = now1 + (IF rows = << >> THEN 0 ELSE last1)
    BY DEF Count
  <2>2. now1 \in Nat /\ (rows # << >> => last1 \in Nat)
    BY <1>1, <1>2 DEF Counters
  <2> HIDE DEF now1, last1, a
  <2>3. CASE rows = << >>
    BY <2>1, <2>2, <2>3
  <2>4. CASE rows # << >>
    BY <2>1, <2>2, <2>4 DEF last1
  <2> QED BY <2>3, <2>4
<1> HIDE DEF a
<1>4. DOMAIN e = {"timestamp", "battery_wh_discharged"}
  OBVIOUS
<1>5. /\ "timestamp" \in DOMAIN row /\ row["timestamp"] = t
      /\ "battery_wh_discharged" \in DOMAIN row /\ row["battery_wh_discharged"] = a
  BY <1>4 DEF Update
<1>6. \A k \in Columns : GetNum(row, k) \in Number
  <2>1. \A k \in Columns : k \notin DOMAIN e
    BY <1>4 DEF Columns
  <2> HIDE DEF e
  <2>2. \A k \in Columns : GetNum(row, k) = GetNum(reading, k)
    BY <2>1, UpdateGet
  <2>3. \A k \in Columns : GetNum(reading, k) \in Number
    BY ReadingsAssumption DEF Number
  <2> HIDE DEF row
  <2> QED BY <2>2, <2>3
<1> HIDE DEF row
<1>7. RowOK(row)
  BY <1>3, <1>5, <1>6 DEF RowOK, Counters
<1>8. rows # << >> => Last(rows)["battery_wh_discharged"] <= row["battery_wh_discharged"]
  BY <1>3, <1>5
<1> QED BY <1>5, <1>7, <1>8 DEF row, e, a


LEMMA WriteRowStep == ASSUME IInv, WriteRow PROVE IInv'
<1>1. /\ Recording /\ open /\ UNCHANGED <<now, open, test, tests, summaries, lines, ended>>
      /\ modified' = Power(Len(monitors))
  BY DEF WriteRow, Current
<1>2. PICK reading \in Readings :
        monitors' = [monitors EXCEPT ![Len(monitors)] =
          Append(@, Update(reading,
            [timestamp |-> now,
             battery_wh_discharged |-> Count(reading, monitors[Len(monitors)], "battery_wh_discharged")]))]
  BY DEF WriteRow, Current
<1> DEFINE n == Len(monitors)
           rows == monitors[n]
           row == Update(reading,
                    [timestamp |-> now,
                     battery_wh_discharged |-> Count(reading, rows, "battery_wh_discharged")])
           log == Append(rows, row)
<1>3. IsSeq(monitors) /\ n \in Nat /\ DOMAIN monitors = 1 .. n /\ n \in DOMAIN monitors /\ now \in Nat
  <2>1. IsSeq(monitors) /\ monitors # << >> /\ now \in Nat
    BY <1>1 DEF IInv, LogsOK
  <2>2. n \in Nat /\ DOMAIN monitors = 1 .. n /\ monitors \in Seq(Range(monitors))
    BY <2>1, SeqDomain DEF IsSeq
  <2>3. n # 0
    BY <2>1, <2>2, EmptySeq
  <2> QED BY <2>1, <2>2, <2>3
<1>4. LogOK(rows, now)
  BY <1>3 DEF IInv, LogsOK
<1> HIDE DEF rows
<1>5. /\ RowOK(row) /\ row["timestamp"] = now
      /\ rows # << >> => Last(rows)["battery_wh_discharged"] <= row["battery_wh_discharged"]
  BY <1>3, <1>4, RowType
<1> HIDE DEF row
<1>6. LogOK(log, now)
  BY <1>3, <1>4, <1>5, LogGrows
<1>7. monitors' = [monitors EXCEPT ![n] = log]
  BY <1>2 DEF row, rows
<1> HIDE DEF log, n
<1>8. /\ IsSeq(monitors') /\ DOMAIN monitors' = DOMAIN monitors
      /\ \A k \in DOMAIN monitors : monitors'[k] = IF k = n THEN log ELSE monitors[k]
  <2>1. DOMAIN monitors' = DOMAIN monitors
    BY <1>7
  <2> QED BY <1>3, <1>7, <2>1, ReplaceSeq
<1>9. LogsOK'
  <2>1. \A k \in DOMAIN monitors : LogOK(monitors'[k], now)
    BY <1>6, <1>8 DEF IInv, LogsOK
  <2>2. monitors' # << >>
    <3>1. Len(<< >>) = 0 /\ IsSeq(<< >>)
      BY ShortSeq
    <3>2. DOMAIN << >> = {}
      BY <3>1, SeqDomain
    <3> QED BY <1>3, <1>8, <3>2
  <2> QED BY <1>1, <1>8, <2>1, <2>2 DEF IInv, LogsOK
<1>10. TestsOK'
  <2>1. Power(n).monitor = n
    BY DEF Power
  <2>2. FileOK(modified)'
    BY <1>1, <1>3, <1>8, <2>1 DEF FileOK, n
  <2> QED BY <1>1, <1>8, <2>2, TestsAmongMoreMonitors DEF IInv
<1>11. HistoryOK'
  BY <1>1, HistoryWhileRecording DEF IInv
<1> QED BY <1>9, <1>10, <1>11 DEF IInv

\* The end of the monitor and its summary of the applications.
LEMMA SummaryFileStep == ASSUME IInv, FlushSummary \/ CloseMonitor PROVE IInv'
<1>1. /\ UNCHANGED <<now, monitors, test, tests, summaries, lines, ended>> /\ Recording /\ open
      /\ modified' \in {modified, Apps(Len(monitors))}
  BY DEF FlushSummary, CloseMonitor, Current
<1>2. LogsOK'
  BY <1>1 DEF IInv, LogsOK
<1>3. TestsOK'
  <2>1. Len(monitors) \in DOMAIN monitors
    <3>1. IsSeq(monitors) /\ monitors # << >>
      BY <1>1 DEF IInv, LogsOK
    <3>2. Len(monitors) \in Nat /\ DOMAIN monitors = 1 .. Len(monitors) /\ monitors \in Seq(Range(monitors))
      BY <3>1, SeqDomain DEF IsSeq
    <3>3. Len(monitors) # 0
      BY <3>1, <3>2, EmptySeq
    <3> QED BY <3>2, <3>3
  <2>2. Apps(Len(monitors)).monitor = Len(monitors)
    BY DEF Apps
  <2>3. FileOK(modified)
    BY DEF IInv, TestsOK
  <2>4. FileOK(modified)'
    BY <1>1, <2>1, <2>2, <2>3 DEF FileOK
  <2> QED BY <1>1, <2>4, TestsAmongMoreMonitors DEF IInv
<1>4. HistoryOK'
  BY <1>1, HistoryWhileRecording DEF IInv
<1> QED BY <1>2, <1>3, <1>4 DEF IInv

LEMMA BeginTestStep == ASSUME IInv, BeginTest PROVE IInv'
<1>1. Recording /\ UNCHANGED <<now, monitors, open, modified, tests, summaries, lines, ended>>
  BY DEF BeginTest
<1>2. "start" \in DOMAIN test' /\ test'.start = now
  <2>1. PICK i \in DOMAIN Suite : test' = Update(Suite[i], [start |-> now])
    BY DEF BeginTest
  <2> QED BY <2>1 DEF Update
<1>3. LogsOK'
  BY <1>1 DEF IInv, LogsOK
<1>4. TestsOK'
  <2>1. \A file : FileOK(file)' <=> FileOK(file)
    BY <1>1 DEF FileOK
  <2>2. now \in Nat /\ now <= now /\ \A i \in DOMAIN tests : tests[i].end <= now
    <3>1. now \in Nat
      BY DEF IInv, LogsOK
    <3> QED BY <3>1 DEF IInv, TestsOK
  <2> QED BY <1>1, <1>2, <2>1, <2>2 DEF IInv, TestsOK
<1>5. HistoryOK'
  BY <1>1, HistoryWhileRecording DEF IInv
<1> QED BY <1>3, <1>4, <1>5 DEF IInv

LEMMA EndTestStep == ASSUME IInv, EndTest PROVE IInv'
<1> DEFINE e == Update(test, [end |-> now, nearest |-> modified])
           n == Len(tests)
<1>1. /\ Recording /\ UNCHANGED <<now, monitors, open, modified, summaries, lines, ended>>
      /\ test # None /\ test' = None /\ tests' = Append(tests, e)
  BY DEF EndTest, FindNearestPowerLog
<1>2. e.start = test.start /\ e.end = now /\ e.nearest = modified
  <2>1. "start" \in DOMAIN test
    BY <1>1 DEF IInv, TestsOK
  <2> QED BY <2>1 DEF Update
<1> HIDE DEF e
<1>3. /\ IsSeq(tests') /\ n \in Nat /\ DOMAIN tests = 1 .. n /\ DOMAIN tests' = 1 .. n + 1
      /\ \A i \in 1 .. n : tests'[i] = tests[i]
      /\ tests'[n + 1] = e
  <2>1. IsSeq(tests)
    BY DEF IInv, TestsOK
  <2>2. /\ IsSeq(tests') /\ n \in Nat /\ Len(tests') = n + 1 /\ DOMAIN tests = 1 .. n
        /\ \A i \in 1 .. n : tests'[i] = tests[i]
        /\ tests'[n + 1] = e
    BY <1>1, <2>1, AppendSeq, SeqDomain
  <2>3. DOMAIN tests' = 1 .. n + 1
    BY <2>2, SeqDomain
  <2> QED BY <2>2, <2>3
<1>4. /\ now \in Nat /\ now <= now /\ test.start \in Nat /\ test.start <= now /\ FileOK(modified)
      /\ \A i \in DOMAIN tests : tests[i].end <= test.start
  <2>1. now \in Nat /\ now <= now
    BY DEF IInv, LogsOK
  <2> QED BY <1>1, <2>1 DEF IInv, TestsOK
<1> HIDE DEF n
<1>5. \A i \in DOMAIN tests' : i \in DOMAIN tests \/ i = n + 1
  BY <1>3
<1>6. \A file : FileOK(file)' <=> FileOK(file)
  BY <1>1 DEF FileOK
<1>7. LogsOK'
  BY <1>1 DEF IInv, LogsOK
<1>8. TestsOK'
  <2>1. \A i \in DOMAIN tests' : /\ tests'[i].start \in Nat /\ tests'[i].end \in Nat
                                 /\ tests'[i].start <= tests'[i].end /\ tests'[i].end <= now
                                 /\ FileOK(tests'[i].nearest)
    <3>1. \A i \in DOMAIN tests : /\ tests[i].start \in Nat /\ tests[i].end \in Nat
                                  /\ tests[i].start <= tests[i].end /\ tests[i].end <= now
                                  /\ FileOK(tests[i].nearest)
      BY DEF IInv, TestsOK
    <3> QED BY <1>2, <1>3, <1>4, <1>5, <3>1
  <2>2. ASSUME NEW i \in DOMAIN tests', NEW j \in DOMAIN tests', i < j
        PROVE  tests'[i].end <= tests'[j].start
    <3>1. CASE j \in DOMAIN tests
      <4>1. i \in DOMAIN tests
        BY <1>3, <2>2, <3>1
      <4>2. tests[i].end <= tests[j].start
        BY <2>2, <3>1, <4>1 DEF IInv, TestsOK
      <4> QED BY <1>3, <3>1, <4>1, <4>2
    <3>2. CASE j = n + 1
      <4>1. i \in DOMAIN tests
        BY <1>3, <2>2, <3>2
      <4>2. tests[i].end <= test.start
        BY <1>4, <4>1
      <4>3. tests'[i] = tests[i] /\ tests'[j] = e
        BY <1>3, <3>2, <4>1
      <4> QED BY <1>2, <4>2, <4>3
    <3> QED BY <1>5, <3>1, <3>2
  <2> QED BY <1>1, <1>3, <1>4, <1>6, <2>1, <2>2 DEF TestsOK
<1>9. HistoryOK'
  BY <1>1, HistoryWhileRecording DEF IInv
<1> QED BY <1>7, <1>8, <1>9 DEF IInv


\* The records of the monitors and of the tests are not changed.
LEMMA RecordsKept ==
  ASSUME IInv, UNCHANGED <<now, monitors, open, modified, test, tests>>
  PROVE  LogsOK' /\ TestsOK'
<1>1. LogsOK'
  BY DEF IInv, LogsOK
<1>2. \A file : FileOK(file)' <=> FileOK(file)
  BY DEF FileOK
<1>3. TestsOK'
  BY <1>2 DEF IInv, TestsOK
<1> QED BY <1>1, <1>3

LEMMA SummarizeStep == ASSUME IInv, Summarize PROVE IInv'
<1>1. UNCHANGED <<now, monitors, open, modified, test, tests, lines, ended>>
  BY DEF Summarize
<1>2. PICK s \in {Made, Junk} : summaries' = Append(summaries, s)
  BY DEF Summarize, Made
<1>3. /\ IsSeq(summaries') /\ DOMAIN summaries' = 1 .. Len(summaries) + 1
      /\ DOMAIN summaries = 1 .. Len(summaries) /\ Len(summaries) \in Nat
      /\ \A i \in 1 .. Len(summaries) : summaries'[i] = summaries[i]
      /\ summaries'[Len(summaries) + 1] = s /\ summaries' # << >>
  <2>1. IsSeq(summaries)
    BY DEF IInv, HistoryOK
  <2>2. /\ IsSeq(summaries') /\ Len(summaries') = Len(summaries) + 1
        /\ DOMAIN summaries = 1 .. Len(summaries) /\ Len(summaries) \in Nat
        /\ \A i \in 1 .. Len(summaries) : summaries'[i] = summaries[i]
        /\ summaries'[Len(summaries) + 1] = s
    BY <1>2, <2>1, AppendSeq, SeqDomain
  <2>3. DOMAIN summaries' = 1 .. Len(summaries) + 1
    BY <2>2, SeqDomain
  <2>4. summaries' # << >>
    BY <2>2, ShortSeq
  <2> QED BY <2>2, <2>3, <2>4
<1>4. /\ Made' = Made
      /\ \A line : LineOK(line)' <=> LineOK(line)
  BY <1>1, HistoryOfTheSame
<1>5. \A i \in DOMAIN summaries' : summaries'[i] = Junk \/ summaries'[i] = Made
  <2>1. \A i \in DOMAIN summaries' : i \in DOMAIN summaries \/ i = Len(summaries) + 1
    BY <1>3
  <2> QED BY <1>2, <1>3, <2>1 DEF IInv, HistoryOK
<1>6. HistoryOK'
  BY <1>1, <1>3, <1>4, <1>5 DEF IInv, HistoryOK
<1> QED BY <1>1, <1>6, RecordsKept DEF IInv

\* One piece more in the history.
LEMMA WrittenLines ==
  ASSUME HistoryOK, NEW piece, PieceOK(piece)
  PROVE  /\ IsSeq(Written(piece)) /\ \A i \in DOMAIN Written(piece) : LineOK(Written(piece)[i])
         /\ Written(piece) # << >>
<1> DEFINE n == Len(lines)
<1>1. IsSeq(lines) /\ n \in Nat /\ DOMAIN lines = 1 .. n /\ \A i \in DOMAIN lines : LineOK(lines[i])
  BY SeqDomain DEF HistoryOK
<1>2. CASE ended
  <2>1. Written(piece) = Append(lines, <<piece>>)
    BY <1>2 DEF Written
  <2>2. IsSeq(<<piece>>) /\ DOMAIN <<piece>> = {1} /\ <<piece>>[1] = piece
    BY ShortSeq
  <2>3. LineOK(<<piece>>)
    BY <2>2 DEF LineOK
  <2>4. /\ IsSeq(Append(lines, <<piece>>)) /\ Len(Append(lines, <<piece>>)) = n + 1
        /\ \A i \in 1 .. n : Append(lines, <<piece>>)[i] = lines[i]
        /\ Append(lines, <<piece>>)[n + 1] = <<piece>>
    BY <1>1, AppendSeq
  <2>5. DOMAIN Append(lines, <<piece>>) = 1 .. n + 1 /\ \A i \in 1 .. n + 1 : i \in 1 .. n \/ i = n + 1
    BY <1>1, <2>4, SeqDomain
  <2>6. Append(lines, <<piece>>) # << >>
    BY <1>1, <2>4, ShortSeq
  <2> QED BY <1>1, <2>1, <2>3, <2>4, <2>5, <2>6
<1>3. CASE ~ended
  <2> DEFINE line == lines[n]
             more == Append(line, piece)
             m == Len(line)
  <2>1. n \in DOMAIN lines
    <3>1. lines # << >> /\ lines \in Seq(Range(lines))
      BY <1>1, <1>3 DEF HistoryOK, IsSeq
    <3>2. n # 0
      BY <3>1, EmptySeq
    <3> QED BY <1>1, <3>2
  <2>2. LineOK(line)
    BY <1>1, <2>1
  <2> HIDE DEF line
  <2>3. /\ IsSeq(more) /\ Len(more) = m + 1 /\ m \in Nat /\ DOMAIN line = 1 .. m
        /\ \A j \in 1 .. m : more[j] = line[j]
        /\ more[m + 1] = piece
    BY <2>2, AppendSeq, SeqDomain DEF LineOK
  <2>4. DOMAIN more = 1 .. m + 1 /\ \A j \in 1 .. m + 1 : j \in 1 .. m \/ j = m + 1
    BY <2>3, SeqDomain
  <2> HIDE DEF more, m
  <2>5. LineOK(more)
    BY <2>2, <2>3, <2>4 DEF LineOK
  <2>6. Written(piece) = [lines EXCEPT ![n] = more]
    BY <1>3 DEF Written, more, line
  <2> HIDE DEF n
  <2>7. /\ IsSeq(Written(piece)) /\ Len(Written(piece)) = Len(lines)
        /\ \A i \in DOMAIN lines : Written(piece)[i] = IF i = n THEN more ELSE lines[i]
    <3> DEFINE t == [lines EXCEPT ![n] = more]
    <3>1. IsSeq(t) /\ Len(t) = Len(lines) /\ \A i \in DOMAIN lines : t[i] = IF i = n THEN more ELSE lines[i]
      BY <1>1, ReplaceSeq
    <3> QED BY <2>6, <3>1
  <2>8. DOMAIN Written(piece) = DOMAIN lines
    BY <2>6
  <2>9. Written(piece) # << >>
    <3>1. Len(lines) = n
      BY DEF n
    <3>2. Len(Written(piece)) # 0
      BY <1>1, <2>1, <2>7, <3>1
    <3> QED BY <3>2, ShortSeq
  <2> QED BY <1>1, <2>5, <2>7, <2>8, <2>9
<1> QED BY <1>2, <1>3

LEMMA ScoreStep == ASSUME IInv, Score PROVE IInv'
<1>1. /\ UNCHANGED <<now, monitors, open, modified, test, tests, summaries>>
      /\ summaries # << >> /\ Last(summaries) # Junk
  BY DEF Score
<1>2. \E piece \in {ComputeScorecard(Last(summaries)), Junk} : lines' = Written(piece)
  BY DEF Score
<1>3. Last(summaries) = Made
  <2>1. IsSeq(summaries) /\ \A i \in DOMAIN summaries : summaries[i] = Junk \/ summaries[i] = Made
    BY DEF IInv, HistoryOK
  <2>2. summaries \in Seq(Range(summaries)) /\ Len(summaries) \in Nat /\ DOMAIN summaries = 1 .. Len(summaries)
    BY <2>1, SeqDomain DEF IsSeq
  <2>3. Len(summaries) # 0
    BY <1>1, <2>2, EmptySeq
  <2>4. Len(summaries) \in DOMAIN summaries
    BY <2>2, <2>3
  <2> QED BY <1>1, <2>1, <2>4 DEF Last
<1>4. PICK piece : lines' = Written(piece) /\ PieceOK(piece)
  BY <1>2, <1>3 DEF PieceOK
<1>5. /\ IsSeq(lines') /\ \A i \in DOMAIN lines' : LineOK(lines'[i])
      /\ lines' # << >>
  BY <1>4, WrittenLines DEF IInv
<1>6. /\ Made' = Made
      /\ \A line : LineOK(line)' <=> LineOK(line)
  BY <1>1, HistoryOfTheSame
<1>7. HistoryOK'
  BY <1>1, <1>5, <1>6 DEF IInv, HistoryOK
<1> QED BY <1>1, <1>7, RecordsKept DEF IInv

LEMMA RepairStep == ASSUME IInv, Repair PROVE IInv'
<1> DEFINE n == 2 * Len(summaries)
<1>1. /\ UNCHANGED <<now, monitors, open, modified, test, tests, summaries>>
      /\ summaries # << >> /\ Junk \notin Range(summaries) /\ lines' = <<Rebuilt>>
  BY DEF Repair
<1>2. IsSeq(summaries) /\ Len(summaries) \in Nat /\ DOMAIN summaries = 1 .. Len(summaries)
  BY SeqDomain DEF IInv, HistoryOK
<1>3. \A i \in 1 .. Len(summaries) : summaries[i] = Made
  <2>1. \A i \in 1 .. Len(summaries) : summaries[i] \in Range(summaries)
    BY <1>2 DEF Range
  <2> QED BY <1>1, <1>2, <2>1 DEF IInv, HistoryOK
<1>4. Rebuilt = [i \in 1 .. n |-> Rebuilt[i]] /\ n \in Nat /\ DOMAIN Rebuilt = 1 .. n
  BY <1>2 DEF Rebuilt
<1>5. IsSeq(Rebuilt)
  <2> HIDE DEF n
  <2> QED BY <1>4, FunctionSeq
<1>6. \A i \in 1 .. n : PieceOK(Rebuilt[i])
  <2> SUFFICES ASSUME NEW i \in 1 .. n PROVE PieceOK(Rebuilt[i])
    OBVIOUS
  <2>1. CASE i % 2 = 1
    <3>1. i \div 2 + 1 \in 1 .. Len(summaries)
      BY <1>2, <2>1
    <3>2. Rebuilt[i] = ComputeScorecard(summaries[i \div 2 + 1])
      BY <2>1 DEF Rebuilt
    <3>3. summaries[i \div 2 + 1] = Made
      BY <1>3, <3>1
    <3> QED BY <3>2, <3>3 DEF PieceOK
  <2>2. CASE i % 2 # 1
    <3>1. Rebuilt[i] = None
      BY <2>2 DEF Rebuilt
    <3> QED BY <3>1 DEF PieceOK
  <2> QED BY <2>1, <2>2
<1>7. LineOK(Rebuilt)
  BY <1>4, <1>5, <1>6 DEF LineOK
<1>8. /\ IsSeq(lines') /\ DOMAIN lines' = {1} /\ lines'[1] = Rebuilt /\ lines' # << >>
  <2> HIDE DEF n
  <2> QED BY <1>1, ShortSeq
<1>9. /\ Made' = Made
      /\ \A line : LineOK(line)' <=> LineOK(line)
  BY <1>1, HistoryOfTheSame
<1>10. HistoryOK'
  <2>1. \A i \in DOMAIN lines' : LineOK(lines'[i])
    BY <1>7, <1>8
  <2> QED BY <1>1, <1>8, <1>9, <2>1 DEF IInv, HistoryOK
<1> QED BY <1>1, <1>10, RecordsKept DEF IInv

LEMMA Step == ASSUME IInv, [Next]_vars PROVE IInv'
<1>1. CASE UNCHANGED vars
  <2>1. UNCHANGED <<now, monitors, open, modified, test, tests, summaries, lines, ended>>
    BY <1>1 DEF vars
  <2>2. /\ Made' = Made
        /\ \A line : LineOK(line)' <=> LineOK(line)
    BY <2>1, HistoryOfTheSame
  <2>3. HistoryOK'
    BY <2>1, <2>2 DEF IInv, HistoryOK
  <2> QED BY <2>1, <2>3, RecordsKept DEF IInv
<1>2. CASE Tick
  BY <1>2, TickStep
<1>3. CASE OpenMonitor
  BY <1>3, OpenMonitorStep
<1>4. CASE WriteRow
  BY <1>4, WriteRowStep
<1>5. CASE FlushSummary \/ CloseMonitor
  BY <1>5, SummaryFileStep
<1>6. CASE BeginTest
  BY <1>6, BeginTestStep
<1>7. CASE EndTest
  BY <1>7, EndTestStep
<1>8. CASE Summarize
  BY <1>8, SummarizeStep
<1>9. CASE Score
  BY <1>9, ScoreStep
<1>10. CASE Repair
  BY <1>10, RepairStep
<1> QED BY <1>1, <1>2, <1>3, <1>4, <1>5, <1>6, <1>7, <1>8, <1>9, <1>10 DEF Next

\* The rows of a log are in the order of their time and their counters, one
\* test follows the other, and the summaries and the cards are those that the
\* records make.
THEOREM Invariant == Spec => []IInv
<1>1. Init => IInv
  BY Initial
<1>2. IInv /\ [Next]_vars => IInv'
  BY Step
<1> QED BY <1>1, <1>2, PTL DEF Spec


-----------------------------------------------------------------------------
(* What the records make. *)

LEMMA LogRows ==
  ASSUME NEW rows, NEW t, LogOK(rows, t)
  PROVE  DOMAIN rows \in SUBSET Nat /\ RowsOK(rows, DOMAIN rows)
<1>1. Len(rows) \in Nat /\ DOMAIN rows = 1 .. Len(rows) /\ rows \in Seq(Range(rows))
  BY SeqDomain DEF LogOK, IsSeq
<1>2. IsFiniteSet(DOMAIN rows) /\ rows = [i \in DOMAIN rows |-> rows[i]]
  <2>1. IsFiniteSet(1 .. Len(rows))
    BY <1>1, FS_Interval
  <2> QED BY <1>1, <2>1
<1>3. \A i \in DOMAIN rows : RowOK(rows[i])
  BY DEF LogOK
<1>4. DOMAIN rows \in SUBSET Nat
  BY <1>1
<1> QED BY <1>2, <1>3, <1>4 DEF RowsOK

\* The rows that are there for a test.
LEMMA RowsOfTest ==
  ASSUME IInv, NEW i \in DOMAIN tests
  PROVE  LET rows == RowsOf(LogOf(tests[i]))
         IN  rows = << >> \/ \E k \in DOMAIN monitors : rows = monitors[k]
<1> DEFINE file == LogOf(tests[i])
<1>1. FileOK(file)
  BY DEF IInv, TestsOK, LogOf, LatestCsv, FindNearestPowerLog
<1> HIDE DEF file
<1>2. RowsOf(file) = << >> \/ \E k \in DOMAIN monitors : RowsOf(file) = monitors[k]
  BY <1>1 DEF FileOK, RowsOf
<1> QED BY <1>2 DEF file

\* The columns of the summary of a test.
LEMMA SummaryType ==
  ASSUME NEW D \in SUBSET Nat, NEW rows, RowsOK(rows, D), NEW t, t.start \in Nat, t.end \in Nat
  PROVE  LET W == {i \in D : t.start <= rows[i]["timestamp"] /\ rows[i]["timestamp"] <= t.end}
             s == Summary(t, rows)
             used == rows[Max(W)]["battery_wh_discharged"] - rows[Min(W)]["battery_wh_discharged"]
         IN  /\ \A k \in CardColumns : GetNum(s, k) \in Number
             /\ W = {} => \A k \in CardColumns : GetNum(s, k) = None
             /\ W # {} => /\ GetNum(s, "battery_wh_discharged_interval") = IF used < 0 THEN None ELSE used
                          /\ GetNum(s, "interval_seconds") \in
                               {None, rows[Max(W)]["timestamp"] - rows[Min(W)]["timestamp"]}
<1> DEFINE W == {i \in D : t.start <= rows[i]["timestamp"] /\ rows[i]["timestamp"] <= t.end}
           some == IntervalRows(rows, t.start, t.end)
           m == SummarizeInterval(some)
           e == [title |-> t.title, status |-> t.status]
           s == Summary(t, rows)
           used == rows[Max(W)]["battery_wh_discharged"] - rows[Min(W)]["battery_wh_discharged"]
           took == rows[Max(W)]["timestamp"] - rows[Min(W)]["timestamp"]
<1>1. some = [i \in W |-> rows[i]] /\ RowsOK(some, W) /\ W \in SUBSET Nat
  <2> DEFINE a == t.start
             b == t.end
  <2>1. a \in Nat /\ b \in Nat
    OBVIOUS
  <2> HIDE DEF a, b
  <2>2. LET w == {i \in D : a <= rows[i]["timestamp"] /\ rows[i]["timestamp"] <= b}
        IN  /\ IntervalRows(rows, a, b) = [i \in w |-> rows[i]]
            /\ RowsOK(IntervalRows(rows, a, b), w) /\ w \in SUBSET Nat
    BY <2>1, IntervalRowsType
  <2> QED BY <2>2 DEF a, b
<1>2. s = Update(m, e)
  BY DEF Summary
<1> HIDE DEF W, some
<1>3. /\ \A k \in CardColumns : GetNum(m, k) \in Number
      /\ W = {} => m = << >>
      /\ W # {} => /\ GetNum(m, "interval_seconds") = IntervalSeconds(some)
                   /\ GetNum(m, "battery_wh_discharged_interval") = DiffCounter(some, "battery_wh_discharged")
  BY <1>1, SummarizedType
<1> HIDE DEF m
<1>4. \A k \in CardColumns : k \notin DOMAIN e
  BY DEF CardColumns
<1> HIDE DEF e, s
<1>5. \A k \in CardColumns : GetNum(s, k) = GetNum(m, k)
  BY <1>2, <1>4, UpdateGet
<1>6. \A k \in CardColumns : GetNum(s, k) \in Number
  BY <1>3, <1>5
<1>7. ASSUME W = {} PROVE \A k \in CardColumns : GetNum(s, k) = None
  <2>1. \A k \in CardColumns : k \notin DOMAIN << >>
    BY DEF CardColumns
  <2>2. \A k \in CardColumns : GetNum(<< >>, k) = None
    BY <2>1, DistinctMarks DEF GetNum, Get, Float
  <2> QED BY <1>3, <1>5, <1>7, <2>2
<1>8. ASSUME W # {}
      PROVE  /\ GetNum(s, "battery_wh_discharged_interval") = IF used < 0 THEN None ELSE used
             /\ GetNum(s, "interval_seconds") \in {None, took}
  <2>1. /\ Min(W) \in W /\ Max(W) \in W
        /\ some[Max(W)] = rows[Max(W)] /\ some[Min(W)] = rows[Min(W)]
    <3>1. Min(W) \in W /\ Max(W) \in W
      BY <1>1, <1>8, FirstAndLatest
    <3> QED BY <1>1, <3>1
  <2>2. "battery_wh_discharged" \in Counters
    BY DEF Counters
  <2>3. DiffCounter(some, "battery_wh_discharged") = IF used < 0 THEN None ELSE used
    <3>1. LET d == some[Max(W)]["battery_wh_discharged"] - some[Min(W)]["battery_wh_discharged"]
          IN  DiffCounter(some, "battery_wh_discharged") = IF d < 0 THEN None ELSE d
      BY <1>1, <1>8, <2>2, CounterOf
    <3> QED BY <2>1, <3>1
  <2>4. IntervalSeconds(some) \in {None, took}
    <3>1. IntervalSeconds(some) # None =>
            IntervalSeconds(some) = some[Max(W)]["timestamp"] - some[Min(W)]["timestamp"]
      BY <1>1, <1>8, IntervalSecondsType
    <3> QED BY <2>1, <3>1
  <2>5. /\ GetNum(s, "battery_wh_discharged_interval") = DiffCounter(some, "battery_wh_discharged")
        /\ GetNum(s, "interval_seconds") = IntervalSeconds(some)
    BY <1>3, <1>5, <1>8 DEF CardColumns
  <2> HIDE DEF used, took
  <2> QED BY <2>3, <2>4, <2>5
<1> HIDE DEF used, took
<1>9. /\ \A k \in CardColumns : GetNum(s, k) \in Number
      /\ W = {} => \A k \in CardColumns : GetNum(s, k) = None
      /\ W # {} => /\ GetNum(s, "battery_wh_discharged_interval") = IF used < 0 THEN None ELSE used
                   /\ GetNum(s, "interval_seconds") \in {None, took}
  BY <1>6, <1>7, <1>8
<1> QED BY <1>9 DEF W, s, used, took

LEMMA MadeType == ASSUME IInv PROVE RunsOK(Made, DOMAIN tests)
<1>1. IsFiniteSet(DOMAIN tests) /\ DOMAIN tests \in SUBSET Nat
  <2>1. Len(tests) \in Nat /\ DOMAIN tests = 1 .. Len(tests)
    BY SeqDomain DEF IInv, TestsOK
  <2>2. IsFiniteSet(1 .. Len(tests))
    BY <2>1, FS_Interval
  <2> QED BY <2>1, <2>2
<1>2. ASSUME NEW i \in DOMAIN tests
      PROVE  \A k \in CardColumns : GetNum(Made[i], k) \in Number
  <2> DEFINE rows == RowsOf(LogOf(tests[i]))
  <2>1. Made[i] = Summary(tests[i], rows)
    BY DEF Made
  <2>2. LogOK(rows, now)
    <3>1. LogOK(<< >>, now)
      <4>1. IsSeq(<< >>) /\ Len(<< >>) = 0
        BY ShortSeq
      <4>2. DOMAIN << >> = {}
        BY <4>1, SeqDomain
      <4> QED BY <4>1, <4>2 DEF LogOK, Rising
    <3>2. rows = << >> \/ \E k \in DOMAIN monitors : rows = monitors[k]
      BY RowsOfTest
    <3> HIDE DEF rows
    <3> QED BY <3>1, <3>2 DEF IInv, LogsOK
  <2>3. DOMAIN rows \in SUBSET Nat /\ RowsOK(rows, DOMAIN rows)
    BY <2>2, LogRows
  <2>4. tests[i].start \in Nat /\ tests[i].end \in Nat
    BY DEF IInv, TestsOK
  <2> HIDE DEF rows
  <2>5. \A k \in CardColumns : GetNum(Summary(tests[i], rows), k) \in Number
    BY <2>3, <2>4, SummaryType
  <2> QED BY <2>1, <2>5
<1>3. Made = [i \in DOMAIN tests |-> Made[i]]
  BY DEF Made
<1> QED BY <1>1, <1>2, <1>3 DEF RunsOK

\* Every card in the history is the one that the records make.
LEMMA CardsMade == ASSUME IInv, NEW c \in Cards PROVE c = ComputeScorecard(Made)
<1>1. PICK i \in DOMAIN lines : c \in Range(lines[i])
  BY DEF Cards
<1>2. PICK j \in DOMAIN lines[i] : c = lines[i][j]
  BY <1>1 DEF Range
<1>3. PieceOK(c)
  BY <1>1, <1>2 DEF IInv, HistoryOK, LineOK
<1> QED BY <1>3 DEF Cards, IsCard, PieceOK

\* The overall score of every card (generate_battery_scorecard.py:188) is a
\* weighted average of those of its parts that there are, and there is none
\* only if there is no part.
THEOREM OverallIsWithinParts == Spec => []OverallWithinParts
<1>1. IInv => OverallWithinParts
  <2> SUFFICES ASSUME IInv, NEW c \in Cards
               PROVE  LET have == {c.scores[p] : p \in Parts} \ {None}
                      IN /\ have \subseteq 0 .. 1000
                         /\ c.overall = None <=> have = {}
                         /\ c.overall # None => \E low, high \in have : low <= c.overall /\ c.overall <= high
    BY DEF OverallWithinParts
  <2>1. RunsOK(Made, DOMAIN tests) /\ c = ComputeScorecard(Made)
    BY MadeType, CardsMade
  <2>2. c.scores \in [Parts -> Percentage] /\ c.overall = Overall(c.scores)
    BY <2>1, CardType
  <2> DEFINE scores == c.scores
  <2> HIDE DEF scores
  <2>3. scores \in [Parts -> Percentage]
    BY <2>2 DEF scores
  <2>4. LET have == {scores[p] : p \in Parts} \ {None}
        IN  /\ have \subseteq 0 .. 1000
            /\ Overall(scores) = None <=> have = {}
            /\ Overall(scores) # None =>
                 \E low, high \in have : low <= Overall(scores) /\ Overall(scores) <= high
    BY <2>3, OverallType
  <2>5. c.scores = scores /\ c.overall = Overall(scores)
    BY <2>2 DEF scores
  <2> DEFINE have == {c.scores[p] : p \in Parts} \ {None}
             parts == {scores[p] : p \in Parts} \ {None}
  <2>6. have = parts
    BY <2>5
  <2>7. /\ parts \subseteq 0 .. 1000
        /\ Overall(scores) = None <=> parts = {}
        /\ Overall(scores) # None =>
             \E low, high \in parts : low <= Overall(scores) /\ Overall(scores) <= high
    BY <2>4
  <2> HIDE DEF have, parts
  <2>8. /\ have \subseteq 0 .. 1000
        /\ c.overall = None <=> have = {}
        /\ c.overall # None => \E low, high \in have : low <= c.overall /\ c.overall <= high
    BY <2>5, <2>6, <2>7
  <2> QED BY <2>8 DEF have
<1>2. Spec => []IInv
  BY Invariant
<1> QED BY <1>1, <1>2, PTL


-----------------------------------------------------------------------------
(* Energy and time. *)

\* The sum of a column of a card, none of whose values is beyond a bound.
LEMMA CardSum ==
  ASSUME NEW D, NEW runs, RunsOK(runs, D), NEW k \in CardColumns, NEW u \in [D -> Nat],
         \A i \in D : GetNum(runs[i], k) # None => GetNum(runs[i], k) \in Nat /\ GetNum(runs[i], k) <= u[i]
  PROVE  SumFunction(Vals(Valid(runs), k)) \in 0 .. SumFunction(u)
<1> DEFINE V == {i \in D : Get(runs[i], "samples") \notin {None, 0}}
           v == Valid(runs)
           E == Having(v, V, k)
           f == [i \in D |-> IF i \in E THEN GetNum(runs[i], k) ELSE 0]
<1>1. v = [i \in V |-> runs[i]] /\ V \in SUBSET D /\ RunsOK(v, V)
  BY ValidType
<1>2. \A i \in V : v[i] = runs[i]
  BY <1>1
<1> HIDE DEF V, v
<1>3. E \in SUBSET V /\ IsFiniteSet(E) /\ Vals(v, k) \in [E -> Int]
      /\ Vals(v, k) = [i \in E |-> GetNum(v[i], k)]
  BY <1>1, ColumnType
<1>4. \A i \in E : i \in D /\ GetNum(v[i], k) = GetNum(runs[i], k)
                   /\ GetNum(runs[i], k) \in Nat /\ GetNum(runs[i], k) <= u[i]
  BY <1>1, <1>2 DEF Having
<1> HIDE DEF E
<1>5. f \in [D -> Int] /\ \A i \in D : 0 <= f[i] /\ f[i] <= u[i]
  <2>1. \A i \in D : u[i] \in Nat
    OBVIOUS
  <2>2. \A i \in D : f[i] \in Int /\ 0 <= f[i] /\ f[i] <= u[i]
    BY <1>4, <2>1
  <2>3. f = [i \in D |-> f[i]]
    OBVIOUS
  <2> HIDE DEF f
  <2> QED BY <2>2, <2>3
<1>6. E \in SUBSET D /\ IsFiniteSet(D)
  BY <1>1, <1>3 DEF RunsOK
<1>7. \A i \in D \ E : f[i] = 0
  OBVIOUS
<1>8. Vals(v, k) = [i \in E |-> f[i]]
  BY <1>3, <1>4, <1>6
<1> HIDE DEF f
<1>9. SumFunction(f) = SumFunction(Vals(v, k))
  BY <1>5, <1>6, <1>7, <1>8, SumOfSome
<1>10. u \in [D -> Int]
  OBVIOUS
<1>11. 0 <= SumFunction(f) /\ SumFunction(f) <= SumFunction(u) /\ SumFunction(f) \in Int /\ SumFunction(u) \in Int
  BY <1>5, <1>6, <1>10, SumOfTerm, SumMonotone, SumType
<1> QED BY <1>9, <1>11 DEF v

\* What a monitor had counted at some time.
CountAt(rows, t) ==
  LET S == {i \in DOMAIN rows : rows[i]["timestamp"] <= t}
  IN IF S = {} THEN 0 ELSE rows[Max(S)]["battery_wh_discharged"]

LEMMA CountAtType ==
  ASSUME NEW rows, NEW time, LogOK(rows, time), NEW t
  PROVE  /\ CountAt(rows, t) \in Nat
         /\ \A i \in DOMAIN rows :
              rows[i]["timestamp"] <= t => rows[i]["battery_wh_discharged"] <= CountAt(rows, t)
         /\ CountAt(rows, t) = 0 \/ \E j \in DOMAIN rows : /\ rows[j]["timestamp"] <= t
                                                          /\ CountAt(rows, t) = rows[j]["battery_wh_discharged"]
<1> DEFINE S == {i \in DOMAIN rows : rows[i]["timestamp"] <= t}
<1>1. CountAt(rows, t) = IF S = {} THEN 0 ELSE rows[Max(S)]["battery_wh_discharged"]
  BY DEF CountAt
<1>2. \A i \in DOMAIN rows : rows[i]["battery_wh_discharged"] \in Nat
  BY DEF LogOK, RowOK, Counters
<1>3. CASE S = {}
  BY <1>1, <1>3
<1>4. CASE S # {}
  <2>1. IsFiniteSet(DOMAIN rows) /\ DOMAIN rows \in SUBSET Int
    BY LogRows DEF RowsOK
  <2>2. S \in SUBSET DOMAIN rows
    OBVIOUS
  <2> HIDE DEF S
  <2>3. IsFiniteSet(S) /\ S \in SUBSET Int
    BY <2>1, <2>2, FS_Subset
  <2>4. Max(S) \in S /\ \A y \in S : y <= Max(S)
    BY <1>4, <2>3, Extremes
  <2>5. \A i \in S : rows[i]["battery_wh_discharged"] <= rows[Max(S)]["battery_wh_discharged"]
    BY <2>2, <2>4 DEF LogOK, Rising
  <2>6. CountAt(rows, t) = rows[Max(S)]["battery_wh_discharged"]
    BY <1>1, <1>4
  <2>7. Max(S) \in DOMAIN rows /\ rows[Max(S)]["timestamp"] <= t
    BY <2>4 DEF S
  <2>8. CountAt(rows, t) \in Nat
    BY <1>2, <2>6, <2>7
  <2>9. \A i \in DOMAIN rows :
          rows[i]["timestamp"] <= t => rows[i]["battery_wh_discharged"] <= CountAt(rows, t)
    BY <2>5, <2>6 DEF S
  <2> QED BY <2>6, <2>7, <2>8, <2>9
<1> QED BY <1>3, <1>4

\* Which never goes down.
LEMMA CountAtRises ==
  ASSUME NEW rows, NEW time, LogOK(rows, time), NEW t \in Int, NEW u \in Int, t <= u
  PROVE  CountAt(rows, t) <= CountAt(rows, u)
<1>1. CountAt(rows, t) \in Nat /\ CountAt(rows, u) \in Nat
  BY CountAtType
<1>2. CASE CountAt(rows, t) = 0
  BY <1>1, <1>2
<1>3. CASE CountAt(rows, t) # 0
  <2>1. PICK j \in DOMAIN rows : /\ rows[j]["timestamp"] <= t
                                 /\ CountAt(rows, t) = rows[j]["battery_wh_discharged"]
    BY <1>3, CountAtType
  <2>2. rows[j]["timestamp"] \in Nat
    BY DEF LogOK, RowOK
  <2>3. rows[j]["timestamp"] <= u
    BY <2>1, <2>2
  <2> QED BY <2>1, <2>3, CountAtType
<1> QED BY <1>2, <1>3

\* And is at last the counter of the last row.
LEMMA CountAtLast ==
  ASSUME NEW rows, NEW time, LogOK(rows, time), NEW t
  PROVE  /\ rows = << >> => CountAt(rows, t) = 0
         /\ rows # << >> => CountAt(rows, t) <= Last(rows).battery_wh_discharged
                            /\ Last(rows).battery_wh_discharged \in Nat
<1>1. Len(rows) \in Nat /\ DOMAIN rows = 1 .. Len(rows) /\ rows \in Seq(Range(rows))
  BY SeqDomain DEF LogOK, IsSeq
<1>2. CASE rows = << >>
  <2>1. DOMAIN rows = {}
    BY <1>1, <1>2, ShortSeq
  <2> QED BY <1>2, <2>1 DEF CountAt
<1>3. CASE rows # << >>
  <2>1. Len(rows) # 0
    BY <1>1, <1>3, EmptySeq
  <2>2. Len(rows) \in DOMAIN rows
    BY <1>1, <2>1
  <2>3. Last(rows) = rows[Len(rows)]
    BY DEF Last
  <2>4. rows[Len(rows)]["battery_wh_discharged"] \in Nat
    BY <2>2 DEF LogOK, RowOK, Counters
  <2>5. CASE CountAt(rows, t) = 0
    BY <1>3, <2>3, <2>4, <2>5
  <2>6. CASE CountAt(rows, t) # 0
    <3>1. PICK j \in DOMAIN rows : CountAt(rows, t) = rows[j]["battery_wh_discharged"]
      BY <2>6, CountAtType
    <3>2. j <= Len(rows)
      BY <1>1
    <3>3. rows[j]["battery_wh_discharged"] <= rows[Len(rows)]["battery_wh_discharged"]
      BY <2>2, <3>2 DEF LogOK, Rising
    <3> QED BY <1>3, <2>3, <2>4, <3>1, <3>3
  <2> QED BY <2>5, <2>6
<1> QED BY <1>2, <1>3

\* What a monitor counted within a second.
LEMMA CountedInType ==
  ASSUME NEW k, NEW time, LogOK(monitors[k], time), NEW s
  PROVE  LET rows == monitors[k]
         IN  /\ CountedIn(k, s) \in Nat
             /\ \A i, j \in DOMAIN rows : rows[i]["timestamp"] = s /\ rows[j]["timestamp"] = s =>
                  rows[j]["battery_wh_discharged"] <= rows[i]["battery_wh_discharged"] + CountedIn(k, s)
<1> DEFINE rows == monitors[k]
           S == {i \in DOMAIN rows : rows[i]["timestamp"] = s}
           at == [i \in S |-> rows[i]]
<1>1. CountedIn(k, s) = IF S = {} THEN 0 ELSE Difference(at, "battery_wh_discharged")
  BY DEF CountedIn, RestrictValues, Restrict
<1> HIDE DEF rows
<1>2. LogOK(rows, time)
  BY DEF rows
<1>3. \A i \in DOMAIN rows : rows[i]["battery_wh_discharged"] \in Nat
  BY <1>2 DEF LogOK, RowOK, Counters
<1>4. CASE S = {}
  BY <1>1, <1>4 DEF rows
<1>5. CASE S # {}
  <2>1. IsFiniteSet(DOMAIN rows) /\ DOMAIN rows \in SUBSET Nat /\ \A i \in DOMAIN rows : RowOK(rows[i])
    BY <1>2, LogRows DEF RowsOK
  <2>2. S \in SUBSET DOMAIN rows
    OBVIOUS
  <2>3. \A i \in S : rows[i]["timestamp"] = s
    OBVIOUS
  <2>4. \A i \in DOMAIN rows : rows[i]["timestamp"] = s => i \in S
    OBVIOUS
  <2> HIDE DEF S
  <2>5. S \in SUBSET Nat /\ RowsOK(at, S)
    <3>1. IsFiniteSet(S)
      BY <2>1, <2>2, FS_Subset
    <3> QED BY <2>1, <2>2, <3>1 DEF RowsOK
  <2>6. \A i \in S : at[i] = rows[i]
    OBVIOUS
  <2> HIDE DEF at
  <2>7. Min(S) \in S /\ Max(S) \in S /\ \A i \in S : Min(S) <= i /\ i <= Max(S)
    BY <1>5, <2>5, FirstAndLatest
  <2>8. Difference(at, "battery_wh_discharged") =
          rows[Max(S)]["battery_wh_discharged"] - rows[Min(S)]["battery_wh_discharged"]
    <3>1. "battery_wh_discharged" \in Counters
      BY DEF Counters
    <3>2. LET d == at[Max(S)]["battery_wh_discharged"] - at[Min(S)]["battery_wh_discharged"]
          IN  Difference(at, "battery_wh_discharged") = d
      BY <1>5, <2>5, <3>1, CounterOf
    <3> QED BY <2>6, <2>7, <3>2
  <2> DEFINE first == rows[Min(S)]["battery_wh_discharged"]
             last == rows[Max(S)]["battery_wh_discharged"]
  <2>9. \A i \in S : first <= rows[i]["battery_wh_discharged"] /\ rows[i]["battery_wh_discharged"] <= last
    BY <1>2, <2>2, <2>7 DEF LogOK, Rising
  <2>10. first \in Nat /\ last \in Nat /\ first <= last
    BY <1>3, <2>2, <2>7, <2>9
  <2>11. CountedIn(k, s) = last - first
    BY <1>1, <1>5, <2>8
  <2> HIDE DEF first, last
  <2>12. CountedIn(k, s) \in Nat
    BY <2>10, <2>11
  <2>13. \A i, j \in S : rows[j]["battery_wh_discharged"] <= rows[i]["battery_wh_discharged"] + CountedIn(k, s)
    <3> SUFFICES ASSUME NEW i \in S, NEW j \in S
                 PROVE  rows[j]["battery_wh_discharged"] <= rows[i]["battery_wh_discharged"] + CountedIn(k, s)
      OBVIOUS
    <3>1. rows[i]["battery_wh_discharged"] \in Nat /\ rows[j]["battery_wh_discharged"] \in Nat
      BY <1>3, <2>2
    <3> QED BY <2>9, <2>10, <2>11, <3>1
  <2>14. \A i, j \in DOMAIN rows : rows[i]["timestamp"] = s /\ rows[j]["timestamp"] = s =>
           rows[j]["battery_wh_discharged"] <= rows[i]["battery_wh_discharged"] + CountedIn(k, s)
    BY <2>4, <2>13
  <2> QED BY <2>12, <2>14 DEF rows
<1> QED BY <1>4, <1>5


\* The rows of a log within a test.
Window(rows, t) == {i \in DOMAIN rows : t.start <= rows[i]["timestamp"] /\ rows[i]["timestamp"] <= t.end}

\* What a test takes from a counter is counted behind what was there when the
\* test before it ended; if that was in the second in which this one begins,
\* then behind what was there when that second began.
LEMMA Taken ==
  ASSUME NEW k, NEW time, LogOK(monitors[k], time), NEW t, t.start \in Nat, t.end \in Nat, t.start <= t.end,
         Window(monitors[k], t) # {}
  PROVE  LET rows == monitors[k]
             W == Window(rows, t)
             used == rows[Max(W)]["battery_wh_discharged"] - rows[Min(W)]["battery_wh_discharged"]
         IN  /\ used \in Nat
             /\ rows[Max(W)]["timestamp"] - rows[Min(W)]["timestamp"] \in 0 .. t.end - t.start
             /\ \A e \in Int : e < t.start => CountAt(rows, e) + used <= CountAt(rows, t.end)
             /\ CountAt(rows, t.start) + used <= CountAt(rows, t.end) + CountedIn(k, t.start)
<1> DEFINE rows == monitors[k]
           W == Window(rows, t)
           first == Min(W)
           last == Max(W)
           s == t.start
           end == t.end
           c(i) == rows[i]["battery_wh_discharged"]
           at(i) == rows[i]["timestamp"]
<1>1. LogOK(rows, time) /\ s \in Nat /\ end \in Nat /\ s <= end /\ W # {}
  OBVIOUS
<1>2. W = {i \in DOMAIN rows : s <= at(i) /\ at(i) <= end}
  BY DEF Window
<1>3. CountedIn(k, s) \in Nat
      /\ \A i, j \in DOMAIN rows : at(i) = s /\ at(j) = s => c(j) <= c(i) + CountedIn(k, s)
  BY CountedInType
<1> DEFINE within == CountedIn(k, s)
<1> HIDE DEF rows, s, end, within
<1>4. /\ IsFiniteSet(DOMAIN rows) /\ DOMAIN rows \in SUBSET Int
      /\ \A i \in DOMAIN rows : c(i) \in Nat /\ at(i) \in Nat
      /\ \A i, j \in DOMAIN rows : i <= j => c(i) <= c(j) /\ at(i) <= at(j)
  <2>1. IsFiniteSet(DOMAIN rows) /\ DOMAIN rows \in SUBSET Int
    BY <1>1, LogRows DEF RowsOK
  <2>2. \A i \in DOMAIN rows : c(i) \in Nat /\ at(i) \in Nat
    BY <1>1 DEF LogOK, RowOK, Counters
  <2>3. \A i, j \in DOMAIN rows : i <= j => c(i) <= c(j) /\ at(i) <= at(j)
    BY <1>1 DEF LogOK, Rising
  <2> QED BY <2>1, <2>2, <2>3
<1>5. \A x \in Int : /\ CountAt(rows, x) \in Nat
                     /\ \A i \in DOMAIN rows : at(i) <= x => c(i) <= CountAt(rows, x)
                     /\ CountAt(rows, x) = 0 \/ \E j \in DOMAIN rows : at(j) <= x /\ CountAt(rows, x) = c(j)
  BY <1>1, CountAtType
<1>6. W \in SUBSET DOMAIN rows /\ IsFiniteSet(W) /\ W \in SUBSET Int
  <2>1. W \in SUBSET DOMAIN rows
    BY <1>2
  <2> HIDE DEF W
  <2> QED BY <1>4, <2>1, FS_Subset
<1> HIDE DEF W
<1>7. first \in W /\ last \in W /\ \A i \in W : first <= i /\ i <= last
  BY <1>1, <1>6, Extremes
<1> HIDE DEF first, last
<1>8. first \in DOMAIN rows /\ last \in DOMAIN rows /\ first <= last
      /\ s <= at(first) /\ at(first) <= end /\ s <= at(last) /\ at(last) <= end
  BY <1>2, <1>6, <1>7
<1>9. c(first) \in Nat /\ c(last) \in Nat /\ c(first) <= c(last)
      /\ at(first) \in Nat /\ at(last) \in Nat /\ at(first) <= at(last)
      /\ first \in Int /\ last \in Int
  BY <1>4, <1>8
<1> HIDE DEF c, at
<1>10. c(last) - c(first) \in Nat
  BY <1>9
<1>11. at(last) - at(first) \in 0 .. end - s
  BY <1>1, <1>8, <1>9
<1>12. c(last) <= CountAt(rows, end) /\ CountAt(rows, end) \in Nat
  BY <1>1, <1>5, <1>8
<1>13. \A i \in DOMAIN rows : at(i) < s => c(i) <= c(first)
  <2> SUFFICES ASSUME NEW i \in DOMAIN rows, at(i) < s PROVE c(i) <= c(first)
    OBVIOUS
  <2>1. i \in Int /\ at(i) \in Nat
    BY <1>4
  <2>2. at(i) < at(first)
    BY <1>1, <1>8, <1>9, <2>1
  <2>3. ~(first <= i)
    BY <1>4, <1>8, <1>9, <2>1, <2>2
  <2>4. i <= first
    BY <1>9, <2>1, <2>3
  <2> QED BY <1>4, <1>8, <2>4
<1>14. ASSUME NEW e \in Int, e < s
       PROVE  CountAt(rows, e) + (c(last) - c(first)) <= CountAt(rows, end)
  <2>1. CountAt(rows, e) <= c(first) /\ CountAt(rows, e) \in Nat
    <3>1. CountAt(rows, e) \in Nat
      BY <1>5
    <3>2. CASE CountAt(rows, e) = 0
      BY <1>9, <3>2
    <3>3. CASE CountAt(rows, e) # 0
      <4>1. PICK j \in DOMAIN rows : at(j) <= e /\ CountAt(rows, e) = c(j)
        BY <1>5, <3>3
      <4>2. at(j) < s
        BY <1>1, <1>4, <1>14, <4>1
      <4> QED BY <1>13, <3>1, <4>1, <4>2
    <3> QED BY <3>1, <3>2, <3>3
  <2> QED BY <1>9, <1>12, <2>1
<1>15. CountAt(rows, s) + (c(last) - c(first)) <= CountAt(rows, end) + within
  <2>1. within \in Nat
    BY <1>3 DEF within
  <2>2. CountAt(rows, s) <= c(first) + within /\ CountAt(rows, s) \in Nat
    <3>1. CountAt(rows, s) \in Nat
      BY <1>1, <1>5
    <3>2. CASE CountAt(rows, s) = 0
      BY <1>9, <2>1, <3>2
    <3>3. CASE CountAt(rows, s) # 0
      <4>1. PICK j \in DOMAIN rows : at(j) <= s /\ CountAt(rows, s) = c(j)
        BY <1>1, <1>5, <3>3
      <4>2. at(j) \in Nat /\ c(j) \in Nat
        BY <1>4
      <4>3. CASE at(j) < s
        <5>1. c(j) <= c(first)
          BY <1>13, <4>3
        <5> QED BY <1>9, <2>1, <3>1, <4>1, <4>2, <5>1
      <4>4. CASE at(j) = s
        <5>1. j \in W
          BY <1>1, <1>2, <4>2, <4>4
        <5>2. first <= j
          BY <1>7, <5>1
        <5>3. at(first) <= at(j)
          BY <1>4, <1>8, <5>2
        <5>4. at(first) = s
          BY <1>1, <1>8, <1>9, <4>4, <5>3
        <5>5. c(j) <= c(first) + within
          BY <1>3, <1>8, <4>4, <5>4 DEF within, c, at
        <5> QED BY <3>1, <4>1, <5>5
      <4>5. at(j) < s \/ at(j) = s
        BY <1>1, <4>1, <4>2
      <4> QED BY <4>3, <4>4, <4>5
    <3> QED BY <3>2, <3>3
  <2> QED BY <1>9, <1>12, <2>1, <2>2
<1> QED BY <1>10, <1>11, <1>14, <1>15 DEF rows, W, first, last, s, end, c, at, within

\* What the summary of a test says of its energy and of its time.
Used(i) == LET v == GetNum(Made[i], "battery_wh_discharged_interval") IN IF v = None THEN 0 ELSE v
Took(i) == LET v == GetNum(Made[i], "interval_seconds") IN IF v = None THEN 0 ELSE v

\* What all monitors had counted at some time, and within a second.
CountedAt(t) == SumFunction([k \in DOMAIN monitors |-> CountAt(monitors[k], t)])
Shared(s) == SumFunction([k \in DOMAIN monitors |-> CountedIn(k, s)])

\* A test takes nothing, or what one monitor counted.
LEMMA TestTakes ==
  ASSUME IInv, NEW i \in DOMAIN tests
  PROVE  /\ Used(i) \in Nat /\ Took(i) \in 0 .. tests[i].end - tests[i].start
         /\ \/ Used(i) = 0
            \/ \E k \in DOMAIN monitors :
                 /\ \A e \in Int : e < tests[i].start =>
                      CountAt(monitors[k], e) + Used(i) <= CountAt(monitors[k], tests[i].end)
                 /\ CountAt(monitors[k], tests[i].start) + Used(i)
                      <= CountAt(monitors[k], tests[i].end) + CountedIn(k, tests[i].start)
<1> DEFINE t == tests[i]
           rows == RowsOf(LogOf(t))
           W == Window(rows, t)
           used == rows[Max(W)]["battery_wh_discharged"] - rows[Min(W)]["battery_wh_discharged"]
           took == rows[Max(W)]["timestamp"] - rows[Min(W)]["timestamp"]
           energy == GetNum(Made[i], "battery_wh_discharged_interval")
           seconds == GetNum(Made[i], "interval_seconds")
<1>1. t.start \in Nat /\ t.end \in Nat /\ t.start <= t.end
  BY DEF IInv, TestsOK
<1>2. Made[i] = Summary(t, rows)
  BY DEF Made
<1>3. rows = << >> \/ \E k \in DOMAIN monitors : rows = monitors[k]
  BY RowsOfTest
<1> HIDE DEF t, rows
<1>4. LogOK(rows, now)
  <2>1. LogOK(<< >>, now)
    <3>1. IsSeq(<< >>) /\ Len(<< >>) = 0
      BY ShortSeq
    <3>2. DOMAIN << >> = {}
      BY <3>1, SeqDomain
    <3> QED BY <3>1, <3>2 DEF LogOK, Rising
  <2> QED BY <1>3, <2>1 DEF IInv, LogsOK
<1>5. /\ W = {} => energy = None /\ seconds = None
      /\ W # {} => energy = (IF used < 0 THEN None ELSE used) /\ seconds \in {None, took}
  <2>1. DOMAIN rows \in SUBSET Nat /\ RowsOK(rows, DOMAIN rows)
    BY <1>4, LogRows
  <2> DEFINE w == {j \in DOMAIN rows : t.start <= rows[j]["timestamp"] /\ rows[j]["timestamp"] <= t.end}
             u == rows[Max(w)]["battery_wh_discharged"] - rows[Min(w)]["battery_wh_discharged"]
             v == rows[Max(w)]["timestamp"] - rows[Min(w)]["timestamp"]
  <2>2. /\ w = {} => \A k \in CardColumns : GetNum(Summary(t, rows), k) = None
        /\ w # {} => /\ GetNum(Summary(t, rows), "battery_wh_discharged_interval") = IF u < 0 THEN None ELSE u
                     /\ GetNum(Summary(t, rows), "interval_seconds") \in {None, v}
    BY <1>1, <2>1, SummaryType
  <2>3. W = w
    BY DEF Window
  <2> HIDE DEF w
  <2> QED BY <1>2, <2>2, <2>3 DEF CardColumns
<1>6. Used(i) = (IF energy = None THEN 0 ELSE energy) /\ Took(i) = IF seconds = None THEN 0 ELSE seconds
  BY DEF Used, Took
<1>7. 0 \in 0 .. t.end - t.start
  BY <1>1
<1> HIDE DEF energy, seconds
<1>8. CASE W = {}
  BY <1>5, <1>6, <1>7, <1>8 DEF t
<1>9. CASE W # {}
  <2>1. PICK k \in DOMAIN monitors : rows = monitors[k]
    <3>1. DOMAIN rows # {}
      BY <1>9 DEF Window
    <3>2. DOMAIN << >> = {}
      <4>1. IsSeq(<< >>) /\ Len(<< >>) = 0
        BY ShortSeq
      <4> QED BY <4>1, SeqDomain
    <3> QED BY <1>3, <3>1, <3>2
  <2>2. /\ used \in Nat /\ took \in 0 .. t.end - t.start
        /\ \A e \in Int : e < t.start => CountAt(monitors[k], e) + used <= CountAt(monitors[k], t.end)
        /\ CountAt(monitors[k], t.start) + used <= CountAt(monitors[k], t.end) + CountedIn(k, t.start)
    <3>1. LogOK(monitors[k], now) /\ Window(monitors[k], t) # {}
      BY <1>4, <1>9, <2>1
    <3> QED BY <1>1, <2>1, <3>1, Taken
  <2> HIDE DEF used, took, W
  <2>3. used # None /\ ~(used < 0)
    BY <2>2, NoneIsNoNumber
  <2>4. Used(i) = used
    BY <1>5, <1>6, <1>9, <2>3
  <2>5. Took(i) = 0 \/ Took(i) = took
    BY <1>5, <1>6, <1>9
  <2>6. Used(i) \in Nat /\ Took(i) \in 0 .. t.end - t.start
    BY <1>7, <2>2, <2>4, <2>5
  <2> QED BY <2>2, <2>4, <2>6 DEF t
<1> QED BY <1>8, <1>9


\* What of a test may have been counted for the test before it, too.
Border(i) == IF \E j \in 1 .. i - 1 : tests[j].end = tests[i].start THEN Shared(tests[i].start) ELSE 0

\* When the first tests had ended.
Before(m) == IF m = 0 THEN -1 ELSE tests[m].end

LEMMA CountedAtType ==
  ASSUME IInv, NEW t \in Int
  PROVE  /\ [k \in DOMAIN monitors |-> CountAt(monitors[k], t)] \in [DOMAIN monitors -> Nat]
         /\ [k \in DOMAIN monitors |-> CountedIn(k, t)] \in [DOMAIN monitors -> Nat]
         /\ CountedAt(t) \in Nat /\ Shared(t) \in Nat /\ IsFiniteSet(DOMAIN monitors)
<1> DEFINE D == DOMAIN monitors
           f == [k \in D |-> CountAt(monitors[k], t)]
           g == [k \in D |-> CountedIn(k, t)]
<1>1. \A k \in D : LogOK(monitors[k], now)
  BY DEF IInv, LogsOK
<1>2. IsFiniteSet(D)
  <2>1. Len(monitors) \in Nat /\ D = 1 .. Len(monitors)
    BY SeqDomain DEF IInv, LogsOK
  <2> QED BY <2>1, FS_Interval
<1>3. \A k \in D : CountAt(monitors[k], t) \in Nat
  BY <1>1, CountAtType
<1>4. \A k \in D : CountedIn(k, t) \in Nat
  BY <1>1, CountedInType
<1>5. f \in [D -> Nat] /\ g \in [D -> Nat]
  BY <1>3, <1>4
<1> HIDE DEF f, g, D
<1>6. /\ f \in [D -> Int] /\ g \in [D -> Int] /\ \A k \in D : 0 <= f[k] /\ 0 <= g[k]
  <2>1. \A n \in Nat : n \in Int /\ 0 <= n
    OBVIOUS
  <2>2. \A k \in D : f[k] \in Nat /\ g[k] \in Nat
    BY <1>5
  <2>3. \A k \in D : 0 <= f[k] /\ 0 <= g[k]
    BY <2>1, <2>2
  <2>4. f \in [D -> Int] /\ g \in [D -> Int]
    BY <1>5
  <2> QED BY <2>3, <2>4
<1>7. SumFunction(f) \in Nat /\ SumFunction(g) \in Nat
  <2>1. SumFunction(f) \in Int /\ SumFunction(g) \in Int
    BY <1>2, <1>6, SumType
  <2>2. 0 <= SumFunction(f) /\ 0 <= SumFunction(g)
    BY <1>2, <1>6, SumOfTerm
  <2> QED BY <2>1, <2>2
<1> QED BY <1>2, <1>5, <1>7 DEF CountedAt, Shared, f, g, D

LEMMA BorderType == ASSUME IInv, NEW i \in DOMAIN tests PROVE Border(i) \in Nat
<1>1. tests[i].start \in Int
  BY DEF IInv, TestsOK
<1>2. Shared(tests[i].start) \in Nat
  BY <1>1, CountedAtType
<1> QED BY <1>2 DEF Border

\* With each test the monitors have counted more by what it used, except for
\* what was counted in the second in which it began.
LEMMA TestAdds ==
  ASSUME IInv, NEW m \in 1 .. Len(tests)
  PROVE  CountedAt(Before(m - 1)) + (Used(m) - Border(m)) <= CountedAt(Before(m))
<1> DEFINE D == DOMAIN monitors
           e == Before(m - 1)
           s == tests[m].start
           t == tests[m].end
           f == [k \in D |-> CountAt(monitors[k], e)]
           g == [k \in D |-> CountAt(monitors[k], t)]
           b == [k \in D |-> CountedIn(k, s)]
           zero == [k \in D |-> 0]
<1>1. m \in Nat /\ m \in DOMAIN tests /\ m - 1 \in 0 .. Len(tests) /\ Len(tests) \in Nat
      /\ DOMAIN tests = 1 .. Len(tests)
  <2>1. Len(tests) \in Nat /\ DOMAIN tests = 1 .. Len(tests)
    BY SeqDomain DEF IInv, TestsOK
  <2> QED BY <2>1
<1>2. s \in Nat /\ t \in Nat /\ s <= t
  BY <1>1 DEF IInv, TestsOK
<1>3. e \in Int /\ (e < s \/ (e = s /\ \E j \in 1 .. m - 1 : tests[j].end = s))
  <2>1. CASE m - 1 = 0
    <3>1. e = -1
      BY <2>1 DEF Before
    <3> HIDE DEF e, s
    <3> QED BY <1>2, <3>1
  <2>2. CASE m - 1 # 0
    <3>1. m - 1 \in DOMAIN tests /\ m - 1 < m /\ m - 1 \in 1 .. m - 1
      BY <1>1, <2>2
    <3>2. e = tests[m - 1].end
      BY <2>2 DEF Before
    <3>3. tests[m - 1].end \in Nat /\ tests[m - 1].end <= s
      BY <1>1, <3>1 DEF IInv, TestsOK
    <3> HIDE DEF e, s
    <3>4. e \in Int /\ (e < s \/ e = s)
      BY <1>2, <3>2, <3>3
    <3>5. e = s => \E j \in 1 .. m - 1 : tests[j].end = s
      BY <3>1, <3>2
    <3> QED BY <3>4, <3>5
  <2> QED BY <2>1, <2>2
<1>4. Before(m) = t
  BY <1>1 DEF Before
<1>5. IsFiniteSet(D) /\ f \in [D -> Nat] /\ g \in [D -> Nat] /\ b \in [D -> Nat]
      /\ CountedAt(e) = SumFunction(f) /\ CountedAt(t) = SumFunction(g) /\ Shared(s) = SumFunction(b)
  <2> HIDE DEF e, s, t
  <2>1. e \in Int /\ s \in Int /\ t \in Int
    BY <1>2, <1>3
  <2> QED BY <2>1, CountedAtType DEF CountedAt, Shared
<1>6. Border(m) \in Nat /\ (~(e < s) => Border(m) = Shared(s))
  <2>1. Border(m) \in Nat
    BY <1>1, BorderType
  <2>2. ASSUME ~(e < s) PROVE Border(m) = Shared(s)
    <3>1. \E j \in 1 .. m - 1 : tests[j].end = tests[m].start
      BY <1>3, <2>2
    <3> QED BY <3>1 DEF Border
  <2> QED BY <2>1, <2>2
<1> DEFINE used == Used(m)
<1>7. /\ used \in Nat
      /\ \/ used = 0
         \/ \E k \in D : /\ e < s => f[k] + used <= g[k]
                         /\ e = s => f[k] + used <= g[k] + b[k]
  <2>1. /\ used \in Nat
        /\ \/ used = 0
           \/ \E k \in DOMAIN monitors :
                /\ \A x \in Int : x < tests[m].start =>
                     CountAt(monitors[k], x) + used <= CountAt(monitors[k], tests[m].end)
                /\ CountAt(monitors[k], tests[m].start) + used
                     <= CountAt(monitors[k], tests[m].end) + CountedIn(k, tests[m].start)
    BY <1>1, TestTakes
  <2>2. CASE used = 0
    BY <2>1, <2>2
  <2>3. CASE used # 0
    <3>1. PICK k \in D :
            /\ \A x \in Int : x < s => CountAt(monitors[k], x) + used <= CountAt(monitors[k], t)
            /\ CountAt(monitors[k], s) + used <= CountAt(monitors[k], t) + CountedIn(k, s)
      BY <2>1, <2>3
    <3> HIDE DEF e, s, t, used
    <3>2. e < s => f[k] + used <= g[k]
      BY <1>3, <3>1
    <3>3. e = s => f[k] + used <= g[k] + b[k]
      BY <3>1
    <3> QED BY <2>1, <3>2, <3>3
  <2> QED BY <2>2, <2>3
<1>8. \A k \in D : f[k] <= g[k]
  <2>1. e <= t
    BY <1>2, <1>3
  <2> HIDE DEF e, t
  <2>2. ASSUME NEW k \in D PROVE CountAt(monitors[k], e) <= CountAt(monitors[k], t)
    <3>1. LogOK(monitors[k], now)
      BY DEF IInv, LogsOK
    <3>2. e \in Int /\ t \in Int
      BY <1>2, <1>3
    <3> QED BY <2>1, <3>1, <3>2, CountAtRises
  <2> QED BY <2>2
<1> HIDE DEF D, e, s, t, f, g, b, used
<1> DEFINE extra == IF e < s THEN zero ELSE b
           more == [k \in D |-> g[k] + extra[k]]
           less == [k \in D |-> (-1) * f[k]]
           h == [k \in D |-> more[k] + less[k]]
<1>9. zero \in [D -> Int] /\ SumFunction(zero) = 0
  <2>1. zero \in [D -> Int] /\ 0 \in Int
    OBVIOUS
  <2>2. zero = [k \in D |-> 0 * zero[k]]
    OBVIOUS
  <2> HIDE DEF zero
  <2>3. SumFunction([k \in D |-> 0 * zero[k]]) = 0 * SumFunction(zero) /\ SumFunction(zero) \in Int
    BY <1>5, <2>1, SumOfMultiples, SumType
  <2>4. 0 * SumFunction(zero) = 0
    BY <2>3
  <2> QED BY <2>1, <2>2, <2>3, <2>4
<1>10. /\ \A k \in D : f[k] \in Nat /\ g[k] \in Nat /\ b[k] \in Nat /\ zero[k] = 0
       /\ f \in [D -> Int] /\ g \in [D -> Int] /\ b \in [D -> Int]
  BY <1>5
<1>11. extra \in [D -> Int] /\ \A k \in D : extra[k] \in Nat
  <2> HIDE DEF zero
  <2> QED BY <1>9, <1>10
<1>12. SumFunction(extra) <= Border(m) /\ SumFunction(extra) \in Int
  <2>1. CASE e < s
    BY <1>6, <1>9, <2>1
  <2>2. CASE ~(e < s)
    <3>1. SumFunction(extra) = Border(m)
      BY <1>5, <1>6, <2>2
    <3> QED BY <1>6, <3>1
  <2> QED BY <2>1, <2>2
<1>13. \/ used = 0
       \/ \E k \in D : f[k] + used <= g[k] + extra[k]
  <2> SUFFICES ASSUME used # 0 PROVE \E k \in D : f[k] + used <= g[k] + extra[k]
    OBVIOUS
  <2>1. PICK k \in D : /\ e < s => f[k] + used <= g[k]
                       /\ e = s => f[k] + used <= g[k] + b[k]
    BY <1>7
  <2>2. CASE e < s
    <3>1. extra[k] = 0
      BY <1>10, <2>2
    <3> QED BY <1>10, <2>1, <2>2, <3>1
  <2>3. CASE ~(e < s)
    <3>1. extra[k] = b[k] /\ e = s
      BY <1>3, <2>3
    <3> QED BY <2>1, <3>1
  <2> QED BY <2>2, <2>3
<1> HIDE DEF extra, zero
<1>14. more \in [D -> Int] /\ less \in [D -> Int]
  BY <1>10, <1>11
<1>15. \A k \in D : h[k] = g[k] + extra[k] - f[k] /\ h[k] \in Int /\ 0 <= h[k]
  BY <1>8, <1>10, <1>11
<1>16. h \in [D -> Int]
  BY <1>14
<1>17. SumFunction(more) = SumFunction(g) + SumFunction(extra)
  BY <1>5, <1>10, <1>11, SumOfSums
<1>18. SumFunction(less) = (-1) * SumFunction(f)
  <2>1. -1 \in Int
    OBVIOUS
  <2> QED BY <1>5, <1>10, <2>1, SumOfMultiples
<1> HIDE DEF more, less
<1>19. SumFunction(h) = SumFunction(more) + SumFunction(less)
  BY <1>5, <1>14, SumOfSums
<1>20. used <= SumFunction(h)
  <2> HIDE DEF h
  <2>1. 0 <= SumFunction(h) /\ \A k \in D : h[k] <= SumFunction(h)
    BY <1>5, <1>15, <1>16, SumOfTerm
  <2>2. SumFunction(h) \in Int
    BY <1>5, <1>16, SumType
  <2>3. CASE used = 0
    BY <2>1, <2>3
  <2>4. CASE used # 0
    <3>1. PICK k \in D : f[k] + used <= g[k] + extra[k]
      BY <1>13, <2>4
    <3>2. used <= h[k]
      BY <1>7, <1>10, <1>11, <1>15, <3>1
    <3> QED BY <1>7, <1>15, <2>1, <2>2, <3>2
  <2> QED BY <2>3, <2>4
<1> HIDE DEF h
<1>21. SumFunction(f) \in Int /\ SumFunction(g) \in Int
  BY <1>5, <1>10, SumType
<1>22. SumFunction(f) + (used - Border(m)) <= SumFunction(g)
  BY <1>6, <1>7, <1>12, <1>17, <1>18, <1>19, <1>20, <1>21
<1> QED BY <1>4, <1>5, <1>22 DEF e, used


\* Together the tests used no more than was counted, and took no longer than
\* there was.
LEMMA TestsTake ==
  ASSUME IInv
  PROVE  LET counted == SumFunction([k \in DOMAIN monitors |->
                          IF monitors[k] = << >> THEN 0 ELSE Last(monitors[k]).battery_wh_discharged])
             border  == SumFunction([i \in DOMAIN tests |-> Border(i)])
         IN  /\ SumFunction([i \in DOMAIN tests |-> Used(i)]) <= counted + border
             /\ SumFunction([i \in DOMAIN tests |-> Took(i)]) <= now
             /\ counted \in Int /\ border \in Int
<1> DEFINE n == Len(tests)
           D == DOMAIN monitors
           T == 1 .. n
           u == [i \in T |-> Used(i)]
           b == [i \in T |-> Border(i)]
           o == [i \in T |-> Took(i)]
           minus == [i \in T |-> (-1) * b[i]]
           net == [i \in T |-> u[i] + minus[i]]
           g == [m \in 0 .. n |-> CountedAt(Before(m))]
           r == [m \in 0 .. n |-> IF m = 0 THEN 0 ELSE tests[m].end]
           c == [k \in D |-> IF monitors[k] = << >> THEN 0 ELSE Last(monitors[k]).battery_wh_discharged]
           f == [k \in D |-> CountAt(monitors[k], Before(n))]
<1>1. n \in Nat /\ DOMAIN tests = T /\ IsFiniteSet(T)
  <2>1. n \in Nat /\ DOMAIN tests = T
    BY SeqDomain DEF IInv, TestsOK
  <2> QED BY <2>1, FS_Interval
<1>2. \A i \in T : Used(i) \in Nat /\ Took(i) \in 0 .. tests[i].end - tests[i].start
  BY <1>1, TestTakes
<1>3. \A i \in T : tests[i].start \in Nat /\ tests[i].end \in Nat
                   /\ tests[i].start <= tests[i].end /\ tests[i].end <= now
  BY <1>1 DEF IInv, TestsOK
<1>4. u \in [T -> Int] /\ b \in [T -> Int] /\ o \in [T -> Int]
  <2>1. \A i \in T : Border(i) \in Nat
    BY <1>1, BorderType
  <2>2. \A i \in T : Used(i) \in Int /\ Border(i) \in Int /\ Took(i) \in Int
    BY <1>2, <1>3, <2>1
  <2> QED BY <2>2
<1>5. \A m \in 0 .. n : Before(m) \in Int
  <2>1. ASSUME NEW m \in 0 .. n PROVE Before(m) \in Int
    <3>1. CASE m = 0
      BY <3>1 DEF Before
    <3>2. CASE m # 0
      <4>1. m \in T
        BY <1>1, <3>2
      <4> QED BY <1>3, <3>2, <4>1 DEF Before
    <3> QED BY <3>1, <3>2
  <2> QED BY <2>1
<1>6. g \in [0 .. n -> Int] /\ \A m \in 0 .. n : CountedAt(Before(m)) \in Nat
  <2>1. \A m \in 0 .. n : CountedAt(Before(m)) \in Nat
    BY <1>5, CountedAtType
  <2> QED BY <2>1
<1>7. minus \in [T -> Int] /\ net \in [T -> Int] /\ \A m \in T : net[m] = Used(m) - Border(m)
  <2>1. \A i \in T : u[i] = Used(i) /\ b[i] = Border(i) /\ Used(i) \in Int /\ Border(i) \in Int
    BY <1>4
  <2> HIDE DEF u, b
  <2>2. \A i \in T : minus[i] = (-1) * Border(i) /\ minus[i] \in Int
    BY <2>1
  <2>3. minus \in [T -> Int]
    BY <2>2
  <2>4. \A i \in T : net[i] = Used(i) + minus[i]
    BY <2>1
  <2>5. \A i \in T : net[i] = Used(i) - Border(i) /\ net[i] \in Int
    BY <2>1, <2>2, <2>4
  <2>6. net = [i \in T |-> net[i]]
    OBVIOUS
  <2> HIDE DEF net, minus
  <2> QED BY <2>3, <2>5, <2>6
<1>8. g[0] + SumFunction(net) <= g[n]
  <2>1. ASSUME NEW m \in T PROVE g[m - 1] + net[m] <= g[m]
    <3>1. CountedAt(Before(m - 1)) + (Used(m) - Border(m)) <= CountedAt(Before(m))
      BY <1>1, TestAdds
    <3>2. m \in 0 .. n /\ m - 1 \in 0 .. n
      BY <1>1
    <3>3. g[m - 1] = CountedAt(Before(m - 1)) /\ g[m] = CountedAt(Before(m))
      BY <3>2
    <3> HIDE DEF g, net
    <3> QED BY <1>7, <3>1, <3>3
  <2> HIDE DEF g, net, n
  <2> QED BY <1>1, <1>6, <1>7, <2>1, SumOfSteps
<1>9. 0 <= g[0] /\ g[0] \in Int /\ g[n] = SumFunction(f)
  <2>1. 0 \in 0 .. n /\ n \in 0 .. n
    BY <1>1
  <2>2. g[0] = CountedAt(Before(0)) /\ g[n] = CountedAt(Before(n))
    BY <2>1
  <2>3. CountedAt(Before(0)) \in Nat
    BY <1>6, <2>1
  <2> HIDE DEF g
  <2> QED BY <2>2, <2>3 DEF CountedAt
<1>10. SumFunction(net) = SumFunction(u) - SumFunction(b)
       /\ SumFunction(u) \in Int /\ SumFunction(b) \in Int
  <2> HIDE DEF u, b, T
  <2>1. SumFunction(u) \in Int /\ SumFunction(b) \in Int
    BY <1>1, <1>4, SumType
  <2>2. SumFunction(minus) = (-1) * SumFunction(b)
    <3>1. -1 \in Int
      OBVIOUS
    <3> QED BY <1>1, <1>4, <3>1, SumOfMultiples
  <2> HIDE DEF minus
  <2>3. SumFunction(net) = SumFunction(u) + SumFunction(minus)
    BY <1>1, <1>4, <1>7, SumOfSums
  <2> HIDE DEF net
  <2> QED BY <2>1, <2>2, <2>3
<1>11. SumFunction(f) <= SumFunction(c) /\ SumFunction(f) \in Int /\ SumFunction(c) \in Int
  <2>1. n \in 0 .. n
    BY <1>1
  <2>2. f \in [D -> Nat] /\ IsFiniteSet(D)
    <3>1. Before(n) \in Int
      BY <1>5, <2>1
    <3> QED BY <3>1, CountedAtType
  <2>3. \A k \in D : f[k] <= c[k] /\ c[k] \in Int
    <3> SUFFICES ASSUME NEW k \in D PROVE f[k] <= c[k] /\ c[k] \in Int
      OBVIOUS
    <3>1. LogOK(monitors[k], now)
      BY DEF IInv, LogsOK
    <3>2. f[k] = CountAt(monitors[k], Before(n))
      OBVIOUS
    <3>3. CASE monitors[k] = << >>
      <4>1. f[k] = 0
        BY <3>1, <3>2, <3>3, CountAtLast
      <4>2. c[k] = 0
        BY <3>3
      <4> QED BY <4>1, <4>2
    <3>4. CASE monitors[k] # << >>
      <4>1. f[k] <= Last(monitors[k]).battery_wh_discharged /\ Last(monitors[k]).battery_wh_discharged \in Nat
        BY <3>1, <3>2, <3>4, CountAtLast
      <4>2. c[k] = Last(monitors[k]).battery_wh_discharged
        BY <3>4
      <4> HIDE DEF c, f
      <4> QED BY <4>1, <4>2
    <3> QED BY <3>3, <3>4
  <2>4. c = [k \in D |-> c[k]]
    OBVIOUS
  <2> HIDE DEF c, f, D
  <2>5. c \in [D -> Int] /\ f \in [D -> Int]
    BY <2>2, <2>3, <2>4
  <2> QED BY <2>2, <2>3, <2>5, SumMonotone, SumType
<1>12. SumFunction(u) <= SumFunction(c) + SumFunction(b)
  <2> HIDE DEF u, c, b, net, g, f
  <2> QED BY <1>8, <1>9, <1>10, <1>11
<1>13. SumFunction(o) <= now
  <2>1. now \in Nat
    BY DEF IInv, LogsOK
  <2>2. \A m \in 0 .. n : r[m] \in Nat /\ r[m] <= now
    <3>1. \A m \in 0 .. n : m # 0 => m \in T
      BY <1>1
    <3> QED BY <1>3, <2>1, <3>1
  <2>3. r \in [0 .. n -> Int] /\ r[0] = 0
    BY <1>1, <2>2
  <2>4. ASSUME NEW m \in T PROVE r[m - 1] + o[m] <= r[m]
    <3>1. o[m] \in 0 .. tests[m].end - tests[m].start
      BY <1>2
    <3>2. m \in 0 .. n /\ m - 1 \in 0 .. n /\ r[m] = tests[m].end
      BY <1>1
    <3>3. r[m - 1] <= tests[m].start /\ r[m - 1] \in Nat
      <4>1. CASE m = 1
        <5>1. r[m - 1] = 0
          BY <2>3, <4>1
        <5> QED BY <1>3, <5>1
      <4>2. CASE m # 1
        <5>1. m - 1 \in T /\ m - 1 # 0 /\ m - 1 < m
          BY <1>1, <4>2
        <5>2. r[m - 1] = tests[m - 1].end
          BY <3>2, <5>1
        <5>3. tests[m - 1].end <= tests[m].start
          BY <1>1, <5>1 DEF IInv, TestsOK
        <5> QED BY <2>2, <3>2, <5>2, <5>3
      <4> QED BY <4>1, <4>2
    <3>4. tests[m].start \in Nat /\ tests[m].end \in Nat
      BY <1>3
    <3> HIDE DEF r, o
    <3> QED BY <3>1, <3>2, <3>3, <3>4
  <2> HIDE DEF r, o, n
  <2>5. r[0] + SumFunction(o) <= r[n]
    BY <1>1, <1>4, <2>3, <2>4, SumOfSteps
  <2>6. SumFunction(o) \in Int
    BY <1>1, <1>4, SumType
  <2>7. n \in 0 .. n
    BY <1>1
  <2>8. r[n] \in Nat /\ r[n] <= now
    BY <2>2, <2>7
  <2> QED BY <2>1, <2>3, <2>5, <2>6, <2>8
<1>14. /\ u = [i \in DOMAIN tests |-> Used(i)] /\ b = [i \in DOMAIN tests |-> Border(i)]
       /\ o = [i \in DOMAIN tests |-> Took(i)]
  BY <1>1
<1> HIDE DEF u, b, o, T, n
<1>15. /\ SumFunction([i \in DOMAIN tests |-> Used(i)]) <= SumFunction(c) + SumFunction([i \in DOMAIN tests |-> Border(i)])
       /\ SumFunction([i \in DOMAIN tests |-> Took(i)]) <= now
       /\ SumFunction(c) \in Int /\ SumFunction([i \in DOMAIN tests |-> Border(i)]) \in Int
  <2> HIDE DEF c
  <2> QED BY <1>10, <1>11, <1>12, <1>13, <1>14
<1> QED BY <1>15

\* The tests of every card share neither time nor energy: what they used
\* together a monitor counted, and what they took together has passed
\* (generate_test_run_summary.py's difference of the counters of an interval).
THEOREM EnergyIsCountedOnce == Spec => []EnergyCountedOnce
<1>1. IInv => EnergyCountedOnce
  <2> SUFFICES ASSUME IInv PROVE EnergyCountedOnce
    OBVIOUS
  <2> DEFINE counted == SumFunction([k \in DOMAIN monitors |->
                          IF monitors[k] = << >> THEN 0 ELSE Last(monitors[k]).battery_wh_discharged])
             border  == SumFunction([i \in DOMAIN tests |->
                          IF \E j \in 1 .. i - 1 : tests[j].end = tests[i].start
                          THEN SumFunction([k \in DOMAIN monitors |-> CountedIn(k, tests[i].start)]) ELSE 0])
             u == [i \in DOMAIN tests |-> Used(i)]
             o == [i \in DOMAIN tests |-> Took(i)]
             card == ComputeScorecard(Made)
  <2>1. border = SumFunction([i \in DOMAIN tests |-> Border(i)])
    BY DEF Border, Shared
  <2>2. /\ SumFunction(u) <= counted + border /\ SumFunction(o) <= now
        /\ counted \in Int /\ border \in Int
    <3>1. /\ SumFunction(u) <= counted + SumFunction([i \in DOMAIN tests |-> Border(i)])
          /\ SumFunction(o) <= now
          /\ counted \in Int /\ SumFunction([i \in DOMAIN tests |-> Border(i)]) \in Int
      BY TestsTake
    <3> HIDE DEF border, counted, u, o
    <3> QED BY <2>1, <3>1
  <2>3. RunsOK(Made, DOMAIN tests)
    BY MadeType
  <2>4. u \in [DOMAIN tests -> Nat] /\ o \in [DOMAIN tests -> Nat]
    <3>1. \A i \in DOMAIN tests : Used(i) \in Nat /\ Took(i) \in 0 .. tests[i].end - tests[i].start
      BY TestTakes
    <3>2. \A i \in DOMAIN tests : tests[i].start \in Nat /\ tests[i].end \in Nat
      BY DEF IInv, TestsOK
    <3>3. \A i \in DOMAIN tests : Took(i) \in Nat
      BY <3>1, <3>2
    <3> QED BY <3>1, <3>3
  <2>5. \A i \in DOMAIN tests :
          /\ GetNum(Made[i], "battery_wh_discharged_interval") # None =>
               GetNum(Made[i], "battery_wh_discharged_interval") = u[i]
          /\ GetNum(Made[i], "interval_seconds") # None => GetNum(Made[i], "interval_seconds") = o[i]
    BY DEF Used, Took
  <2>6. \A i \in DOMAIN tests : u[i] \in Nat /\ o[i] \in Nat /\ u[i] <= u[i] /\ o[i] <= o[i]
    <3> HIDE DEF u, o
    <3>1. \A i \in DOMAIN tests : u[i] \in Nat /\ o[i] \in Nat
      BY <2>4
    <3>2. \A x \in Nat : x <= x
      OBVIOUS
    <3> QED BY <3>1, <3>2
  <2> HIDE DEF counted, border, u, o
  <2>7. SumFunction(Vals(Valid(Made), "battery_wh_discharged_interval")) \in 0 .. SumFunction(u)
    <3>1. "battery_wh_discharged_interval" \in CardColumns
      BY DEF CardColumns
    <3>2. \A i \in DOMAIN tests : GetNum(Made[i], "battery_wh_discharged_interval") # None =>
            /\ GetNum(Made[i], "battery_wh_discharged_interval") \in Nat
            /\ GetNum(Made[i], "battery_wh_discharged_interval") <= u[i]
      BY <2>5, <2>6
    <3> QED BY <2>3, <2>4, <3>1, <3>2, CardSum
  <2>8. SumFunction(Vals(Valid(Made), "interval_seconds")) \in 0 .. SumFunction(o)
    <3>1. "interval_seconds" \in CardColumns
      BY DEF CardColumns
    <3>2. \A i \in DOMAIN tests : GetNum(Made[i], "interval_seconds") # None =>
            GetNum(Made[i], "interval_seconds") \in Nat /\ GetNum(Made[i], "interval_seconds") <= o[i]
      BY <2>5, <2>6
    <3> QED BY <2>3, <2>4, <3>1, <3>2, CardSum
  <2>9. /\ card.total_wh_used = SumFunction(Vals(Valid(Made), "battery_wh_discharged_interval"))
        /\ card.total_test_seconds = SumFunction(Vals(Valid(Made), "interval_seconds"))
    BY <2>3, CardType
  <2>10. SumFunction(u) \in Int /\ SumFunction(o) \in Int
    <3>1. IsFiniteSet(DOMAIN tests) /\ u \in [DOMAIN tests -> Int] /\ o \in [DOMAIN tests -> Int]
      BY <2>3, <2>4 DEF RunsOK
    <3> QED BY <3>1, SumType
  <2>11. now \in Nat
    BY DEF IInv, LogsOK
  <2>12. card.total_test_seconds \in 0 .. now /\ card.total_wh_used \in 0 .. counted + border
    <3> HIDE DEF card
    <3>1. card.total_test_seconds \in 0 .. SumFunction(o) /\ card.total_wh_used \in 0 .. SumFunction(u)
      BY <2>7, <2>8, <2>9
    <3> QED BY <2>2, <2>10, <2>11, <3>1
  <2>13. \A c \in Cards : c.total_test_seconds \in 0 .. now /\ c.total_wh_used \in 0 .. counted + border
    BY <2>12, CardsMade
  <2> QED BY <2>13 DEF EnergyCountedOnce, counted, border
<1>2. Spec => []IInv
  BY Invariant
<1> QED BY <1>1, <1>2, PTL
=============================================================================
