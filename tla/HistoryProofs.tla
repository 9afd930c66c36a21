--------------------------- MODULE HistoryProofs ---------------------------
(***************************************************************************)
(* What the history of production promises.  First the buckets of Rollup,  *)
(* for any entities, lengths of days and months, retention and number of   *)
(* cycles, as far as no cycle is older than what retention leaves to sum   *)
(* it from.  Then the windows of Window, for any day and week, times       *)
(* between cycles and productions, through outages and restarts.           *)
(***************************************************************************)
EXTENDS Rollup, Window, SumTheorems

\* Raw deltas are kept for as long as a cycle may be late, and daily buckets until
\* no cycle falls into their month.  The defaults of foldingd do both: 90 and 730
\* days, of cycles that are at most hours old.
RawOutlivesLag == MaxLag <= CompactAfter
DailyOutlivesMonth == KeepDaily = 0 \/ KeepDaily >= MaxLag + (MonthLength - 1) * DayLength

-----------------------------------------------------------------------------
(* The inductive invariant. *)

\* Every table is keyed by entities of those there are, and by times.
Keyed ==
  /\ now \in Nat /\ newest \in Nat /\ floor \in Nat
  /\ DOMAIN log \subseteq Ids \X (0..newest)
  /\ \A k \in DOMAIN log : log[k] \in Int
  /\ DOMAIN daily \subseteq Ids \X Int /\ DOMAIN monthly \subseteq Ids \X Int
  /\ DOMAIN projectDaily \subseteq Int /\ DOMAIN projectMonthly \subseteq Int

\* The deltas that are left are the latest.
RawIsTheLatest ==
  /\ DOMAIN raw \subseteq DOMAIN log
  /\ \A k \in DOMAIN raw : raw[k] = log[k]
  /\ \A k \in DOMAIN log : k[2] >= Cutoff => k \in DOMAIN raw

\* A daily row that is there is right, and it is there unless it was pruned.
DailyIsRight ==
  /\ \A k \in DOMAIN daily : daily[k] = Produced({k[1]}, TimesOf(k[2]))
  /\ \A k \in DOMAIN log :
       DayBucket(k[2]) >= floor => <<k[1], DayBucket(k[2])>> \in DOMAIN daily

ProjectDailyIsRight ==
  /\ \A d \in DOMAIN projectDaily : projectDaily[d] = Produced(Ids, TimesOf(d))
  /\ \A k \in DOMAIN log : DayBucket(k[2]) \in DOMAIN projectDaily

ProjectMonthlyIsRight ==
  /\ \A m \in DOMAIN projectMonthly : projectMonthly[m] = Produced(Ids, MonthTimes(m))
  /\ \A k \in DOMAIN log : MonthBucket(DayBucket(k[2])) \in DOMAIN projectMonthly

RInv ==
  Keyed /\ RawIsTheLatest /\ DailyIsRight /\ ProjectDailyIsRight /\ ProjectMonthlyIsRight

\* What was pruned is older than daily buckets are kept.
FloorIsOld == floor = 0 \/ (KeepDaily # 0 /\ floor <= DayBucket(now - KeepDaily))

MonthlyIsRight ==
  /\ \A k \in DOMAIN monthly : monthly[k] = Produced({k[1]}, MonthTimes(k[2]))
  /\ \A k \in DOMAIN log : <<k[1], MonthBucket(DayBucket(k[2]))>> \in DOMAIN monthly

MInv == FloorIsOld /\ MonthlyIsRight

-----------------------------------------------------------------------------
(* Days and months. *)

\* A quotient is where a number is among the multiples.
LEMMA QuotientBounds ==
  ASSUME NEW n \in Nat \ {0}, NEW t \in Int
  PROVE  t \div n \in Int /\ (t \div n) * n <= t /\ t < (t \div n) * n + n
OBVIOUS

LEMMA MultiplesAreOrdered ==
  ASSUME NEW n \in Nat \ {0}, NEW p \in Int, NEW q \in Int, p < q
  PROVE  p * n + n <= q * n
<1>1. PICK d \in Nat : q = p + 1 + d
  <2>1. q - p - 1 \in Nat /\ q = p + 1 + (q - p - 1)
    OBVIOUS
  <2> QED
    BY <2>1
<1>2. q * n = p * n + n + d * n
  BY <1>1
<1>3. d * n >= 0
  OBVIOUS
<1> QED
  BY <1>2, <1>3

LEMMA QuotientsAreOrdered ==
  ASSUME NEW n \in Nat \ {0}, NEW s \in Int, NEW t \in Int, s <= t
  PROVE  s \div n <= t \div n
<1> DEFINE p == s \div n
           q == t \div n
<1>1. p \in Int /\ q \in Int /\ p * n <= s /\ t < q * n + n
  BY QuotientBounds
<1> HIDE DEF p, q
<1>2. p * n \in Int /\ q * n \in Int
  BY <1>1
<1>3. ASSUME q < p PROVE FALSE
  <2>1. q * n + n <= p * n
    BY <1>1, <1>3, MultiplesAreOrdered
  <2> QED
    BY <1>1, <1>2, <2>1
<1>4. p <= q
  BY <1>1, <1>3
<1> QED
  BY <1>4 DEF p, q

LEMMA QuotientIs ==
  ASSUME NEW n \in Nat \ {0}, NEW t \in Int, NEW q \in Int
  PROVE  q * n \in Int /\ (t \div n = q <=> q * n <= t /\ t < q * n + n)
<1> DEFINE p == t \div n
<1>1. p \in Int /\ p * n <= t /\ t < p * n + n
  BY QuotientBounds
<1> HIDE DEF p
<1>2. p * n \in Int /\ q * n \in Int
  BY <1>1
<1>3. ASSUME q * n <= t, t < q * n + n, p < q PROVE FALSE
  <2>1. p * n + n <= q * n
    BY <1>1, <1>3, MultiplesAreOrdered
  <2> QED
    BY <1>1, <1>2, <1>3, <2>1
<1>4. ASSUME q * n <= t, t < q * n + n, q < p PROVE FALSE
  <2>1. q * n + n <= p * n
    BY <1>1, <1>4, MultiplesAreOrdered
  <2> QED
    BY <1>1, <1>2, <1>4, <2>1
<1>5. p = q <=> q * n <= t /\ t < q * n + n
  BY <1>1, <1>3, <1>4
<1> QED
  BY <1>2, <1>5 DEF p

\* A time is of its day, and a day of its month, alone.
LEMMA DayOfTime ==
  ASSUME NEW t \in Int, NEW day \in Int
  PROVE  DayBucket(t) \in Int /\ (t \in TimesOf(day) <=> DayBucket(t) = day)
<1>1. DayLength \in Nat \ {0}
  BY LengthAssumption
<1>2. /\ t \div DayLength \in Int /\ day * DayLength \in Int
      /\ t \div DayLength = day <=> day * DayLength <= t /\ t < day * DayLength + DayLength
  BY <1>1, QuotientIs, QuotientBounds
<1> QED
  BY <1>1, <1>2 DEF DayBucket, TimesOf

LEMMA MonthOfDay ==
  ASSUME NEW day \in Int, NEW month \in Int
  PROVE  MonthBucket(day) \in Int /\ (day \in DaysOf(month) <=> MonthBucket(day) = month)
<1>1. MonthLength \in Nat \ {0}
  BY LengthAssumption
<1>2. /\ day \div MonthLength \in Int /\ month * MonthLength \in Int
      /\ day \div MonthLength = month <=>
           month * MonthLength <= day /\ day < month * MonthLength + MonthLength
  BY <1>1, QuotientIs, QuotientBounds
<1> QED
  BY <1>1, <1>2 DEF MonthBucket, DaysOf

LEMMA MonthOfTime ==
  ASSUME NEW t \in Int, NEW month \in Int
  PROVE  t \in MonthTimes(month) <=> MonthBucket(DayBucket(t)) = month
<1>1. DaysOf(month) \subseteq Int
  BY DEF DaysOf
<1>2. DayBucket(t) \in Int
  BY DayOfTime
<1>3. \A day \in DaysOf(month) : t \in TimesOf(day) <=> DayBucket(t) = day
  BY <1>1, DayOfTime
<1>4. DayBucket(t) \in DaysOf(month) <=> MonthBucket(DayBucket(t)) = month
  BY <1>2, MonthOfDay
<1> QED
  BY <1>3, <1>4 DEF MonthTimes

-----------------------------------------------------------------------------
(* What the statements that fill the tables sum, from the log as a whole. *)

Entries(L, ids, times) == {k \in DOMAIN L : k[1] \in ids /\ k[2] \in times}

Amount(L, ids, times) == SumFunctionOnSet(L, Entries(L, ids, times))

\* A log of integers, keyed by entity and time.
Ledger(L) ==
  IsFiniteSet(DOMAIN L) /\ DOMAIN L \subseteq Ids \X Int /\ \A k \in DOMAIN L : L[k] \in Int

LEMMA EntriesAreFinite ==
  ASSUME NEW L, Ledger(L), NEW ids, NEW times
  PROVE  /\ IsFiniteSet(Entries(L, ids, times))
         /\ \A k \in Entries(L, ids, times) : L[k] \in Int
BY FS_Subset DEF Entries, Ledger

\* Nothing is made where no entry is, and what is made changes with entries alone.
LEMMA NothingIsMade ==
  ASSUME NEW L, NEW ids, NEW times, \A k \in DOMAIN L : ~(k[1] \in ids /\ k[2] \in times)
  PROVE  Amount(L, ids, times) = 0
<1>1. Entries(L, ids, times) = {}
  BY DEF Entries
<1> QED
  BY <1>1, SumEmpty DEF Amount

LEMMA SameIsMade ==
  ASSUME NEW L, NEW M, Ledger(L), NEW ids, NEW times,
         \A k \in DOMAIN L : k[1] \in ids /\ k[2] \in times => k \in DOMAIN M /\ M[k] = L[k],
         \A k \in DOMAIN M : k[1] \in ids /\ k[2] \in times => k \in DOMAIN L
  PROVE  Amount(M, ids, times) = Amount(L, ids, times)
<1>1. Entries(M, ids, times) = Entries(L, ids, times)
  BY DEF Entries
<1>2. \A k \in Entries(L, ids, times) : L[k] = M[k]
  BY DEF Entries
<1>3. SumFunctionOnSet(L, Entries(L, ids, times)) = SumFunctionOnSet(M, Entries(L, ids, times))
  BY <1>2, EntriesAreFinite, SumOfEquals
<1> QED
  BY <1>1, <1>3 DEF Amount

\* A row of SumByEntity.
LEMMA ByEntity ==
  ASSUME NEW T, NEW keys, NEW bucket, NEW g \in DOMAIN SumByEntity(T, keys, bucket)
  PROVE  SumByEntity(T, keys, bucket)[g] = Amount(T, {g[1]}, keys)
<1>1. {k \in {x \in DOMAIN T : x[2] \in keys} : k[1] = g[1]} = Entries(T, {g[1]}, keys)
  BY DEF Entries
<1>2. SumByEntity(T, keys, bucket)[g] =
        SumFunctionOnSet(T, {k \in {x \in DOMAIN T : x[2] \in keys} : k[1] = g[1]})
  BY DEF SumByEntity
<1> QED
  BY <1>1, <1>2 DEF Amount

\* R is what is left of the log L, with all that there was of the day.
Left(L, R, day) ==
  /\ Ledger(L)
  /\ DOMAIN R \subseteq DOMAIN L /\ \A k \in DOMAIN R : R[k] = L[k]
  /\ \A k \in DOMAIN L : DayBucket(k[2]) = day => k \in DOMAIN R

\* A day is summed from the raw deltas, if none of its are gone.
LEMMA DayFromRaw ==
  ASSUME NEW L, NEW R, NEW day \in Int, Left(L, R, day),
         NEW rows, rows = SumByEntity(R, TimesOf(day), day)
  PROVE  /\ DOMAIN rows \subseteq Ids \X {day}
         /\ \A g \in DOMAIN rows : rows[g] = Amount(L, {g[1]}, TimesOf(g[2]))
         /\ \A k \in DOMAIN L : DayBucket(k[2]) = day => <<k[1], day>> \in DOMAIN rows
<1> USE DEF Left
<1>1. \A k \in DOMAIN L : k \in Ids \X Int /\ (k[2] \in TimesOf(day) <=> DayBucket(k[2]) = day)
  BY DayOfTime DEF Ledger
<1>2. DOMAIN rows = {<<k[1], day>> : k \in {x \in DOMAIN R : x[2] \in TimesOf(day)}}
  BY DEF SumByEntity
<1>3. DOMAIN rows \subseteq Ids \X {day}
  BY <1>1, <1>2
<1>4. ASSUME NEW g \in DOMAIN rows PROVE rows[g] = Amount(L, {g[1]}, TimesOf(g[2]))
  <2>1. Amount(R, {g[1]}, TimesOf(day)) = Amount(L, {g[1]}, TimesOf(day))
    BY <1>1, SameIsMade
  <2>2. rows[g] = Amount(R, {g[1]}, TimesOf(day))
    BY ByEntity
  <2>3. g[2] = day
    BY <1>3
  <2> QED
    BY <2>1, <2>2, <2>3
<1>5. \A k \in DOMAIN L : DayBucket(k[2]) = day => <<k[1], day>> \in DOMAIN rows
  BY <1>1, <1>2
<1> QED
  BY <1>3, <1>4, <1>5

\* The project's day is summed from those of the entities.
LEMMA ProjectDayFromDaily ==
  ASSUME NEW L, NEW D, NEW day \in Int, Ledger(L), DOMAIN D \subseteq Ids \X Int,
         \A g \in DOMAIN D : g[2] = day => D[g] = Amount(L, {g[1]}, TimesOf(day)),
         \A k \in DOMAIN L : DayBucket(k[2]) = day => <<k[1], day>> \in DOMAIN D
  PROVE  SumFunctionOnSet(D, {g \in DOMAIN D : g[2] \in {day}}) = Amount(L, Ids, TimesOf(day))
<1> DEFINE rows == {g \in DOMAIN D : g[2] \in {day}}
           S == Entries(L, Ids, TimesOf(day))
           group == [k \in S |-> <<k[1], day>>]
<1>1. \A k \in DOMAIN L : k[2] \in Int /\ (k[2] \in TimesOf(day) <=> DayBucket(k[2]) = day)
  BY DayOfTime DEF Ledger
<1>2. IsFiniteSet(rows)
  <2>1. rows \subseteq Ids \X {day}
    OBVIOUS
  <2>2. IsFiniteSet(Ids \X {day})
    BY IdsAssumption, FS_Singleton, FS_Product
  <2> QED
    BY <2>1, <2>2, FS_Subset
<1>3. IsFiniteSet(S) /\ \A k \in S : L[k] \in Int
  BY EntriesAreFinite
<1>4. \A k \in S : group[k] \in rows
  BY <1>1 DEF Entries
<1>5. ASSUME NEW g \in rows
      PROVE  D[g] = SumFunctionOnSet(L, {k \in S : group[k] = g})
  <2>1. g = <<g[1], day>> /\ g[1] \in Ids /\ g[2] = day
    OBVIOUS
  <2>2. {k \in S : group[k] = g} = Entries(L, {g[1]}, TimesOf(day))
    BY <2>1 DEF Entries
  <2>3. D[g] = Amount(L, {g[1]}, TimesOf(day))
    BY <2>1
  <2> QED
    BY <2>2, <2>3 DEF Amount
<1> HIDE DEF rows, S, group
<1>6. GroupTotals(L, S, group, D, rows)
  BY <1>2, <1>3, <1>4, <1>5 DEF GroupTotals
<1>7. SumFunctionOnSet(L, S) = SumFunctionOnSet(D, rows)
  BY <1>6, SumOfGroups
<1> QED
  BY <1>7 DEF Amount, S, rows

\* The project's month is summed from its days.
LEMMA ProjectMonthFromDays ==
  ASSUME NEW L, NEW P, NEW month \in Int, Ledger(L), DOMAIN P \subseteq Int,
         \A day \in DOMAIN P :
           day \in DaysOf(month) => P[day] = Amount(L, Ids, TimesOf(day)),
         \A k \in DOMAIN L :
           DayBucket(k[2]) \in DaysOf(month) => DayBucket(k[2]) \in DOMAIN P
  PROVE  SumFunctionOnSet(P, DOMAIN P \cap DaysOf(month)) = Amount(L, Ids, MonthTimes(month))
<1> DEFINE rows == DOMAIN P \cap DaysOf(month)
           S == Entries(L, Ids, MonthTimes(month))
           group == [k \in S |-> DayBucket(k[2])]
<1>1. \A k \in DOMAIN L : k[2] \in Int /\ DayBucket(k[2]) \in Int
  BY DayOfTime DEF Ledger
<1>2. IsFiniteSet(rows)
  <2>1. month * MonthLength \in Int /\ month * MonthLength + MonthLength - 1 \in Int
    BY LengthAssumption
  <2>2. IsFiniteSet(DaysOf(month))
    BY <2>1, FS_Interval DEF DaysOf
  <2> QED
    BY <2>2, FS_Subset
<1>3. IsFiniteSet(S) /\ \A k \in S : L[k] \in Int
  BY EntriesAreFinite
<1>4. \A k \in DOMAIN L :
        k[2] \in MonthTimes(month) <=> DayBucket(k[2]) \in DaysOf(month)
  BY <1>1, MonthOfTime, MonthOfDay
<1>5. \A k \in S : group[k] \in rows
  BY <1>4 DEF Entries
<1>6. ASSUME NEW day \in rows
      PROVE  P[day] = SumFunctionOnSet(L, {k \in S : group[k] = day})
  <2>1. \A k \in DOMAIN L : k[2] \in TimesOf(day) <=> DayBucket(k[2]) = day
    BY <1>1, DayOfTime
  <2>2. {k \in S : group[k] = day} = Entries(L, Ids, TimesOf(day))
    BY <1>4, <2>1 DEF Entries
  <2>3. P[day] = Amount(L, Ids, TimesOf(day))
    OBVIOUS
  <2> QED
    BY <2>2, <2>3 DEF Amount
<1> HIDE DEF rows, S, group
<1>7. GroupTotals(L, S, group, P, rows)
  BY <1>2, <1>3, <1>5, <1>6 DEF GroupTotals
<1>8. SumFunctionOnSet(L, S) = SumFunctionOnSet(P, rows)
  BY <1>7, SumOfGroups
<1> QED
  BY <1>8 DEF Amount, S, rows

\* The month of an entity is summed from its days, if none of them are gone.
LEMMA MonthFromDays ==
  ASSUME NEW L, NEW D, NEW month \in Int, NEW id \in Ids, Ledger(L), DOMAIN D \subseteq Ids \X Int,
         \A g \in DOMAIN D : D[g] = Amount(L, {g[1]}, TimesOf(g[2])),
         \A k \in DOMAIN L :
           DayBucket(k[2]) \in DaysOf(month) => <<k[1], DayBucket(k[2])>> \in DOMAIN D
  PROVE  Amount(D, {id}, DaysOf(month)) = Amount(L, {id}, MonthTimes(month))
<1> DEFINE rows == Entries(D, {id}, DaysOf(month))
           S == Entries(L, {id}, MonthTimes(month))
           group == [k \in S |-> <<id, DayBucket(k[2])>>]
<1>1. \A k \in DOMAIN L : k[2] \in Int /\ DayBucket(k[2]) \in Int
  BY DayOfTime DEF Ledger
<1>2. IsFiniteSet(rows)
  <2>1. month * MonthLength \in Int /\ month * MonthLength + MonthLength - 1 \in Int
    BY LengthAssumption
  <2>2. IsFiniteSet({id} \X DaysOf(month))
    BY <2>1, FS_Interval, FS_Singleton, FS_Product DEF DaysOf
  <2>3. rows \subseteq {id} \X DaysOf(month)
    BY DEF Entries
  <2> QED
    BY <2>2, <2>3, FS_Subset
<1>3. IsFiniteSet(S) /\ \A k \in S : L[k] \in Int
  BY EntriesAreFinite
<1>4. \A k \in DOMAIN L :
        k[2] \in MonthTimes(month) <=> DayBucket(k[2]) \in DaysOf(month)
  BY <1>1, MonthOfTime, MonthOfDay
<1>5. \A k \in S : group[k] \in rows
  BY <1>4 DEF Entries
<1>6. ASSUME NEW g \in rows
      PROVE  D[g] = SumFunctionOnSet(L, {k \in S : group[k] = g})
  <2>1. g = <<id, g[2]>> /\ g[1] = id /\ g[2] \in Int /\ g[2] \in DaysOf(month) /\ g \in DOMAIN D
    BY DEF Entries
  <2>2. \A k \in DOMAIN L : k[2] \in TimesOf(g[2]) <=> DayBucket(k[2]) = g[2]
    BY <1>1, <2>1, DayOfTime
  <2>3. {k \in S : group[k] = g} = Entries(L, {id}, TimesOf(g[2]))
    BY <1>4, <2>1, <2>2 DEF Entries
  <2>4. D[g] = Amount(L, {id}, TimesOf(g[2]))
    BY <2>1
  <2> QED
    BY <2>3, <2>4 DEF Amount
<1> HIDE DEF rows, S, group
<1>7. GroupTotals(L, S, group, D, rows)
  BY <1>2, <1>3, <1>5, <1>6 DEF GroupTotals
<1>8. SumFunctionOnSet(L, S) = SumFunctionOnSet(D, rows)
  BY <1>7, SumOfGroups
<1> QED
  BY <1>8 DEF Amount, S, rows

-----------------------------------------------------------------------------
(* A cycle is written. *)

Batch(t, moved) == [k \in moved \X {t} |-> 1]

\* WriteCycle, of a time and of the entities that moved.
Written(t, moved) ==
  /\ t \in (newest + 1)..now /\ moved \in SUBSET Ids
  /\ t >= now - MaxLag
  /\ newest' = t
  /\ log' = Upsert(log, Batch(t, moved)) /\ raw' = Upsert(raw, Batch(t, moved))
  /\ RollupCycle(t)
  /\ UNCHANGED <<now, floor>>

LEMMA WriteIsWritten == WriteCycle => \E t, moved : Written(t, moved)
BY DEF WriteCycle, Written, Batch

LEMMA KeysAreFinite ==
  ASSUME NEW n \in Nat
  PROVE  IsFiniteSet(Ids \X (0..n))
<1>1. IsFiniteSet(0..n)
  BY FS_Interval
<1> QED
  BY <1>1, IdsAssumption, FS_Product

LEMMA KeyedLedger == Keyed => Ledger(log)
<1> SUFFICES ASSUME Keyed PROVE Ledger(log)
  OBVIOUS
<1>1. IsFiniteSet(Ids \X (0..newest))
  BY KeysAreFinite DEF Keyed
<1> QED
  BY <1>1, FS_Subset DEF Keyed, Ledger

\* The log grows by deltas of a time that it had none of.
LEMMA LogGrows ==
  ASSUME Keyed, RawIsTheLatest, NEW t, NEW moved, Written(t, moved)
  PROVE  /\ t \in Nat /\ DOMAIN log' \subseteq Ids \X (0..t) /\ Ledger(log')
         /\ \A k \in DOMAIN log : k \in DOMAIN log' /\ log'[k] = log[k] /\ k[2] # t
         /\ \A k \in DOMAIN log' : k \in DOMAIN log \/ (k[2] = t /\ k[1] \in moved)
         /\ DOMAIN raw' \subseteq DOMAIN log' /\ \A k \in DOMAIN raw' : raw'[k] = log'[k]
         /\ \A k \in DOMAIN log' : k[2] >= Cutoff \/ k[2] = t => k \in DOMAIN raw'
<1> DEFINE deltas == Batch(t, moved)
<1>1. t \in Nat /\ newest < t /\ moved \subseteq Ids
  BY DEF Written, Keyed
<1>2. /\ DOMAIN deltas = moved \X {t}
      /\ \A k \in DOMAIN deltas : deltas[k] = 1 /\ k[2] = t /\ k[1] \in moved
  BY DEF Batch
<1>3. \A k \in DOMAIN log : k[2] \in 0..newest /\ k \notin DOMAIN deltas
  BY <1>1, <1>2 DEF Keyed
<1>4. log' = Upsert(log, deltas) /\ raw' = Upsert(raw, deltas)
  BY DEF Written
<1> HIDE DEF deltas
<1>5. /\ DOMAIN log' = DOMAIN log \cup DOMAIN deltas
      /\ \A k \in DOMAIN deltas : log'[k] = deltas[k]
      /\ \A k \in DOMAIN log \ DOMAIN deltas : log'[k] = log[k]
  BY <1>4 DEF Upsert
<1>6. /\ DOMAIN raw' = DOMAIN raw \cup DOMAIN deltas
      /\ \A k \in DOMAIN deltas : raw'[k] = deltas[k]
      /\ \A k \in DOMAIN raw \ DOMAIN deltas : raw'[k] = raw[k]
  BY <1>4 DEF Upsert
<1>7. DOMAIN log' \subseteq Ids \X (0..t)
  BY <1>1, <1>2, <1>3, <1>5 DEF Keyed
<1>8. \A k \in DOMAIN log' : log'[k] \in Int
  BY <1>2, <1>3, <1>5 DEF Keyed
<1>9. Ledger(log')
  <2>1. IsFiniteSet(Ids \X (0..t))
    BY <1>1, KeysAreFinite
  <2> QED
    BY <1>1, <1>7, <1>8, <2>1, FS_Subset DEF Ledger
<1>10. \A k \in DOMAIN log : k \in DOMAIN log' /\ log'[k] = log[k] /\ k[2] # t
  BY <1>1, <1>3, <1>5 DEF Keyed
<1>11. \A k \in DOMAIN log' : k \in DOMAIN log \/ (k[2] = t /\ k[1] \in moved)
  BY <1>2, <1>5
<1>12. DOMAIN raw' \subseteq DOMAIN log' /\ \A k \in DOMAIN raw' : raw'[k] = log'[k]
  BY <1>3, <1>5, <1>6 DEF RawIsTheLatest
<1>13. \A k \in DOMAIN log' : k[2] >= Cutoff \/ k[2] = t => k \in DOMAIN raw'
  BY <1>5, <1>6, <1>10 DEF RawIsTheLatest
<1> QED
  BY <1>1, <1>7, <1>9, <1>10, <1>11, <1>12, <1>13

\* Nothing is made at other times.
LEMMA OtherTimes ==
  ASSUME Keyed, RawIsTheLatest, NEW t, NEW moved, Written(t, moved),
         NEW ids, NEW times, t \notin times
  PROVE  Amount(log', ids, times) = Amount(log, ids, times)
<1>1. Ledger(log)
  BY KeyedLedger
<1>2. /\ \A k \in DOMAIN log : k \in DOMAIN log' /\ log'[k] = log[k]
      /\ \A k \in DOMAIN log' : k \in DOMAIN log \/ k[2] = t
  BY LogGrows
<1> QED
  BY <1>1, <1>2, SameIsMade

\* The deltas of the day that is written are all there, if they outlive the lag.
LEMMA DayIsThere ==
  ASSUME RawOutlivesLag, Keyed, RawIsTheLatest, NEW t, NEW moved, Written(t, moved)
  PROVE  \A k \in DOMAIN log' : DayBucket(k[2]) = DayBucket(t) => k \in DOMAIN raw'
<1>1. t \in Int /\ now - CompactAfter \in Int /\ now - CompactAfter <= t
  <2>1. t \in Nat
    BY LogGrows
  <2> QED
    BY <2>1, RetentionAssumption DEF RawOutlivesLag, Keyed, Written
<1> DEFINE p == DayBucket(now - CompactAfter)
           q == DayBucket(t)
<1>2. p \in Int /\ q \in Int /\ p <= q
  BY <1>1, LengthAssumption, QuotientsAreOrdered, QuotientBounds DEF DayBucket
<1>3. SUFFICES ASSUME NEW k \in DOMAIN log', DayBucket(k[2]) = q PROVE k[2] >= Cutoff
  BY LogGrows
<1>4. k[2] \in Int
  BY LogGrows DEF Ledger
<1>5. q * DayLength <= k[2]
  BY <1>3, <1>4, LengthAssumption, QuotientBounds DEF DayBucket
<1> HIDE DEF p, q
<1>6. p * DayLength \in Int /\ q * DayLength \in Int /\ p * DayLength <= q * DayLength
  <2>1. DayLength \in Nat \ {0}
    BY LengthAssumption
  <2>2. p * DayLength \in Int /\ q * DayLength \in Int
    BY <1>2, <2>1
  <2>3. CASE p = q
    BY <2>2, <2>3
  <2>4. CASE p < q
    BY <1>2, <2>1, <2>2, <2>4, MultiplesAreOrdered
  <2> QED
    BY <1>2, <2>2, <2>3, <2>4
<1>7. Cutoff = p * DayLength
  BY DEF Cutoff, p
<1> QED
  BY <1>4, <1>5, <1>6, <1>7

\* The day that is written is right again, and others stay so.
LEMMA DailyStays ==
  ASSUME RawOutlivesLag, Keyed, RawIsTheLatest, DailyIsRight, NEW t, NEW moved, Written(t, moved)
  PROVE  /\ DOMAIN daily' \subseteq Ids \X Int
         /\ \A g \in DOMAIN daily' : daily'[g] = Amount(log', {g[1]}, TimesOf(g[2]))
         /\ \A k \in DOMAIN log' :
              DayBucket(k[2]) >= floor \/ DayBucket(k[2]) = DayBucket(t) =>
                <<k[1], DayBucket(k[2])>> \in DOMAIN daily'
<1>1. PICK day \in Int : day = DayBucket(t)
  BY DayOfTime, LogGrows
<1>2. PICK L, R : L = log' /\ R = raw'
  OBVIOUS
<1>3. PICK rows : rows = SumByEntity(R, TimesOf(day), day)
  OBVIOUS
<1>4. /\ DOMAIN rows \subseteq Ids \X {day}
      /\ \A g \in DOMAIN rows : rows[g] = Amount(log', {g[1]}, TimesOf(g[2]))
      /\ \A k \in DOMAIN log' : DayBucket(k[2]) = day => <<k[1], day>> \in DOMAIN rows
  <2>1. Left(L, R, day)
    BY <1>1, <1>2, LogGrows, DayIsThere DEF Left
  <2>2. /\ DOMAIN rows \subseteq Ids \X {day}
        /\ \A g \in DOMAIN rows : rows[g] = Amount(L, {g[1]}, TimesOf(g[2]))
        /\ \A k \in DOMAIN L : DayBucket(k[2]) = day => <<k[1], day>> \in DOMAIN rows
    BY <1>3, <2>1, DayFromRaw
  <2> QED
    BY <1>2, <2>2
<1>5. daily' = Upsert(daily, rows)
  BY <1>1, <1>2, <1>3 DEF Written, RollupCycle
<1>6. /\ DOMAIN daily' = DOMAIN daily \cup DOMAIN rows
      /\ \A g \in DOMAIN rows : daily'[g] = rows[g]
      /\ \A g \in DOMAIN daily \ DOMAIN rows : daily'[g] = daily[g]
  BY <1>5 DEF Upsert
<1>7. /\ t \in Int /\ DOMAIN log' \subseteq Ids \X Int
      /\ \A k \in DOMAIN log' : k \in DOMAIN log \/ k[2] = t
      /\ \A k \in DOMAIN log : k \in DOMAIN log'
  BY LogGrows DEF Ledger
<1>8. DOMAIN daily' \subseteq Ids \X Int
  BY <1>1, <1>4, <1>6 DEF Keyed
<1>9. ASSUME NEW g \in DOMAIN daily'
      PROVE  daily'[g] = Amount(log', {g[1]}, TimesOf(g[2]))
  <2>1. CASE g \in DOMAIN rows
    BY <1>4, <1>6, <2>1
  <2>2. CASE g \notin DOMAIN rows
    <3>1. g \in DOMAIN daily /\ g[1] \in Ids /\ g[2] \in Int /\ g = <<g[1], g[2]>>
      BY <1>6, <2>2 DEF Keyed
    <3>2. daily'[g] = Amount(log, {g[1]}, TimesOf(g[2]))
      BY <1>6, <2>2, <3>1 DEF DailyIsRight, Produced, Amount, Entries
    <3>3. CASE t \notin TimesOf(g[2])
      BY <3>2, <3>3, OtherTimes
    <3>4. CASE t \in TimesOf(g[2])
      <4>1. g[2] = day
        BY <1>1, <1>7, <3>1, <3>4, DayOfTime
      <4>2. \A k \in DOMAIN log' : ~(k[1] \in {g[1]} /\ k[2] \in TimesOf(g[2]))
        <5>1. SUFFICES ASSUME NEW k \in DOMAIN log', k[1] = g[1], k[2] \in TimesOf(g[2])
                       PROVE  FALSE
          OBVIOUS
        <5>2. DayBucket(k[2]) = day
          BY <1>7, <3>1, <4>1, <5>1, DayOfTime
        <5> QED
          BY <1>4, <2>2, <3>1, <4>1, <5>1, <5>2
      <4>3. \A k \in DOMAIN log : ~(k[1] \in {g[1]} /\ k[2] \in TimesOf(g[2]))
        BY <1>7, <4>2
      <4> QED
        BY <3>2, <4>2, <4>3, NothingIsMade
    <3> QED
      BY <3>3, <3>4
  <2> QED
    BY <2>1, <2>2
<1>10. ASSUME NEW k \in DOMAIN log', DayBucket(k[2]) >= floor \/ DayBucket(k[2]) = DayBucket(t)
      PROVE  <<k[1], DayBucket(k[2])>> \in DOMAIN daily'
  <2>1. CASE DayBucket(k[2]) = day
    BY <1>4, <1>6, <2>1
  <2>2. CASE DayBucket(k[2]) # day
    <3>1. k \in DOMAIN log /\ DayBucket(k[2]) >= floor
      BY <1>1, <1>7, <1>10, <2>2
    <3> QED
      BY <1>6, <3>1 DEF DailyIsRight
  <2> QED
    BY <2>1, <2>2
<1> QED
  BY <1>8, <1>9, <1>10

\* So is the project's day.
LEMMA ProjectDailyStays ==
  ASSUME RawOutlivesLag, Keyed, RawIsTheLatest, DailyIsRight, ProjectDailyIsRight,
         NEW t, NEW moved, Written(t, moved)
  PROVE  /\ DOMAIN projectDaily' \subseteq Int
         /\ \A d \in DOMAIN projectDaily' : projectDaily'[d] = Amount(log', Ids, TimesOf(d))
         /\ \A k \in DOMAIN log' : DayBucket(k[2]) \in DOMAIN projectDaily'
<1>1. PICK day \in Int : day = DayBucket(t)
  BY DayOfTime, LogGrows
<1>2. PICK L, D : L = log' /\ D = daily'
  OBVIOUS
<1> DEFINE rows == {g \in DOMAIN D : g[2] \in {day}}
           Row == SumByBucket(D, {day}, day)
<1>3. projectDaily' = Upsert(projectDaily, Row)
  BY <1>1, <1>2 DEF Written, RollupCycle
<1>4. /\ t \in Int /\ Ledger(log') /\ DOMAIN log' \subseteq Ids \X Int
      /\ \A k \in DOMAIN log' : k \in DOMAIN log \/ k[2] = t
      /\ \A k \in DOMAIN log : k \in DOMAIN log'
  BY LogGrows DEF Ledger
<1>5. /\ DOMAIN daily' \subseteq Ids \X Int
      /\ \A g \in DOMAIN daily' : daily'[g] = Amount(log', {g[1]}, TimesOf(g[2]))
      /\ \A k \in DOMAIN log' : DayBucket(k[2]) = day => <<k[1], day>> \in DOMAIN daily'
  BY <1>1, DailyStays
<1>6. SumFunctionOnSet(D, rows) = Amount(log', Ids, TimesOf(day))
  <2>1. /\ Ledger(L) /\ DOMAIN D \subseteq Ids \X Int
        /\ \A g \in DOMAIN D : g[2] = day => D[g] = Amount(L, {g[1]}, TimesOf(day))
        /\ \A k \in DOMAIN L : DayBucket(k[2]) = day => <<k[1], day>> \in DOMAIN D
    BY <1>2, <1>4, <1>5
  <2>2. SumFunctionOnSet(D, rows) = Amount(L, Ids, TimesOf(day))
    BY <2>1, ProjectDayFromDaily
  <2> QED
    BY <1>2, <2>2
<1>7. /\ \A d \in DOMAIN Row : d = day /\ Row[d] = Amount(log', Ids, TimesOf(day))
      /\ rows # {} => day \in DOMAIN Row
  BY <1>6 DEF SumByBucket
<1>8. \A k \in DOMAIN log' : DayBucket(k[2]) = day => day \in DOMAIN Row
  <2>1. ASSUME NEW k \in DOMAIN log', DayBucket(k[2]) = day PROVE <<k[1], day>> \in rows
    BY <1>2, <1>5, <2>1
  <2> QED
    BY <1>7, <2>1
<1> HIDE DEF Row, rows
<1>9. /\ DOMAIN projectDaily' = DOMAIN projectDaily \cup DOMAIN Row
      /\ \A d \in DOMAIN Row : projectDaily'[d] = Row[d]
      /\ \A d \in DOMAIN projectDaily \ DOMAIN Row : projectDaily'[d] = projectDaily[d]
  BY <1>3 DEF Upsert
<1>10. DOMAIN projectDaily' \subseteq Int
  BY <1>7, <1>9 DEF Keyed
<1>11. ASSUME NEW d \in DOMAIN projectDaily'
       PROVE  projectDaily'[d] = Amount(log', Ids, TimesOf(d))
  <2>1. CASE d \in DOMAIN Row
    BY <1>7, <1>9, <2>1
  <2>2. CASE d \notin DOMAIN Row
    <3>1. d \in Int /\ projectDaily'[d] = Amount(log, Ids, TimesOf(d))
      BY <1>9, <2>2 DEF Keyed, ProjectDailyIsRight, Produced, Amount, Entries
    <3>2. CASE t \notin TimesOf(d)
      BY <3>1, <3>2, OtherTimes
    <3>3. CASE t \in TimesOf(d)
      <4>1. d = day
        BY <1>1, <1>4, <3>1, <3>3, DayOfTime
      <4>2. \A k \in DOMAIN log' : ~(k[1] \in Ids /\ k[2] \in TimesOf(d))
        BY <1>4, <1>8, <2>2, <4>1, DayOfTime
      <4>3. \A k \in DOMAIN log : ~(k[1] \in Ids /\ k[2] \in TimesOf(d))
        BY <1>4, <4>2
      <4> QED
        BY <3>1, <4>2, <4>3, NothingIsMade
    <3> QED
      BY <3>2, <3>3
  <2> QED
    BY <2>1, <2>2
<1>12. ASSUME NEW k \in DOMAIN log'
       PROVE  DayBucket(k[2]) \in DOMAIN projectDaily'
  <2>1. CASE DayBucket(k[2]) = day
    BY <1>8, <1>9, <2>1
  <2>2. CASE DayBucket(k[2]) # day
    BY <1>1, <1>4, <1>9, <2>2 DEF ProjectDailyIsRight
  <2> QED
    BY <2>1, <2>2
<1> QED
  BY <1>10, <1>11, <1>12

\* The month that is written is keyed by the entities of its days.
LEMMA MonthlyIsKeyed ==
  ASSUME RawOutlivesLag, Keyed, RawIsTheLatest, DailyIsRight, NEW t, NEW moved, Written(t, moved)
  PROVE  DOMAIN monthly' \subseteq Ids \X Int
<1>1. PICK month \in Int : month = MonthBucket(DayBucket(t))
  BY DayOfTime, MonthOfDay, LogGrows
<1>2. PICK rows : rows = SumByEntity(daily', DaysOf(month), month)
  OBVIOUS
<1>3. monthly' = Upsert(monthly, rows)
  BY <1>1, <1>2 DEF Written, RollupCycle, MonthlyRows
<1>4. DOMAIN daily' \subseteq Ids \X Int
  BY DailyStays
<1>5. DOMAIN rows \subseteq Ids \X Int
  BY <1>2, <1>4 DEF SumByEntity
<1> QED
  BY <1>3, <1>5 DEF Upsert, Keyed

\* So is the project's month.
LEMMA ProjectMonthlyStays ==
  ASSUME RawOutlivesLag, RInv, NEW t, NEW moved, Written(t, moved)
  PROVE  /\ DOMAIN projectMonthly' \subseteq Int
         /\ \A m \in DOMAIN projectMonthly' :
              projectMonthly'[m] = Amount(log', Ids, MonthTimes(m))
         /\ \A k \in DOMAIN log' : MonthBucket(DayBucket(k[2])) \in DOMAIN projectMonthly'
<1> USE DEF RInv
<1>1. PICK month \in Int : month = MonthBucket(DayBucket(t))
  BY DayOfTime, MonthOfDay, LogGrows
<1>2. PICK L, P : L = log' /\ P = projectDaily'
  OBVIOUS
<1>3. PICK row : row = SumOfBuckets(P, DaysOf(month), month)
  OBVIOUS
<1>4. projectMonthly' = Upsert(projectMonthly, row)
  BY <1>1, <1>2, <1>3 DEF Written, RollupCycle
<1>5. /\ t \in Int /\ Ledger(log') /\ DOMAIN log' \subseteq Ids \X Int
      /\ \A k \in DOMAIN log' : k \in DOMAIN log \/ k[2] = t
      /\ \A k \in DOMAIN log : k \in DOMAIN log'
  BY LogGrows DEF Ledger
<1>6. /\ DOMAIN projectDaily' \subseteq Int
      /\ \A d \in DOMAIN projectDaily' : projectDaily'[d] = Amount(log', Ids, TimesOf(d))
      /\ \A k \in DOMAIN log' : DayBucket(k[2]) \in DOMAIN projectDaily'
  BY ProjectDailyStays
<1>7. SumFunctionOnSet(P, DOMAIN P \cap DaysOf(month)) = Amount(log', Ids, MonthTimes(month))
  <2>1. /\ Ledger(L) /\ DOMAIN P \subseteq Int
        /\ \A d \in DOMAIN P : d \in DaysOf(month) => P[d] = Amount(L, Ids, TimesOf(d))
        /\ \A k \in DOMAIN L : DayBucket(k[2]) \in DaysOf(month) => DayBucket(k[2]) \in DOMAIN P
    BY <1>2, <1>5, <1>6
  <2>2. SumFunctionOnSet(P, DOMAIN P \cap DaysOf(month)) = Amount(L, Ids, MonthTimes(month))
    BY <2>1, ProjectMonthFromDays
  <2> QED
    BY <1>2, <2>2
<1>8. \A m \in DOMAIN row : m = month /\ row[m] = Amount(log', Ids, MonthTimes(m))
  <2>1. \A m \in DOMAIN row : m = month /\ row[m] = Amount(log', Ids, MonthTimes(month))
    BY <1>3, <1>7 DEF SumOfBuckets
  <2> QED
    BY <2>1
<1>9. ASSUME NEW k \in DOMAIN log', MonthBucket(DayBucket(k[2])) = month
      PROVE  month \in DOMAIN row
  <2>1. DayBucket(k[2]) \in DaysOf(month) /\ DayBucket(k[2]) \in DOMAIN P
    BY <1>2, <1>5, <1>6, <1>9, DayOfTime, MonthOfDay
  <2> QED
    BY <1>3, <2>1 DEF SumOfBuckets
<1>10. /\ DOMAIN projectMonthly' = DOMAIN projectMonthly \cup DOMAIN row
       /\ \A m \in DOMAIN row : projectMonthly'[m] = row[m]
       /\ \A m \in DOMAIN projectMonthly \ DOMAIN row : projectMonthly'[m] = projectMonthly[m]
  BY <1>4 DEF Upsert
<1>11. DOMAIN projectMonthly' \subseteq Int
  BY <1>8, <1>10 DEF Keyed
<1>12. ASSUME NEW m \in DOMAIN projectMonthly'
       PROVE  projectMonthly'[m] = Amount(log', Ids, MonthTimes(m))
  <2>1. CASE m \in DOMAIN row
    BY <1>8, <1>10, <2>1
  <2>2. CASE m \notin DOMAIN row
    <3>1. m \in Int /\ projectMonthly'[m] = Amount(log, Ids, MonthTimes(m))
      BY <1>10, <2>2 DEF Keyed, ProjectMonthlyIsRight, Produced, Amount, Entries
    <3>2. CASE t \notin MonthTimes(m)
      BY <3>1, <3>2, OtherTimes
    <3>3. CASE t \in MonthTimes(m)
      <4>1. m = month
        BY <1>1, <1>5, <3>1, <3>3, MonthOfTime
      <4>2. \A k \in DOMAIN log' : ~(k[1] \in Ids /\ k[2] \in MonthTimes(m))
        <5>1. SUFFICES ASSUME NEW k \in DOMAIN log', k[2] \in MonthTimes(m) PROVE FALSE
          OBVIOUS
        <5>2. MonthBucket(DayBucket(k[2])) = month
          BY <1>5, <3>1, <4>1, <5>1, MonthOfTime
        <5> QED
          BY <1>9, <2>2, <4>1, <5>2
      <4>3. \A k \in DOMAIN log : ~(k[1] \in Ids /\ k[2] \in MonthTimes(m))
        BY <1>5, <4>2
      <4> QED
        BY <3>1, <4>2, <4>3, NothingIsMade
    <3> QED
      BY <3>2, <3>3
  <2> QED
    BY <2>1, <2>2
<1>13. ASSUME NEW k \in DOMAIN log'
       PROVE  MonthBucket(DayBucket(k[2])) \in DOMAIN projectMonthly'
  <2>1. CASE MonthBucket(DayBucket(k[2])) = month
    BY <1>9, <1>10, <2>1
  <2>2. CASE MonthBucket(DayBucket(k[2])) # month
    BY <1>1, <1>5, <1>10, <2>2 DEF ProjectMonthlyIsRight
  <2> QED
    BY <2>1, <2>2
<1> QED
  BY <1>11, <1>12, <1>13

-----------------------------------------------------------------------------
(* A step preserves the invariant. *)

LEMMA WriteKeeps ==
  ASSUME RawOutlivesLag, RInv, WriteCycle
  PROVE  RInv'
<1> PICK t, moved : Written(t, moved)
  BY WriteIsWritten
<1>1. /\ DOMAIN daily' \subseteq Ids \X Int
      /\ \A g \in DOMAIN daily' : daily'[g] = Amount(log', {g[1]}, TimesOf(g[2]))
      /\ \A k \in DOMAIN log' :
           DayBucket(k[2]) >= floor => <<k[1], DayBucket(k[2])>> \in DOMAIN daily'
  BY DailyStays DEF RInv
<1>2. /\ DOMAIN projectDaily' \subseteq Int
      /\ \A d \in DOMAIN projectDaily' : projectDaily'[d] = Amount(log', Ids, TimesOf(d))
      /\ \A k \in DOMAIN log' : DayBucket(k[2]) \in DOMAIN projectDaily'
  BY ProjectDailyStays DEF RInv
<1>3. /\ DOMAIN projectMonthly' \subseteq Int
      /\ \A m \in DOMAIN projectMonthly' :
           projectMonthly'[m] = Amount(log', Ids, MonthTimes(m))
      /\ \A k \in DOMAIN log' : MonthBucket(DayBucket(k[2])) \in DOMAIN projectMonthly'
  BY ProjectMonthlyStays
<1>4. /\ t \in Nat /\ newest' = t /\ now' = now /\ floor' = floor
      /\ DOMAIN log' \subseteq Ids \X (0..t) /\ Ledger(log')
      /\ DOMAIN raw' \subseteq DOMAIN log' /\ \A k \in DOMAIN raw' : raw'[k] = log'[k]
      /\ \A k \in DOMAIN log' : k[2] >= Cutoff => k \in DOMAIN raw'
  BY LogGrows DEF RInv, Written
<1>5. DOMAIN monthly' \subseteq Ids \X Int
  BY MonthlyIsKeyed DEF RInv
<1>6. Keyed'
  BY <1>1, <1>2, <1>3, <1>4, <1>5 DEF RInv, Keyed, Ledger
<1>7. RawIsTheLatest'
  BY <1>4 DEF RawIsTheLatest, Cutoff
<1>8. DailyIsRight'
  BY <1>1, <1>4 DEF DailyIsRight, Produced, Amount, Entries
<1>9. ProjectDailyIsRight'
  BY <1>2 DEF ProjectDailyIsRight, Produced, Amount, Entries
<1>10. ProjectMonthlyIsRight'
  BY <1>3 DEF ProjectMonthlyIsRight, Produced, Amount, Entries
<1> QED
  BY <1>6, <1>7, <1>8, <1>9, <1>10 DEF RInv

LEMMA CompactKeeps ==
  ASSUME RInv, Compact
  PROVE  RInv'
<1> USE DEF RInv
<1>1. PICK first \in Int : first = IF KeepDaily = 0 THEN 0 ELSE DayBucket(now - KeepDaily)
  BY DayOfTime, RetentionAssumption DEF Keyed
<1>2. /\ raw' = DeleteBefore(raw, Cutoff) /\ daily' = DeleteBefore(daily, first)
      /\ floor' = IF first > floor THEN first ELSE floor
      /\ UNCHANGED <<now, newest, log, monthly, projectDaily, projectMonthly>>
  BY <1>1 DEF Compact
<1>3. DOMAIN daily' \subseteq DOMAIN daily /\ \A k \in DOMAIN daily' : daily'[k] = daily[k]
  BY <1>2 DEF DeleteBefore
<1>4. Keyed'
  BY <1>2, <1>3 DEF Keyed
<1>5. RawIsTheLatest'
  BY <1>2 DEF RawIsTheLatest, DeleteBefore, Cutoff
<1>6. DailyIsRight'
  <2>1. \A k \in DOMAIN daily' : daily'[k] = Produced({k[1]}, TimesOf(k[2]))'
    BY <1>2, <1>3 DEF DailyIsRight, Produced
  <2>2. ASSUME NEW k \in DOMAIN log, DayBucket(k[2]) >= floor'
        PROVE  <<k[1], DayBucket(k[2])>> \in DOMAIN daily'
    <3>1. k[2] \in Int /\ DayBucket(k[2]) \in Int
      BY DayOfTime DEF Keyed
    <3>2. DayBucket(k[2]) >= floor /\ DayBucket(k[2]) >= first
      BY <1>2, <2>2, <3>1 DEF Keyed
    <3> QED
      BY <1>2, <3>2 DEF DailyIsRight, DeleteBefore
  <2> QED
    BY <1>2, <2>1, <2>2 DEF DailyIsRight
<1>7. ProjectDailyIsRight'
  BY <1>2 DEF ProjectDailyIsRight, Produced
<1>8. ProjectMonthlyIsRight'
  BY <1>2 DEF ProjectMonthlyIsRight, Produced
<1> QED
  BY <1>4, <1>5, <1>6, <1>7, <1>8

\* The cutoff moves with the clock.
LEMMA CutoffMoves ==
  ASSUME now \in Nat, Tick
  PROVE  Cutoff \in Int /\ Cutoff' \in Int /\ Cutoff <= Cutoff'
<1> PICK m, n : m = now - CompactAfter /\ n = now' - CompactAfter
  OBVIOUS
<1> DEFINE p == DayBucket(m)
           q == DayBucket(n)
<1>1. DayLength \in Nat \ {0}
  BY LengthAssumption
<1>2. m \in Int /\ n \in Int /\ m <= n
  BY RetentionAssumption DEF Tick
<1>3. Cutoff = p * DayLength /\ Cutoff' = q * DayLength
  BY DEF Cutoff, DayBucket
<1>4. p \in Int /\ q \in Int /\ p <= q
  BY <1>1, <1>2, QuotientsAreOrdered, QuotientBounds DEF DayBucket
<1> HIDE DEF p, q
<1>5. p * DayLength \in Int /\ q * DayLength \in Int
  BY <1>1, <1>4
<1>6. p < q => p * DayLength <= q * DayLength
  BY <1>1, <1>4, <1>5, MultiplesAreOrdered
<1>7. p * DayLength <= q * DayLength
  BY <1>4, <1>5, <1>6
<1> QED
  BY <1>3, <1>5, <1>7

LEMMA TickKeeps ==
  ASSUME RInv, Tick
  PROVE  RInv'
<1> USE DEF RInv
<1>1. /\ now' = now + 1
      /\ UNCHANGED <<newest, log, raw, daily, monthly, projectDaily, projectMonthly, floor>>
  BY DEF Tick
<1>2. Cutoff \in Int /\ Cutoff' \in Int /\ Cutoff <= Cutoff'
  BY CutoffMoves DEF Keyed
<1>3. Keyed'
  BY <1>1 DEF Keyed
<1>4. RawIsTheLatest'
  BY <1>1, <1>2 DEF RawIsTheLatest, Keyed
<1>5. DailyIsRight'
  BY <1>1 DEF DailyIsRight, Produced
<1>6. ProjectDailyIsRight' /\ ProjectMonthlyIsRight'
  BY <1>1 DEF ProjectDailyIsRight, ProjectMonthlyIsRight, Produced
<1> QED
  BY <1>3, <1>4, <1>5, <1>6

LEMMA InitIsRight == Init => RInv
<1> SUFFICES ASSUME Init PROVE RInv
  OBVIOUS
<1>1. DOMAIN <<>> = {}
  OBVIOUS
<1>2. Keyed
  BY <1>1 DEF Init, Keyed
<1>3. RawIsTheLatest
  BY <1>1 DEF Init, RawIsTheLatest
<1>4. DailyIsRight
  BY <1>1 DEF Init, DailyIsRight
<1>5. ProjectDailyIsRight /\ ProjectMonthlyIsRight
  BY <1>1 DEF Init, ProjectDailyIsRight, ProjectMonthlyIsRight
<1> QED
  BY <1>2, <1>3, <1>4, <1>5 DEF RInv

LEMMA StaysRight == RawOutlivesLag /\ RInv /\ [Next]_vars => RInv'
<1> SUFFICES ASSUME RawOutlivesLag, RInv, [Next]_vars PROVE RInv'
  OBVIOUS
<1>1. CASE WriteCycle
  BY <1>1, WriteKeeps
<1>2. CASE Compact
  BY <1>2, CompactKeeps
<1>3. CASE Tick
  BY <1>3, TickKeeps
<1>4. CASE UNCHANGED vars
  BY <1>4 DEF vars, RInv, Keyed, RawIsTheLatest, Cutoff, DailyIsRight, ProjectDailyIsRight,
              ProjectMonthlyIsRight, Produced
<1> QED
  BY <1>1, <1>2, <1>3, <1>4 DEF Next

\* While the deltas of a day outlive the lag, every bucket that was written is
\* what its times made.
THEOREM BucketsAreRight == RawOutlivesLag => (Spec => []RInv)
<1> SUFFICES ASSUME RawOutlivesLag PROVE Spec => []RInv
  OBVIOUS
<1>1. Init => RInv
  BY InitIsRight
<1>2. RInv /\ [Next]_vars => RInv'
  BY StaysRight
<1> QED
  BY <1>1, <1>2, PTL DEF Spec

-----------------------------------------------------------------------------
(* The months of the entities, which are summed from days that are pruned. *)

\* Days of a month are less than a month apart.
LEMMA MonthIsShort ==
  ASSUME NEW d \in Int, NEW e \in Int, MonthBucket(d) = MonthBucket(e)
  PROVE  /\ e * DayLength \in Int /\ d * DayLength \in Int /\ (MonthLength - 1) * DayLength \in Int
         /\ e * DayLength <= d * DayLength + (MonthLength - 1) * DayLength
<1>1. DayLength \in Nat \ {0} /\ MonthLength \in Nat \ {0}
  BY LengthAssumption
<1>2. PICK m \in Int : m = MonthBucket(d) /\ m = MonthBucket(e)
  BY MonthOfDay
<1>3. m * MonthLength \in Int /\ m * MonthLength <= d /\ e < m * MonthLength + MonthLength
  BY <1>1, <1>2, QuotientIs DEF MonthBucket
<1>4. e <= d + (MonthLength - 1)
  BY <1>1, <1>3
<1> PICK k \in Int : k = d + (MonthLength - 1)
  BY <1>1
<1>5. k * DayLength = d * DayLength + (MonthLength - 1) * DayLength
  BY <1>1
<1>6. e * DayLength \in Int /\ d * DayLength \in Int /\ k * DayLength \in Int
      /\ (MonthLength - 1) * DayLength \in Int
  BY <1>1
<1>7. e = k \/ e * DayLength + DayLength <= k * DayLength
  BY <1>1, <1>4, MultiplesAreOrdered
<1> QED
  BY <1>1, <1>5, <1>6, <1>7

\* No day is pruned of a month that a cycle may still fall into.
LEMMA MonthIsKept ==
  ASSUME DailyOutlivesMonth, RInv, FloorIsOld, NEW t, NEW moved, Written(t, moved),
         NEW s \in Nat, MonthBucket(DayBucket(s)) = MonthBucket(DayBucket(t))
  PROVE  DayBucket(s) >= floor
<1>1. t \in Nat /\ now \in Nat /\ floor \in Nat /\ t >= now - MaxLag
  BY LogGrows DEF RInv, Keyed, Written
<1>2. DayLength \in Nat \ {0} /\ MaxLag \in Nat /\ KeepDaily \in Nat /\ MonthLength \in Nat \ {0}
  BY LengthAssumption, RetentionAssumption
<1> PICK d, e : d = DayBucket(s) /\ e = DayBucket(t)
  OBVIOUS
<1>3. /\ d \in Int /\ e \in Int
      /\ d * DayLength \in Int /\ s < d * DayLength + DayLength
      /\ e * DayLength \in Int /\ t < e * DayLength + DayLength
  BY <1>1, <1>2, QuotientBounds DEF DayBucket
<1>4. CASE floor = 0
  <2>1. 0 \div DayLength = 0
    BY <1>2
  <2>2. d >= 0
    BY <1>2, <1>3, <2>1, QuotientsAreOrdered DEF DayBucket
  <2> QED
    BY <1>4, <2>2
<1>5. CASE floor # 0
  <2> PICK n, f : n = now - KeepDaily /\ f = DayBucket(n)
    OBVIOUS
  <2>1. n \in Int /\ f \in Int /\ f * DayLength \in Int /\ f * DayLength <= n
    BY <1>1, <1>2, QuotientBounds DEF DayBucket
  <2>2. floor <= f /\ KeepDaily # 0
    BY <1>5 DEF FloorIsOld
  <2> PICK m : m = (MonthLength - 1) * DayLength
    OBVIOUS
  <2>3. m \in Int /\ e * DayLength <= d * DayLength + m
    BY <1>3, MonthIsShort
  <2>4. n + m <= t
    BY <1>1, <1>2, <2>2, <2>3 DEF DailyOutlivesMonth
  <2>5. ASSUME d < f PROVE FALSE
    <3>1. d * DayLength + DayLength <= f * DayLength
      BY <1>2, <1>3, <2>1, <2>5, MultiplesAreOrdered
    <3> QED
      BY <1>1, <1>2, <1>3, <2>1, <2>3, <2>4, <3>1
  <2> QED
    BY <1>1, <1>3, <2>1, <2>2, <2>5
<1> QED
  BY <1>4, <1>5

\* The month that is written is right again, and others stay so.
LEMMA MonthlyStays ==
  ASSUME RawOutlivesLag, DailyOutlivesMonth, RInv, MInv, NEW t, NEW moved, Written(t, moved)
  PROVE  /\ \A g \in DOMAIN monthly' : monthly'[g] = Amount(log', {g[1]}, MonthTimes(g[2]))
         /\ \A k \in DOMAIN log' : <<k[1], MonthBucket(DayBucket(k[2]))>> \in DOMAIN monthly'
<1> USE DEF RInv, MInv
<1>1. PICK month \in Int : month = MonthBucket(DayBucket(t))
  BY DayOfTime, MonthOfDay, LogGrows
<1>2. PICK L, D : L = log' /\ D = daily'
  OBVIOUS
<1>3. PICK rows : rows = SumByEntity(D, DaysOf(month), month)
  OBVIOUS
<1>4. monthly' = Upsert(monthly, rows)
  BY <1>1, <1>2, <1>3 DEF Written, RollupCycle, MonthlyRows
<1>5. /\ t \in Nat /\ Ledger(log') /\ DOMAIN log' \subseteq Ids \X (0..t)
      /\ \A k \in DOMAIN log' : k \in DOMAIN log \/ k[2] = t
      /\ \A k \in DOMAIN log : k \in DOMAIN log'
  BY LogGrows
<1>6. /\ DOMAIN daily' \subseteq Ids \X Int
      /\ \A g \in DOMAIN daily' : daily'[g] = Amount(log', {g[1]}, TimesOf(g[2]))
      /\ \A k \in DOMAIN log' :
           DayBucket(k[2]) >= floor => <<k[1], DayBucket(k[2])>> \in DOMAIN daily'
  BY DailyStays
<1>7. ASSUME NEW k \in DOMAIN log', MonthBucket(DayBucket(k[2])) = month
      PROVE  <<k[1], DayBucket(k[2])>> \in DOMAIN daily'
  <2>1. k[2] \in Nat
    BY <1>5
  <2>2. DayBucket(k[2]) >= floor
    BY <1>1, <1>7, <2>1, MonthIsKept
  <2> QED
    BY <1>6, <2>2
<1>8. /\ Ledger(L) /\ DOMAIN D \subseteq Ids \X Int
      /\ \A g \in DOMAIN D : D[g] = Amount(L, {g[1]}, TimesOf(g[2]))
      /\ \A k \in DOMAIN L :
           DayBucket(k[2]) \in DaysOf(month) => <<k[1], DayBucket(k[2])>> \in DOMAIN D
  <2>1. \A k \in DOMAIN log' :
          DayBucket(k[2]) \in DaysOf(month) <=> MonthBucket(DayBucket(k[2])) = month
    BY <1>5, DayOfTime, MonthOfDay
  <2> QED
    BY <1>2, <1>5, <1>6, <1>7, <2>1
<1>9. ASSUME NEW g \in DOMAIN rows
      PROVE  g[2] = month /\ rows[g] = Amount(log', {g[1]}, MonthTimes(g[2]))
  <2>1. g[1] \in Ids /\ g[2] = month
    BY <1>3, <1>8 DEF SumByEntity
  <2>2. rows[g] = Amount(D, {g[1]}, DaysOf(month))
    BY <1>3, ByEntity
  <2>3. Amount(D, {g[1]}, DaysOf(month)) = Amount(L, {g[1]}, MonthTimes(month))
    BY <1>8, <2>1, MonthFromDays
  <2> QED
    BY <1>2, <2>1, <2>2, <2>3
<1>10. ASSUME NEW k \in DOMAIN log', MonthBucket(DayBucket(k[2])) = month
       PROVE  <<k[1], month>> \in DOMAIN rows
  <2>1. DayBucket(k[2]) \in DaysOf(month)
    BY <1>5, <1>10, DayOfTime, MonthOfDay
  <2> QED
    <3> PICK x : x = <<k[1], DayBucket(k[2])>>
      OBVIOUS
    <3>1. x \in DOMAIN D /\ x[2] \in DaysOf(month) /\ <<x[1], month>> = <<k[1], month>>
      BY <1>2, <1>7, <1>10, <2>1
    <3>2. DOMAIN rows = {<<y[1], month>> : y \in {z \in DOMAIN D : z[2] \in DaysOf(month)}}
      BY <1>3 DEF SumByEntity
    <3> QED
      BY <3>1, <3>2
<1>11. /\ DOMAIN monthly' = DOMAIN monthly \cup DOMAIN rows
       /\ \A g \in DOMAIN rows : monthly'[g] = rows[g]
       /\ \A g \in DOMAIN monthly \ DOMAIN rows : monthly'[g] = monthly[g]
  BY <1>4 DEF Upsert
<1>12. ASSUME NEW g \in DOMAIN monthly'
       PROVE  monthly'[g] = Amount(log', {g[1]}, MonthTimes(g[2]))
  <2>1. CASE g \in DOMAIN rows
    BY <1>9, <1>11, <2>1
  <2>2. CASE g \notin DOMAIN rows
    <3>1. g \in DOMAIN monthly /\ g[1] \in Ids /\ g[2] \in Int /\ g = <<g[1], g[2]>>
      BY <1>11, <2>2 DEF Keyed
    <3>2. monthly'[g] = Amount(log, {g[1]}, MonthTimes(g[2]))
      BY <1>11, <2>2, <3>1 DEF MonthlyIsRight, Produced, Amount, Entries
    <3>3. CASE t \notin MonthTimes(g[2])
      BY <3>2, <3>3, OtherTimes
    <3>4. CASE t \in MonthTimes(g[2])
      <4>1. g[2] = month
        BY <1>1, <1>5, <3>1, <3>4, MonthOfTime
      <4>2. \A k \in DOMAIN log' : ~(k[1] \in {g[1]} /\ k[2] \in MonthTimes(g[2]))
        <5>1. SUFFICES ASSUME NEW k \in DOMAIN log', k[1] = g[1], k[2] \in MonthTimes(g[2])
                       PROVE  FALSE
          OBVIOUS
        <5>2. MonthBucket(DayBucket(k[2])) = month
          BY <1>5, <3>1, <4>1, <5>1, MonthOfTime
        <5> QED
          BY <1>10, <2>2, <3>1, <4>1, <5>1, <5>2
      <4>3. \A k \in DOMAIN log : ~(k[1] \in {g[1]} /\ k[2] \in MonthTimes(g[2]))
        BY <1>5, <4>2
      <4> QED
        BY <3>2, <4>2, <4>3, NothingIsMade
    <3> QED
      BY <3>3, <3>4
  <2> QED
    BY <2>1, <2>2
<1>13. ASSUME NEW k \in DOMAIN log'
       PROVE  <<k[1], MonthBucket(DayBucket(k[2]))>> \in DOMAIN monthly'
  <2>1. CASE MonthBucket(DayBucket(k[2])) = month
    BY <1>10, <1>11, <2>1
  <2>2. CASE MonthBucket(DayBucket(k[2])) # month
    BY <1>1, <1>5, <1>11, <2>2 DEF MonthlyIsRight
  <2> QED
    BY <2>1, <2>2
<1> QED
  BY <1>12, <1>13

LEMMA MonthsStayRight ==
  RawOutlivesLag /\ DailyOutlivesMonth /\ RInv /\ MInv /\ [Next]_vars => MInv'
<1> SUFFICES ASSUME RawOutlivesLag, DailyOutlivesMonth, RInv, MInv, [Next]_vars PROVE MInv'
  OBVIOUS
<1>1. now \in Nat /\ floor \in Nat
  BY DEF RInv, Keyed
<1>2. CASE WriteCycle
  <2> PICK t, moved : Written(t, moved)
    BY <1>2, WriteIsWritten
  <2>1. MonthlyIsRight'
    BY MonthlyStays DEF MonthlyIsRight, Produced, Amount, Entries
  <2>2. FloorIsOld'
    BY DEF Written, MInv, FloorIsOld
  <2> QED
    BY <2>1, <2>2 DEF MInv
<1>3. CASE Compact
  <2>1. MonthlyIsRight'
    BY <1>3 DEF Compact, MInv, MonthlyIsRight, Produced
  <2>2. FloorIsOld'
    <3> PICK f : f = DayBucket(now - KeepDaily)
      OBVIOUS
    <3>1. f \in Int
      BY <1>1, DayOfTime, RetentionAssumption
    <3>2. now' = now /\ floor' = IF (IF KeepDaily = 0 THEN 0 ELSE f) > floor
                                 THEN (IF KeepDaily = 0 THEN 0 ELSE f) ELSE floor
      BY <1>3 DEF Compact
    <3> QED
      BY <1>1, <3>1, <3>2 DEF MInv, FloorIsOld
  <2> QED
    BY <2>1, <2>2 DEF MInv
<1>4. CASE Tick
  <2>1. MonthlyIsRight'
    BY <1>4 DEF Tick, MInv, MonthlyIsRight, Produced
  <2>2. FloorIsOld'
    <3> PICK m, n : m = now - KeepDaily /\ n = now' - KeepDaily
      OBVIOUS
    <3>1. m \in Int /\ n \in Int /\ m <= n
      BY <1>1, <1>4, RetentionAssumption DEF Tick
    <3>2. DayBucket(m) \in Int /\ DayBucket(n) \in Int /\ DayBucket(m) <= DayBucket(n)
      BY <3>1, LengthAssumption, QuotientsAreOrdered, QuotientBounds DEF DayBucket
    <3>3. floor = 0 \/ (KeepDaily # 0 /\ floor <= DayBucket(m))
      BY DEF MInv, FloorIsOld
    <3>4. floor = 0 \/ (KeepDaily # 0 /\ floor <= DayBucket(n))
      BY <1>1, <3>2, <3>3
    <3>5. floor' = floor
      BY <1>4 DEF Tick
    <3> QED
      BY <3>4, <3>5 DEF FloorIsOld
  <2> QED
    BY <2>1, <2>2 DEF MInv
<1>5. CASE UNCHANGED vars
  BY <1>5 DEF vars, MInv, FloorIsOld, MonthlyIsRight, Produced
<1> QED
  BY <1>2, <1>3, <1>4, <1>5 DEF Next

LEMMA MonthsAreRight == RawOutlivesLag /\ DailyOutlivesMonth => (Spec => [](RInv /\ MInv))
<1> SUFFICES ASSUME RawOutlivesLag, DailyOutlivesMonth PROVE Spec => [](RInv /\ MInv)
  OBVIOUS
<1>1. Init => RInv /\ MInv
  <2>1. DOMAIN <<>> = {}
    OBVIOUS
  <2>2. Init => MInv
    BY <2>1 DEF Init, MInv, FloorIsOld, MonthlyIsRight
  <2> QED
    BY <2>2, InitIsRight
<1>2. RInv /\ MInv /\ [Next]_vars => (RInv /\ MInv)'
  BY StaysRight, MonthsStayRight
<1> QED
  BY <1>1, <1>2, PTL DEF Spec

-----------------------------------------------------------------------------
(* The theorems. *)

\* A row that is there is right, and where there is none nothing was made.
LEMMA HoldsWhatIsMade ==
  ASSUME NEW T, NEW key, NEW made,
         key \in DOMAIN T => T[key] = made, key \notin DOMAIN T => made = 0
  PROVE  Holds(T, key) = made
BY DEF Holds

LEMMA ProducedIsAmount ==
  ASSUME NEW ids, NEW times
  PROVE  Produced(ids, times) = Amount(log, ids, times)
BY DEF Produced, Amount, Entries

\* In every state that can be reached, a daily bucket that retention still keeps is
\* what its entity made that day (Compact and rollupCycle of history.go), for any
\* retention of raw deltas that outlives the lag of cycles.
THEOREM DailyBuckets == RawOutlivesLag => (Spec => []DailyIsWhole)
<1> SUFFICES ASSUME RawOutlivesLag PROVE Spec => []DailyIsWhole
  OBVIOUS
<1>1. RInv => DailyIsWhole
  <2> SUFFICES ASSUME RInv, NEW id \in Ids, NEW day \in Days, day >= floor
               PROVE  Holds(daily, <<id, day>>) = Produced({id}, TimesOf(day))
    BY DEF DailyIsWhole
  <2>1. day \in Int
    BY DEF Days
  <2>2. ASSUME <<id, day>> \in DOMAIN daily
        PROVE  daily[<<id, day>>] = Produced({id}, TimesOf(day))
    BY <2>2 DEF RInv, DailyIsRight
  <2>3. ASSUME <<id, day>> \notin DOMAIN daily
        PROVE  Produced({id}, TimesOf(day)) = 0
    <3>1. ASSUME NEW k \in DOMAIN log, k[1] \in {id}, k[2] \in TimesOf(day) PROVE FALSE
      <4>1. DayBucket(k[2]) = day
        BY <2>1, <3>1, DayOfTime DEF RInv, Keyed
      <4> QED
        BY <2>3, <3>1, <4>1 DEF RInv, DailyIsRight
    <3> QED
      BY <3>1, NothingIsMade, ProducedIsAmount
  <2> QED
    BY <2>2, <2>3, HoldsWhatIsMade
<1> QED
  BY <1>1, BucketsAreRight, PTL

\* The project's days and months are what all the entities made in them, and stay
\* so while the buckets they were summed from are pruned (rollupCycle of
\* history.go).
THEOREM ProjectBuckets == RawOutlivesLag => (Spec => []ProjectIsTheSumOfTeams)
<1> SUFFICES ASSUME RawOutlivesLag PROVE Spec => []ProjectIsTheSumOfTeams
  OBVIOUS
<1>1. RInv => ProjectIsTheSumOfTeams
  <2> SUFFICES ASSUME RInv PROVE ProjectIsTheSumOfTeams
    OBVIOUS
  <2>1. ASSUME NEW day \in Days PROVE Holds(projectDaily, day) = Produced(Ids, TimesOf(day))
    <3>1. day \in Int
      BY DEF Days
    <3>2. ASSUME day \in DOMAIN projectDaily
          PROVE  projectDaily[day] = Produced(Ids, TimesOf(day))
      BY <3>2 DEF RInv, ProjectDailyIsRight
    <3>3. ASSUME day \notin DOMAIN projectDaily PROVE Produced(Ids, TimesOf(day)) = 0
      <4>1. ASSUME NEW k \in DOMAIN log, k[2] \in TimesOf(day) PROVE FALSE
        <5>1. DayBucket(k[2]) = day
          BY <3>1, <4>1, DayOfTime DEF RInv, Keyed
        <5> QED
          BY <3>3, <5>1 DEF RInv, ProjectDailyIsRight
      <4> QED
        BY <4>1, NothingIsMade, ProducedIsAmount
    <3> QED
      BY <3>2, <3>3, HoldsWhatIsMade
  <2>2. ASSUME NEW month \in Months
        PROVE  Holds(projectMonthly, month) = Produced(Ids, MonthTimes(month))
    <3>1. month \in Int
      BY DEF Months
    <3>2. ASSUME month \in DOMAIN projectMonthly
          PROVE  projectMonthly[month] = Produced(Ids, MonthTimes(month))
      BY <3>2 DEF RInv, ProjectMonthlyIsRight
    <3>3. ASSUME month \notin DOMAIN projectMonthly
          PROVE  Produced(Ids, MonthTimes(month)) = 0
      <4>1. ASSUME NEW k \in DOMAIN log, k[2] \in MonthTimes(month) PROVE FALSE
        <5>1. MonthBucket(DayBucket(k[2])) = month
          BY <3>1, <4>1, MonthOfTime DEF RInv, Keyed
        <5> QED
          BY <3>3, <5>1 DEF RInv, ProjectMonthlyIsRight
      <4> QED
        BY <4>1, NothingIsMade, ProducedIsAmount
    <3> QED
      BY <3>2, <3>3, HoldsWhatIsMade
  <2> QED
    BY <2>1, <2>2 DEF ProjectIsTheSumOfTeams
<1> QED
  BY <1>1, BucketsAreRight, PTL

\* A month of an entity keeps all that was made in it while its days are pruned
\* (Compact of history.go), for any retention of daily buckets that outlives the
\* months of late cycles.
THEOREM MonthlyBuckets == RawOutlivesLag /\ DailyOutlivesMonth => (Spec => []MonthlyIsWhole)
<1> SUFFICES ASSUME RawOutlivesLag, DailyOutlivesMonth PROVE Spec => []MonthlyIsWhole
  OBVIOUS
<1>1. RInv /\ MInv => MonthlyIsWhole
  <2> SUFFICES ASSUME RInv, MInv, NEW id \in Ids, NEW month \in Months
               PROVE  Holds(monthly, <<id, month>>) = Produced({id}, MonthTimes(month))
    BY DEF MonthlyIsWhole
  <2>1. month \in Int
    BY DEF Months
  <2>2. ASSUME <<id, month>> \in DOMAIN monthly
        PROVE  monthly[<<id, month>>] = Produced({id}, MonthTimes(month))
    BY <2>2 DEF MInv, MonthlyIsRight
  <2>3. ASSUME <<id, month>> \notin DOMAIN monthly
        PROVE  Produced({id}, MonthTimes(month)) = 0
    <3>1. ASSUME NEW k \in DOMAIN log, k[1] \in {id}, k[2] \in MonthTimes(month) PROVE FALSE
      <4>1. MonthBucket(DayBucket(k[2])) = month
        BY <2>1, <3>1, MonthOfTime DEF RInv, Keyed
      <4> QED
        BY <2>3, <3>1, <4>1 DEF MInv, MonthlyIsRight
    <3> QED
      BY <3>1, NothingIsMade, ProducedIsAmount
  <2> QED
    BY <2>2, <2>3, HoldsWhatIsMade
<1> QED
  BY <1>1, MonthsAreRight, PTL

-----------------------------------------------------------------------------
(* Windows: what is held of the cycles that were committed. *)

Moves == UNION {[D -> Int] : D \in SUBSET Slots}
StoredCycles == [at : Nat \ {0}, deltas : Moves, fresh : Nat]
HeldCycles == [at : Nat, deltas : Moves, count : Nat]
Tallies == [Slots -> Int]
Windows ==
  [cycles : Seq(HeldCycles), idx24 : Nat, size : Nat,
   last24 : Tallies, last7d : Tallies, today : Tallies, week : Tallies, update : Tallies,
   prev : SUBSET Slots, at : Nat, firstAt : Nat, dayStart : Int, weekStart : Int]

\* A log of cycles is in the order of their time.
Logged(L) == L \in Seq(StoredCycles) /\ \A i, j \in 1..Len(L) : i < j => L[i].at < L[j].at

\* Indexes of cycles of a log.
Within(L, I) == I \subseteq 1..Len(L)

\* What a cycle moves a slot by is a number.
LEMMA MovedIsInt ==
  ASSUME NEW D \in Moves, NEW s
  PROVE  Moved(D, s) \in Int
BY DEF Moves, Moved

LEMMA LoggedCycle ==
  ASSUME NEW L, Logged(L), NEW i \in 1..Len(L)
  PROVE  /\ L[i] \in StoredCycles
         /\ L[i].at \in Nat \ {0} /\ L[i].deltas \in Moves /\ L[i].fresh \in Nat
<1>1. L[i] \in StoredCycles
  BY DEF Logged
<1> QED
  BY <1>1 DEF StoredCycles

\* The sum over no cycle, over one more, and over those that others leave.
LEMMA MadeOfNone ==
  ASSUME NEW L, NEW s
  PROVE  Made(L, {}, s) = 0
BY SumEmpty DEF Made

LEMMA MadeSum ==
  ASSUME NEW L, Logged(L), NEW I, Within(L, I), NEW s
  PROVE  /\ Made(L, I, s) \in Int
         /\ \A i \in I : Made(L, I, s) = Moved(L[i].deltas, s) + Made(L, I \ {i}, s)
         /\ \A J \in SUBSET I : Made(L, I, s) = Made(L, J, s) + Made(L, I \ J, s)
<1> DEFINE f == [i \in I |-> Moved(L[i].deltas, s)]
           On(J) == [i \in J |-> Moved(L[i].deltas, s)]
<1>1. IsFiniteSet(I) /\ \A i \in I : f[i] \in Int
  <2>1. IsFiniteSet(1..Len(L))
    <3>1. Len(L) \in Int /\ 1 \in Int
      BY DEF Logged
    <3> QED
      BY <3>1, FS_Interval
  <2>2. ASSUME NEW i \in I PROVE f[i] \in Int
    BY LoggedCycle, MovedIsInt DEF Within
  <2>3. IsFiniteSet(I)
    BY <2>1, FS_Subset DEF Within
  <2> QED
    BY <2>2, <2>3
<1>2. ASSUME NEW J \in SUBSET I
      PROVE  Made(L, J, s) = SumFunctionOnSet(f, J)
  <2>1. IsFiniteSet(J) /\ \A x \in J : On(J)[x] = f[x]
    BY <1>1, FS_Subset
  <2> HIDE DEF f, On
  <2>2. SumFunctionOnSet(On(J), J) = SumFunctionOnSet(f, J)
    BY <2>1, SumOfEquals
  <2> QED
    BY <2>2 DEF Made, On
<1>3. \A i \in I : f[i] = Moved(L[i].deltas, s)
  OBVIOUS
<1> HIDE DEF f
<1>4. SumFunctionOnSet(f, I) \in Int
  BY <1>1, SumIsInt
<1>5. ASSUME NEW i \in I
      PROVE  Made(L, I, s) = Moved(L[i].deltas, s) + Made(L, I \ {i}, s)
  <2>1. SumFunctionOnSet(f, I) = f[i] + SumFunctionOnSet(f, I \ {i})
    BY <1>1, SumTakeOut
  <2>2. Made(L, I, s) = SumFunctionOnSet(f, I) /\ Made(L, I \ {i}, s) = SumFunctionOnSet(f, I \ {i})
    BY <1>2
  <2> QED
    BY <1>3, <2>1, <2>2
<1>6. ASSUME NEW J \in SUBSET I
      PROVE  Made(L, I, s) = Made(L, J, s) + Made(L, I \ J, s)
  <2>1. SumFunctionOnSet(f, I) = SumFunctionOnSet(f, J) + SumFunctionOnSet(f, I \ J)
    <3>1. \A T \in SUBSET I :
            SumFunctionOnSet(f, I) = SumFunctionOnSet(f, T) + SumFunctionOnSet(f, I \ T)
      BY <1>1, SumSplits
    <3> QED
      BY <3>1
  <2>2. /\ Made(L, I, s) = SumFunctionOnSet(f, I) /\ Made(L, J, s) = SumFunctionOnSet(f, J)
        /\ Made(L, I \ J, s) = SumFunctionOnSet(f, I \ J)
    BY <1>2
  <2> QED
    BY <2>1, <2>2
<1> QED
  BY <1>2, <1>4, <1>5, <1>6

\* A sum is of the cycles at its indexes only.
LEMMA MadeAgrees ==
  ASSUME NEW L, NEW M, NEW I, \A i \in I : L[i].deltas = M[i].deltas, NEW s
  PROVE  Made(L, I, s) = Made(M, I, s)
<1>1. [i \in I |-> Moved(L[i].deltas, s)] = [i \in I |-> Moved(M[i].deltas, s)]
  OBVIOUS
<1> QED
  BY <1>1 DEF Made

\* The same sum, of cycles that were moved by d.
LEMMA MadeMoved ==
  ASSUME NEW C, NEW L, Logged(L), NEW d \in Nat, NEW a \in Nat, NEW b \in Nat,
         d + b <= Len(L), \A i \in 1..b : C[i].deltas = L[d + i].deltas, NEW s
  PROVE  Made(C, (a + 1)..b, s) = Made(L, (d + a + 1)..(d + b), s)
<1> DEFINE I == (a + 1)..b
           J == (d + a + 1)..(d + b)
           f == [i \in I |-> Moved(C[i].deltas, s)]
           h == [i \in J |-> Moved(L[i].deltas, s)]
<1>1. ASSUME NEW i \in I PROVE f[i] \in Int /\ h[d + i] = f[i]
  <2>1. d + i \in J /\ d + i \in 1..Len(L) /\ i \in 1..b
    BY DEF Logged
  <2>2. Moved(L[d + i].deltas, s) \in Int
    BY <2>1, LoggedCycle, MovedIsInt
  <2>3. C[i].deltas = L[d + i].deltas
    BY <2>1
  <2> QED
    BY <2>1, <2>2, <2>3
<1> HIDE DEF f, h
<1>2. SumFunctionOnSet(f, I) = SumFunctionOnSet(h, J)
  BY <1>1, SumMoved
<1> QED
  BY <1>2 DEF Made, f, h

\* The days and the weeks follow each other, and are no longer than they are.
LEMMA Quotients ==
  ASSUME NEW a \in Int, NEW b \in Int, NEW d \in Nat \ {0}, a <= b
  PROVE  /\ a \div d \in Int
         /\ a \div d <= b \div d
         /\ a \div d = b \div d => b - a < d
<1>1. /\ a \div d \in Int /\ b \div d \in Int
      /\ (a \div d) * d <= a /\ b < (b \div d) * d + d
  OBVIOUS
<1>2. a \div d <= b \div d
  OBVIOUS
<1>3. a \div d = b \div d => b - a < d
  BY <1>1
<1> QED
  BY <1>1, <1>2, <1>3

\* Times in one day, or one week, are less than that apart.
LEMMA Calendars ==
  ASSUME NEW t \in Nat, NEW u \in Nat, t <= u
  PROVE  /\ DayOf(t) \in Int /\ WeekOf(t) \in Int
         /\ DayOf(t) <= DayOf(u) /\ WeekOf(t) <= WeekOf(u)
         /\ DayOf(t) = DayOf(u) => u - t < Day
         /\ WeekOf(t) = WeekOf(u) => u - t < WeekSpan
<1>1. Day \in Nat \ {0} /\ WeekSpan \in Nat \ {0} /\ WeekOffset \in Nat
  BY SpanAssumption
<1>2. t + WeekOffset \in Int /\ u + WeekOffset \in Int /\ t + WeekOffset <= u + WeekOffset
  BY <1>1
<1>3. DayOf(t) \in Int /\ DayOf(t) <= DayOf(u) /\ (DayOf(t) = DayOf(u) => u - t < Day)
  BY <1>1, Quotients DEF DayOf
<1>4. /\ WeekOf(t) \in Int /\ WeekOf(t) <= WeekOf(u)
      /\ WeekOf(t) = WeekOf(u) => (u + WeekOffset) - (t + WeekOffset) < WeekSpan
  BY <1>1, <1>2, Quotients DEF WeekOf
<1> QED
  BY <1>1, <1>3, <1>4

-----------------------------------------------------------------------------
(* How many entities the cycles bring. *)

LEMMA BroughtSum ==
  ASSUME NEW L, Logged(L), NEW I, Within(L, I)
  PROVE  /\ Brought(L, I) \in Nat
         /\ \A J \in SUBSET I : Brought(L, I) = Brought(L, J) + Brought(L, I \ J)
         /\ \A i \in I : Brought(L, I) = L[i].fresh + Brought(L, I \ {i})
<1> DEFINE f == [i \in I |-> L[i].fresh]
           On(J) == [i \in J |-> L[i].fresh]
<1>1. IsFiniteSet(I) /\ \A i \in I : f[i] \in Nat /\ f[i] \in Int
  <2>1. IsFiniteSet(1..Len(L))
    <3>1. Len(L) \in Int /\ 1 \in Int
      BY DEF Logged
    <3> QED
      BY <3>1, FS_Interval
  <2>2. ASSUME NEW i \in I PROVE f[i] \in Nat /\ f[i] \in Int
    BY LoggedCycle DEF Within
  <2>3. IsFiniteSet(I)
    BY <2>1, FS_Subset DEF Within
  <2> QED
    BY <2>2, <2>3
<1>2. ASSUME NEW J \in SUBSET I
      PROVE  Brought(L, J) = SumFunctionOnSet(f, J)
  <2>1. IsFiniteSet(J) /\ \A x \in J : On(J)[x] = f[x]
    BY <1>1, FS_Subset
  <2> HIDE DEF f, On
  <2>2. SumFunctionOnSet(On(J), J) = SumFunctionOnSet(f, J)
    BY <2>1, SumOfEquals
  <2> QED
    BY <2>2 DEF Brought, On
<1>3. \A i \in I : f[i] = L[i].fresh
  OBVIOUS
<1> HIDE DEF f
<1>4. SumFunctionOnSet(f, I) \in Nat
  BY <1>1, SumIsNat
<1>5. ASSUME NEW J \in SUBSET I
      PROVE  Brought(L, I) = Brought(L, J) + Brought(L, I \ J)
  <2>1. SumFunctionOnSet(f, I) = SumFunctionOnSet(f, J) + SumFunctionOnSet(f, I \ J)
    <3>1. \A T \in SUBSET I :
            SumFunctionOnSet(f, I) = SumFunctionOnSet(f, T) + SumFunctionOnSet(f, I \ T)
      BY <1>1, SumSplits
    <3> QED
      BY <3>1
  <2>2. /\ Brought(L, I) = SumFunctionOnSet(f, I) /\ Brought(L, J) = SumFunctionOnSet(f, J)
        /\ Brought(L, I \ J) = SumFunctionOnSet(f, I \ J)
    BY <1>2
  <2> QED
    BY <2>1, <2>2
<1>6. ASSUME NEW i \in I
      PROVE  Brought(L, I) = L[i].fresh + Brought(L, I \ {i})
  <2>1. SumFunctionOnSet(f, I) = f[i] + SumFunctionOnSet(f, I \ {i})
    BY <1>1, SumTakeOut
  <2>2. Brought(L, I) = SumFunctionOnSet(f, I) /\ Brought(L, I \ {i}) = SumFunctionOnSet(f, I \ {i})
    BY <1>2
  <2> QED
    BY <1>3, <2>1, <2>2
<1> QED
  BY <1>2, <1>4, <1>5, <1>6

\* Each cycle adds what it brings.
LEMMA BroughtNext ==
  ASSUME NEW L, Logged(L), NEW k \in 0..(Len(L) - 1)
  PROVE  /\ Brought(L, 1..k) \in Nat
         /\ Brought(L, 1..(k + 1)) = Brought(L, 1..k) + L[k + 1].fresh
         /\ Brought(L, 1..k) <= Brought(L, 1..(k + 1))
<1>1. Len(L) \in Nat
  BY DEF Logged
<1> DEFINE I == 1..(k + 1)
<1>2. /\ Within(L, I) /\ Within(L, 1..k)
      /\ k + 1 \in I /\ k + 1 \in 1..Len(L) /\ I \ {k + 1} = 1..k
  BY <1>1 DEF Within
<1>3. L[k + 1].fresh \in Nat
  BY <1>2, LoggedCycle
<1> HIDE DEF I
<1>4. Brought(L, I) = L[k + 1].fresh + Brought(L, 1..k) /\ Brought(L, 1..k) \in Nat
  <2> DEFINE J == 1..k
             i == k + 1
  <2>1. i \in I /\ I \ {i} = J /\ Within(L, I) /\ Within(L, J)
    BY <1>2
  <2> HIDE DEF i, J
  <2>2. Brought(L, I) = L[i].fresh + Brought(L, I \ {i})
    BY <2>1, BroughtSum
  <2>3. Brought(L, J) \in Nat
    BY <2>1, BroughtSum
  <2>4. Brought(L, I) = L[i].fresh + Brought(L, J)
    BY <2>1, <2>2, Zenon
  <2> QED
    BY <2>3, <2>4, Zenon DEF i, J
<1>5. Brought(L, I) = Brought(L, 1..k) + L[k + 1].fresh /\ Brought(L, 1..k) <= Brought(L, I)
  <2>1. PICK a \in Nat : a = Brought(L, 1..k)
    BY <1>4
  <2>2. PICK b \in Nat : b = L[k + 1].fresh
    BY <1>3
  <2>3. b + a = a + b /\ a <= a + b
    OBVIOUS
  <2> QED
    BY <1>4, <2>1, <2>2, <2>3, Zenon
<1> QED
  BY <1>4, <1>5, Zenon DEF I

LEMMA BroughtAgrees ==
  ASSUME NEW L, NEW M, NEW I, \A i \in I : L[i].fresh = M[i].fresh
  PROVE  Brought(L, I) = Brought(M, I)
<1>1. [i \in I |-> L[i].fresh] = [i \in I |-> M[i].fresh]
  OBVIOUS
<1> QED
  BY <1>1 DEF Brought

LEMMA BroughtMoved ==
  ASSUME NEW C, NEW L, Logged(L), NEW d \in Nat, NEW a \in Nat, NEW b \in Nat,
         d + b <= Len(L), \A i \in 1..b : C[i].fresh = L[d + i].fresh
  PROVE  Brought(C, (a + 1)..b) = Brought(L, (d + a + 1)..(d + b))
<1> DEFINE I == (a + 1)..b
           J == (d + a + 1)..(d + b)
           f == [i \in I |-> C[i].fresh]
           h == [i \in J |-> L[i].fresh]
<1>1. ASSUME NEW i \in I PROVE f[i] \in Int /\ h[d + i] = f[i]
  <2>1. d + i \in J /\ d + i \in 1..Len(L) /\ i \in 1..b
    BY DEF Logged
  <2>2. L[d + i].fresh \in Int
    BY <2>1, LoggedCycle
  <2>3. C[i].fresh = L[d + i].fresh
    BY <2>1
  <2> QED
    BY <2>1, <2>2, <2>3
<1> HIDE DEF f, h
<1>2. SumFunctionOnSet(f, I) = SumFunctionOnSet(h, J)
  BY <1>1, SumMoved
<1> QED
  BY <1>2 DEF Brought, f, h

-----------------------------------------------------------------------------
(* What a window is added and what it is subtracted. *)

LEMMA MadeWithNext ==
  ASSUME NEW L, Logged(L), NEW h \in 0..(Len(L) - 1), NEW I \in SUBSET (1..h), NEW s
  PROVE  Made(L, I \cup {h + 1}, s) = Made(L, I, s) + Moved(L[h + 1].deltas, s)
<1>1. Len(L) \in Nat
  BY DEF Logged
<1> DEFINE J == I \cup {h + 1}
<1>2. Within(L, J) /\ h + 1 \in J /\ J \ {h + 1} = I /\ Within(L, I)
      /\ h + 1 \in 1..Len(L)
  BY <1>1 DEF Within
<1> HIDE DEF J
<1>3. Made(L, J, s) = Moved(L[h + 1].deltas, s) + Made(L, I, s) /\ Made(L, I, s) \in Int
  <2>1. \A i \in J : Made(L, J, s) = Moved(L[i].deltas, s) + Made(L, J \ {i}, s)
    BY <1>2, MadeSum
  <2>2. Made(L, I, s) \in Int
    BY <1>2, MadeSum
  <2> QED
    BY ONLY <1>2, <2>1, <2>2
<1>4. Moved(L[h + 1].deltas, s) \in Int
  BY <1>2, LoggedCycle, MovedIsInt
<1> QED
  BY <1>3, <1>4 DEF J

LEMMA MadeWithout ==
  ASSUME NEW L, Logged(L), NEW h \in 0..Len(L), NEW a \in 0..h, NEW b \in a..h, NEW s
  PROVE  /\ Made(L, (a + 1)..h, s) - Made(L, (a + 1)..b, s) = Made(L, (b + 1)..h, s)
         /\ Made(L, (a + 1)..h, s) \in Int
<1>1. Len(L) \in Nat
  BY DEF Logged
<1> DEFINE I == (a + 1)..h
           J == (a + 1)..b
           K == (b + 1)..h
<1>2. /\ Within(L, I) /\ Within(L, J) /\ Within(L, K)
      /\ J \in SUBSET I /\ I \ J = K
  BY <1>1 DEF Within
<1> HIDE DEF I, J, K
<1>3. /\ Made(L, I, s) = Made(L, J, s) + Made(L, K, s)
      /\ Made(L, I, s) \in Int
  <2>1. /\ Made(L, I, s) \in Int
        /\ \A T \in SUBSET I : Made(L, I, s) = Made(L, T, s) + Made(L, I \ T, s)
    BY <1>2, MadeSum
  <2>2. J \in SUBSET I
    BY <1>2
  <2> QED
    BY ONLY <1>2, <2>1, <2>2
<1>4. Made(L, J, s) \in Int /\ Made(L, K, s) \in Int
  BY <1>2, MadeSum
<1> QED
  BY <1>3, <1>4 DEF I, J, K

\* Where the loop of expire stops.
LEMMA AgedOutIs ==
  ASSUME NEW C, Len(C) \in Nat, \A i \in 1..Len(C) : C[i].at \in Int,
         NEW from \in 0..Len(C), NEW cut \in Int
  PROVE  LET n == AgedOut(C, from, cut)
         IN /\ n \in from..Len(C)
            /\ \A i \in (from + 1)..n : C[i].at <= cut
            /\ n < Len(C) => C[n + 1].at > cut
<1> DEFINE S == {n \in from..Len(C) : n < Len(C) => C[n + 1].at > cut}
<1>1. S \in SUBSET Nat /\ Len(C) \in S
  OBVIOUS
<1> HIDE DEF S
<1>2. PICK m \in S : \A k \in S : m <= k
  BY <1>1, Least
<1> USE DEF S
<1>3. ASSUME NEW i \in (from + 1)..m PROVE C[i].at <= cut
  <2>1. i - 1 \in from..Len(C) /\ i - 1 < m /\ i - 1 < Len(C) /\ (i - 1) + 1 = i
        /\ i \in 1..Len(C)
    BY <1>2
  <2>2. i - 1 \notin S
    BY <1>2, <2>1
  <2>3. ~(C[i].at > cut) /\ C[i].at \in Int
    BY <2>1, <2>2
  <2> QED
    BY <2>3
<1>4. /\ m \in from..Len(C)
      /\ \A i \in (from + 1)..m : C[i].at <= cut
      /\ m < Len(C) => C[m + 1].at > cut
  BY <1>2, <1>3
<1> HIDE DEF S
<1> QED
  BY <1>4 DEF AgedOut

-----------------------------------------------------------------------------
(* What each step of a push does to the fields of a window. *)

LEMMA AddIs ==
  ASSUME NEW array \in Tallies, NEW D \in Moves
  PROVE  /\ Add(array, D) \in Tallies
         /\ \A s \in Slots : Add(array, D)[s] = array[s] + Moved(D, s)
BY MovedIsInt DEF Add, Tallies

LEMMA ZeroIs ==
  ASSUME NEW array \in Tallies, NEW slots
  PROVE  /\ Zero(array, slots) \in Tallies
         /\ \A s \in Slots : Zero(array, slots)[s] = IF s \in slots THEN 0 ELSE array[s]
BY DEF Zero, Tallies

\* The calendar windows start again with their period, and the cycle's own
\* production with every cycle.
Recorded(x, w, t, D) ==
  /\ x \in Windows
  /\ x.cycles = Append(w.cycles, [at |-> t, deltas |-> D, count |-> w.size])
  /\ x.idx24 = w.idx24 /\ x.size = w.size /\ x.at = t /\ x.prev = DOMAIN D
  /\ x.dayStart = DayOf(t) /\ x.weekStart = WeekOf(t)
  /\ \A s \in Slots :
       /\ x.last24[s] = w.last24[s] + Moved(D, s)
       /\ x.last7d[s] = w.last7d[s] + Moved(D, s)
       /\ x.today[s] = (IF DayOf(t) = w.dayStart THEN w.today[s] ELSE 0) + Moved(D, s)
       /\ x.week[s] = (IF WeekOf(t) = w.weekStart THEN w.week[s] ELSE 0) + Moved(D, s)
       /\ x.update[s] = (IF s \in w.prev \cup DOMAIN D THEN 0 ELSE w.update[s]) + Moved(D, s)

LEMMA RecordIs ==
  ASSUME NEW w \in Windows, NEW t \in Nat \ {0}, NEW D \in Moves
  PROVE  Recorded(Record(w, t, D), w, t, D)
<1> DEFINE x == Record(w, t, D)
           cycle == [at |-> t, deltas |-> D, count |-> w.size]
           today == IF DayOf(t) = w.dayStart THEN w.today ELSE Zero(w.today, Slots)
           week == IF WeekOf(t) = w.weekStart THEN w.week ELSE Zero(w.week, Slots)
           update == Zero(w.update, w.prev \cup DOMAIN D)
<1>1. /\ w.last24 \in Tallies /\ w.last7d \in Tallies /\ w.today \in Tallies
      /\ w.week \in Tallies /\ w.update \in Tallies
      /\ w.cycles \in Seq(HeldCycles) /\ w.size \in Nat /\ w.prev \in SUBSET Slots
      /\ w.firstAt \in Nat
  BY DEF Windows
<1>2. /\ today \in Tallies
      /\ \A s \in Slots : today[s] = IF DayOf(t) = w.dayStart THEN w.today[s] ELSE 0
  BY <1>1, ZeroIs
<1>3. /\ week \in Tallies
      /\ \A s \in Slots : week[s] = IF WeekOf(t) = w.weekStart THEN w.week[s] ELSE 0
  BY <1>1, ZeroIs
<1>4. /\ update \in Tallies
      /\ \A s \in Slots : update[s] = IF s \in w.prev \cup DOMAIN D THEN 0 ELSE w.update[s]
  BY <1>1, ZeroIs
<1>5. DOMAIN D \in SUBSET Slots /\ DayOf(t) \in Int /\ WeekOf(t) \in Int
  BY Calendars DEF Moves
<1>6. Append(w.cycles, cycle) \in Seq(HeldCycles)
  BY <1>1 DEF HeldCycles
<1> HIDE DEF cycle, today, week, update
<1>7. x = [w EXCEPT
             !.firstAt = IF w.firstAt = 0 THEN t ELSE w.firstAt,
             !.dayStart = DayOf(t),
             !.weekStart = WeekOf(t),
             !.last24 = Add(w.last24, D),
             !.last7d = Add(w.last7d, D),
             !.today = Add(today, D),
             !.week = Add(week, D),
             !.update = Add(update, D),
             !.cycles = Append(w.cycles, cycle),
             !.prev = DOMAIN D,
             !.at = t]
  BY Zenon DEF Record, today, week, update, cycle
<1> HIDE DEF x
<1>8. /\ x.cycles = Append(w.cycles, cycle) /\ x.idx24 = w.idx24 /\ x.size = w.size
      /\ x.at = t /\ x.prev = DOMAIN D /\ x.dayStart = DayOf(t) /\ x.weekStart = WeekOf(t)
      /\ x.firstAt = IF w.firstAt = 0 THEN t ELSE w.firstAt
      /\ x.last24 = Add(w.last24, D) /\ x.last7d = Add(w.last7d, D)
      /\ x.today = Add(today, D) /\ x.week = Add(week, D) /\ x.update = Add(update, D)
  BY <1>7 DEF Windows
<1>9. /\ Add(w.last24, D) \in Tallies /\ Add(w.last7d, D) \in Tallies
      /\ Add(today, D) \in Tallies /\ Add(week, D) \in Tallies /\ Add(update, D) \in Tallies
  BY <1>1, <1>2, <1>3, <1>4, AddIs
<1>10. x \in Windows
  BY <1>1, <1>5, <1>6, <1>7, <1>9 DEF Windows
<1>11. ASSUME NEW s \in Slots
       PROVE  /\ x.last24[s] = w.last24[s] + Moved(D, s)
              /\ x.last7d[s] = w.last7d[s] + Moved(D, s)
              /\ x.today[s] = today[s] + Moved(D, s)
              /\ x.week[s] = week[s] + Moved(D, s)
              /\ x.update[s] = update[s] + Moved(D, s)
  BY <1>1, <1>2, <1>3, <1>4, <1>8, AddIs
<1> QED
  BY <1>2, <1>3, <1>4, <1>8, <1>10, <1>11 DEF x, cycle, Recorded

\* The oldest cycles of the day leave it, and those of the week the window.
Left24(x, w, n) ==
  /\ x \in Windows
  /\ x.cycles = w.cycles /\ x.idx24 = n /\ x.size = w.size /\ x.at = w.at
  /\ x.prev = w.prev /\ x.dayStart = w.dayStart /\ x.weekStart = w.weekStart
  /\ x.last7d = w.last7d /\ x.today = w.today /\ x.week = w.week
  /\ x.update = w.update
  /\ \A s \in Slots :
       x.last24[s] = w.last24[s] - Made(w.cycles, (w.idx24 + 1)..n, s)

LEMMA Expire24Is ==
  ASSUME NEW w \in Windows, NEW n \in Nat, n = AgedOut(w.cycles, w.idx24, w.at - Day),
         \A s \in Slots : Made(w.cycles, (w.idx24 + 1)..n, s) \in Int
  PROVE  Left24(Expire24(w), w, n)
<1> DEFINE x == Expire24(w)
           left == SubtractAll(w.last24, w.cycles, (w.idx24 + 1)..n)
<1>1. /\ left \in Tallies
      /\ \A s \in Slots : left[s] = w.last24[s] - Made(w.cycles, (w.idx24 + 1)..n, s)
  <2>1. w.last24 \in Tallies
    BY DEF Windows
  <2> QED
    BY <2>1 DEF SubtractAll, Tallies
<1>2. x = [w EXCEPT !.last24 = left, !.idx24 = n]
  BY Zenon DEF Expire24, left
<1> HIDE DEF x, left
<1>3. x \in Windows
  BY <1>1, <1>2 DEF Windows
<1>4. /\ x.cycles = w.cycles /\ x.idx24 = n /\ x.size = w.size /\ x.at = w.at
      /\ x.prev = w.prev /\ x.dayStart = w.dayStart /\ x.weekStart = w.weekStart
      /\ x.last7d = w.last7d /\ x.today = w.today /\ x.week = w.week
      /\ x.update = w.update /\ x.last24 = left
  BY <1>2 DEF Windows
<1> QED
  BY <1>1, <1>3, <1>4 DEF x, Left24

Left7d(x, w, n) ==
  /\ x \in Windows
  /\ Len(x.cycles) = Len(w.cycles) - n
  /\ \A i \in 1..(Len(w.cycles) - n) : x.cycles[i] = w.cycles[n + i]
  /\ x.idx24 = (IF w.idx24 < n THEN 0 ELSE w.idx24 - n)
  /\ x.size = w.size /\ x.at = w.at
  /\ x.prev = w.prev /\ x.dayStart = w.dayStart /\ x.weekStart = w.weekStart
  /\ x.last24 = w.last24 /\ x.today = w.today /\ x.week = w.week
  /\ x.update = w.update
  /\ \A s \in Slots : x.last7d[s] = w.last7d[s] - Made(w.cycles, 1..n, s)

LEMMA Expire7dIs ==
  ASSUME NEW w \in Windows, NEW n \in 0..Len(w.cycles),
         n = AgedOut(w.cycles, 0, w.at - WeekSpan),
         \A s \in Slots : Made(w.cycles, 1..n, s) \in Int
  PROVE  Left7d(Expire7d(w), w, n)
<1> DEFINE x == Expire7d(w)
           left == SubtractAll(w.last7d, w.cycles, 1..n)
           kept == SubSeq(w.cycles, n + 1, Len(w.cycles))
           idx == IF w.idx24 < n THEN 0 ELSE w.idx24 - n
<1>1. /\ left \in Tallies
      /\ \A s \in Slots : left[s] = w.last7d[s] - Made(w.cycles, 1..n, s)
  <2>1. w.last7d \in Tallies
    BY DEF Windows
  <2> QED
    BY <2>1 DEF SubtractAll, Tallies
<1>2. w.cycles \in Seq(HeldCycles) /\ w.idx24 \in Nat /\ Len(w.cycles) \in Nat
  BY DEF Windows
<1>3. /\ kept \in Seq(HeldCycles) /\ Len(kept) = Len(w.cycles) - n
      /\ \A i \in 1..(Len(w.cycles) - n) : kept[i] = w.cycles[n + i]
  BY <1>2
<1>4. idx \in Nat
  BY <1>2
<1>5. x = [w EXCEPT !.last7d = left, !.cycles = kept, !.idx24 = idx]
  BY Zenon DEF Expire7d, left, kept, idx
<1> HIDE DEF x, left, kept, idx
<1>6. x \in Windows
  BY <1>1, <1>3, <1>4, <1>5 DEF Windows
<1>7. /\ x.cycles = kept /\ x.idx24 = idx /\ x.size = w.size /\ x.at = w.at
      /\ x.prev = w.prev /\ x.dayStart = w.dayStart /\ x.weekStart = w.weekStart
      /\ x.last24 = w.last24 /\ x.today = w.today /\ x.week = w.week
      /\ x.update = w.update /\ x.last7d = left
  BY <1>5 DEF Windows
<1> QED
  BY <1>1, <1>3, <1>6, <1>7 DEF x, idx, Left7d

-----------------------------------------------------------------------------
(* What a window is of a log, whose cycles after lo and up to hi it was      *)
(* pushed: the week is of those after d, and the day of those after e.       *)

DayCycles(L, lo, hi, day) == {i \in (lo + 1)..hi : DayOf(L[i].at) = day}
WeekCycles(L, lo, hi, week) == {i \in (lo + 1)..hi : WeekOf(L[i].at) = week}

Calendar(w, L, lo, hi) ==
  /\ \A s \in Slots :
       /\ w.today[s] = Made(L, DayCycles(L, lo, hi, w.dayStart), s)
       /\ w.week[s] = Made(L, WeekCycles(L, lo, hi, w.weekStart), s)
       /\ w.update[s] = IF hi = lo THEN 0 ELSE Moved(L[hi].deltas, s)
  /\ hi = lo => w.at = 0 /\ w.prev = {}
  /\ hi # lo => /\ w.at = L[hi].at /\ w.prev = DOMAIN L[hi].deltas
               /\ w.dayStart = DayOf(w.at) /\ w.weekStart = WeekOf(w.at)

Carries(w, L, hi, d) ==
  /\ Len(w.cycles) = hi - d
  /\ \A i \in 1..(hi - d) :
       /\ w.cycles[i].at = L[d + i].at /\ w.cycles[i].deltas = L[d + i].deltas
       /\ w.cycles[i].count = Brought(L, 1..(d + i))

HeldFrom(w, L, hi, d, e) ==
  /\ Carries(w, L, hi, d)
  /\ w.idx24 = e - d
  /\ \A s \in Slots :
       /\ w.last24[s] = Made(L, (e + 1)..hi, s)
       /\ w.last7d[s] = Made(L, (d + 1)..hi, s)

\* d is between the cycles up to a cutoff and those after it.
Older(L, lo, d, cut) == \A i \in (lo + 1)..d : L[i].at <= cut
Newer(L, d, hi, cut) == \A i \in (d + 1)..hi : L[i].at > cut

Edges(w, L, lo, hi, d, e) ==
  /\ Older(L, lo, d, w.at - WeekSpan) /\ Newer(L, d, hi, w.at - WeekSpan)
  /\ Older(L, lo, e, w.at - Day) /\ Newer(L, e, hi, w.at - Day)

Right(w, L, lo, hi) ==
  /\ w \in Windows
  /\ Calendar(w, L, lo, hi)
  /\ \E d \in lo..hi : \E e \in d..hi : HeldFrom(w, L, hi, d, e) /\ Edges(w, L, lo, hi, d, e)

\* The cycles of a period that has ended are none of the next.
LEMMA NextPeriod ==
  ASSUME NEW L, Logged(L), NEW lo \in Nat, NEW hi \in lo..(Len(L) - 1),
         NEW w \in Windows, Calendar(w, L, lo, hi), NEW s \in Slots
  PROVE  LET t == L[hi + 1].at
         IN /\ (IF DayOf(t) = w.dayStart THEN w.today[s] ELSE 0)
                 = Made(L, DayCycles(L, lo, hi, DayOf(t)), s)
            /\ (IF WeekOf(t) = w.weekStart THEN w.week[s] ELSE 0)
                 = Made(L, WeekCycles(L, lo, hi, WeekOf(t)), s)
<1> DEFINE t == L[hi + 1].at
<1>1. Len(L) \in Nat /\ hi \in Nat /\ hi + 1 \in 1..Len(L)
  BY DEF Logged
<1>2. ASSUME NEW i \in (lo + 1)..hi
      PROVE  /\ DayOf(L[i].at) \in Int /\ DayOf(t) \in Int
             /\ DayOf(L[i].at) <= w.dayStart /\ w.dayStart <= DayOf(t)
             /\ WeekOf(L[i].at) \in Int /\ WeekOf(t) \in Int
             /\ WeekOf(L[i].at) <= w.weekStart /\ w.weekStart <= WeekOf(t)
  <2>1. i \in 1..Len(L) /\ hi \in 1..Len(L) /\ (i < hi \/ i = hi) /\ hi < hi + 1 /\ hi # lo
    BY <1>1
  <2>2. L[i].at \in Nat /\ L[hi].at \in Nat /\ t \in Nat
    BY <1>1, <2>1, LoggedCycle
  <2>3. L[i].at <= L[hi].at /\ L[hi].at <= t
    BY <1>1, <2>1, <2>2 DEF Logged
  <2>4. w.dayStart = DayOf(L[hi].at) /\ w.weekStart = WeekOf(L[hi].at)
    BY <2>1 DEF Calendar
  <2> HIDE DEF t
  <2>5. /\ DayOf(L[i].at) \in Int /\ DayOf(L[i].at) <= DayOf(L[hi].at)
        /\ WeekOf(L[i].at) \in Int /\ WeekOf(L[i].at) <= WeekOf(L[hi].at)
    BY <2>2, <2>3, Calendars
  <2>6. /\ DayOf(t) \in Int /\ DayOf(L[hi].at) <= DayOf(t)
        /\ WeekOf(t) \in Int /\ WeekOf(L[hi].at) <= WeekOf(t)
    <3>1. DayOf(L[hi].at) <= DayOf(t) /\ WeekOf(L[hi].at) <= WeekOf(t)
      BY <2>2, <2>3, Calendars
    <3>2. t <= t
      BY <2>2
    <3>3. DayOf(t) \in Int /\ WeekOf(t) \in Int
      BY <2>2, <3>2, Calendars
    <3> QED
      BY <3>1, <3>3
  <2> QED
    BY <2>4, <2>5, <2>6
<1>3. w.dayStart \in Int /\ w.weekStart \in Int
  BY DEF Windows
<1> HIDE DEF t
<1>4. DayOf(t) # w.dayStart => DayCycles(L, lo, hi, DayOf(t)) = {}
  <2>1. ASSUME NEW i \in (lo + 1)..hi, DayOf(t) # w.dayStart
        PROVE  DayOf(L[i].at) # DayOf(t)
    <3>1. /\ DayOf(L[i].at) \in Int /\ DayOf(t) \in Int
          /\ DayOf(L[i].at) <= w.dayStart /\ w.dayStart <= DayOf(t)
      BY <1>2
    <3> QED
      BY ONLY <1>3, <2>1, <3>1
  <2> QED
    BY <2>1, Zenon DEF DayCycles
<1>5. WeekOf(t) # w.weekStart => WeekCycles(L, lo, hi, WeekOf(t)) = {}
  <2>1. ASSUME NEW i \in (lo + 1)..hi, WeekOf(t) # w.weekStart
        PROVE  WeekOf(L[i].at) # WeekOf(t)
    <3>1. /\ WeekOf(L[i].at) \in Int /\ WeekOf(t) \in Int
          /\ WeekOf(L[i].at) <= w.weekStart /\ w.weekStart <= WeekOf(t)
      BY <1>2
    <3> QED
      BY ONLY <1>3, <2>1, <3>1
  <2> QED
    BY <2>1, Zenon DEF WeekCycles
<1>6. /\ w.today[s] = Made(L, DayCycles(L, lo, hi, w.dayStart), s)
      /\ w.week[s] = Made(L, WeekCycles(L, lo, hi, w.weekStart), s)
  BY DEF Calendar
<1> QED
  BY <1>4, <1>5, <1>6, MadeOfNone DEF t

LEMMA RecordKeepsCalendar ==
  ASSUME NEW L, Logged(L), NEW lo \in Nat, NEW hi \in lo..(Len(L) - 1),
         NEW w \in Windows, Calendar(w, L, lo, hi)
  PROVE  Calendar(Record(w, L[hi + 1].at, L[hi + 1].deltas), L, lo, hi + 1)
<1> DEFINE t == L[hi + 1].at
           D == L[hi + 1].deltas
           x == Record(w, t, D)
<1>1. Len(L) \in Nat /\ hi \in Nat /\ hi + 1 \in 1..Len(L) /\ hi \in 0..(Len(L) - 1)
      /\ hi + 1 # lo
  BY DEF Logged
<1>2. t \in Nat \ {0} /\ D \in Moves
  BY <1>1, LoggedCycle
<1> HIDE DEF t, D
<1>3. Recorded(x, w, t, D)
  BY <1>2, RecordIs
<1> HIDE DEF x
<1>4. ASSUME NEW s \in Slots
      PROVE  /\ x.today[s] = Made(L, DayCycles(L, lo, hi + 1, x.dayStart), s)
             /\ x.week[s] = Made(L, WeekCycles(L, lo, hi + 1, x.weekStart), s)
             /\ x.update[s] = Moved(D, s)
  <2> DEFINE I == DayCycles(L, lo, hi, DayOf(t))
             J == WeekCycles(L, lo, hi, WeekOf(t))
  <2>1. /\ I \in SUBSET (1..hi) /\ J \in SUBSET (1..hi)
        /\ DayCycles(L, lo, hi + 1, DayOf(t)) = I \cup {hi + 1}
        /\ WeekCycles(L, lo, hi + 1, WeekOf(t)) = J \cup {hi + 1}
    BY <1>1 DEF DayCycles, WeekCycles, t
  <2> HIDE DEF I, J
  <2>2. Made(L, I \cup {hi + 1}, s) = Made(L, I, s) + Moved(D, s)
    BY <1>1, <2>1, MadeWithNext DEF D
  <2>3. Made(L, J \cup {hi + 1}, s) = Made(L, J, s) + Moved(D, s)
    BY <1>1, <2>1, MadeWithNext DEF D
  <2>4. /\ x.today[s] = Made(L, I, s) + Moved(D, s)
        /\ x.week[s] = Made(L, J, s) + Moved(D, s)
    BY <1>3, NextPeriod DEF I, J, t, Recorded
  <2>5. x.update[s] = Moved(D, s)
    <3>1. Moved(D, s) \in Int
      BY <1>2, MovedIsInt
    <3>2. s \notin w.prev => w.update[s] = 0
      BY DEF Calendar, Moved
    <3> QED
      BY <1>3, <3>1, <3>2 DEF Recorded
  <2> QED
    BY <1>3, <2>1, <2>2, <2>3, <2>4, <2>5 DEF Recorded
<1> QED
  BY <1>1, <1>3, <1>4 DEF Calendar, t, D, x, Recorded

LEMMA RecordKeepsHeld ==
  ASSUME NEW L, Logged(L), NEW hi \in 0..(Len(L) - 1), NEW d \in 0..hi, NEW e \in d..hi,
         NEW w \in Windows, HeldFrom(w, L, hi, d, e), w.size = Brought(L, 1..(hi + 1)),
         NEW x, Recorded(x, w, L[hi + 1].at, L[hi + 1].deltas)
  PROVE  HeldFrom(x, L, hi + 1, d, e)
<1> DEFINE c == [at |-> L[hi + 1].at, deltas |-> L[hi + 1].deltas, count |-> w.size]
<1>1. Len(L) \in Nat /\ hi \in Nat /\ d \in Nat /\ e \in Nat /\ d + ((hi + 1) - d) = hi + 1
  BY DEF Logged
<1>2. w.cycles \in Seq(HeldCycles) /\ Len(w.cycles) = hi - d
  BY DEF Windows, HeldFrom, Carries
<1>3. Len(x.cycles) = (hi + 1) - d
  BY <1>1, <1>2 DEF Recorded
<1>4. ASSUME NEW i \in 1..((hi + 1) - d)
      PROVE  /\ x.cycles[i].at = L[d + i].at /\ x.cycles[i].deltas = L[d + i].deltas
             /\ x.cycles[i].count = Brought(L, 1..(d + i))
  <2>1. x.cycles = Append(w.cycles, c)
    BY DEF Recorded
  <2>2. CASE i \in 1..(hi - d)
    <3>1. x.cycles[i] = w.cycles[i]
      BY <1>1, <1>2, <2>1, <2>2
    <3> QED
      BY <2>2, <3>1 DEF HeldFrom, Carries
  <2>3. CASE i = (hi + 1) - d
    <3>1. x.cycles[i] = c
      BY <1>1, <1>2, <2>1, <2>3
    <3>2. d + i = hi + 1
      BY <1>1, <2>3
    <3> QED
      BY <3>1, <3>2
  <2> QED
    BY <1>1, <2>2, <2>3
<1>5. ASSUME NEW s \in Slots
      PROVE  /\ x.last24[s] = Made(L, (e + 1)..(hi + 1), s)
             /\ x.last7d[s] = Made(L, (d + 1)..(hi + 1), s)
  <2> DEFINE I == (e + 1)..hi
             J == (d + 1)..hi
  <2>1. /\ I \in SUBSET (1..hi) /\ J \in SUBSET (1..hi)
        /\ (e + 1)..(hi + 1) = I \cup {hi + 1} /\ (d + 1)..(hi + 1) = J \cup {hi + 1}
    BY <1>1
  <2>2. w.last24[s] = Made(L, I, s) /\ w.last7d[s] = Made(L, J, s)
    BY DEF HeldFrom
  <2> HIDE DEF I, J
  <2>3. Made(L, I \cup {hi + 1}, s) = Made(L, I, s) + Moved(L[hi + 1].deltas, s)
    BY <2>1, MadeWithNext
  <2>4. Made(L, J \cup {hi + 1}, s) = Made(L, J, s) + Moved(L[hi + 1].deltas, s)
    BY <2>1, MadeWithNext
  <2>5. /\ x.last24[s] = w.last24[s] + Moved(L[hi + 1].deltas, s)
        /\ x.last7d[s] = w.last7d[s] + Moved(L[hi + 1].deltas, s)
    BY DEF Recorded
  <2> QED
    BY <2>1, <2>2, <2>3, <2>4, <2>5
<1>6. x.idx24 = e - d
  BY DEF Recorded, HeldFrom
<1> QED
  BY <1>3, <1>4, <1>5, <1>6 DEF HeldFrom, Carries

\* Where the cycles that a window holds are divided by a cutoff, its log is.
LEMMA EdgeIs ==
  ASSUME NEW L, Logged(L), NEW hi \in 0..Len(L), NEW d \in 0..hi, NEW e \in d..hi,
         NEW lo \in 0..d, NEW w \in Windows, Carries(w, L, hi, d), NEW cut \in Int,
         Older(L, lo, e, cut), NEW n, n = AgedOut(w.cycles, e - d, cut)
  PROVE  /\ n \in (e - d)..(hi - d)
         /\ Older(L, lo, d + n, cut) /\ Newer(L, d + n, hi, cut)
<1>1. Len(L) \in Nat /\ hi \in Nat /\ d \in Nat /\ e \in Nat
  BY DEF Logged
<1>2. Len(w.cycles) = hi - d
  BY DEF Carries
<1>3. ASSUME NEW i \in 1..(hi - d)
      PROVE  d + i \in 1..Len(L) /\ w.cycles[i].at = L[d + i].at /\ w.cycles[i].at \in Int
  <2>1. d + i \in 1..Len(L)
    BY <1>1
  <2> QED
    BY <2>1, LoggedCycle DEF Carries
<1>4. e - d \in 0..Len(w.cycles) /\ Len(w.cycles) \in Nat
  BY <1>1, <1>2
<1>5. /\ n \in (e - d)..Len(w.cycles)
      /\ \A i \in (e - d + 1)..n : w.cycles[i].at <= cut
      /\ n < Len(w.cycles) => w.cycles[n + 1].at > cut
  <2>1. \A i \in 1..Len(w.cycles) : w.cycles[i].at \in Int
    BY <1>2, <1>3
  <2> DEFINE from == e - d
  <2>2. from \in 0..Len(w.cycles) /\ n = AgedOut(w.cycles, from, cut)
    BY <1>4
  <2> HIDE DEF from
  <2>3. /\ n \in from..Len(w.cycles)
        /\ \A i \in (from + 1)..n : w.cycles[i].at <= cut
        /\ n < Len(w.cycles) => w.cycles[n + 1].at > cut
    BY <1>4, <2>1, <2>2, AgedOutIs
  <2> QED
    BY <2>3 DEF from
<1>6. n \in Nat /\ n <= hi - d /\ n >= e - d
  BY <1>1, <1>2, <1>5
<1>7. ASSUME NEW i \in (lo + 1)..(d + n)
      PROVE  L[i].at <= cut
  <2>1. CASE i <= e
    BY <1>1, <2>1 DEF Older
  <2>2. CASE ~(i <= e)
    <3>1. i - d \in (e - d + 1)..n /\ i - d \in 1..(hi - d) /\ d + (i - d) = i
      BY <1>1, <1>6, <2>2
    <3>2. w.cycles[i - d].at = L[i].at
      BY <1>3, <3>1
    <3> QED
      BY <1>5, <3>1, <3>2
  <2> QED
    BY <2>1, <2>2
<1>8. ASSUME NEW i \in (d + n + 1)..hi
      PROVE  L[i].at > cut
  <2>1. PICK k \in Nat : k = d + n + 1
    BY <1>1, <1>6
  <2>2. k <= i /\ i <= hi /\ i \in Int /\ k = d + (n + 1)
    BY <1>1, <1>6, <2>1
  <2>3. /\ n < Len(w.cycles) /\ n + 1 \in 1..(hi - d)
        /\ i \in 1..Len(L) /\ k \in 1..Len(L) /\ (k < i \/ k = i)
    <3>1. n < Len(w.cycles) /\ n + 1 \in 1..(hi - d)
      BY ONLY <1>1, <1>2, <1>6, <2>2, k \in Nat
    <3>2. 1 <= k /\ i \in 1..Len(L) /\ k \in 1..Len(L)
      BY ONLY <1>1, <1>2, <1>6, <2>2, k \in Nat, hi \in 0..Len(L)
    <3> QED
      BY ONLY <2>2, <3>1, <3>2, k \in Nat
  <2>4. L[k].at > cut
    BY <1>3, <1>5, <2>2, <2>3
  <2>5. L[i].at \in Int /\ L[k].at \in Int
    BY <2>3, LoggedCycle
  <2>6. CASE k < i
    <3>1. L[k].at < L[i].at
      BY <2>3, <2>6 DEF Logged
    <3> QED
      BY ONLY <2>4, <2>5, <3>1, cut \in Int
  <2>7. CASE k = i
    BY <2>4, <2>7
  <2> QED
    BY <2>3, <2>6, <2>7
<1> QED
  BY <1>2, <1>5, <1>7, <1>8 DEF Older, Newer

\* The sum over cycles that a window holds is over cycles of its log.
LEMMA HeldMade ==
  ASSUME NEW L, Logged(L), NEW hi \in 0..Len(L), NEW d \in 0..hi, NEW w, Carries(w, L, hi, d),
         NEW a \in 0..(hi - d), NEW n \in 0..(hi - d), NEW s
  PROVE  Made(w.cycles, (a + 1)..n, s) = Made(L, (d + a + 1)..(d + n), s)
<1> DEFINE C == w.cycles
<1>1. Len(L) \in Nat /\ hi \in Nat /\ d \in Nat /\ a \in Nat /\ n \in Nat /\ d + n <= Len(L)
  BY DEF Logged
<1>2. \A i \in 1..n : C[i].deltas = L[d + i].deltas
  <2> SUFFICES ASSUME NEW i \in 1..n
               PROVE  C[i].deltas = L[d + i].deltas
    OBVIOUS
  <2>1. i \in 1..(hi - d)
    BY <1>1
  <2> QED
    BY <2>1 DEF Carries
<1> HIDE DEF C
<1>3. Made(C, (a + 1)..n, s) = Made(L, (d + a + 1)..(d + n), s)
  BY ONLY <1>1, <1>2, Logged(L), MadeMoved
<1> QED
  BY <1>3 DEF C

LEMMA DayLeaves ==
  ASSUME NEW L, Logged(L), NEW hi \in 0..Len(L), NEW d \in 0..hi, NEW e \in d..hi,
         NEW lo \in 0..d, NEW w \in Windows, HeldFrom(w, L, hi, d, e),
         Older(L, lo, e, w.at - Day)
  PROVE  \E n \in (e - d)..(hi - d) :
           /\ Left24(Expire24(w), w, n)
           /\ HeldFrom(Expire24(w), L, hi, d, d + n)
           /\ Older(L, lo, d + n, w.at - Day) /\ Newer(L, d + n, hi, w.at - Day)
<1> DEFINE n == AgedOut(w.cycles, e - d, w.at - Day)
<1>1. Len(L) \in Nat /\ hi \in Nat /\ d \in Nat /\ e \in Nat
  BY DEF Logged
<1>2. w.at - Day \in Int
  BY SpanAssumption DEF Windows
<1> HIDE DEF n
<1>3. /\ n \in (e - d)..(hi - d)
      /\ Older(L, lo, d + n, w.at - Day) /\ Newer(L, d + n, hi, w.at - Day)
  <2> DEFINE cut == w.at - Day
  <2>1. cut \in Int /\ Older(L, lo, e, cut) /\ n = AgedOut(w.cycles, e - d, cut)
    BY <1>2 DEF n
  <2>2. Carries(w, L, hi, d)
    BY DEF HeldFrom
  <2> HIDE DEF cut
  <2>3. /\ n \in (e - d)..(hi - d)
        /\ Older(L, lo, d + n, cut) /\ Newer(L, d + n, hi, cut)
    BY <2>1, <2>2, EdgeIs
  <2> QED
    BY <2>3 DEF cut
<1>4. PICK f \in e..hi : f = d + n
  BY <1>1, <1>3
<1>5. ASSUME NEW s \in Slots
      PROVE  /\ Made(w.cycles, (w.idx24 + 1)..n, s) = Made(L, (e + 1)..f, s)
             /\ Made(L, (e + 1)..f, s) \in Int
             /\ Made(L, (e + 1)..hi, s) - Made(L, (e + 1)..f, s) = Made(L, (f + 1)..hi, s)
  <2>1. PICK a \in Nat : a = e - d
    BY <1>1
  <2>2. /\ n \in 0..(hi - d) /\ a \in 0..(hi - d)
        /\ w.idx24 = a /\ d + a + 1 = e + 1 /\ Carries(w, L, hi, d)
    BY <1>1, <1>3, <2>1 DEF HeldFrom
  <2>4. Made(w.cycles, (a + 1)..n, s) = Made(L, (d + a + 1)..(d + n), s)
    BY <2>2, HeldMade
  <2>5. /\ e \in 0..f /\ f \in 0..Len(L) /\ hi \in 0..Len(L) /\ e \in 0..hi
        /\ f \in e..f /\ f \in e..hi
    BY <1>1, <1>4
  <2>6. Made(L, (e + 1)..f, s) \in Int
    BY <2>5, MadeWithout
  <2>7. Made(L, (e + 1)..hi, s) - Made(L, (e + 1)..f, s) = Made(L, (f + 1)..hi, s)
    BY <2>5, MadeWithout
  <2> QED
    BY <1>4, <2>2, <2>4, <2>6, <2>7
<1>6. Left24(Expire24(w), w, n)
  <2>1. n \in Nat
    BY <1>1, <1>3
  <2>2. n = AgedOut(w.cycles, w.idx24, w.at - Day)
    BY DEF n, HeldFrom
  <2>3. \A s \in Slots : Made(w.cycles, (w.idx24 + 1)..n, s) \in Int
    BY <1>5
  <2> QED
    BY <2>1, <2>2, <2>3, Expire24Is
<1>7. HeldFrom(Expire24(w), L, hi, d, f)
  <2>1. Carries(Expire24(w), L, hi, d)
    BY <1>6 DEF HeldFrom, Carries, Left24
  <2>2. Expire24(w).idx24 = f - d
    BY <1>1, <1>3, <1>4, <1>6 DEF Left24
  <2>3. ASSUME NEW s \in Slots
        PROVE  /\ Expire24(w).last24[s] = Made(L, (f + 1)..hi, s)
               /\ Expire24(w).last7d[s] = Made(L, (d + 1)..hi, s)
    BY <1>5, <1>6 DEF HeldFrom, Left24
  <2> QED
    BY <2>1, <2>2, <2>3 DEF HeldFrom
<1> QED
  BY <1>3, <1>4, <1>6, <1>7

LEMMA WeekLeaves ==
  ASSUME NEW L, Logged(L), NEW hi \in 0..Len(L), NEW d \in 0..hi, NEW f \in d..hi,
         NEW lo \in 0..d, NEW w \in Windows, HeldFrom(w, L, hi, d, f),
         Older(L, lo, d, w.at - WeekSpan), Newer(L, f, hi, w.at - Day)
  PROVE  \E n \in 0..(f - d) :
           /\ Left7d(Expire7d(w), w, n)
           /\ HeldFrom(Expire7d(w), L, hi, d + n, f)
           /\ Older(L, lo, d + n, w.at - WeekSpan) /\ Newer(L, d + n, hi, w.at - WeekSpan)
<1> DEFINE n == AgedOut(w.cycles, 0, w.at - WeekSpan)
<1>1. Len(L) \in Nat /\ hi \in Nat /\ d \in Nat /\ f \in Nat /\ d - d = 0 /\ d \in d..hi
  BY DEF Logged
<1>2. w.at - WeekSpan \in Int /\ w.at - Day \in Int /\ w.at - WeekSpan <= w.at - Day
  BY SpanAssumption DEF Windows
<1> HIDE DEF n
<1>3. /\ n \in 0..(hi - d)
      /\ Older(L, lo, d + n, w.at - WeekSpan) /\ Newer(L, d + n, hi, w.at - WeekSpan)
  <2> DEFINE cut == w.at - WeekSpan
  <2>1. cut \in Int /\ Older(L, lo, d, cut) /\ n = AgedOut(w.cycles, d - d, cut)
    BY <1>1, <1>2 DEF n
  <2>2. Carries(w, L, hi, d)
    BY DEF HeldFrom
  <2> HIDE DEF cut
  <2>3. /\ n \in (d - d)..(hi - d)
        /\ Older(L, lo, d + n, cut) /\ Newer(L, d + n, hi, cut)
    BY <1>1, <2>1, <2>2, EdgeIs
  <2> QED
    BY <1>1, <2>3 DEF cut
<1>4. PICK g \in d..hi : g = d + n
  BY <1>1, <1>3
<1>5. g <= f
  <2> SUFFICES ASSUME ~(g <= f)
               PROVE  FALSE
    OBVIOUS
  <2>1. g \in (lo + 1)..g /\ g \in (f + 1)..hi /\ g \in 1..Len(L)
    BY <1>1, <1>4
  <2>2. L[g].at <= w.at - WeekSpan
    BY <1>3, <1>4, <2>1 DEF Older
  <2>3. L[g].at > w.at - Day /\ L[g].at \in Int
    BY <2>1, LoggedCycle DEF Newer
  <2> QED
    BY <1>2, <2>2, <2>3
<1>6. n \in 0..(f - d) /\ n \in Nat /\ f - d >= n /\ g \in 0..hi /\ g <= f
  BY <1>1, <1>3, <1>4, <1>5
<1>7. ASSUME NEW s \in Slots
      PROVE  /\ Made(w.cycles, 1..n, s) = Made(L, (d + 1)..g, s)
             /\ Made(L, (d + 1)..g, s) \in Int
             /\ Made(L, (d + 1)..hi, s) - Made(L, (d + 1)..g, s) = Made(L, (g + 1)..hi, s)
  <2>1. PICK a \in Nat : a = 0
    OBVIOUS
  <2>2. a + 1 = 1 /\ d + a + 1 = d + 1
    BY <1>1, <2>1
  <2>3. n \in 0..(hi - d) /\ a \in 0..(hi - d) /\ Carries(w, L, hi, d)
    BY <1>1, <1>3, <2>1 DEF HeldFrom
  <2>4. Made(w.cycles, (a + 1)..n, s) = Made(L, (d + a + 1)..(d + n), s)
    BY <2>3, HeldMade
  <2>5. /\ d \in 0..g /\ g \in 0..Len(L) /\ hi \in 0..Len(L) /\ d \in 0..hi
        /\ g \in d..g /\ g \in d..hi
    BY <1>1, <1>4
  <2>6. Made(L, (d + 1)..g, s) \in Int
    BY <2>5, MadeWithout
  <2>7. Made(L, (d + 1)..hi, s) - Made(L, (d + 1)..g, s) = Made(L, (g + 1)..hi, s)
    BY <2>5, MadeWithout
  <2> QED
    BY <1>4, <2>2, <2>4, <2>6, <2>7
<1>8. Len(w.cycles) = hi - d /\ w.idx24 = f - d
  BY DEF HeldFrom, Carries
<1>9. Left7d(Expire7d(w), w, n)
  <2>1. n \in 0..Len(w.cycles) /\ n = AgedOut(w.cycles, 0, w.at - WeekSpan)
    BY <1>3, <1>8 DEF n
  <2>2. \A s \in Slots : Made(w.cycles, 1..n, s) \in Int
    BY <1>7
  <2> QED
    BY <2>1, <2>2, Expire7dIs
<1>10. HeldFrom(Expire7d(w), L, hi, g, f)
  <2> DEFINE x == Expire7d(w)
  <2>1. Len(x.cycles) = hi - g
    BY <1>1, <1>4, <1>6, <1>8, <1>9 DEF Left7d
  <2>2. ASSUME NEW i \in 1..(hi - g)
        PROVE  /\ x.cycles[i].at = L[g + i].at /\ x.cycles[i].deltas = L[g + i].deltas
               /\ x.cycles[i].count = Brought(L, 1..(g + i))
    <3>1. i \in 1..(Len(w.cycles) - n) /\ n + i \in 1..(hi - d) /\ d + (n + i) = g + i
      BY <1>1, <1>4, <1>6, <1>8
    <3>2. x.cycles[i] = w.cycles[n + i]
      BY <1>9, <3>1 DEF Left7d
    <3>3. PICK j \in 1..(hi - d) : j = n + i
      BY <3>1
    <3>4. /\ w.cycles[j].at = L[d + j].at /\ w.cycles[j].deltas = L[d + j].deltas
          /\ w.cycles[j].count = Brought(L, 1..(d + j))
      BY DEF HeldFrom, Carries
    <3> QED
      BY <3>1, <3>2, <3>3, <3>4
  <2>3. x.idx24 = f - g
    BY <1>1, <1>4, <1>6, <1>8, <1>9 DEF Left7d
  <2>4. ASSUME NEW s \in Slots
        PROVE  /\ x.last24[s] = Made(L, (f + 1)..hi, s)
               /\ x.last7d[s] = Made(L, (g + 1)..hi, s)
    BY <1>7, <1>9 DEF HeldFrom, Left7d
  <2> QED
    BY <2>1, <2>2, <2>3, <2>4 DEF HeldFrom, Carries
<1> QED
  BY <1>3, <1>4, <1>6, <1>9, <1>10

\* A push keeps a window right, of one cycle more.
LEMMA PushIsRight ==
  ASSUME NEW L, Logged(L), NEW lo \in Nat, NEW hi \in lo..(Len(L) - 1),
         NEW w \in Windows, Right(w, L, lo, hi), w.size = Brought(L, 1..(hi + 1))
  PROVE  LET x == Push(w, L[hi + 1].at, L[hi + 1].deltas)
         IN Right(x, L, lo, hi + 1) /\ x.size = w.size
<1> DEFINE t == L[hi + 1].at
           D == L[hi + 1].deltas
           x == Record(w, t, D)
           y == Expire24(x)
           z == Expire7d(y)
           h == hi + 1
<1>1. Len(L) \in Nat /\ lo \in Nat /\ hi \in Nat /\ h \in 1..Len(L) /\ h \in 0..Len(L)
      /\ hi \in 0..(Len(L) - 1) /\ h # lo
  BY DEF Logged
<1>2. t \in Nat \ {0} /\ D \in Moves /\ w.at \in Nat /\ w.at < t
  <2>1. t \in Nat \ {0} /\ D \in Moves /\ w.at \in Nat
    BY <1>1, LoggedCycle DEF Windows
  <2>2. CASE hi = lo
    BY <2>1, <2>2 DEF Right, Calendar
  <2>3. CASE hi # lo
    <3>1. hi \in 1..Len(L) /\ hi < h
      BY <1>1, <2>3
    <3>2. w.at = L[hi].at
      BY <2>3 DEF Right, Calendar
    <3> QED
      BY <1>1, <2>1, <3>1, <3>2 DEF Logged
  <2> QED
    BY <2>1, <2>2, <2>3
<1>3. PICK d \in lo..hi : \E e \in d..hi :
        HeldFrom(w, L, hi, d, e) /\ Edges(w, L, lo, hi, d, e)
  BY DEF Right
<1>4. PICK e \in d..hi : HeldFrom(w, L, hi, d, e) /\ Edges(w, L, lo, hi, d, e)
  BY <1>3
<1> HIDE DEF t, D, x, y, z
<1>5. Recorded(x, w, t, D)
  BY <1>2, RecordIs DEF x
<1>6. x \in Windows /\ x.at = t /\ x.size = w.size
  BY <1>5 DEF Recorded
<1>7. Calendar(x, L, lo, h)
  BY <1>1, RecordKeepsCalendar DEF x, t, D, Right
<1>8. HeldFrom(x, L, h, d, e)
  <2>1. d \in 0..hi
    BY <1>1
  <2> QED
    BY <1>1, <1>4, <1>5, <1>6, <2>1, RecordKeepsHeld DEF t, D
<1> HIDE DEF h
<1>9. lo \in 0..d /\ d \in 0..h /\ e \in d..h
  BY <1>1 DEF h
<1>10. Older(L, lo, d, x.at - WeekSpan) /\ Older(L, lo, e, x.at - Day)
  <2>1. \A a \in Int : /\ a <= w.at - WeekSpan => a <= t - WeekSpan
                       /\ a <= w.at - Day => a <= t - Day
    BY <1>2, SpanAssumption
  <2>2. ASSUME NEW i \in (lo + 1)..e
        PROVE  L[i].at \in Int
    <3>1. i \in 1..Len(L)
      BY <1>1
    <3> QED
      BY <3>1, LoggedCycle
  <2>3. Older(L, lo, d, w.at - WeekSpan) /\ Older(L, lo, e, w.at - Day)
    BY <1>4 DEF Edges
  <2>4. ASSUME NEW i \in (lo + 1)..d
        PROVE  L[i].at <= t - WeekSpan
    <3>1. i \in (lo + 1)..e
      BY <1>1
    <3>2. L[i].at <= w.at - WeekSpan
      BY <2>3 DEF Older
    <3> QED
      BY <2>1, <2>2, <3>1, <3>2
  <2>5. ASSUME NEW i \in (lo + 1)..e
        PROVE  L[i].at <= t - Day
    <3>1. L[i].at <= w.at - Day
      BY <2>3 DEF Older
    <3> QED
      BY <2>1, <2>2, <3>1
  <2> QED
    BY <1>6, <2>4, <2>5 DEF Older
<1>11. PICK n \in (e - d)..(h - d) :
         /\ Left24(y, x, n) /\ HeldFrom(y, L, h, d, d + n)
         /\ Older(L, lo, d + n, x.at - Day) /\ Newer(L, d + n, h, x.at - Day)
  BY <1>1, <1>6, <1>8, <1>9, <1>10, DayLeaves DEF y
<1>12. PICK f \in d..h : f = d + n
  BY <1>1, <1>9
<1>13. /\ y \in Windows /\ y.at = t /\ y.size = w.size
       /\ HeldFrom(y, L, h, d, f)
       /\ Older(L, lo, d, y.at - WeekSpan)
       /\ Older(L, lo, f, y.at - Day) /\ Newer(L, f, h, y.at - Day)
  BY <1>6, <1>10, <1>11, <1>12 DEF Left24
<1>14. PICK m \in 0..(f - d) :
         /\ Left7d(z, y, m) /\ HeldFrom(z, L, h, d + m, f)
         /\ Older(L, lo, d + m, y.at - WeekSpan) /\ Newer(L, d + m, h, y.at - WeekSpan)
  BY <1>1, <1>9, <1>13, WeekLeaves DEF z
<1>15. PICK g \in lo..h : g = d + m /\ f \in g..h
  BY <1>1, <1>9, <1>12
<1>16. z \in Windows /\ z.at = t /\ z.size = w.size
  BY <1>13, <1>14 DEF Left7d
<1>17. HeldFrom(z, L, h, g, f) /\ Edges(z, L, lo, h, g, f)
  BY <1>13, <1>14, <1>15, <1>16 DEF Edges
<1>18. Calendar(z, L, lo, h)
  <2>1. /\ z.today = x.today /\ z.week = x.week /\ z.update = x.update /\ z.at = x.at
        /\ z.prev = x.prev /\ z.dayStart = x.dayStart /\ z.weekStart = x.weekStart
    BY <1>11, <1>14 DEF Left24, Left7d
  <2> QED
    BY <1>7, <2>1 DEF Calendar
<1>19. Push(w, t, D) = z
  BY <1>2 DEF Push, x, y, z
<1> QED
  BY <1>15, <1>16, <1>17, <1>18, <1>19 DEF Right, t, D, h

\* Growing a window leaves all but its size.
Grown(x, w, n) ==
  /\ x \in Windows /\ x.size = n
  /\ x.cycles = w.cycles /\ x.idx24 = w.idx24 /\ x.at = w.at
  /\ x.prev = w.prev /\ x.dayStart = w.dayStart /\ x.weekStart = w.weekStart
  /\ x.last24 = w.last24 /\ x.last7d = w.last7d
  /\ x.today = w.today /\ x.week = w.week /\ x.update = w.update

LEMMA GrowIs ==
  ASSUME NEW w \in Windows, NEW n \in Nat, w.size <= n
  PROVE  Grown(Grow(w, n), w, n)
<1>0. w.size \in Nat
  BY DEF Windows
<1>1. CASE n <= w.size
  BY <1>0, <1>1 DEF Grow, Grown
<1>2. CASE ~(n <= w.size)
  <2> DEFINE x == [w EXCEPT !.size = n]
  <2>1. Grow(w, n) = x
    BY <1>2 DEF Grow
  <2>2. x \in Windows
    BY DEF Windows
  <2>3. /\ x.size = n
        /\ x.cycles = w.cycles /\ x.idx24 = w.idx24 /\ x.at = w.at
        /\ x.prev = w.prev /\ x.dayStart = w.dayStart /\ x.weekStart = w.weekStart
        /\ x.last24 = w.last24 /\ x.last7d = w.last7d
        /\ x.today = w.today /\ x.week = w.week /\ x.update = w.update
    BY DEF Windows
  <2> QED
    BY <2>1, <2>2, <2>3 DEF Grown
<1> QED
  BY <1>1, <1>2

LEMMA GrownIsRight ==
  ASSUME NEW L, NEW lo, NEW hi, NEW w, Right(w, L, lo, hi), NEW x, NEW n, Grown(x, w, n)
  PROVE  Right(x, L, lo, hi)
<1>1. Calendar(x, L, lo, hi)
  BY DEF Right, Calendar, Grown
<1>2. ASSUME NEW d, NEW e, HeldFrom(w, L, hi, d, e), Edges(w, L, lo, hi, d, e)
      PROVE  HeldFrom(x, L, hi, d, e) /\ Edges(x, L, lo, hi, d, e)
  <2>1. HeldFrom(x, L, hi, d, e)
    BY <1>2 DEF HeldFrom, Carries, Grown
  <2>2. Edges(x, L, lo, hi, d, e)
    BY <1>2 DEF Edges, Grown
  <2> QED
    BY <2>1, <2>2
<1> QED
  BY <1>1, <1>2 DEF Right, Grown

\* A cycle that is committed, or replayed, with the size that the log had then.
LEMMA NextIsRight ==
  ASSUME NEW L, Logged(L), NEW lo \in Nat, NEW hi \in lo..(Len(L) - 1),
         NEW w, Right(w, L, lo, hi), w.size <= Brought(L, 1..(hi + 1))
  PROVE  LET x == Push(Grow(w, Brought(L, 1..(hi + 1))), L[hi + 1].at, L[hi + 1].deltas)
         IN Right(x, L, lo, hi + 1) /\ x.size = Brought(L, 1..(hi + 1))
<1> DEFINE n == Brought(L, 1..(hi + 1))
           y == Grow(w, n)
<1>1. n \in Nat
  <2>1. Len(L) \in Nat
    BY DEF Logged
  <2>2. Within(L, 1..(hi + 1))
    BY <2>1 DEF Within
  <2> QED
    BY <2>2, BroughtSum
<1>2. w \in Windows
  BY DEF Right
<1> HIDE DEF n
<1>3. Grown(y, w, n)
  BY <1>1, <1>2, GrowIs DEF n
<1> HIDE DEF y
<1>4. y \in Windows /\ y.size = n
  BY <1>3 DEF Grown
<1>5. Right(y, L, lo, hi)
  BY <1>3, GrownIsRight
<1>6. Right(Push(y, L[hi + 1].at, L[hi + 1].deltas), L, lo, hi + 1)
      /\ Push(y, L[hi + 1].at, L[hi + 1].deltas).size = y.size
  BY <1>4, <1>5, PushIsRight DEF n
<1> QED
  BY <1>4, <1>6 DEF y, n

\* The window that New returns is right of no cycles.
LEMMA NewIsRight ==
  ASSUME NEW L, Logged(L), NEW lo \in 0..Len(L)
  PROVE  Right(New, L, lo, lo) /\ New.size = 0
<1>1. Len(L) \in Nat /\ lo \in Nat
  BY DEF Logged
<1>2. New \in Windows
  <2>1. <<>> \in Seq(HeldCycles) /\ {} \in SUBSET Slots /\ [s \in Slots |-> 0] \in Tallies
    BY DEF Tallies
  <2> QED
    BY <2>1 DEF New, Windows
<1>3. DayCycles(L, lo, lo, -1) = {} /\ WeekCycles(L, lo, lo, -1) = {} /\ (lo + 1)..lo = {}
  BY <1>1 DEF DayCycles, WeekCycles
<1>4. Calendar(New, L, lo, lo)
  BY <1>3, MadeOfNone DEF Calendar, New
<1>5. HeldFrom(New, L, lo, lo, lo)
  <2>1. Carries(New, L, lo, lo)
    BY <1>1 DEF Carries, New
  <2> QED
    BY <1>1, <1>3, <2>1, MadeOfNone DEF HeldFrom, New
<1>6. Edges(New, L, lo, lo, lo, lo)
  BY <1>3 DEF Edges, Older, Newer
<1>7. lo \in lo..lo
  BY <1>1
<1> QED
  BY <1>2, <1>4, <1>5, <1>6, <1>7 DEF Right, New

\* A window is right of the cycles that a log begins with, whatever follows.
LEMMA RightAgrees ==
  ASSUME NEW L, NEW M, NEW lo \in Nat, NEW hi \in Nat, lo <= hi,
         \A i \in 1..hi : L[i] = M[i],
         NEW w, Right(w, L, lo, hi)
  PROVE  Right(w, M, lo, hi)
<1>1. ASSUME NEW I, I \subseteq 1..hi, NEW s
      PROVE  Made(L, I, s) = Made(M, I, s) /\ Brought(L, I) = Brought(M, I)
  <2>1. \A i \in I : L[i].deltas = M[i].deltas /\ L[i].fresh = M[i].fresh
    BY <1>1
  <2> QED
    BY <2>1, MadeAgrees, BroughtAgrees
<1>2. hi # lo => hi \in 1..hi
  OBVIOUS
<1>3. Calendar(w, M, lo, hi)
  <2>1. /\ DayCycles(L, lo, hi, w.dayStart) = DayCycles(M, lo, hi, w.dayStart)
        /\ WeekCycles(L, lo, hi, w.weekStart) = WeekCycles(M, lo, hi, w.weekStart)
        /\ DayCycles(L, lo, hi, w.dayStart) \subseteq 1..hi
        /\ WeekCycles(L, lo, hi, w.weekStart) \subseteq 1..hi
    BY DEF DayCycles, WeekCycles
  <2>2. ASSUME NEW s \in Slots
        PROVE  /\ w.today[s] = Made(M, DayCycles(M, lo, hi, w.dayStart), s)
               /\ w.week[s] = Made(M, WeekCycles(M, lo, hi, w.weekStart), s)
    <3>1. /\ Made(L, DayCycles(L, lo, hi, w.dayStart), s)
               = Made(M, DayCycles(L, lo, hi, w.dayStart), s)
          /\ Made(L, WeekCycles(L, lo, hi, w.weekStart), s)
               = Made(M, WeekCycles(L, lo, hi, w.weekStart), s)
      BY <1>1, <2>1
    <3> QED
      BY <2>1, <3>1 DEF Right, Calendar
  <2> QED
    BY <1>2, <2>2 DEF Right, Calendar
<1>4. ASSUME NEW d \in lo..hi, NEW e \in d..hi,
             HeldFrom(w, L, hi, d, e), Edges(w, L, lo, hi, d, e)
      PROVE  HeldFrom(w, M, hi, d, e) /\ Edges(w, M, lo, hi, d, e)
  <2>1. ASSUME NEW i \in 1..(hi - d)
        PROVE  L[d + i] = M[d + i] /\ Brought(L, 1..(d + i)) = Brought(M, 1..(d + i))
    <3>1. d + i \in 1..hi /\ 1..(d + i) \subseteq 1..hi
      OBVIOUS
    <3> QED
      BY <1>1, <3>1
  <2>2. Carries(w, M, hi, d)
    BY <1>4, <2>1 DEF HeldFrom, Carries
  <2>3. ASSUME NEW s \in Slots
        PROVE  /\ Made(L, (e + 1)..hi, s) = Made(M, (e + 1)..hi, s)
               /\ Made(L, (d + 1)..hi, s) = Made(M, (d + 1)..hi, s)
    <3>1. (e + 1)..hi \subseteq 1..hi /\ (d + 1)..hi \subseteq 1..hi
      OBVIOUS
    <3> QED
      BY <1>1, <3>1
  <2>4. HeldFrom(w, M, hi, d, e)
    BY <1>4, <2>2, <2>3 DEF HeldFrom
  <2>5. Edges(w, M, lo, hi, d, e)
    BY <1>4 DEF Edges, Older, Newer
  <2> QED
    BY <2>4, <2>5
<1> QED
  BY <1>3, <1>4 DEF Right

\* A window that was pushed only the cycles of the last week is that of all.
LEMMA RightOfAll ==
  ASSUME NEW L, Logged(L), NEW hi \in 1..Len(L), NEW lo \in 0..(hi - 1),
         \A i \in 1..lo : L[i].at <= L[hi].at - WeekSpan,
         NEW w, Right(w, L, lo, hi)
  PROVE  Right(w, L, 0, hi)
<1>1. Len(L) \in Nat /\ hi \in Nat /\ lo \in Nat /\ hi # lo /\ hi # 0
  BY DEF Logged
<1>2. L[hi].at \in Nat /\ w.at = L[hi].at
  BY <1>1, LoggedCycle DEF Right, Calendar
<1>3. WeekSpan \in Nat \ {0} /\ Day \in Nat \ {0} /\ Day <= WeekSpan
  BY SpanAssumption
<1>4. ASSUME NEW i \in 1..lo
      PROVE  /\ DayOf(L[i].at) # DayOf(L[hi].at) /\ WeekOf(L[i].at) # WeekOf(L[hi].at)
             /\ L[i].at <= w.at - WeekSpan /\ L[i].at <= w.at - Day
  <2>1. i \in 1..Len(L)
    BY <1>1
  <2>2. L[i].at \in Nat /\ L[i].at <= L[hi].at - WeekSpan
    BY <2>1, LoggedCycle
  <2>3. L[i].at <= L[hi].at /\ ~(L[hi].at - L[i].at < Day) /\ ~(L[hi].at - L[i].at < WeekSpan)
    BY <1>2, <1>3, <2>2
  <2>4. /\ DayOf(L[i].at) = DayOf(L[hi].at) => L[hi].at - L[i].at < Day
        /\ WeekOf(L[i].at) = WeekOf(L[hi].at) => L[hi].at - L[i].at < WeekSpan
    BY <1>2, <2>2, <2>3, Calendars
  <2> QED
    BY <1>2, <1>3, <2>2, <2>3, <2>4
<1>5. Calendar(w, L, 0, hi)
  <2>1. w.dayStart = DayOf(L[hi].at) /\ w.weekStart = WeekOf(L[hi].at)
    BY <1>1, <1>2 DEF Right, Calendar
  <2>2. /\ DayCycles(L, 0, hi, w.dayStart) = DayCycles(L, lo, hi, w.dayStart)
        /\ WeekCycles(L, 0, hi, w.weekStart) = WeekCycles(L, lo, hi, w.weekStart)
    <3>1. \A i \in 1..hi : i \in 1..lo \/ i \in (lo + 1)..hi
      BY <1>1
    <3>2. \A i \in (lo + 1)..hi : i \in (0 + 1)..hi
      BY <1>1
    <3> QED
      BY <1>4, <2>1, <3>1, <3>2 DEF DayCycles, WeekCycles
  <2> QED
    BY <1>1, <2>2 DEF Right, Calendar
<1>6. ASSUME NEW d \in lo..hi, NEW e \in d..hi, Edges(w, L, lo, hi, d, e)
      PROVE  d \in 0..hi /\ Edges(w, L, 0, hi, d, e)
  <2>1. ASSUME NEW i \in (0 + 1)..d
        PROVE  L[i].at <= w.at - WeekSpan
    <3>1. i \in 1..lo \/ i \in (lo + 1)..d
      BY <1>1
    <3> QED
      BY <1>4, <1>6, <3>1 DEF Edges, Older
  <2>2. ASSUME NEW i \in (0 + 1)..e
        PROVE  L[i].at <= w.at - Day
    <3>1. i \in 1..lo \/ i \in (lo + 1)..e
      BY <1>1
    <3> QED
      BY <1>4, <1>6, <3>1 DEF Edges, Older
  <2> QED
    BY <1>1, <1>6, <2>1, <2>2 DEF Edges, Older
<1> QED
  BY <1>5, <1>6 DEF Right

\* There is one such division, so two right windows answer the same.
LEMMA RightIsOne ==
  ASSUME NEW L, Logged(L), NEW hi \in 0..Len(L),
         NEW u, Right(u, L, 0, hi), NEW w, Right(w, L, 0, hi), u.size = w.size
  PROVE  Figures(u) = Figures(w)
<1>1. Len(L) \in Nat /\ hi \in Nat
  BY DEF Logged
<1>2. PICK d \in 0..hi : \E e \in d..hi :
        HeldFrom(u, L, hi, d, e) /\ Edges(u, L, 0, hi, d, e)
  BY DEF Right
<1>3. PICK e \in d..hi : HeldFrom(u, L, hi, d, e) /\ Edges(u, L, 0, hi, d, e)
  BY <1>2
<1>4. PICK f \in 0..hi : \E g \in f..hi :
        HeldFrom(w, L, hi, f, g) /\ Edges(w, L, 0, hi, f, g)
  BY DEF Right
<1>5. PICK g \in f..hi : HeldFrom(w, L, hi, f, g) /\ Edges(w, L, 0, hi, f, g)
  BY <1>4
<1>6. u.at = w.at
  BY DEF Right, Calendar
<1>7. ASSUME NEW a \in 0..hi, NEW b \in 0..hi, NEW cut \in Int,
             Older(L, 0, a, cut), Newer(L, a, hi, cut), Older(L, 0, b, cut), Newer(L, b, hi, cut)
      PROVE  a = b
  <2>1. ASSUME NEW i \in 1..hi, L[i].at <= cut, L[i].at > cut
        PROVE  FALSE
    <3>1. L[i].at \in Int
      BY <1>1, LoggedCycle
    <3> QED
      BY <2>1, <3>1
  <2>2. CASE a < b
    <3>1. b \in (0 + 1)..b /\ b \in (a + 1)..hi /\ b \in 1..hi
      BY <1>1, <2>2
    <3> QED
      BY <1>7, <2>1, <3>1 DEF Older, Newer
  <2>3. CASE b < a
    <3>1. a \in (0 + 1)..a /\ a \in (b + 1)..hi /\ a \in 1..hi
      BY <1>1, <2>3
    <3> QED
      BY <1>7, <2>1, <3>1 DEF Older, Newer
  <2> QED
    BY <1>1, <2>2, <2>3
<1>8. u.at - WeekSpan \in Int /\ u.at - Day \in Int /\ e \in 0..hi /\ g \in 0..hi
  <2>1. u.at \in Int
    BY DEF Right, Windows
  <2>2. Day \in Int /\ WeekSpan \in Int
    BY SpanAssumption
  <2>3. e \in 0..hi /\ g \in 0..hi
    BY <1>1
  <2> QED
    BY <2>1, <2>2, <2>3
<1>9. d = f
  <2> DEFINE cut == u.at - WeekSpan
  <2>1. /\ Older(L, 0, d, cut) /\ Newer(L, d, hi, cut)
        /\ Older(L, 0, f, cut) /\ Newer(L, f, hi, cut)
    BY <1>3, <1>5, <1>6 DEF Edges
  <2>2. cut \in Int
    BY <1>8
  <2> HIDE DEF cut
  <2> QED
    BY <1>7, <2>1, <2>2
<1>10. e = g
  <2> DEFINE cut == u.at - Day
  <2>1. /\ Older(L, 0, e, cut) /\ Newer(L, e, hi, cut)
        /\ Older(L, 0, g, cut) /\ Newer(L, g, hi, cut)
    BY <1>3, <1>5, <1>6 DEF Edges
  <2>2. cut \in Int
    BY <1>8
  <2> HIDE DEF cut
  <2> QED
    BY <1>7, <1>8, <2>1, <2>2
<1>11. /\ u.cycles \in Seq(HeldCycles) /\ w.cycles \in Seq(HeldCycles)
       /\ Len(u.cycles) = Len(w.cycles) /\ Len(u.cycles) \in Nat /\ Len(u.cycles) = hi - d
  <2>1. u.cycles \in Seq(HeldCycles) /\ w.cycles \in Seq(HeldCycles)
    BY DEF Right, Windows
  <2>2. Len(u.cycles) = hi - d /\ Len(w.cycles) = hi - d /\ hi - d \in Nat
    BY <1>1, <1>3, <1>5, <1>9 DEF HeldFrom, Carries
  <2> QED
    BY <2>1, <2>2
<1>12. ASSUME NEW i \in 1..Len(u.cycles)
       PROVE  u.cycles[i].at = w.cycles[i].at /\ u.cycles[i].count = w.cycles[i].count
  <2>1. i \in 1..(hi - d)
    BY <1>11
  <2> QED
    BY <1>3, <1>5, <1>9, <2>1 DEF HeldFrom, Carries
<1>13. [i \in DOMAIN u.cycles |-> u.cycles[i].count] = [i \in DOMAIN w.cycles |-> w.cycles[i].count]
  <2>1. DOMAIN u.cycles = 1..Len(u.cycles) /\ DOMAIN w.cycles = 1..Len(w.cycles)
    <3>1. \A q \in Seq(HeldCycles) : DOMAIN q = 1..Len(q)
      OBVIOUS
    <3> QED
      BY <1>11, <3>1
  <2> QED
    BY <1>11, <1>12, <2>1
<1>14. u.idx24 = w.idx24 /\ u.idx24 = e - d /\ u.idx24 \in Nat /\ u.idx24 <= Len(u.cycles)
  BY <1>1, <1>3, <1>5, <1>8, <1>9, <1>10, <1>11 DEF HeldFrom
<1>15. Baseline(u) = Baseline(w)
  <2>1. CASE u.idx24 = 0
    BY <1>14, <2>1 DEF Baseline
  <2>2. CASE u.idx24 # 0
    <3>1. u.idx24 \in 1..Len(u.cycles)
      BY <1>11, <1>14, <2>2
    <3> QED
      BY <1>12, <1>14, <2>2, <3>1 DEF Baseline
  <2> QED
    BY <2>1, <2>2
<1>16. PreviousAt(u) = PreviousAt(w)
  <2>1. CASE Len(u.cycles) < 2
    BY <1>11, <2>1 DEF PreviousAt
  <2>2. CASE ~(Len(u.cycles) < 2)
    <3>1. Len(u.cycles) - 1 \in 1..Len(u.cycles)
      BY <1>11, <2>2
    <3> QED
      BY <1>11, <1>12, <2>2, <3>1 DEF PreviousAt
  <2> QED
    BY <2>1, <2>2
<1>17. /\ u.last24 = w.last24 /\ u.last7d = w.last7d
       /\ u.today = w.today /\ u.week = w.week /\ u.update = w.update
  <2>1. ASSUME NEW s \in Slots
        PROVE  /\ u.last24[s] = w.last24[s] /\ u.last7d[s] = w.last7d[s]
               /\ u.today[s] = w.today[s] /\ u.week[s] = w.week[s] /\ u.update[s] = w.update[s]
    <3>1. u.last24[s] = w.last24[s] /\ u.last7d[s] = w.last7d[s]
      BY <1>3, <1>5, <1>9, <1>10 DEF HeldFrom
    <3>2. u.update[s] = w.update[s]
      BY DEF Right, Calendar
    <3>3. u.today[s] = w.today[s] /\ u.week[s] = w.week[s]
      <4>1. CASE hi = 0
        <5>1. /\ DayCycles(L, 0, hi, u.dayStart) = {} /\ DayCycles(L, 0, hi, w.dayStart) = {}
              /\ WeekCycles(L, 0, hi, u.weekStart) = {} /\ WeekCycles(L, 0, hi, w.weekStart) = {}
          <6>1. (0 + 1)..hi = {}
            BY <4>1
          <6> QED
            BY <6>1, Zenon DEF DayCycles, WeekCycles
        <5>2. /\ u.today[s] = Made(L, DayCycles(L, 0, hi, u.dayStart), s)
              /\ w.today[s] = Made(L, DayCycles(L, 0, hi, w.dayStart), s)
              /\ u.week[s] = Made(L, WeekCycles(L, 0, hi, u.weekStart), s)
              /\ w.week[s] = Made(L, WeekCycles(L, 0, hi, w.weekStart), s)
          BY Zenon DEF Right, Calendar
        <5> QED
          BY ONLY <5>1, <5>2, Zenon
      <4>2. CASE hi # 0
        <5>1. u.dayStart = w.dayStart /\ u.weekStart = w.weekStart
          BY <1>6, <4>2 DEF Right, Calendar
        <5> QED
          BY <5>1 DEF Right, Calendar
      <4> QED
        BY <4>1, <4>2
    <3> QED
      BY <3>1, <3>2, <3>3
  <2>2. /\ u.last24 \in Tallies /\ u.last7d \in Tallies /\ u.today \in Tallies
        /\ u.week \in Tallies /\ u.update \in Tallies
        /\ w.last24 \in Tallies /\ w.last7d \in Tallies /\ w.today \in Tallies
        /\ w.week \in Tallies /\ w.update \in Tallies
    BY DEF Right, Windows
  <2> QED
    BY <2>1, <2>2 DEF Tallies
<1> QED
  BY <1>6, <1>13, <1>15, <1>16, <1>17 DEF Figures

-----------------------------------------------------------------------------
(* What a restart replays. *)

\* The windows after each of the cycles that are replayed.
Chain(f, C, m) ==
  f = [i \in 0..m |-> IF i = 0 THEN New
                      ELSE Push(Grow(f[i - 1], SizeAt(C, i)), C[i].at, C[i].deltas)]

LEMMA ChainStep ==
  ASSUME NEW C, NEW m \in Nat, NEW f, Chain(f, C, m)
  PROVE  /\ f[0] = New
         /\ \A i \in 0..(m - 1) :
              f[i + 1] = Push(Grow(f[i], SizeAt(C, i + 1)), C[i + 1].at, C[i + 1].deltas)
<1> DEFINE g == [i \in 0..m |-> IF i = 0 THEN New
                      ELSE Push(Grow(f[i - 1], SizeAt(C, i)), C[i].at, C[i].deltas)]
<1>1. f = g
  BY DEF Chain
<1>2. g[0] = New
  OBVIOUS
<1>3. ASSUME NEW i \in 0..(m - 1)
      PROVE  g[i + 1] = Push(Grow(f[i], SizeAt(C, i + 1)), C[i + 1].at, C[i + 1].deltas)
  <2>1. i + 1 \in 0..m /\ i + 1 # 0 /\ (i + 1) - 1 = i
    OBVIOUS
  <2> QED
    BY <2>1
<1> HIDE DEF g
<1> QED
  BY <1>1, <1>2, <1>3

LEMMA ChainExists ==
  ASSUME NEW C, NEW m \in Nat
  PROVE  \E f : Chain(f, C, m)
<1> DEFINE Good == {n \in Nat : \E f : Chain(f, C, n)}
<1>1. 0 \in Good
  <2> DEFINE f == [i \in 0..0 |-> New]
  <2>1. \A i \in 0..0 : i = 0
    OBVIOUS
  <2>2. f = [i \in 0..0 |-> IF i = 0 THEN New
                      ELSE Push(Grow(f[i - 1], SizeAt(C, i)), C[i].at, C[i].deltas)]
    BY <2>1
  <2> QED
    BY <2>2 DEF Chain
<1>2. ASSUME NEW n \in 0..(m - 1), n \in Good
      PROVE  n + 1 \in Good
  <2>1. PICK f : Chain(f, C, n)
    BY <1>2
  <2> DEFINE g == [i \in 0..(n + 1) |->
                     IF i = n + 1 THEN Push(Grow(f[n], SizeAt(C, i)), C[i].at, C[i].deltas)
                     ELSE f[i]]
  <2>2. ASSUME NEW i \in 0..(n + 1)
        PROVE  g[i] = IF i = 0 THEN New
                      ELSE Push(Grow(g[i - 1], SizeAt(C, i)), C[i].at, C[i].deltas)
    <3>1. n \in Nat /\ 0 # n + 1 /\ 0 \in 0..(n + 1)
      OBVIOUS
    <3>2. CASE i = 0
      <4>1. f[0] = New
        BY <2>1, <3>1, ChainStep
      <4> QED
        BY <3>1, <3>2, <4>1
    <3>3. CASE i = n + 1
      <4>1. n \in 0..(n + 1) /\ n # n + 1 /\ i # 0 /\ i - 1 = n
        BY <3>1, <3>3
      <4>2. g[n] = f[n]
        BY <4>1
      <4> QED
        BY <3>3, <4>1, <4>2
    <3>4. CASE i # 0 /\ i # n + 1
      <4>1. PICK j \in 0..(n - 1) : i = j + 1
        BY <3>1, <3>4
      <4>2. f[j + 1] = Push(Grow(f[j], SizeAt(C, j + 1)), C[j + 1].at, C[j + 1].deltas)
        BY <2>1, <3>1, ChainStep
      <4>3. i - 1 = j /\ j \in 0..(n + 1) /\ j # n + 1
        BY <3>1, <4>1
      <4>4. g[i] = f[i] /\ g[j] = f[j]
        BY <3>4, <4>3
      <4> QED
        BY <3>4, <4>1, <4>2, <4>3, <4>4
    <3> QED
      BY <3>2, <3>3, <3>4
  <2>3. g = [i \in 0..(n + 1) |-> g[i]]
    OBVIOUS
  <2> HIDE DEF g
  <2>4. Chain(g, C, n + 1)
    BY <2>2, <2>3 DEF Chain
  <2> QED
    BY <2>4
<1> HIDE DEF Good
<1>3. m \in Good
  BY <1>1, <1>2, UpTo
<1> QED
  BY <1>3 DEF Good

LEMMA ReplayIs ==
  ASSUME NEW C, Len(C) \in Nat
  PROVE  \E f : Chain(f, C, Len(C)) /\ Replay(C) = Grow(f[Len(C)], members)
<1> DEFINE f == CHOOSE g : Chain(g, C, Len(C))
<1>1. Chain(f, C, Len(C))
  BY ChainExists
<1>2. Replay(C) = Grow(f[Len(C)], members)
  BY Zenon DEF Replay, Chain
<1> HIDE DEF f
<1> QED
  BY <1>1, <1>2

\* The tail of the log from an instant on.
LEMMA TailIs ==
  ASSUME Logged(stored), NEW since \in Int
  PROVE  \E k \in 0..Len(stored) :
           /\ DeltasSince(since) = SubSeq(stored, k + 1, Len(stored))
           /\ \A i \in 1..k : stored[i].at <= since - 1
           /\ k < Len(stored) => stored[k + 1].at > since - 1
<1> DEFINE cut == since - 1
           k == AgedOut(stored, 0, cut)
<1>1. Len(stored) \in Nat /\ 0 \in 0..Len(stored) /\ 0 + 1 = 1
  BY DEF Logged
<1>2. \A i \in 1..Len(stored) : stored[i].at \in Int
  BY LoggedCycle
<1>3. cut \in Int
  OBVIOUS
<1> HIDE DEF cut
<1>4. /\ k \in 0..Len(stored)
      /\ \A i \in (0 + 1)..k : stored[i].at <= cut
      /\ k < Len(stored) => stored[k + 1].at > cut
  BY <1>1, <1>2, <1>3, AgedOutIs
<1>5. DeltasSince(since) = SubSeq(stored, k + 1, Len(stored))
  BY DEF DeltasSince, cut
<1> HIDE DEF k
<1> QED
  BY <1>1, <1>4, <1>5 DEF cut

\* The size that is worked out backwards is the one that the log had.
LEMMA SizeAtIs ==
  ASSUME Logged(stored), members = Brought(stored, 1..Len(stored)),
         NEW k \in 0..Len(stored), NEW C, Len(C) = Len(stored) - k,
         \A i \in 1..Len(C) : C[i] = stored[k + i], NEW i \in 1..Len(C)
  PROVE  SizeAt(C, i) = Brought(stored, 1..(k + i))
<1>1. Len(stored) \in Nat /\ k \in Nat /\ i \in Nat /\ Len(C) \in Nat
      /\ k + Len(C) = Len(stored)
  BY DEF Logged
<1>2. Brought(C, (i + 1)..Len(C)) = Brought(stored, (k + i + 1)..Len(stored))
  <2> DEFINE n == Len(C)
  <2>1. /\ n \in Nat /\ k \in Nat /\ i \in Nat /\ k + n <= Len(stored)
        /\ \A j \in 1..n : C[j].fresh = stored[k + j].fresh
    BY <1>1
  <2> HIDE DEF n
  <2>2. Brought(C, (i + 1)..n) = Brought(stored, (k + i + 1)..(k + n))
    BY ONLY <2>1, Logged(stored), BroughtMoved
  <2> QED
    BY <1>1, <2>2 DEF n
<1> DEFINE I == 1..Len(stored)
           J == 1..(k + i)
           K == (k + i + 1)..Len(stored)
<1>3. /\ Within(stored, I) /\ Within(stored, J) /\ Within(stored, K)
      /\ J \in SUBSET I /\ I \ J = K
  BY <1>1 DEF Within
<1>4. SizeAt(C, i) = Brought(stored, I) - Brought(stored, K)
  BY <1>2 DEF SizeAt
<1> HIDE DEF I, J, K
<1>5. Brought(stored, I) = Brought(stored, J) + Brought(stored, K)
  BY <1>3, BroughtSum
<1>6. Brought(stored, J) \in Nat /\ Brought(stored, K) \in Nat
  BY <1>3, BroughtSum
<1> QED
  BY <1>4, <1>5, <1>6 DEF J

\* Replaying the last week is right of all the log.
LEMMA RestoredIsRight ==
  ASSUME Logged(stored), members = Brought(stored, 1..Len(stored))
  PROVE  Right(Restored, stored, 0, Len(stored)) /\ Restored.size = members
<1> DEFINE N == Len(stored)
<1>1. N \in Nat /\ stored \in Seq(StoredCycles)
  BY DEF Logged
<1>2. CASE stored = <<>>
  <2>1. N = 0 /\ 1..0 = {}
    BY <1>2
  <2>2. members = 0
    BY <2>1, SumEmpty DEF Brought
  <2>3. 0 \in 0..Len(stored)
    BY <2>1
  <2> HIDE DEF N
  <2>4. Right(New, stored, 0, 0) /\ New.size = 0
    BY <2>3, NewIsRight
  <2> QED
    BY <1>2, <2>1, <2>2, <2>4 DEF Restored, N
<1>3. CASE stored # <<>>
  <2>1. N \in 1..Len(stored)
    BY <1>1, <1>3
  <2>2. stored[N].at \in Nat /\ WeekSpan \in Nat
    BY <2>1, LoggedCycle, SpanAssumption
  <2> DEFINE since == stored[N].at - WeekSpan
             C == DeltasSince(since)
  <2>3. since \in Int
    BY <2>2
  <2> HIDE DEF since
  <2>4. PICK k \in 0..Len(stored) :
          /\ C = SubSeq(stored, k + 1, Len(stored))
          /\ \A i \in 1..k : stored[i].at <= since - 1
          /\ k < Len(stored) => stored[k + 1].at > since - 1
    BY <2>3, TailIs
  <2> HIDE DEF C
  <2>5. k # N
    BY <2>1, <2>2, <2>4 DEF since
  <2>6. Len(C) = N - k /\ Len(C) \in Nat /\ k \in Nat /\ k < N
        /\ \A i \in 1..Len(C) : C[i] = stored[k + i]
    BY <1>1, <2>4, <2>5
  <2>7. PICK f : Chain(f, C, Len(C)) /\ Replay(C) = Grow(f[Len(C)], members)
    BY <2>6, ReplayIs
  <2> DEFINE Fine(w, i) == Right(w, stored, k, k + i) /\ w.size <= Brought(stored, 1..(k + i))
             Good == {i \in 0..Len(C) : Fine(f[i], i)}
  <2>8. ASSUME NEW i \in 0..Len(C)
        PROVE  Brought(stored, 1..(k + i)) \in Nat
    <3>1. Within(stored, 1..(k + i))
      BY <1>1, <2>6 DEF Within
    <3> QED
      BY <3>1, BroughtSum
  <2>9. 0 \in Good
    <3>1. f[0] = New
      BY <2>6, <2>7, ChainStep
    <3>2. Right(New, stored, k, k) /\ New.size = 0
      BY NewIsRight
    <3>3. k + 0 = k /\ 0 \in 0..Len(C)
      BY <2>6
    <3> QED
      BY <2>8, <3>1, <3>2, <3>3
  <2>10. ASSUME NEW i \in 0..(Len(C) - 1), i \in Good
         PROVE  i + 1 \in Good
    <3>1. PICK h \in k..(N - 1) : h = k + i
      BY <1>1, <2>6
    <3>2. /\ h + 1 = k + (i + 1) /\ i + 1 \in 1..Len(C) /\ i + 1 \in 0..Len(C)
          /\ h \in 0..(Len(stored) - 1)
      BY <1>1, <2>6, <3>1
    <3>3. C[i + 1] = stored[h + 1]
      <4>1. PICK j \in 1..Len(C) : j = i + 1
        BY <3>2
      <4>2. C[j] = stored[k + j] /\ k + j = h + 1
        BY <2>6, <3>2, <4>1
      <4> QED
        BY <4>1, <4>2
    <3>4. SizeAt(C, i + 1) = Brought(stored, 1..(h + 1))
      <4>1. PICK j \in 1..Len(C) : j = i + 1
        BY <3>2
      <4>2. Len(C) = Len(stored) - k /\ \A m \in 1..Len(C) : C[m] = stored[k + m]
        BY <2>6
      <4>3. SizeAt(C, j) = Brought(stored, 1..(k + j))
        BY <4>2, SizeAtIs
      <4>4. k + j = h + 1
        BY <3>2, <4>1
      <4> QED
        BY <4>1, <4>3, <4>4
    <3>5. f[i + 1] = Push(Grow(f[i], Brought(stored, 1..(h + 1))),
                          stored[h + 1].at, stored[h + 1].deltas)
      BY <2>6, <2>7, <3>3, <3>4, ChainStep
    <3>6. Right(f[i], stored, k, h) /\ f[i].size <= Brought(stored, 1..h)
      BY <2>10, <3>1
    <3>7. Brought(stored, 1..h) <= Brought(stored, 1..(h + 1))
          /\ Brought(stored, 1..h) \in Nat /\ Brought(stored, 1..(h + 1)) \in Nat
      BY <2>8, <3>1, <3>2, BroughtNext
    <3>8. f[i].size \in Nat
      BY <3>6 DEF Right, Windows
    <3>9. f[i].size <= Brought(stored, 1..(h + 1))
      BY <3>6, <3>7, <3>8
    <3>10. Right(f[i + 1], stored, k, h + 1) /\ f[i + 1].size = Brought(stored, 1..(h + 1))
      BY <2>6, <3>1, <3>5, <3>6, <3>9, NextIsRight
    <3> QED
      BY <3>2, <3>7, <3>10
  <2> HIDE DEF Good
  <2>11. Len(C) \in Good
    BY <2>6, <2>9, <2>10, UpTo
  <2> DEFINE w == f[Len(C)]
  <2>12. Right(w, stored, k, N) /\ w.size <= members
    <3>1. k + Len(C) = N
      BY <1>1, <2>6
    <3> QED
      BY <2>11, <3>1 DEF Good
  <2> HIDE DEF w
  <2>13. Grown(Grow(w, members), w, members)
    <3>1. members \in Nat
      <4>1. Within(stored, 1..Len(stored))
        BY DEF Within
      <4> QED
        BY <4>1, BroughtSum
    <3>2. w \in Windows
      BY <2>12 DEF Right
    <3> QED
      BY <2>12, <3>1, <3>2, GrowIs
  <2>14. Right(Grow(w, members), stored, k, N)
    BY <2>12, <2>13, GrownIsRight
  <2>15. \A i \in 1..k : stored[i].at <= stored[N].at - WeekSpan
    <3>1. ASSUME NEW i \in 1..k
          PROVE  stored[i].at \in Nat
      <4>1. i \in 1..Len(stored)
        BY <1>1
      <4> QED
        BY <4>1, LoggedCycle
    <3> QED
      BY <2>2, <2>4, <3>1 DEF since
  <2>16. k \in 0..(N - 1)
    BY <1>1, <2>6
  <2>17. Right(Grow(w, members), stored, 0, N)
    BY <2>1, <2>14, <2>15, <2>16, RightOfAll
  <2>18. Restored = Grow(w, members)
    BY <1>3, <2>7 DEF Restored, C, since, w
  <2> QED
    BY <2>13, <2>17, <2>18 DEF Grown
<1> QED
  BY <1>2, <1>3

-----------------------------------------------------------------------------
(* The invariant. *)

\* The window is that of the whole log, as the process that pushed every cycle
\* of it has it and as one that replayed the last week does.
WindowInv ==
  /\ Logged(stored)
  /\ members = Brought(stored, 1..Len(stored)) /\ members <= MaxSlots
  /\ Right(window, stored, 0, Len(stored))
  /\ window.size = members

LEMMA InitHasWindow ==
  ASSUME WindowInit
  PROVE  WindowInv
<1>1. stored = <<>> /\ members = 0 /\ window = New /\ Len(stored) = 0 /\ 1..0 = {}
  BY DEF WindowInit
<1>2. Logged(stored)
  <2>1. <<>> \in Seq(StoredCycles)
    OBVIOUS
  <2> QED
    BY <1>1, <2>1 DEF Logged
<1>3. members = Brought(stored, 1..Len(stored))
  BY <1>1, SumEmpty DEF Brought
<1>4. Right(New, stored, 0, 0) /\ New.size = 0
  <2>1. 0 \in 0..Len(stored)
    BY <1>1
  <2> QED
    BY <1>2, <2>1, NewIsRight
<1>5. members <= MaxSlots
  BY <1>1, SpanAssumption
<1> QED
  BY <1>1, <1>2, <1>3, <1>4, <1>5 DEF WindowInv

LEMMA RestartKeepsWindow ==
  ASSUME WindowInv, Restart
  PROVE  WindowInv'
<1>1. Right(Restored, stored, 0, Len(stored)) /\ Restored.size = members
  BY RestoredIsRight DEF WindowInv
<1>2. window' = Restored /\ stored' = stored /\ members' = members
  BY DEF Restart
<1> QED
  BY <1>1, <1>2 DEF WindowInv

\* A log with a cycle at its end, after all the others.
LEMMA AppendIsLogged ==
  ASSUME NEW L, Logged(L), NEW c \in StoredCycles,
         \A i \in 1..Len(L) : L[i].at < c.at
  PROVE  LET M == Append(L, c)
         IN /\ Logged(M) /\ Len(M) = Len(L) + 1 /\ M[Len(L) + 1] = c
            /\ \A i \in 1..Len(L) : L[i] = M[i]
            /\ Brought(M, 1..(Len(L) + 1)) = Brought(L, 1..Len(L)) + c.fresh
<1> DEFINE M == Append(L, c)
           n == Len(L)
<1>1. L \in Seq(StoredCycles) /\ n \in Nat
  BY DEF Logged
<1>2. /\ M \in Seq(StoredCycles) /\ Len(M) = n + 1 /\ M[n + 1] = c
      /\ \A i \in 1..n : L[i] = M[i]
  BY <1>1
<1> HIDE DEF M
<1>3. ASSUME NEW i \in 1..Len(M), NEW j \in 1..Len(M), i < j
      PROVE  M[i].at < M[j].at
  <2>1. i \in 1..n
    BY <1>1, <1>2, <1>3
  <2>2. CASE j \in 1..n
    BY <1>2, <1>3, <2>1, <2>2 DEF Logged
  <2>3. CASE j = n + 1
    BY <1>2, <2>1, <2>3
  <2> QED
    BY <1>1, <1>2, <2>2, <2>3
<1>4. Logged(M)
  BY <1>2, <1>3 DEF Logged
<1>5. Brought(M, 1..(n + 1)) = Brought(M, 1..n) + c.fresh
  <2>1. n \in 0..(Len(M) - 1)
    BY <1>1, <1>2
  <2> QED
    BY <1>2, <1>4, <2>1, BroughtNext
<1>6. Brought(M, 1..n) = Brought(L, 1..n)
  BY <1>2, BroughtAgrees
<1> QED
  BY <1>2, <1>4, <1>5, <1>6 DEF M

LEMMA CycleKeepsWindow ==
  ASSUME WindowInv, ApplyCycle
  PROVE  WindowInv'
<1>1. PICK gap \in Gaps, fresh \in 0..1, moved \in SUBSET (0..(members - 1)) :
        \E deltas \in [moved -> Deltas] :
         LET t == window.at + gap
         IN /\ members + fresh <= MaxSlots
            /\ members' = members + fresh
            /\ stored' = Append(stored, [at |-> t, deltas |-> deltas,
                                         fresh |-> fresh])
            /\ window' = Push(Grow(window, members'), t, deltas)
  BY DEF ApplyCycle
<1>2. PICK D \in [moved -> Deltas] :
         LET t == window.at + gap
         IN /\ members + fresh <= MaxSlots
            /\ members' = members + fresh
            /\ stored' = Append(stored, [at |-> t, deltas |-> D, fresh |-> fresh])
            /\ window' = Push(Grow(window, members'), t, D)
  BY <1>1
<1> DEFINE t == window.at + gap
           c == [at |-> t, deltas |-> D, fresh |-> fresh]
           N == Len(stored)
<1>3. /\ Logged(stored) /\ N \in Nat /\ members \in Nat /\ members <= MaxSlots
      /\ Right(window, stored, 0, N) /\ window.size = members /\ window.at \in Nat
      /\ members = Brought(stored, 1..N)
  <2>1. Within(stored, 1..N)
    BY DEF Within
  <2>2. N \in Nat
    BY DEF WindowInv, Logged
  <2>3. Brought(stored, 1..N) \in Nat
    BY <2>1, BroughtSum DEF WindowInv
  <2>4. window.at \in Nat
    BY DEF WindowInv, Right, Windows
  <2> QED
    BY <2>2, <2>3, <2>4 DEF WindowInv
<1>4. gap \in Nat \ {0} /\ fresh \in Nat /\ t \in Nat \ {0}
  BY <1>3, RunAssumption
<1>5. D \in Moves
  <2>1. moved \in SUBSET Slots
    BY <1>3, SpanAssumption DEF Slots
  <2>2. D \in [moved -> Int]
    BY RunAssumption
  <2> QED
    BY <2>1, <2>2 DEF Moves
<1>6. c \in StoredCycles /\ c.at = t /\ c.deltas = D /\ c.fresh = fresh
  BY <1>4, <1>5 DEF StoredCycles
<1>7. \A i \in 1..N : stored[i].at < c.at
  <2> SUFFICES ASSUME NEW i \in 1..N
               PROVE  stored[i].at < t
    BY <1>6
  <2>1. N \in 1..N /\ N # 0 /\ (i < N \/ i = N)
    BY <1>3
  <2>2. window.at = stored[N].at
    BY <1>3, <2>1 DEF Right, Calendar
  <2>3. stored[i].at \in Nat /\ stored[N].at \in Nat
    BY <1>3, <2>1, LoggedCycle
  <2>4. stored[i].at <= stored[N].at
    BY <1>3, <2>1, <2>3 DEF Logged
  <2> QED
    BY <1>4, <2>2, <2>3, <2>4
<1>8. /\ members + fresh <= MaxSlots /\ members' = members + fresh
      /\ stored' = Append(stored, c) /\ window' = Push(Grow(window, members'), t, D)
  BY <1>2
<1> DEFINE M == Append(stored, c)
<1> HIDE DEF t, c
<1>9. /\ Logged(M) /\ Len(M) = N + 1 /\ M[N + 1] = c
      /\ \A i \in 1..N : stored[i] = M[i]
      /\ Brought(M, 1..(N + 1)) = members + fresh
  BY <1>3, <1>6, <1>7, AppendIsLogged
<1> HIDE DEF M, N
<1>10. Right(window, M, 0, N)
  <2>1. /\ 0 \in Nat /\ N \in Nat /\ 0 <= N /\ Right(window, stored, 0, N)
        /\ \A i \in 1..N : stored[i] = M[i]
    BY <1>3, <1>9
  <2> QED
    BY <2>1, RightAgrees
<1>11. LET x == Push(Grow(window, Brought(M, 1..(N + 1))), M[N + 1].at, M[N + 1].deltas)
       IN Right(x, M, 0, N + 1) /\ x.size = Brought(M, 1..(N + 1))
  <2>1. N \in 0..(Len(M) - 1)
    BY <1>3, <1>9
  <2>2. window.size <= Brought(M, 1..(N + 1))
    BY <1>3, <1>4, <1>9
  <2> QED
    BY <1>9, <1>10, <2>1, <2>2, NextIsRight
<1>12. Right(window', M, 0, N + 1) /\ window'.size = members'
  BY <1>6, <1>8, <1>9, <1>11
<1>13. stored' = M /\ Len(stored') = N + 1
  BY <1>8, <1>9 DEF M
<1> QED
  BY <1>8, <1>9, <1>12, <1>13 DEF WindowInv

LEMMA NextKeepsWindow ==
  ASSUME WindowInv, [WindowNext]_windowVars
  PROVE  WindowInv'
<1>1. CASE ApplyCycle
  BY <1>1, CycleKeepsWindow
<1>2. CASE Restart
  BY <1>2, RestartKeepsWindow
<1>3. CASE UNCHANGED windowVars
  BY <1>3 DEF windowVars, WindowInv
<1> QED
  BY <1>1, <1>2, <1>3 DEF WindowNext

\* As long as it runs, the process has the windows of all cycles it committed.
THEOREM WindowInvHolds == WindowSpec => []WindowInv
<1>1. WindowInit => WindowInv
  BY InitHasWindow
<1>2. WindowInv /\ [WindowNext]_windowVars => WindowInv'
  BY NextKeepsWindow
<1> QED
  BY <1>1, <1>2, PTL DEF WindowSpec

-----------------------------------------------------------------------------
(* The properties. *)

\* The cycles that the windows are of are those of their age.
LEMMA Ages ==
  ASSUME WindowInv
  PROVE  \E d \in 0..Len(stored) : \E e \in d..Len(stored) :
           /\ HeldFrom(window, stored, Len(stored), d, e)
           /\ \A i \in 1..Len(stored) :
                /\ stored[i].at \in Nat /\ Age(i) \in Int
                /\ i <= d <=> Age(i) >= WeekSpan
                /\ i <= e <=> Age(i) >= Day
<1> DEFINE N == Len(stored)
<1>1. Logged(stored) /\ N \in Nat /\ Right(window, stored, 0, N) /\ window.at \in Nat
  BY DEF WindowInv, Logged, Right, Windows
<1>2. PICK d \in 0..N : \E e \in d..N :
        HeldFrom(window, stored, N, d, e) /\ Edges(window, stored, 0, N, d, e)
  BY <1>1 DEF Right
<1>3. PICK e \in d..N : HeldFrom(window, stored, N, d, e) /\ Edges(window, stored, 0, N, d, e)
  BY <1>2
<1>4. ASSUME NEW i \in 1..N
      PROVE  /\ stored[i].at \in Nat /\ Age(i) \in Int
             /\ i <= d <=> Age(i) >= WeekSpan
             /\ i <= e <=> Age(i) >= Day
  <2>1. stored[i].at \in Nat /\ Age(i) = window.at - stored[i].at
    BY <1>1, LoggedCycle DEF Age, Now
  <2>2. i <= d => stored[i].at <= window.at - WeekSpan
    BY <1>1, <1>3 DEF Edges, Older
  <2>3. ~(i <= d) => stored[i].at > window.at - WeekSpan
    BY <1>1, <1>3 DEF Edges, Newer
  <2>4. i <= e => stored[i].at <= window.at - Day
    BY <1>1, <1>3 DEF Edges, Older
  <2>5. ~(i <= e) => stored[i].at > window.at - Day
    BY <1>1, <1>3 DEF Edges, Newer
  <2> QED
    BY <1>1, <2>1, <2>2, <2>3, <2>4, <2>5, SpanAssumption
<1> HIDE DEF N
<1>5. \E e1 \in d..N :
        /\ HeldFrom(window, stored, N, d, e1)
        /\ \A i \in 1..N :
             /\ stored[i].at \in Nat /\ Age(i) \in Int
             /\ i <= d <=> Age(i) >= WeekSpan
             /\ i <= e1 <=> Age(i) >= Day
  BY <1>3, <1>4
<1> QED
  BY <1>5 DEF N

LEMMA InvSums ==
  ASSUME WindowInv
  PROVE  WindowsAreTheirSums
<1> DEFINE N == Len(stored)
<1>1. /\ Logged(stored) /\ N \in Nat /\ DOMAIN stored = 1..N
      /\ Calendar(window, stored, 0, N) /\ window.at \in Nat
  BY DEF WindowInv, Logged, Right, Windows
<1>2. PICK d \in 0..N : \E e \in d..N :
        /\ HeldFrom(window, stored, N, d, e)
        /\ \A i \in 1..N :
             /\ stored[i].at \in Nat /\ Age(i) \in Int
             /\ i <= d <=> Age(i) >= WeekSpan
             /\ i <= e <=> Age(i) >= Day
  BY Ages
<1>3. PICK e \in d..N :
        /\ HeldFrom(window, stored, N, d, e)
        /\ \A i \in 1..N :
             /\ stored[i].at \in Nat /\ Age(i) \in Int
             /\ i <= d <=> Age(i) >= WeekSpan
             /\ i <= e <=> Age(i) >= Day
  BY <1>2
<1> HIDE DEF N
<1>4. /\ {i \in DOMAIN stored : Age(i) < Day} = (e + 1)..N
      /\ {i \in DOMAIN stored : Age(i) < WeekSpan} = (d + 1)..N
  <2>1. ASSUME NEW i \in 1..N
        PROVE  (Age(i) < Day <=> i \in (e + 1)..N) /\ (Age(i) < WeekSpan <=> i \in (d + 1)..N)
    BY <1>1, <1>3, SpanAssumption
  <2>2. (e + 1)..N \subseteq 1..N /\ (d + 1)..N \subseteq 1..N
    BY <1>1
  <2> QED
    BY <1>1, <2>1, <2>2
<1>5. /\ {i \in DOMAIN stored : DayOf(stored[i].at) = DayOf(Now)}
           = DayCycles(stored, 0, N, window.dayStart)
      /\ {i \in DOMAIN stored : WeekOf(stored[i].at) = WeekOf(Now)}
           = WeekCycles(stored, 0, N, window.weekStart)
  <2>1. CASE N = 0
    BY <1>1, <2>1 DEF DayCycles, WeekCycles
  <2>2. CASE N # 0
    <3>1. window.dayStart = DayOf(Now) /\ window.weekStart = WeekOf(Now) /\ (0 + 1)..N = 1..N
      BY <1>1, <2>2 DEF Calendar, Now
    <3> QED
      BY <1>1, <3>1 DEF DayCycles, WeekCycles
  <2> QED
    BY <2>1, <2>2
<1>6. ASSUME NEW s \in Slots
      PROVE  window.update[s] = Made(stored, {i \in DOMAIN stored : Age(i) = 0}, s)
  <2> DEFINE I == {i \in DOMAIN stored : Age(i) = 0}
  <2>1. CASE N = 0
    <3>1. I = {}
      BY <1>1, <2>1
    <3> HIDE DEF I
    <3> QED
      BY <1>1, <2>1, <3>1, MadeOfNone DEF Calendar, I
  <2>2. CASE N # 0
    <3>1. N \in 1..Len(stored) /\ window.at = stored[N].at /\ N - 1 \in 0..(Len(stored) - 1)
          /\ (N - 1) + 1 = N
      BY <1>1, <2>2 DEF Calendar, N
    <3>2. I = {} \cup {N}
      <4>1. ASSUME NEW i \in 1..N, Age(i) = 0
            PROVE  i = N
        <5>1. stored[i].at = stored[N].at /\ stored[N].at \in Nat
          BY <1>1, <1>3, <3>1, <4>1 DEF Age, Now
        <5>2. i \in 1..Len(stored) /\ (i < N \/ i = N)
          <6>1. i \in Int /\ i <= N /\ N \in Int
            BY <1>1
          <6> QED
            BY <6>1 DEF N
        <5> QED
          BY <1>1, <3>1, <5>1, <5>2 DEF Logged
      <4>2. Age(N) = 0
        BY <1>1, <3>1 DEF Age, Now
      <4> QED
        BY <1>1, <3>1, <4>1, <4>2 DEF N
    <3>3. Made(stored, {} \cup {N}, s) = Moved(stored[N].deltas, s)
      <4>1. PICK h \in 0..(Len(stored) - 1) : h = N - 1
        BY <3>1
      <4>2. {} \in SUBSET (1..h)
        OBVIOUS
      <4>3. Made(stored, {} \cup {h + 1}, s) = Made(stored, {}, s) + Moved(stored[h + 1].deltas, s)
        BY <1>1, <4>2, MadeWithNext
      <4>4. Moved(stored[N].deltas, s) \in Int
        BY <1>1, <3>1, LoggedCycle, MovedIsInt
      <4>5. h + 1 = N
        BY <3>1, <4>1
      <4>6. Made(stored, {}, s) = 0
        BY MadeOfNone
      <4>7. Made(stored, {} \cup {N}, s) = 0 + Moved(stored[N].deltas, s)
        BY <4>3, <4>5, <4>6, Zenon
      <4> QED
        BY <4>4, <4>7
    <3> HIDE DEF I
    <3> QED
      BY <1>1, <2>2, <3>2, <3>3 DEF Calendar, I
  <2> QED
    BY <2>1, <2>2
<1>7. ASSUME NEW s \in Slots
      PROVE  /\ window.last24[s] = Made(stored, (e + 1)..N, s)
             /\ window.last7d[s] = Made(stored, (d + 1)..N, s)
             /\ window.today[s] = Made(stored, DayCycles(stored, 0, N, window.dayStart), s)
             /\ window.week[s] = Made(stored, WeekCycles(stored, 0, N, window.weekStart), s)
  BY <1>1, <1>3 DEF HeldFrom, Calendar
<1> QED
  BY <1>4, <1>5, <1>6, <1>7 DEF WindowsAreTheirSums

LEMMA InvBaseline ==
  ASSUME WindowInv
  PROVE  BaselineIsTheDayBefore
<1> DEFINE N == Len(stored)
           held == {i \in DOMAIN stored : Age(i) \in Day..(WeekSpan - 1)}
<1>1. Logged(stored) /\ N \in Nat /\ DOMAIN stored = 1..N
  BY DEF WindowInv, Logged
<1>2. PICK d \in 0..N : \E e \in d..N :
        /\ HeldFrom(window, stored, N, d, e)
        /\ \A i \in 1..N :
             /\ stored[i].at \in Nat /\ Age(i) \in Int
             /\ i <= d <=> Age(i) >= WeekSpan
             /\ i <= e <=> Age(i) >= Day
  BY Ages
<1>3. PICK e \in d..N :
        /\ HeldFrom(window, stored, N, d, e)
        /\ \A i \in 1..N :
             /\ stored[i].at \in Nat /\ Age(i) \in Int
             /\ i <= d <=> Age(i) >= WeekSpan
             /\ i <= e <=> Age(i) >= Day
  BY <1>2
<1>4. held = (d + 1)..e
  <2>1. ASSUME NEW i \in 1..N
        PROVE  Age(i) \in Day..(WeekSpan - 1) <=> i \in (d + 1)..e
    BY <1>1, <1>3, SpanAssumption
  <2>2. (d + 1)..e \subseteq 1..N
    BY <1>1
  <2> QED
    BY <1>1, <2>1, <2>2
<1>5. window.idx24 = e - d
  BY <1>3 DEF HeldFrom
<1>6. CASE e = d
  <2>1. held = {} /\ window.idx24 = 0
    BY <1>1, <1>4, <1>5, <1>6
  <2> QED
    BY <2>1 DEF BaselineIsTheDayBefore, Baseline
<1>7. CASE e # d
  <2> DEFINE last == CHOOSE i \in held : \A j \in held : j <= i
  <2>1. e \in held /\ held # {} /\ \A j \in held : j <= e /\ j \in Int
    BY <1>1, <1>4, <1>7
  <2> HIDE DEF held
  <2>2. last \in held /\ \A j \in held : j <= last
    BY <2>1
  <2> HIDE DEF last
  <2>3. last = e
    BY <1>1, <2>1, <2>2
  <2>4. window.idx24 # 0 /\ window.idx24 \in 1..(N - d) /\ d + window.idx24 = e
    BY <1>1, <1>5, <1>7
  <2>5. window.cycles[window.idx24].count = Brought(stored, 1..e)
    BY <1>3, <2>4 DEF HeldFrom, Carries
  <2>6. {i \in DOMAIN stored : stored[i].at <= stored[e].at} = 1..e
    <3>1. e \in 1..N /\ 1..e \subseteq 1..N
      BY <1>1, <1>7
    <3>2. ASSUME NEW i \in 1..N
          PROVE  stored[i].at <= stored[e].at <=> i <= e
      <4>1. stored[i].at \in Nat /\ stored[e].at \in Nat
        BY <1>3, <3>1
      <4>2. i < e \/ i = e \/ e < i
        BY <1>1
      <4> QED
        BY <1>1, <3>1, <4>1, <4>2 DEF Logged
    <3>3. \A i \in 1..N : i <= e <=> i \in 1..e
      BY <1>1, <3>1
    <3> QED
      BY <1>1, <3>1, <3>2, <3>3
  <2>7. SizeThen(stored[e].at) = Brought(stored, 1..e)
    BY <2>6 DEF SizeThen
  <2>8. Baseline(window) = SizeThen(stored[last].at)
    BY <2>3, <2>4, <2>5, <2>7 DEF Baseline
  <2> QED
    BY <2>1, <2>8 DEF BaselineIsTheDayBefore, held, last
<1> QED
  BY <1>6, <1>7

LEMMA InvRestart ==
  ASSUME WindowInv
  PROVE  RestartKeepsFigures
<1>1. Right(Restored, stored, 0, Len(stored)) /\ Restored.size = members
  BY RestoredIsRight DEF WindowInv
<1>2. Right(window, stored, 0, Len(stored)) /\ window.size = members /\ Logged(stored)
  BY DEF WindowInv
<1>3. Len(stored) \in 0..Len(stored)
  BY <1>2 DEF Logged
<1> QED
  BY <1>1, <1>2, <1>3, RightIsOne DEF RestartKeepsFigures

\* Every window is the sum of the deltas of its period, for any day and week,
\* any productions and any times between cycles, across outages and restarts.
THEOREM WindowSums == WindowSpec => []WindowsAreTheirSums
<1>1. WindowInv => WindowsAreTheirSums
  BY InvSums
<1> QED
  BY <1>1, WindowInvHolds, PTL

\* The corpus size a day back is that of the newest cycle at or before then
\* that the window holds.
THEOREM WindowBaseline == WindowSpec => []BaselineIsTheDayBefore
<1>1. WindowInv => BaselineIsTheDayBefore
  BY InvBaseline
<1> QED
  BY <1>1, WindowInvHolds, PTL

\* Replaying the last week of cycles answers as the window that ran all along.
THEOREM WindowRestart == WindowSpec => []RestartKeepsFigures
<1>1. WindowInv => RestartKeepsFigures
  BY InvRestart
<1> QED
  BY <1>1, WindowInvHolds, PTL
=============================================================================
